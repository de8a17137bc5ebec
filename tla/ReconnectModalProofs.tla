------------------------ MODULE ReconnectModalProofs ------------------------
(***************************************************************************)
(* Theorems about ReconnectModal, for any number of calls under way.       *)
(***************************************************************************)
EXTENDS ReconnectModal, TLAPS

(***************************************************************************)
(* Type correctness.                                                       *)
(***************************************************************************)
LEMMA TypeInit == Init => TypeOK
<1>1. Init => drops \in Nat /\ outages \in Nat
  BY DEF Init
<1>. QED  BY <1>1 DEF Init, TypeOK

\* A call that starts, and one that ends, leave calls and answers well formed.
LEMMA ReloadType == TypeOK /\ Reload /\ UNCHANGED <<visible, server>> => TypeOK'
BY DEF TypeOK, Reload, server

LEMMA RetryType ==
    ASSUME TypeOK, page = "open", NEW i \in Calls, retry(i), visible' \in BOOLEAN
    PROVE  TypeOK'
BY DEF TypeOK, retry, Await, server

LEMMA TypeStep == TypeOK /\ [Next]_vars => TypeOK'
<1>. SUFFICES ASSUME TypeOK, [Next]_vars PROVE TypeOK'
  OBVIOUS
<1>1. CASE UNCHANGED vars
  BY <1>1 DEF TypeOK, vars, script, server
<1>2. ASSUME NEW i \in Calls, CallStep(i) PROVE TypeOK'
  <2>1. CASE ServerAnswers(i)
    BY <2>1 DEF TypeOK, ServerAnswers
  <2>2. CASE ResumeRejected(i)
    BY <2>2, ReloadType DEF ResumeRejected
  <2>3. CASE ReconnectRejected(i)
    BY <2>3 DEF TypeOK, ReconnectRejected, server
  <2>4. CASE Connects(i)
    BY <2>4 DEF TypeOK, Connects, Return
  <2>5. CASE RetryThrows(i)
    BY <2>5 DEF TypeOK, RetryThrows, Return, server
  <2>6. CASE ResumeThrows(i)
    BY <2>6 DEF TypeOK, ResumeThrows, Return, server
  <2>. QED  BY <1>2, <2>1, <2>2, <2>3, <2>4, <2>5, <2>6 DEF CallStep
<1>3. CASE LoseLink
  <2>1. drops' \in Nat /\ outages' \in Nat
    BY <1>3 DEF TypeOK, LoseLink
  <2>. QED  BY <1>3, <2>1 DEF TypeOK, LoseLink, handleReconnectStateChanged
<1>4. CASE Pause
  <2>1. drops' \in Nat /\ outages' \in Nat
    BY <1>4 DEF TypeOK, Pause
  <2>. QED  BY <1>4, <2>1 DEF TypeOK, Pause, handleReconnectStateChanged
<1>5. CASE AttemptSucceeds
  BY <1>5 DEF TypeOK, AttemptSucceeds, Attempting, handleReconnectStateChanged
<1>6. CASE AttemptRejected
  BY <1>6, ReloadType DEF AttemptRejected, handleReconnectStateChanged
<1>7. CASE AttemptsFail
  BY <1>7 DEF TypeOK, AttemptsFail, Attempting, handleReconnectStateChanged, server
<1>8. CASE VisibilityChange
  <2>1. visible' \in BOOLEAN
    BY <1>8 DEF VisibilityChange, TypeOK
  <2>2. CASE listening /\ ~visible
    BY <1>8, <2>1, <2>2, RetryType DEF VisibilityChange
  <2>3. CASE ~(listening /\ ~visible)
    BY <1>8, <2>1, <2>3 DEF VisibilityChange, TypeOK, script, server
  <2>. QED  BY <2>2, <2>3
<1>9. CASE Dismiss
  BY <1>9 DEF TypeOK, Dismiss, server
<1>10. CASE LoadAgain
  BY <1>10 DEF TypeOK, LoadAgain, server
<1>11. ASSUME NEW i \in Calls, ClickRetry(i) PROVE TypeOK'
  BY <1>11, RetryType DEF ClickRetry, TypeOK
<1>12. ASSUME NEW i \in Calls, resume(i) PROVE TypeOK'
  BY <1>12 DEF TypeOK, resume, Await, server
<1>13. CASE Load
  BY <1>13 DEF TypeOK, Load
<1>14. CASE Outage
  <2>1. drops' \in Nat /\ outages' \in Nat
    BY <1>14 DEF TypeOK, Outage
  <2>. QED  BY <1>14, <2>1 DEF TypeOK, Outage
<1>15. CASE ServerReturns
  BY <1>15 DEF TypeOK, ServerReturns, script
<1>16. CASE Expire
  BY <1>16 DEF TypeOK, Expire, script
<1>. QED  BY <1>1, <1>2, <1>3, <1>4, <1>5, <1>6, <1>7, <1>8, <1>9, <1>10, <1>11, <1>12,
             <1>13, <1>14, <1>15, <1>16 DEF Next, Blazor, User

\* Whatever calls overlap, every variable keeps its type; a document that is
\* gone has taken its calls and its listener with it.
THEOREM TypeCorrect == Spec => []TypeOK
BY TypeInit, TypeStep, PTL DEF Spec

-----------------------------------------------------------------------------
(***************************************************************************)
(* The way back.  Nothing covers a connected page or one that is loading,  *)
(* so a page is loaded again without the class "failed".                   *)
(***************************************************************************)
Quiet == link \/ page # "open" => ~open /\ class = "hide"

LEMMA QuietStep == TypeOK /\ Quiet /\ [Next]_vars => Quiet'
<1>. SUFFICES ASSUME TypeOK, Quiet, [Next]_vars PROVE Quiet'
  OBVIOUS
<1>1. CASE UNCHANGED vars
  BY <1>1 DEF TypeOK, Quiet, vars, script, server
<1>2. ASSUME NEW i \in Calls, ServerAnswers(i) PROVE Quiet'
  BY <1>2 DEF TypeOK, Quiet, ServerAnswers
<1>3. ASSUME NEW i \in Calls, ResumeRejected(i) PROVE Quiet'
  BY <1>3 DEF TypeOK, Quiet, ResumeRejected, Reload, server
<1>4. ASSUME NEW i \in Calls, ReconnectRejected(i) PROVE Quiet'
  BY <1>4 DEF TypeOK, Quiet, ReconnectRejected, server
<1>5. ASSUME NEW i \in Calls, Connects(i) PROVE Quiet'
  BY <1>5 DEF TypeOK, Quiet, Connects, Return
<1>6. ASSUME NEW i \in Calls, RetryThrows(i) PROVE Quiet'
  BY <1>6 DEF TypeOK, Quiet, RetryThrows, Return, server
<1>7. ASSUME NEW i \in Calls, ResumeThrows(i) PROVE Quiet'
  BY <1>7 DEF TypeOK, Quiet, ResumeThrows, Return, server
<1>8. CASE LoseLink
  BY <1>8 DEF TypeOK, Quiet, LoseLink, handleReconnectStateChanged
<1>9. CASE Pause
  BY <1>9 DEF TypeOK, Quiet, Pause, handleReconnectStateChanged
<1>10. CASE AttemptSucceeds
  BY <1>10 DEF TypeOK, Quiet, AttemptSucceeds, Attempting, handleReconnectStateChanged
<1>11. CASE AttemptRejected
  BY <1>11 DEF TypeOK, Quiet, AttemptRejected, Attempting, Reload, server, handleReconnectStateChanged
<1>12. CASE AttemptsFail
  BY <1>12 DEF TypeOK, Quiet, AttemptsFail, Attempting, server, handleReconnectStateChanged
<1>13. CASE VisibilityChange
  BY <1>13 DEF TypeOK, Quiet, VisibilityChange, retry, Await, script, server
<1>14. CASE Dismiss
  BY <1>14 DEF TypeOK, Quiet, Dismiss, server
<1>15. CASE LoadAgain
  BY <1>15 DEF TypeOK, Quiet, LoadAgain, server
<1>16. ASSUME NEW i \in Calls, ClickRetry(i) PROVE Quiet'
  BY <1>16 DEF TypeOK, Quiet, ClickRetry, retry, Await, server
<1>17. ASSUME NEW i \in Calls, resume(i) PROVE Quiet'
  BY <1>17 DEF TypeOK, Quiet, resume, Await, server
<1>18. CASE Load
  BY <1>18 DEF TypeOK, Quiet, Load
<1>19. CASE Outage
  BY <1>19 DEF TypeOK, Quiet, Outage
<1>20. CASE ServerReturns
  BY <1>20 DEF TypeOK, Quiet, ServerReturns, script
<1>21. CASE Expire
  BY <1>21 DEF TypeOK, Quiet, Expire, script
<1>. QED  BY <1>1, <1>2, <1>3, <1>4, <1>5, <1>6, <1>7, <1>8, <1>9, <1>10, <1>11,
             <1>12, <1>13, <1>14, <1>15, <1>16, <1>17, <1>18, <1>19, <1>20, <1>21
          DEF Next, CallStep, Blazor, User

LEMMA WayBackStep == TypeOK /\ Quiet /\ WayBack /\ [Next]_vars => WayBack'
<1>. SUFFICES ASSUME TypeOK, Quiet, WayBack, [Next]_vars PROVE WayBack'
  OBVIOUS
<1>1. CASE UNCHANGED vars
  BY <1>1 DEF TypeOK, Quiet, WayBack, Retrying, vars, script, server
<1>2. ASSUME NEW i \in Calls, ServerAnswers(i) PROVE WayBack'
  BY <1>2 DEF TypeOK, Quiet, WayBack, Retrying, ServerAnswers
<1>3. ASSUME NEW i \in Calls, ResumeRejected(i) PROVE WayBack'
  BY <1>3 DEF TypeOK, Quiet, WayBack, Retrying, ResumeRejected, Reload, server
<1>4. ASSUME NEW i \in Calls, ReconnectRejected(i) PROVE WayBack'
  BY <1>4 DEF TypeOK, Quiet, WayBack, Retrying, ReconnectRejected, server
<1>5. ASSUME NEW i \in Calls, Connects(i) PROVE WayBack'
  BY <1>5 DEF TypeOK, Quiet, WayBack, Retrying, Connects, Return
<1>6. ASSUME NEW i \in Calls, RetryThrows(i) PROVE WayBack'
  BY <1>6 DEF TypeOK, Quiet, WayBack, Retrying, RetryThrows, Return, server
<1>7. ASSUME NEW i \in Calls, ResumeThrows(i) PROVE WayBack'
  BY <1>7 DEF TypeOK, Quiet, WayBack, Retrying, ResumeThrows, Return, server
<1>8. CASE LoseLink
  BY <1>8 DEF TypeOK, Quiet, WayBack, Retrying, LoseLink, handleReconnectStateChanged
<1>9. CASE Pause
  BY <1>9 DEF TypeOK, Quiet, WayBack, Retrying, Pause, handleReconnectStateChanged
<1>10. CASE AttemptSucceeds
  BY <1>10 DEF TypeOK, Quiet, WayBack, Retrying, AttemptSucceeds, Attempting, handleReconnectStateChanged
<1>11. CASE AttemptRejected
  BY <1>11 DEF TypeOK, Quiet, WayBack, Retrying, AttemptRejected, Attempting, Reload, server, handleReconnectStateChanged
<1>12. CASE AttemptsFail
  BY <1>12 DEF TypeOK, Quiet, WayBack, Retrying, AttemptsFail, Attempting, server, handleReconnectStateChanged
<1>13. CASE VisibilityChange
  BY <1>13 DEF TypeOK, Quiet, WayBack, Retrying, VisibilityChange, retry, Await, script, server
<1>14. CASE Dismiss
  BY <1>14 DEF TypeOK, Quiet, WayBack, Retrying, Dismiss, server
<1>15. CASE LoadAgain
  BY <1>15 DEF TypeOK, Quiet, WayBack, Retrying, LoadAgain, server
<1>16. ASSUME NEW i \in Calls, ClickRetry(i) PROVE WayBack'
  BY <1>16 DEF TypeOK, Quiet, WayBack, Retrying, ClickRetry, retry, Await, server
<1>17. ASSUME NEW i \in Calls, resume(i) PROVE WayBack'
  BY <1>17 DEF TypeOK, Quiet, WayBack, Retrying, resume, Await, server
<1>18. CASE Load
  BY <1>18 DEF TypeOK, Quiet, WayBack, Retrying, Load
<1>19. CASE Outage
  BY <1>19 DEF TypeOK, Quiet, WayBack, Retrying, Outage
<1>20. CASE ServerReturns
  BY <1>20 DEF TypeOK, Quiet, WayBack, Retrying, ServerReturns, script
<1>21. CASE Expire
  BY <1>21 DEF TypeOK, Quiet, WayBack, Retrying, Expire, script
<1>. QED  BY <1>1, <1>2, <1>3, <1>4, <1>5, <1>6, <1>7, <1>8, <1>9, <1>10, <1>11,
             <1>12, <1>13, <1>14, <1>15, <1>16, <1>17, <1>18, <1>19, <1>20, <1>21
          DEF Next, CallStep, Blazor, User

\* However many retries overlap and fail, a page Blazor has given up on is
\* retrying or listens for the return to its tab.
THEOREM WayBackCorrect == Spec => []WayBack
<1>1. Init => Quiet /\ WayBack
  BY DEF Init, Quiet, WayBack
<1>. QED  BY <1>1, TypeInit, TypeStep, QuietStep, WayBackStep, PTL DEF Spec

-----------------------------------------------------------------------------
(***************************************************************************)
(* Pages left alone.  As long as no calls have crossed, the one under way   *)
(* is alone, and neither a connection nor a listener lives beside it.      *)
(***************************************************************************)
CallInv ==
    ~crossed => \A i \in Calls : calls[i] # "none" =>
        /\ ~link /\ ~listening
        /\ Retrying(i) => class = "failed"
        /\ ~Retrying(i) => class \in {"paused", "resume-failed"}
        /\ \A j \in Calls \ {i} : calls[j] = "none"

ListenInv == listening /\ ~crossed => class = "failed"

AloneInv == CallInv /\ ListenInv

LEMMA AloneStep == TypeOK /\ Quiet /\ AloneInv /\ [Next]_vars => AloneInv'
<1>. SUFFICES ASSUME TypeOK, Quiet, AloneInv, [Next]_vars PROVE AloneInv'
  OBVIOUS
<1>1. CASE UNCHANGED vars
  BY <1>1 DEF TypeOK, Quiet, AloneInv, CallInv, ListenInv, Retrying, vars, script, server
<1>2. ASSUME NEW i \in Calls, ServerAnswers(i) PROVE AloneInv'
  BY <1>2 DEF TypeOK, Quiet, AloneInv, CallInv, ListenInv, Retrying, ServerAnswers
<1>3. ASSUME NEW i \in Calls, ResumeRejected(i) PROVE AloneInv'
  BY <1>3 DEF TypeOK, Quiet, AloneInv, CallInv, ListenInv, Retrying, ResumeRejected, Reload, server
<1>4. ASSUME NEW i \in Calls, ReconnectRejected(i) PROVE AloneInv'
  BY <1>4 DEF TypeOK, Quiet, AloneInv, CallInv, ListenInv, Retrying, ReconnectRejected, server
<1>5. ASSUME NEW i \in Calls, Connects(i) PROVE AloneInv'
  BY <1>5 DEF TypeOK, Quiet, AloneInv, CallInv, ListenInv, Retrying, Connects, Return
<1>6. ASSUME NEW i \in Calls, RetryThrows(i) PROVE AloneInv'
  BY <1>6 DEF TypeOK, Quiet, AloneInv, CallInv, ListenInv, Retrying, RetryThrows, Return, server
<1>7. ASSUME NEW i \in Calls, ResumeThrows(i) PROVE AloneInv'
  BY <1>7 DEF TypeOK, Quiet, AloneInv, CallInv, ListenInv, Retrying, ResumeThrows, Return, server
<1>8. CASE LoseLink
  BY <1>8 DEF TypeOK, Quiet, AloneInv, CallInv, ListenInv, Retrying, LoseLink, handleReconnectStateChanged
<1>9. CASE Pause
  BY <1>9 DEF TypeOK, Quiet, AloneInv, CallInv, ListenInv, Retrying, Pause, handleReconnectStateChanged
<1>10. CASE AttemptSucceeds
  BY <1>10 DEF TypeOK, Quiet, AloneInv, CallInv, ListenInv, Retrying, AttemptSucceeds, Attempting, handleReconnectStateChanged
<1>11. CASE AttemptRejected
  BY <1>11 DEF TypeOK, Quiet, AloneInv, CallInv, ListenInv, Retrying, AttemptRejected, Attempting, Reload, server, handleReconnectStateChanged
<1>12. CASE AttemptsFail
  BY <1>12 DEF TypeOK, Quiet, AloneInv, CallInv, ListenInv, Retrying, AttemptsFail, Attempting, server, handleReconnectStateChanged
<1>13. CASE VisibilityChange
  BY <1>13 DEF TypeOK, Quiet, AloneInv, CallInv, ListenInv, Retrying, VisibilityChange, retry, Await, script, server
<1>14. CASE Dismiss
  BY <1>14 DEF TypeOK, Quiet, AloneInv, CallInv, ListenInv, Retrying, Dismiss, server
<1>15. CASE LoadAgain
  BY <1>15 DEF TypeOK, Quiet, AloneInv, CallInv, ListenInv, Retrying, LoadAgain, server
<1>16. ASSUME NEW i \in Calls, ClickRetry(i) PROVE AloneInv'
  BY <1>16 DEF TypeOK, Quiet, AloneInv, CallInv, ListenInv, Retrying, ClickRetry, retry, Await, server
<1>17. ASSUME NEW i \in Calls, resume(i) PROVE AloneInv'
  BY <1>17 DEF TypeOK, Quiet, AloneInv, CallInv, ListenInv, Retrying, resume, Await, server
<1>18. CASE Load
  BY <1>18 DEF TypeOK, Quiet, AloneInv, CallInv, ListenInv, Retrying, Load
<1>19. CASE Outage
  BY <1>19 DEF TypeOK, Quiet, AloneInv, CallInv, ListenInv, Retrying, Outage
<1>20. CASE ServerReturns
  BY <1>20 DEF TypeOK, Quiet, AloneInv, CallInv, ListenInv, Retrying, ServerReturns, script
<1>21. CASE Expire
  BY <1>21 DEF TypeOK, Quiet, AloneInv, CallInv, ListenInv, Retrying, Expire, script
<1>. QED  BY <1>1, <1>2, <1>3, <1>4, <1>5, <1>6, <1>7, <1>8, <1>9, <1>10, <1>11,
             <1>12, <1>13, <1>14, <1>15, <1>16, <1>17, <1>18, <1>19, <1>20, <1>21
          DEF Next, CallStep, Blazor, User

\* No dialog covers a connected page, and no return to the tab starts a retry
\* on it, however the connection was lost and found, if no calls crossed.
THEOREM LivePageCorrect == Spec => []LivePageIsLeftAlone
<1>1. Init => Quiet /\ AloneInv
  BY DEF Init, Quiet, AloneInv, CallInv, ListenInv
<1>2. Quiet /\ AloneInv => LivePageIsLeftAlone
  BY DEF Quiet, AloneInv, ListenInv, LivePageIsLeftAlone
<1>. QED  BY <1>1, <1>2, TypeInit, TypeStep, QuietStep, AloneStep, PTL DEF Spec

-----------------------------------------------------------------------------
(***************************************************************************)
(* Reloads.  What a call under way has been told of the circuit stays true *)
(* of it until the call acts on it: only a page that connects keeps a      *)
(* circuit, and none connects beside a call.                               *)
(***************************************************************************)
PausedInv == class \in {"paused", "resume-failed"} => circuit # "kept"

ToldInv ==
    ~crossed => \A i \in Calls :
        /\ calls[i] = "fallback" => circuit # "kept"
        /\ calls[i] # "none" /\ answer[i] = "no" =>
              circuit # "kept" /\ (calls[i] # "reconnect" => circuit = "gone")

CircuitInv == PausedInv /\ ToldInv

LEMMA CircuitStep == TypeOK /\ Quiet /\ AloneInv /\ CircuitInv /\ [Next]_vars => CircuitInv'
<1>. SUFFICES ASSUME TypeOK, Quiet, AloneInv, CircuitInv, [Next]_vars PROVE CircuitInv'
  OBVIOUS
<1>1. CASE UNCHANGED vars
  BY <1>1 DEF TypeOK, Quiet, AloneInv, CallInv, Retrying, CircuitInv, PausedInv, ToldInv, vars, script, server
<1>2. ASSUME NEW i \in Calls, ServerAnswers(i) PROVE CircuitInv'
  BY <1>2 DEF TypeOK, Quiet, AloneInv, CallInv, Retrying, CircuitInv, PausedInv, ToldInv, ServerAnswers
<1>3. ASSUME NEW i \in Calls, ResumeRejected(i) PROVE CircuitInv'
  BY <1>3 DEF TypeOK, Quiet, AloneInv, CallInv, Retrying, CircuitInv, PausedInv, ToldInv, ResumeRejected, Reload, server
<1>4. ASSUME NEW i \in Calls, ReconnectRejected(i) PROVE CircuitInv'
  BY <1>4 DEF TypeOK, Quiet, AloneInv, CallInv, Retrying, CircuitInv, PausedInv, ToldInv, ReconnectRejected, server
<1>5. ASSUME NEW i \in Calls, Connects(i) PROVE CircuitInv'
  BY <1>5 DEF TypeOK, Quiet, AloneInv, CallInv, Retrying, CircuitInv, PausedInv, ToldInv, Connects, Return
<1>6. ASSUME NEW i \in Calls, RetryThrows(i) PROVE CircuitInv'
  BY <1>6 DEF TypeOK, Quiet, AloneInv, CallInv, Retrying, CircuitInv, PausedInv, ToldInv, RetryThrows, Return, server
<1>7. ASSUME NEW i \in Calls, ResumeThrows(i) PROVE CircuitInv'
  BY <1>7 DEF TypeOK, Quiet, AloneInv, CallInv, Retrying, CircuitInv, PausedInv, ToldInv, ResumeThrows, Return, server
<1>8. CASE LoseLink
  BY <1>8 DEF TypeOK, Quiet, AloneInv, CallInv, Retrying, CircuitInv, PausedInv, ToldInv, LoseLink, handleReconnectStateChanged
<1>9. CASE Pause
  BY <1>9 DEF TypeOK, Quiet, AloneInv, CallInv, Retrying, CircuitInv, PausedInv, ToldInv, Pause, handleReconnectStateChanged
<1>10. CASE AttemptSucceeds
  BY <1>10 DEF TypeOK, Quiet, AloneInv, CallInv, Retrying, CircuitInv, PausedInv, ToldInv, AttemptSucceeds, Attempting, handleReconnectStateChanged
<1>11. CASE AttemptRejected
  BY <1>11 DEF TypeOK, Quiet, AloneInv, CallInv, Retrying, CircuitInv, PausedInv, ToldInv, AttemptRejected, Attempting, Reload, server, handleReconnectStateChanged
<1>12. CASE AttemptsFail
  BY <1>12 DEF TypeOK, Quiet, AloneInv, CallInv, Retrying, CircuitInv, PausedInv, ToldInv, AttemptsFail, Attempting, server, handleReconnectStateChanged
<1>13. CASE VisibilityChange
  BY <1>13 DEF TypeOK, Quiet, AloneInv, CallInv, Retrying, CircuitInv, PausedInv, ToldInv, VisibilityChange, retry, Await, script, server
<1>14. CASE Dismiss
  BY <1>14 DEF TypeOK, Quiet, AloneInv, CallInv, Retrying, CircuitInv, PausedInv, ToldInv, Dismiss, server
<1>15. CASE LoadAgain
  BY <1>15 DEF TypeOK, Quiet, AloneInv, CallInv, Retrying, CircuitInv, PausedInv, ToldInv, LoadAgain, server
<1>16. ASSUME NEW i \in Calls, ClickRetry(i) PROVE CircuitInv'
  BY <1>16 DEF TypeOK, Quiet, AloneInv, CallInv, Retrying, CircuitInv, PausedInv, ToldInv, ClickRetry, retry, Await, server
<1>17. ASSUME NEW i \in Calls, resume(i) PROVE CircuitInv'
  BY <1>17 DEF TypeOK, Quiet, AloneInv, CallInv, Retrying, CircuitInv, PausedInv, ToldInv, resume, Await, server
<1>18. CASE Load
  BY <1>18 DEF TypeOK, Quiet, AloneInv, CallInv, Retrying, CircuitInv, PausedInv, ToldInv, Load
<1>19. CASE Outage
  BY <1>19 DEF TypeOK, Quiet, AloneInv, CallInv, Retrying, CircuitInv, PausedInv, ToldInv, Outage
<1>20. CASE ServerReturns
  BY <1>20 DEF TypeOK, Quiet, AloneInv, CallInv, Retrying, CircuitInv, PausedInv, ToldInv, ServerReturns, script
<1>21. CASE Expire
  BY <1>21 DEF TypeOK, Quiet, AloneInv, CallInv, Retrying, CircuitInv, PausedInv, ToldInv, Expire, script
<1>. QED  BY <1>1, <1>2, <1>3, <1>4, <1>5, <1>6, <1>7, <1>8, <1>9, <1>10, <1>11,
             <1>12, <1>13, <1>14, <1>15, <1>16, <1>17, <1>18, <1>19, <1>20, <1>21
          DEF Next, CallStep, Blazor, User

\* The only steps that load a page anew are the refusals: of the last call for
\* which ToldInv speaks, and of Blazor's own attempt.
THEOREM ReloadCorrect == Spec => ReloadsOnlyLostPages
<1>1. Init => Quiet /\ AloneInv /\ CircuitInv
  BY DEF Init, Quiet, AloneInv, CallInv, ListenInv, CircuitInv, PausedInv, ToldInv
<1>. DEFINE Step == page = "open" /\ page' = "loading"
                      => circuit = "gone" \/ crossed \/ (class = "show" /\ circuit = "stored")
<1>2. TypeOK /\ CircuitInv /\ [Next]_vars => Step
  <2>. SUFFICES ASSUME TypeOK, CircuitInv, [Next]_vars, page = "open", page' = "loading"
                PROVE  circuit = "gone" \/ crossed \/ (class = "show" /\ circuit = "stored")
    OBVIOUS
  <2>1. (\E i \in Calls : ResumeRejected(i)) \/ AttemptRejected
    BY DEF Next, CallStep, ServerAnswers, ReconnectRejected, Connects, RetryThrows, ResumeThrows,
           Blazor, LoseLink, Pause, AttemptSucceeds, AttemptsFail, handleReconnectStateChanged,
           User, VisibilityChange, retry, ClickRetry, resume, Dismiss, LoadAgain,
           Load, Outage, ServerReturns, Expire, vars, script, server
  <2>2. ASSUME NEW i \in Calls, ResumeRejected(i) PROVE crossed \/ circuit = "gone"
    BY <2>2 DEF ResumeRejected, CircuitInv, ToldInv, TypeOK
  <2>3. CASE AttemptRejected
    BY <2>3 DEF AttemptRejected, Attempting, TypeOK
  <2>. QED  BY <2>1, <2>2, <2>3
<1>3. TypeOK /\ CircuitInv /\ [Next]_vars => [Step]_vars
  BY <1>2
<1>4. Spec => [][Step]_vars
  BY <1>1, <1>3, TypeInit, TypeStep, QuietStep, AloneStep, CircuitStep, PTL DEF Spec
<1>. QED  BY <1>4 DEF ReloadsOnlyLostPages
=============================================================================
