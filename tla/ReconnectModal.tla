--------------------------- MODULE ReconnectModal ---------------------------
(***************************************************************************)
(* The dialog a page shows when it has lost its circuit, and the script    *)
(* behind it (Web/src/Components/Layout/ReconnectModal.razor.js).          *)
(*                                                                         *)
(* A page of McAdmin lives on a circuit of the server.  When the           *)
(* connection is lost Blazor tries to reconnect by itself for a while and  *)
(* tells the dialog so with events; after that it is the script's turn: it *)
(* retries when the user presses Retry or comes back to the tab, resumes   *)
(* the state the server has stored when the circuit is gone, and reloads   *)
(* the page when nothing else is left.                                     *)
(*                                                                         *)
(* retry() and resume() are asynchronous and nothing keeps two of them     *)
(* apart, so each of their awaits is a step of its own.  Blazor, the       *)
(* server and the user are external: what Blazor.reconnect and             *)
(* resumeCircuit return is what the script's comments say they return,     *)
(* and Blazor is taken to raise "show" whenever it puts the dialog up and  *)
(* "hide" whenever the page has a circuit again, which resume() relies on. *)
(***************************************************************************)
EXTENDS Naturals

CONSTANTS Calls,      \* calls of retry() and resume() that may be under way at once
          MaxDrops,   \* bound: connections lost, and pauses, while the server is reachable
          MaxOutages  \* bound: times the server cannot be reached

ASSUME BoundsAssumption == MaxDrops \in Nat /\ MaxOutages \in Nat

VARIABLES
    \* the browser's document
    page,      \* "open", "loading" after location.reload(), "error" when that failed
    listening, \* retryWhenDocumentBecomesVisible is registered
    open,      \* the dialog is open
    class,     \* the class Blazor, or resume(), gave the dialog
    visible,   \* document.visibilityState is "visible"
    calls,     \* the await each call of retry() or resume() is at
    answer,    \* what the server has answered to it, on its way to the page
    \* the circuit
    link,      \* the page is connected to its circuit
    reachable, \* the server can be reached
    circuit,   \* "kept" by the server, "stored" for resumeCircuit, or "gone"
    drops, outages,
    \* history, read by properties only
    crossed    \* a call of this document began while another was under way

script == <<page, listening, open, calls, answer, crossed>>
server == <<reachable, circuit, drops, outages>>
vars == <<script, class, visible, link, server>>

\* The elements are found and the listeners added: the dialog is closed.
Init ==
    /\ page = "open"
    /\ listening = FALSE
    /\ open = FALSE
    /\ class = "hide"
    /\ visible = TRUE
    /\ calls = [i \in Calls |-> "none"]
    /\ answer = [i \in Calls |-> "none"]
    /\ link = TRUE
    /\ reachable = TRUE
    /\ circuit = "kept"
    /\ drops = 0
    /\ outages = 0
    /\ crossed = FALSE

-----------------------------------------------------------------------------
(***************************************************************************)
(* The script.                                                             *)
(***************************************************************************)

\* location.reload(): the document goes, with its listeners and pending calls.
Reload ==
    /\ page' = "loading"
    /\ listening' = FALSE
    /\ open' = FALSE
    /\ class' = "hide"
    /\ calls' = [i \in Calls |-> "none"]
    /\ answer' = [i \in Calls |-> "none"]
    /\ link' = FALSE
    /\ crossed' = FALSE

\* The handler of components-reconnect-state-changed; Blazor raises the event
\* as it changes the dialog's class.
handleReconnectStateChanged(state) ==
    \/ /\ state = "rejected"
       /\ Reload
    \/ /\ state # "rejected"
       /\ open' = (state = "show" \/ (open /\ state # "hide"))
       /\ listening' = (state = "failed" \/ listening)
       /\ UNCHANGED <<page, calls, answer, crossed>>

\* A call ends; the page goes on without it.
Return(i) ==
    /\ calls' = [calls EXCEPT ![i] = "none"]
    /\ answer' = [answer EXCEPT ![i] = "none"]

\* A call begins and awaits Blazor.
Await(i, at) ==
    /\ calls[i] = "none"
    /\ calls' = [calls EXCEPT ![i] = at]
    /\ crossed' = (crossed \/ \E j \in Calls : calls[j] # "none")

\* Mutant: the listener is left for the next return to the tab.
RetryKeepingListener(i) ==
    /\ Await(i, "reconnect")
    /\ UNCHANGED <<page, listening, open, answer, class, link, server>>

\* retry(), up to Blazor.reconnect().
retry(i) ==
    /\ listening' = FALSE
    /\ Await(i, "reconnect")
    /\ UNCHANGED <<page, open, answer, class, link, server>>

\* The Retry button, which only the class "failed" shows.
ClickRetry(i) ==
    /\ page = "open"
    /\ class = "failed"
    /\ retry(i)
    /\ UNCHANGED visible

\* resume(), by the Resume button.
resume(i) ==
    /\ page = "open"
    /\ class \in {"paused", "resume-failed"}
    /\ open
    /\ Await(i, "resume")
    /\ UNCHANGED <<page, listening, open, answer, class, visible, link, server>>

\* visibilitychange, with retryWhenDocumentBecomesVisible when it is registered.
VisibilityChange ==
    /\ page = "open"
    /\ visible' = ~visible
    /\ IF listening /\ ~visible
       THEN \E i \in Calls : retry(i)
       ELSE UNCHANGED <<script, class, link, server>>

\* Mutant: the last refusal is ignored.
GiveUpOnReject(i) ==
    /\ page = "open"
    /\ calls[i] \in {"fallback", "resume"}
    /\ answer[i] = "no"
    /\ Return(i)
    /\ UNCHANGED <<page, listening, open, crossed, class, visible, link, server>>

\* resumeCircuit() returns false: there is nothing to come back to.
ResumeRejected(i) ==
    /\ page = "open"
    /\ calls[i] \in {"fallback", "resume"}
    /\ answer[i] = "no"
    /\ Reload
    /\ UNCHANGED <<visible, server>>

\* Mutant: rejected, the page is reloaded at once.
ReloadAtOnce(i) ==
    /\ page = "open"
    /\ calls[i] = "reconnect"
    /\ answer[i] = "no"
    /\ Reload
    /\ UNCHANGED <<visible, server>>

\* Blazor.reconnect() returns false: retry() goes on to resumeCircuit().
ReconnectRejected(i) ==
    /\ page = "open"
    /\ calls[i] = "reconnect"
    /\ answer[i] = "no"
    /\ calls' = [calls EXCEPT ![i] = "fallback"]
    /\ answer' = [answer EXCEPT ![i] = "none"]
    /\ UNCHANGED <<page, listening, open, crossed, class, visible, link, server>>

\* Either returns true: Blazor has hidden the dialog; a close() more changes nothing.
Connects(i) ==
    /\ page = "open"
    /\ answer[i] = "yes"
    /\ link' = TRUE
    /\ circuit' = "kept"
    /\ class' = "hide"
    /\ open' = FALSE
    /\ Return(i)
    /\ UNCHANGED <<page, listening, crossed, visible, reachable, drops, outages>>

\* retry() catches an exception of either await: the server was not reached.
RetryThrows(i) ==
    /\ page = "open"
    /\ calls[i] \in {"reconnect", "fallback"}
    /\ ~reachable
    /\ listening' = TRUE
    /\ Return(i)
    /\ UNCHANGED <<page, open, crossed, class, visible, link, server>>

\* Mutant: the dialog gets a class that no style knows.
ResumeThrowsUnstyled(i) ==
    /\ page = "open"
    /\ calls[i] = "resume"
    /\ ~reachable
    /\ class' = "resume"
    /\ Return(i)
    /\ UNCHANGED <<page, listening, open, crossed, visible, link, server>>

\* resume() catches it: classList.replace does nothing without the first class.
ResumeThrows(i) ==
    /\ page = "open"
    /\ calls[i] = "resume"
    /\ ~reachable
    /\ class' = IF class = "paused" THEN "resume-failed" ELSE class
    /\ Return(i)
    /\ UNCHANGED <<page, listening, open, crossed, visible, link, server>>

-----------------------------------------------------------------------------
(***************************************************************************)
(* Blazor, the server and the user (external).                             *)
(***************************************************************************)

\* The server answers a call.  reconnect needs the circuit, resumeCircuit the
\* state stored of it, which makes a new circuit, the page's when the answer
\* arrives; what it is told on a page that has a circuit again is not known.
ServerAnswers(i) ==
    /\ page = "open"
    /\ reachable
    /\ calls[i] # "none"
    /\ answer[i] = "none"
    /\ \/ /\ calls[i] = "reconnect"
          /\ answer' = [answer EXCEPT ![i] = IF circuit = "kept" THEN "yes" ELSE "no"]
          /\ UNCHANGED circuit
       \/ /\ calls[i] # "reconnect"
          /\ circuit = "stored" \/ link
          /\ answer' = [answer EXCEPT ![i] = "yes"]
          /\ circuit' = IF circuit = "stored" THEN "gone" ELSE circuit
       \/ /\ calls[i] # "reconnect"
          /\ circuit # "stored"
          /\ answer' = [answer EXCEPT ![i] = "no"]
          /\ UNCHANGED circuit
    /\ UNCHANGED <<page, listening, open, calls, crossed, class, visible, link>>
    /\ UNCHANGED <<reachable, drops, outages>>

\* The connection is lost, or noticed to be: Blazor shows the dialog.
LoseLink ==
    /\ page = "open"
    /\ link
    /\ \/ (~reachable \/ circuit # "kept") /\ UNCHANGED drops
       \/ drops < MaxDrops /\ drops' = drops + 1
    /\ link' = FALSE
    /\ class' = "show"
    /\ handleReconnectStateChanged("show")
    /\ UNCHANGED <<visible, reachable, circuit, outages>>

\* The server pauses the circuit and stores its state.
Pause ==
    /\ page = "open"
    /\ link
    /\ reachable
    /\ circuit = "kept"
    /\ drops < MaxDrops
    /\ drops' = drops + 1
    /\ link' = FALSE
    /\ circuit' = "stored"
    /\ class' = "paused"
    /\ handleReconnectStateChanged("show")
    /\ UNCHANGED <<visible, reachable, outages>>

\* Blazor's own attempts, while the dialog has the class "show".
Attempting == page = "open" /\ ~link /\ class = "show"

AttemptSucceeds ==
    /\ Attempting
    /\ reachable
    /\ circuit # "gone"
    /\ link' = TRUE
    /\ circuit' = "kept"
    /\ class' = "hide"
    /\ handleReconnectStateChanged("hide")
    /\ UNCHANGED <<visible, reachable, drops, outages>>

AttemptRejected ==
    /\ Attempting
    /\ reachable
    /\ circuit # "kept"
    /\ handleReconnectStateChanged("rejected")
    /\ UNCHANGED <<visible, server>>

AttemptsFail ==
    /\ Attempting
    /\ ~reachable
    /\ class' = "failed"
    /\ handleReconnectStateChanged("failed")
    /\ UNCHANGED <<visible, link, server>>

\* The user closes the dialog with the Escape key.
Dismiss ==
    /\ page = "open"
    /\ open
    /\ open' = FALSE
    /\ UNCHANGED <<page, listening, calls, answer, crossed, class, visible, link, server>>

\* The browser loads the page: a new document on a new circuit, or its own
\* error page, from which only the user can try again.
Load ==
    /\ page = "loading"
    /\ IF reachable
       THEN page' = "open" /\ link' = TRUE /\ circuit' = "kept"
       ELSE page' = "error" /\ UNCHANGED <<link, circuit>>
    /\ UNCHANGED <<listening, open, calls, answer, crossed, class, visible>>
    /\ UNCHANGED <<reachable, drops, outages>>

LoadAgain ==
    /\ page = "error"
    /\ page' = "loading"
    /\ UNCHANGED <<listening, open, calls, answer, crossed, class, visible, link, server>>

\* The network fails, with the answers on their way, or the process ends and
\* takes the circuits with it.
Outage ==
    /\ reachable
    /\ outages < MaxOutages
    /\ outages' = outages + 1
    /\ reachable' = FALSE
    /\ circuit' \in {circuit, "gone"}
    /\ answer' = [i \in Calls |-> "none"]
    /\ UNCHANGED <<page, listening, open, calls, crossed, class, visible, link, drops>>

ServerReturns ==
    /\ ~reachable
    /\ reachable' = TRUE
    /\ UNCHANGED <<script, class, visible, link, circuit, drops, outages>>

\* A circuit nobody is connected to is stored after a while, then forgotten.
Expire ==
    /\ ~link
    /\ \A i \in Calls : answer[i] # "yes"
    /\ \/ circuit = "kept" /\ circuit' = "stored"
       \/ circuit = "stored" /\ circuit' = "gone"
    /\ UNCHANGED <<script, class, visible, link, reachable, drops, outages>>

-----------------------------------------------------------------------------
CallStep(i) ==
    \/ ServerAnswers(i)
    \/ ResumeRejected(i)
    \/ ReconnectRejected(i)
    \/ Connects(i)
    \/ RetryThrows(i)
    \/ ResumeThrows(i)

Blazor == LoseLink \/ Pause \/ AttemptSucceeds \/ AttemptRejected \/ AttemptsFail

User ==
    \/ VisibilityChange
    \/ Dismiss
    \/ LoadAgain
    \/ \E i \in Calls : ClickRetry(i) \/ resume(i)

Next ==
    \/ \E i \in Calls : CallStep(i)
    \/ Blazor
    \/ User
    \/ Load
    \/ Outage
    \/ ServerReturns
    \/ Expire

Spec == Init /\ [][Next]_vars

(***************************************************************************)
(* Blazor and the browser finish what they have begun, the server returns  *)
(* in the end, and the user, who may never press Retry, changes tabs now   *)
(* and then, presses Resume when it is shown, and reloads an error page.   *)
(***************************************************************************)
FairSpec ==
    /\ Spec
    /\ \A i \in Calls : WF_vars(CallStep(i))
    /\ WF_vars(AttemptSucceeds \/ AttemptRejected \/ AttemptsFail)
    /\ WF_vars(Load)
    /\ WF_vars(ServerReturns)
    /\ WF_vars(VisibilityChange)
    /\ WF_vars(\E i \in Calls : resume(i))
    /\ WF_vars(LoadAgain)

-----------------------------------------------------------------------------
(***************************************************************************)
(* Properties.                                                             *)
(***************************************************************************)
Retrying(i) == calls[i] \in {"reconnect", "fallback"}

\* Every variable has its type; only an open document has calls under way or a
\* connection, and only a call under way has an answer.
TypeOK ==
    /\ page \in {"open", "loading", "error"}
    /\ listening \in BOOLEAN
    /\ open \in BOOLEAN
    /\ class \in {"hide", "show", "failed", "paused", "resume-failed"}
    /\ visible \in BOOLEAN
    /\ calls \in [Calls -> {"none", "reconnect", "fallback", "resume"}]
    /\ answer \in [Calls -> {"none", "yes", "no"}]
    /\ link \in BOOLEAN
    /\ reachable \in BOOLEAN
    /\ circuit \in {"kept", "stored", "gone"}
    /\ drops \in Nat
    /\ outages \in Nat
    /\ crossed \in BOOLEAN
    /\ page # "open" => ~link /\ ~listening /\ \A i \in Calls : calls[i] = "none"
    /\ \A i \in Calls : calls[i] = "none" => answer[i] = "none"

\* The handler of "failed" and the catch of retry(): once Blazor has given up,
\* the page can always find its way back by itself.  However retries overlap
\* and fail, one is under way or the next return to the tab starts one.
WayBack ==
    page = "open" /\ class = "failed" => listening \/ \E i \in Calls : Retrying(i)

\* A connected page is left alone: no dialog covers it, and no return to the
\* tab starts a retry, unless calls have crossed (the catch of one that fails
\* after another has succeeded registers the listener again).
LivePageIsLeftAlone == link => ~open /\ (listening => crossed)

\* "unknown circuit ID", and the resumeCircuit() after it: the page is reloaded,
\* and what was typed into it lost, only when the server has neither circuit nor
\* stored state for it, unless calls have crossed, or Blazor's own attempts were
\* refused.
ReloadsOnlyLostPages ==
    [][page = "open" /\ page' = "loading"
        => circuit = "gone" \/ crossed \/ (class = "show" /\ circuit = "stored")]_vars

\* A page that has lost its circuit gets one again, however the server fails in
\* between, and without the Retry button; only a pause whose dialog the user
\* closed leaves nothing to resume it with.
Connected == page = "open" /\ link
Abandoned == page = "open" /\ class \in {"paused", "resume-failed"} /\ ~open
ComesBack == ~Connected ~> Connected \/ Abandoned
=============================================================================
