-------------------------- MODULE ConsolePageProofs --------------------------
(***************************************************************************)
(* Theorems about ConsolePage, for any number of handlers, batches and     *)
(* lines.                                                                  *)
(***************************************************************************)
EXTENDS ConsolePage, TLAPS

(***************************************************************************)
(* Type correctness, one part of TypeOK after the other.                   *)
(***************************************************************************)
LEMMA LinesType == CountType => Lines \in Nat
BY BoundsAssumption DEF CountType, Lines, AtMost

LEMMA HeadOfBatches == batches \in Seq(BOOLEAN) /\ batches # <<>> =>
    Head(batches) \in BOOLEAN /\ Tail(batches) \in Seq(BOOLEAN)
OBVIOUS

LEMMA RenderType ==
    ASSUME batches \in Seq(BOOLEAN), sent \in Nat \X Nat, CountType', Render
    PROVE  batches' \in Seq(BOOLEAN) /\ sent' \in Nat \X Nat
<1>1. CASE closed
  BY <1>1 DEF Render, rendered
<1>2. CASE ~closed
  <2>. DEFINE b == busy' \/ ~loaded'
  <2>1. b \in BOOLEAN /\ batches' = Append(batches, b)
    BY <1>2 DEF Render
  <2>2. batches' \in Seq(BOOLEAN)
    <3>. HIDE DEF b
    <3>. QED  BY <2>1
  <2>3. sent' \in Nat \X Nat
    BY <1>2 DEF Render, Text, CountType
  <2>. QED  BY <2>2, <2>3
<1>. QED  BY <1>1, <1>2

LEMMA FollowType ==
    ASSUME CountType, scrolls \in Seq(Nat), FollowIfGrown
    PROVE  scrolls' \in Seq(Nat)
BY LinesType DEF FollowIfGrown, scrollToBottom

LEMMA ComponentStep == PanelType /\ ComponentType /\ [Next]_vars => ComponentType'
<1>. SUFFICES ASSUME PanelType, ComponentType, [Next]_vars PROVE ComponentType'
  OBVIOUS
<1>. USE DEF ComponentType, fields, flow, component, rendered, panel, calls, server, history, UserClicks, PageIsGone
<1>1. CASE UNCHANGED vars
  BY <1>1 DEF vars
<1>2. ASSUME NEW h \in Handlers, Open(h) PROVE ComponentType'
  BY <1>2 DEF Open, Begins, Await, Render
<1>3. ASSUME NEW h \in Handlers, Poll(h) PROVE ComponentType'
  BY <1>3 DEF Poll, Begins, Await
<1>4. ASSUME NEW h \in Handlers, ClickRefresh(h) PROVE ComponentType'
  BY <1>4 DEF ClickRefresh, Begins, Await, Render
<1>5. ASSUME NEW h \in Handlers, Click(h, "action") PROVE ComponentType'
  BY <1>5 DEF Click, Begins, Await, Render
<1>6. ASSUME NEW h \in Handlers, Click(h, "command") PROVE ComponentType'
  BY <1>6 DEF Click, Begins, Await, Render
<1>7. ASSUME NEW h \in Handlers, ActionReturns(h) PROVE ComponentType'
  BY <1>7 DEF ActionReturns, Await
<1>8. ASSUME NEW h \in Handlers, ActionFails(h) PROVE ComponentType'
  BY <1>8 DEF ActionFails, Ends, Await, Render, Acts
<1>9. ASSUME NEW h \in Handlers, SnapshotReturns(h) PROVE ComponentType'
  BY <1>9 DEF SnapshotReturns, Await
<1>10. ASSUME NEW h \in Handlers, PlayersReturn(h) PROVE ComponentType'
  BY <1>10 DEF PlayersReturn, Ends, Await, Render, Acts
<1>11. ASSUME NEW h \in Handlers, RefreshFails(h) PROVE ComponentType'
  BY <1>11 DEF RefreshFails, Ends, Await, Render, Acts
<1>12. ASSUME NEW h \in Handlers, ActionTakesEffect(h) PROVE ComponentType'
  BY <1>12 DEF ActionTakesEffect
<1>13. ASSUME NEW h \in Handlers, ServerIsRead(h) PROVE ComponentType'
  BY <1>13 DEF ServerIsRead
<1>21. ASSUME NEW h \in Handlers, ActionDone(h) PROVE ComponentType'
  BY <1>21 DEF ActionDone
<1>22. ASSUME NEW h \in Handlers, UseCachedListing(h) PROVE ComponentType'
  BY <1>22 DEF UseCachedListing
<1>23. ASSUME NEW h \in Handlers, StoreListing(h) PROVE ComponentType'
  BY <1>23 DEF StoreListing
<1>24. CASE ListingExpires
  BY <1>24 DEF ListingExpires
<1>14. CASE Tick
  BY <1>14 DEF Tick
<1>15. CASE ClickRefused
  BY <1>15 DEF ClickRefused, Render
<1>16. CASE AfterRender
  <2>1. quiet' \in BOOLEAN
    BY <1>16, HeadOfBatches DEF AfterRender, PanelType
  <2>. QED  BY <1>16, <2>1 DEF AfterRender, FollowIfGrown, scrollToBottom
<1>17. CASE ScriptImported
  BY <1>17 DEF ScriptImported, FollowIfGrown, scrollToBottom
<1>18. CASE ScrollReturns
  BY <1>18 DEF ScrollReturns
<1>19. CASE Close
  BY <1>19 DEF Close
<1>20. CASE WriteLine
  BY <1>20 DEF WriteLine
<1>. QED  BY <1>1, <1>2, <1>3, <1>4, <1>5, <1>6, <1>7, <1>8, <1>9, <1>10, <1>11,
             <1>12, <1>13, <1>14, <1>15, <1>16, <1>17, <1>18, <1>19, <1>20,
             <1>21, <1>22, <1>23, <1>24
          DEF Next, Asks, Resumes, Controls, BrowserAnswers

LEMMA FlowStep == FlowType /\ [Next]_vars => FlowType'
<1>. SUFFICES ASSUME FlowType, [Next]_vars PROVE FlowType'
  OBVIOUS
<1>. USE DEF FlowType, fields, flow, component, rendered, panel, calls, server, history, UserClicks, PageIsGone
<1>1. CASE UNCHANGED vars
  BY <1>1 DEF vars
<1>2. ASSUME NEW h \in Handlers, Open(h) PROVE FlowType'
  BY <1>2 DEF Open, Begins, Await, Render
<1>3. ASSUME NEW h \in Handlers, Poll(h) PROVE FlowType'
  BY <1>3 DEF Poll, Begins, Await
<1>4. ASSUME NEW h \in Handlers, ClickRefresh(h) PROVE FlowType'
  BY <1>4 DEF ClickRefresh, Begins, Await, Render
<1>5. ASSUME NEW h \in Handlers, Click(h, "action") PROVE FlowType'
  BY <1>5 DEF Click, Begins, Await, Render
<1>6. ASSUME NEW h \in Handlers, Click(h, "command") PROVE FlowType'
  BY <1>6 DEF Click, Begins, Await, Render
<1>7. ASSUME NEW h \in Handlers, ActionReturns(h) PROVE FlowType'
  BY <1>7 DEF ActionReturns, Await
<1>8. ASSUME NEW h \in Handlers, ActionFails(h) PROVE FlowType'
  BY <1>8 DEF ActionFails, Ends, Await, Render, Acts
<1>9. ASSUME NEW h \in Handlers, SnapshotReturns(h) PROVE FlowType'
  BY <1>9 DEF SnapshotReturns, Await
<1>10. ASSUME NEW h \in Handlers, PlayersReturn(h) PROVE FlowType'
  BY <1>10 DEF PlayersReturn, Ends, Await, Render, Acts
<1>11. ASSUME NEW h \in Handlers, RefreshFails(h) PROVE FlowType'
  BY <1>11 DEF RefreshFails, Ends, Await, Render, Acts
<1>12. ASSUME NEW h \in Handlers, ActionTakesEffect(h) PROVE FlowType'
  BY <1>12 DEF ActionTakesEffect
<1>13. ASSUME NEW h \in Handlers, ServerIsRead(h) PROVE FlowType'
  BY <1>13 DEF ServerIsRead
<1>21. ASSUME NEW h \in Handlers, ActionDone(h) PROVE FlowType'
  BY <1>21 DEF ActionDone
<1>22. ASSUME NEW h \in Handlers, UseCachedListing(h) PROVE FlowType'
  BY <1>22 DEF UseCachedListing
<1>23. ASSUME NEW h \in Handlers, StoreListing(h) PROVE FlowType'
  BY <1>23 DEF StoreListing
<1>24. CASE ListingExpires
  BY <1>24 DEF ListingExpires
<1>14. CASE Tick
  BY <1>14 DEF Tick
<1>15. CASE ClickRefused
  BY <1>15 DEF ClickRefused, Render
<1>16. CASE AfterRender
  BY <1>16 DEF AfterRender, FollowIfGrown, scrollToBottom
<1>17. CASE ScriptImported
  BY <1>17 DEF ScriptImported, FollowIfGrown, scrollToBottom
<1>18. CASE ScrollReturns
  BY <1>18 DEF ScrollReturns
<1>19. CASE Close
  BY <1>19 DEF Close
<1>20. CASE WriteLine
  BY <1>20 DEF WriteLine
<1>. QED  BY <1>1, <1>2, <1>3, <1>4, <1>5, <1>6, <1>7, <1>8, <1>9, <1>10, <1>11,
             <1>12, <1>13, <1>14, <1>15, <1>16, <1>17, <1>18, <1>19, <1>20,
             <1>21, <1>22, <1>23, <1>24
          DEF Next, Asks, Resumes, Controls, BrowserAnswers

LEMMA CountStep == FlowType /\ CountType /\ CallType /\ [Next]_vars => CountType'
<1>. SUFFICES ASSUME FlowType, CountType, CallType, [Next]_vars PROVE CountType'
  OBVIOUS
<1>. USE DEF CountType, AtMost, fields, flow, component, rendered, panel, calls, server, history, UserClicks, PageIsGone
<1>1. CASE UNCHANGED vars
  BY <1>1 DEF vars
<1>2. ASSUME NEW h \in Handlers, Open(h) PROVE CountType'
  BY <1>2 DEF Open, Begins, Await, Render
<1>3. ASSUME NEW h \in Handlers, Poll(h) PROVE CountType'
  BY <1>3 DEF Poll, Begins, Await
<1>4. ASSUME NEW h \in Handlers, ClickRefresh(h) PROVE CountType'
  BY <1>4 DEF ClickRefresh, Begins, Await, Render
<1>5. ASSUME NEW h \in Handlers, Click(h, "action") PROVE CountType'
  BY <1>5 DEF Click, Begins, Await, Render
<1>6. ASSUME NEW h \in Handlers, Click(h, "command") PROVE CountType'
  BY <1>6 DEF Click, Begins, Await, Render
<1>7. ASSUME NEW h \in Handlers, ActionReturns(h) PROVE CountType'
  BY <1>7 DEF ActionReturns, CallType, NoListing, Await
<1>8. ASSUME NEW h \in Handlers, ActionFails(h) PROVE CountType'
  BY <1>8 DEF ActionFails, Ends, Await, Render, Acts
<1>9. ASSUME NEW h \in Handlers, SnapshotReturns(h) PROVE CountType'
  BY <1>9 DEF SnapshotReturns, FlowType, CallType, Reads, NoListing, Await
<1>10. ASSUME NEW h \in Handlers, PlayersReturn(h) PROVE CountType'
  BY <1>10 DEF PlayersReturn, Ends, Await, Render, Acts
<1>11. ASSUME NEW h \in Handlers, RefreshFails(h) PROVE CountType'
  BY <1>11 DEF RefreshFails, Ends, Await, Render, Acts
<1>12. ASSUME NEW h \in Handlers, ActionTakesEffect(h) PROVE CountType'
  BY <1>12 DEF ActionTakesEffect
<1>13. ASSUME NEW h \in Handlers, ServerIsRead(h) PROVE CountType'
  BY <1>13 DEF ServerIsRead
<1>21. ASSUME NEW h \in Handlers, ActionDone(h) PROVE CountType'
  BY <1>21 DEF ActionDone
<1>22. ASSUME NEW h \in Handlers, UseCachedListing(h) PROVE CountType'
  BY <1>22 DEF UseCachedListing
<1>23. ASSUME NEW h \in Handlers, StoreListing(h) PROVE CountType'
  BY <1>23 DEF StoreListing
<1>24. CASE ListingExpires
  BY <1>24 DEF ListingExpires
<1>14. CASE Tick
  BY <1>14 DEF Tick
<1>15. CASE ClickRefused
  BY <1>15 DEF ClickRefused, Render
<1>16. CASE AfterRender
  BY <1>16 DEF AfterRender, FollowIfGrown, scrollToBottom
<1>17. CASE ScriptImported
  BY <1>17 DEF ScriptImported, FollowIfGrown, scrollToBottom
<1>18. CASE ScrollReturns
  BY <1>18 DEF ScrollReturns
<1>19. CASE Close
  BY <1>19 DEF Close
<1>20. CASE WriteLine
  BY <1>20 DEF WriteLine
<1>. QED  BY <1>1, <1>2, <1>3, <1>4, <1>5, <1>6, <1>7, <1>8, <1>9, <1>10, <1>11,
             <1>12, <1>13, <1>14, <1>15, <1>16, <1>17, <1>18, <1>19, <1>20,
             <1>21, <1>22, <1>23, <1>24
          DEF Next, Asks, Resumes, Controls, BrowserAnswers

LEMMA CallStep == FlowType /\ CountType /\ CallType /\ [Next]_vars => CallType'
<1>. SUFFICES ASSUME FlowType, CountType, CallType, [Next]_vars PROVE CallType'
  OBVIOUS
<1>. USE DEF FlowType, CountType, CallType, Reads, NoListing, fields, flow, component, rendered, panel, calls, server, history, UserClicks, PageIsGone
<1>1. CASE UNCHANGED vars
  BY <1>1 DEF vars
<1>2. ASSUME NEW h \in Handlers, Open(h) PROVE CallType'
  BY <1>2 DEF Open, Begins, Await, Render
<1>3. ASSUME NEW h \in Handlers, Poll(h) PROVE CallType'
  BY <1>3 DEF Poll, Begins, Await
<1>4. ASSUME NEW h \in Handlers, ClickRefresh(h) PROVE CallType'
  BY <1>4 DEF ClickRefresh, Begins, Await, Render
<1>5. ASSUME NEW h \in Handlers, Click(h, "action") PROVE CallType'
  BY <1>5 DEF Click, Begins, Await, Render
<1>6. ASSUME NEW h \in Handlers, Click(h, "command") PROVE CallType'
  BY <1>6 DEF Click, Begins, Await, Render
<1>7. ASSUME NEW h \in Handlers, ActionReturns(h) PROVE CallType'
  BY <1>7 DEF ActionReturns, Await
<1>8. ASSUME NEW h \in Handlers, ActionFails(h) PROVE CallType'
  BY <1>8 DEF ActionFails, Ends, Await, Render, Acts
<1>9. ASSUME NEW h \in Handlers, SnapshotReturns(h) PROVE CallType'
  BY <1>9 DEF SnapshotReturns, Await
<1>10. ASSUME NEW h \in Handlers, PlayersReturn(h) PROVE CallType'
  BY <1>10 DEF PlayersReturn, Ends, Await, Render, Acts
<1>11. ASSUME NEW h \in Handlers, RefreshFails(h) PROVE CallType'
  BY <1>11 DEF RefreshFails, Ends, Await, Render, Acts
<1>12. ASSUME NEW h \in Handlers, ActionTakesEffect(h) PROVE CallType'
  BY <1>12 DEF ActionTakesEffect
<1>13. ASSUME NEW h \in Handlers, ServerIsRead(h) PROVE CallType'
  BY <1>13 DEF ServerIsRead
<1>21. ASSUME NEW h \in Handlers, ActionDone(h) PROVE CallType'
  BY <1>21 DEF ActionDone
<1>22. ASSUME NEW h \in Handlers, UseCachedListing(h) PROVE CallType'
  BY <1>22 DEF UseCachedListing
<1>23. ASSUME NEW h \in Handlers, StoreListing(h) PROVE CallType'
  BY <1>23 DEF StoreListing
<1>24. CASE ListingExpires
  BY <1>24 DEF ListingExpires
<1>14. CASE Tick
  BY <1>14 DEF Tick
<1>15. CASE ClickRefused
  BY <1>15 DEF ClickRefused, Render
<1>16. CASE AfterRender
  BY <1>16 DEF AfterRender, FollowIfGrown, scrollToBottom
<1>17. CASE ScriptImported
  BY <1>17 DEF ScriptImported, FollowIfGrown, scrollToBottom
<1>18. CASE ScrollReturns
  BY <1>18 DEF ScrollReturns
<1>19. CASE Close
  BY <1>19 DEF Close
<1>20. CASE WriteLine
  BY <1>20 DEF WriteLine
<1>. QED  BY <1>1, <1>2, <1>3, <1>4, <1>5, <1>6, <1>7, <1>8, <1>9, <1>10, <1>11,
             <1>12, <1>13, <1>14, <1>15, <1>16, <1>17, <1>18, <1>19, <1>20,
             <1>21, <1>22, <1>23, <1>24
          DEF Next, Asks, Resumes, Controls, BrowserAnswers

LEMMA PanelStep == CountType /\ CountType' /\ PanelType /\ [Next]_vars => PanelType'
<1>. SUFFICES ASSUME CountType, CountType', PanelType, [Next]_vars PROVE PanelType'
  OBVIOUS
<1>. USE DEF PanelType, fields, flow, component, rendered, panel, calls, server, history, UserClicks, PageIsGone
<1>1. CASE UNCHANGED vars
  BY <1>1 DEF vars
<1>2. ASSUME NEW h \in Handlers, Open(h) PROVE PanelType'
  BY <1>2, RenderType DEF Open
<1>3. ASSUME NEW h \in Handlers, Poll(h) PROVE PanelType'
  BY <1>3 DEF Poll, Begins, Await
<1>4. ASSUME NEW h \in Handlers, ClickRefresh(h) PROVE PanelType'
  BY <1>4, RenderType DEF ClickRefresh
<1>5. ASSUME NEW h \in Handlers, Click(h, "action") PROVE PanelType'
  BY <1>5, RenderType DEF Click
<1>6. ASSUME NEW h \in Handlers, Click(h, "command") PROVE PanelType'
  BY <1>6, RenderType DEF Click
<1>7. ASSUME NEW h \in Handlers, ActionReturns(h) PROVE PanelType'
  BY <1>7 DEF ActionReturns, Await
<1>8. ASSUME NEW h \in Handlers, ActionFails(h) PROVE PanelType'
  BY <1>8, RenderType DEF ActionFails, Ends
<1>9. ASSUME NEW h \in Handlers, SnapshotReturns(h) PROVE PanelType'
  BY <1>9 DEF SnapshotReturns, Await
<1>10. ASSUME NEW h \in Handlers, PlayersReturn(h) PROVE PanelType'
  BY <1>10, RenderType DEF PlayersReturn, Ends
<1>11. ASSUME NEW h \in Handlers, RefreshFails(h) PROVE PanelType'
  BY <1>11, RenderType DEF RefreshFails, Ends
<1>12. ASSUME NEW h \in Handlers, ActionTakesEffect(h) PROVE PanelType'
  BY <1>12 DEF ActionTakesEffect
<1>13. ASSUME NEW h \in Handlers, ServerIsRead(h) PROVE PanelType'
  BY <1>13 DEF ServerIsRead
<1>21. ASSUME NEW h \in Handlers, ActionDone(h) PROVE PanelType'
  BY <1>21 DEF ActionDone
<1>22. ASSUME NEW h \in Handlers, UseCachedListing(h) PROVE PanelType'
  BY <1>22 DEF UseCachedListing
<1>23. ASSUME NEW h \in Handlers, StoreListing(h) PROVE PanelType'
  BY <1>23 DEF StoreListing
<1>24. CASE ListingExpires
  BY <1>24 DEF ListingExpires
<1>14. CASE Tick
  BY <1>14 DEF Tick
<1>15. CASE ClickRefused
  BY <1>15, RenderType DEF ClickRefused
<1>16. CASE AfterRender
  BY <1>16, HeadOfBatches, FollowType DEF AfterRender
<1>17. CASE ScriptImported
  BY <1>17, FollowType DEF ScriptImported
<1>18. CASE ScrollReturns
  BY <1>18 DEF ScrollReturns
<1>19. CASE Close
  BY <1>19 DEF Close
<1>20. CASE WriteLine
  BY <1>20 DEF WriteLine
<1>. QED  BY <1>1, <1>2, <1>3, <1>4, <1>5, <1>6, <1>7, <1>8, <1>9, <1>10, <1>11,
             <1>12, <1>13, <1>14, <1>15, <1>16, <1>17, <1>18, <1>19, <1>20,
             <1>21, <1>22, <1>23, <1>24
          DEF Next, Asks, Resumes, Controls, BrowserAnswers

\* Whatever handlers overlap, every variable keeps its type, and no handler
\* that has ended is left awaiting.
THEOREM TypeCorrect == Spec => []TypeOK
<1>1. Init => TypeOK
  <2>1. Init => ComponentType
    BY DEF Init, ComponentType
  <2>2. Init => FlowType
    BY DEF Init, FlowType
  <2>3. Init => CountType
    BY DEF Init, CountType
  <2>4. Init => CallType
    BY DEF Init, CallType, Reads
  <2>5. Init => PanelType
    BY DEF Init, PanelType, Text
  <2>. QED  BY <2>1, <2>2, <2>3, <2>4, <2>5 DEF TypeOK
<1>2. TypeOK /\ [Next]_vars => TypeOK'
  BY ComponentStep, FlowStep, CountStep, CallStep, PanelStep DEF TypeOK
<1>. QED  BY <1>1, <1>2, PTL DEF Spec

-----------------------------------------------------------------------------
(***************************************************************************)
(* ClosedPageFallsQuiet.  Nothing but a tick that is due begins a handler  *)
(* on a closed page: no button is left, and the poll has been cancelled if *)
(* it had started.                                                         *)
(***************************************************************************)
ClosedInv ==
    /\ closed => life # "opening" /\ quiet /\ batches = <<>>
    /\ ~closed => afterwards = 0 /\ ~rushed
    /\ closed /\ ~rushed =>
          life = "live" /\ polling # "on" /\ afterwards + (IF due THEN 1 ELSE 0) <= 1

LEMMA ClosedStep == ComponentType /\ CountType /\ ClosedInv /\ [Next]_vars => ClosedInv'
<1>. SUFFICES ASSUME ComponentType, CountType, ClosedInv, [Next]_vars PROVE ClosedInv'
  OBVIOUS
<1>. USE DEF ClosedInv, CountType, fields, flow, component, rendered, panel, calls, server, history, UserClicks, PageIsGone
<1>1. CASE UNCHANGED vars
  BY <1>1 DEF vars
<1>2. ASSUME NEW h \in Handlers, Open(h) PROVE ClosedInv'
  BY <1>2 DEF Open, Begins, Await, Render
<1>3. ASSUME NEW h \in Handlers, Poll(h) PROVE ClosedInv'
  BY <1>3 DEF Poll, Begins, Await, AtMost
<1>4. ASSUME NEW h \in Handlers, ClickRefresh(h) PROVE ClosedInv'
  BY <1>4 DEF ClickRefresh, Begins, Await, Render
<1>5. ASSUME NEW h \in Handlers, Click(h, "action") PROVE ClosedInv'
  BY <1>5 DEF Click, Begins, Await, Render
<1>6. ASSUME NEW h \in Handlers, Click(h, "command") PROVE ClosedInv'
  BY <1>6 DEF Click, Begins, Await, Render
<1>7. ASSUME NEW h \in Handlers, ActionReturns(h) PROVE ClosedInv'
  BY <1>7 DEF ActionReturns, Await
<1>8. ASSUME NEW h \in Handlers, ActionFails(h) PROVE ClosedInv'
  BY <1>8 DEF ActionFails, Ends, Await, Render, Acts
<1>9. ASSUME NEW h \in Handlers, SnapshotReturns(h) PROVE ClosedInv'
  BY <1>9 DEF SnapshotReturns, Await
<1>10. ASSUME NEW h \in Handlers, PlayersReturn(h) PROVE ClosedInv'
  BY <1>10 DEF PlayersReturn, Ends, Await, Render, Acts
<1>11. ASSUME NEW h \in Handlers, RefreshFails(h) PROVE ClosedInv'
  BY <1>11 DEF RefreshFails, Ends, Await, Render, Acts
<1>12. ASSUME NEW h \in Handlers, ActionTakesEffect(h) PROVE ClosedInv'
  BY <1>12 DEF ActionTakesEffect
<1>13. ASSUME NEW h \in Handlers, ServerIsRead(h) PROVE ClosedInv'
  BY <1>13 DEF ServerIsRead
<1>21. ASSUME NEW h \in Handlers, ActionDone(h) PROVE ClosedInv'
  BY <1>21 DEF ActionDone
<1>22. ASSUME NEW h \in Handlers, UseCachedListing(h) PROVE ClosedInv'
  BY <1>22 DEF UseCachedListing
<1>23. ASSUME NEW h \in Handlers, StoreListing(h) PROVE ClosedInv'
  BY <1>23 DEF StoreListing
<1>24. CASE ListingExpires
  BY <1>24 DEF ListingExpires
<1>14. CASE Tick
  BY <1>14 DEF Tick
<1>15. CASE ClickRefused
  BY <1>15 DEF ClickRefused, Render
<1>16. CASE AfterRender
  BY <1>16 DEF AfterRender, FollowIfGrown, scrollToBottom
<1>17. CASE ScriptImported
  BY <1>17 DEF ScriptImported, FollowIfGrown, scrollToBottom
<1>18. CASE ScrollReturns
  BY <1>18 DEF ScrollReturns
<1>19. CASE Close
  <2>1. life' # "opening" /\ quiet' /\ batches' = <<>> /\ closed'
    BY <1>19 DEF Close
  <2>2. ~rushed' => life' = "live" /\ polling' # "on"
    BY <1>19 DEF Close
  <2>3. afterwards' + (IF due' THEN 1 ELSE 0) <= 1
    BY <1>19 DEF Close
  <2>. QED  BY <2>1, <2>2, <2>3
<1>20. CASE WriteLine
  BY <1>20 DEF WriteLine
<1>. QED  BY <1>1, <1>2, <1>3, <1>4, <1>5, <1>6, <1>7, <1>8, <1>9, <1>10, <1>11,
             <1>12, <1>13, <1>14, <1>15, <1>16, <1>17, <1>18, <1>19, <1>20,
             <1>21, <1>22, <1>23, <1>24
          DEF Next, Asks, Resumes, Controls, BrowserAnswers

\* A closed page begins at most one more read, unless it was closed while its
\* script was being imported.
THEOREM ClosedCorrect == Spec => []ClosedPageFallsQuiet
<1>1. Init => ClosedInv
  BY DEF Init, ClosedInv
<1>2. TypeOK /\ ClosedInv /\ [Next]_vars => ClosedInv'
  BY ClosedStep DEF TypeOK
<1>3. TypeOK /\ ClosedInv => ClosedPageFallsQuiet
  BY DEF TypeOK, CountType, ClosedInv, ClosedPageFallsQuiet
<1>. QED  BY <1>1, <1>2, <1>3, TypeCorrect, PTL DEF Spec

-----------------------------------------------------------------------------
(***************************************************************************)
(* PanelFollows.  The numbers of lines the panel was scrolled at only      *)
(* grow, so a call that is still under way can never be taken for one that *)
(* scrolls to more.                                                        *)
(***************************************************************************)
TextInv ==
    /\ log <= written
    /\ ~closed => sent[1] = log /\ sent[2] <= echo

Newest == IF scrolls = <<>> THEN scrolledAt ELSE scrolls[Len(scrolls)]

OrderInv ==
    /\ scrolledAt <= Lines
    /\ \A i \in 1 .. Len(scrolls) : scrolledAt <= scrolls[i] /\ scrolls[i] <= Lines
    /\ \A i, j \in 1 .. Len(scrolls) : i <= j => scrolls[i] <= scrolls[j]

SentLines == AtMost(sent[1], LogTailLines) + AtMost(sent[2], MaxEchoLines)

FollowInv ==
    ~closed /\ ~ahead =>
        /\ Newest <= SentLines
        /\ Newest = SentLines =>
              followed \/ sent[1] > LogTailLines \/ sent[2] > MaxEchoLines
        /\ life = "live" /\ batches = <<>> => Newest = SentLines

TextGrows == log <= log' /\ echo <= echo'

PanelMoves ==
    \/ UNCHANGED <<scrolledAt, scrolls>>
    \/ scrolledAt' = scrolledAt /\ scrolls' = Append(scrolls, Lines)
    \/ scrolledAt' = scrolledAt /\ scrolls' = <<>>
    \/ scrolls # <<>> /\ scrolledAt' = Head(scrolls) /\ scrolls' = Tail(scrolls)

LEMMA TextStep == CountType /\ PanelType /\ TextInv /\ [Next]_vars => TextInv'
<1>. SUFFICES ASSUME CountType, PanelType, TextInv, [Next]_vars PROVE TextInv'
  OBVIOUS
<1>. USE DEF TextInv, CountType, Text, fields, flow, component, rendered, panel, calls, server, history, UserClicks, PageIsGone
<1>1. CASE UNCHANGED vars
  BY <1>1 DEF vars
<1>2. ASSUME NEW h \in Handlers, Open(h) PROVE TextInv'
  BY <1>2 DEF Open, Begins, Await, Render
<1>3. ASSUME NEW h \in Handlers, Poll(h) PROVE TextInv'
  BY <1>3 DEF Poll, Begins, Await
<1>4. ASSUME NEW h \in Handlers, ClickRefresh(h) PROVE TextInv'
  BY <1>4 DEF ClickRefresh, Begins, Await, Render
<1>5. ASSUME NEW h \in Handlers, Click(h, "action") PROVE TextInv'
  BY <1>5 DEF Click, Begins, Await, Render
<1>6. ASSUME NEW h \in Handlers, Click(h, "command") PROVE TextInv'
  BY <1>6 DEF Click, Begins, Await, Render
<1>7. ASSUME NEW h \in Handlers, ActionReturns(h) PROVE TextInv'
  <2>1. UNCHANGED <<log, written, closed, sent>>
    BY <1>7 DEF ActionReturns
  <2>2. echo <= echo' /\ echo' \in Nat
    BY <1>7 DEF ActionReturns
  <2>. HIDE DEF TextInv
  <2>3. ~closed => sent[2] \in Nat
    BY DEF PanelType
  <2>. QED  BY <2>1, <2>2, <2>3 DEF TextInv
<1>8. ASSUME NEW h \in Handlers, ActionFails(h) PROVE TextInv'
  BY <1>8 DEF ActionFails, Ends, Await, Render, Acts
<1>9. ASSUME NEW h \in Handlers, SnapshotReturns(h) PROVE TextInv'
  BY <1>9 DEF SnapshotReturns, Await
<1>10. ASSUME NEW h \in Handlers, PlayersReturn(h) PROVE TextInv'
  BY <1>10 DEF PlayersReturn, Ends, Await, Render, Acts
<1>11. ASSUME NEW h \in Handlers, RefreshFails(h) PROVE TextInv'
  BY <1>11 DEF RefreshFails, Ends, Await, Render, Acts
<1>12. ASSUME NEW h \in Handlers, ActionTakesEffect(h) PROVE TextInv'
  BY <1>12 DEF ActionTakesEffect
<1>13. ASSUME NEW h \in Handlers, ServerIsRead(h) PROVE TextInv'
  BY <1>13 DEF ServerIsRead
<1>21. ASSUME NEW h \in Handlers, ActionDone(h) PROVE TextInv'
  BY <1>21 DEF ActionDone
<1>22. ASSUME NEW h \in Handlers, UseCachedListing(h) PROVE TextInv'
  BY <1>22 DEF UseCachedListing
<1>23. ASSUME NEW h \in Handlers, StoreListing(h) PROVE TextInv'
  BY <1>23 DEF StoreListing
<1>24. CASE ListingExpires
  BY <1>24 DEF ListingExpires
<1>14. CASE Tick
  BY <1>14 DEF Tick
<1>15. CASE ClickRefused
  BY <1>15 DEF ClickRefused, Render
<1>16. CASE AfterRender
  BY <1>16 DEF AfterRender, FollowIfGrown, scrollToBottom
<1>17. CASE ScriptImported
  BY <1>17 DEF ScriptImported, FollowIfGrown, scrollToBottom
<1>18. CASE ScrollReturns
  BY <1>18 DEF ScrollReturns
<1>19. CASE Close
  BY <1>19 DEF Close
<1>20. CASE WriteLine
  BY <1>20 DEF WriteLine
<1>. QED  BY <1>1, <1>2, <1>3, <1>4, <1>5, <1>6, <1>7, <1>8, <1>9, <1>10, <1>11,
             <1>12, <1>13, <1>14, <1>15, <1>16, <1>17, <1>18, <1>19, <1>20,
             <1>21, <1>22, <1>23, <1>24
          DEF Next, Asks, Resumes, Controls, BrowserAnswers

LEMMA TextOnlyGrows == CountType /\ TextInv /\ [Next]_vars => TextGrows
<1>. SUFFICES ASSUME CountType, TextInv, [Next]_vars PROVE TextGrows
  OBVIOUS
<1>. USE DEF TextGrows, TextInv, CountType, fields, flow, component, rendered, panel, calls, server, history, UserClicks, PageIsGone
<1>1. CASE UNCHANGED vars
  BY <1>1 DEF vars
<1>2. ASSUME NEW h \in Handlers, Open(h) PROVE TextGrows
  BY <1>2 DEF Open, Begins, Await, Render
<1>3. ASSUME NEW h \in Handlers, Poll(h) PROVE TextGrows
  BY <1>3 DEF Poll, Begins, Await
<1>4. ASSUME NEW h \in Handlers, ClickRefresh(h) PROVE TextGrows
  BY <1>4 DEF ClickRefresh, Begins, Await, Render
<1>5. ASSUME NEW h \in Handlers, Click(h, "action") PROVE TextGrows
  BY <1>5 DEF Click, Begins, Await, Render
<1>6. ASSUME NEW h \in Handlers, Click(h, "command") PROVE TextGrows
  BY <1>6 DEF Click, Begins, Await, Render
<1>7. ASSUME NEW h \in Handlers, ActionReturns(h) PROVE TextGrows
  BY <1>7 DEF ActionReturns, Await
<1>8. ASSUME NEW h \in Handlers, ActionFails(h) PROVE TextGrows
  BY <1>8 DEF ActionFails, Ends, Await, Render, Acts
<1>9. ASSUME NEW h \in Handlers, SnapshotReturns(h) PROVE TextGrows
  BY <1>9 DEF SnapshotReturns, Await
<1>10. ASSUME NEW h \in Handlers, PlayersReturn(h) PROVE TextGrows
  BY <1>10 DEF PlayersReturn, Ends, Await, Render, Acts
<1>11. ASSUME NEW h \in Handlers, RefreshFails(h) PROVE TextGrows
  BY <1>11 DEF RefreshFails, Ends, Await, Render, Acts
<1>12. ASSUME NEW h \in Handlers, ActionTakesEffect(h) PROVE TextGrows
  BY <1>12 DEF ActionTakesEffect
<1>13. ASSUME NEW h \in Handlers, ServerIsRead(h) PROVE TextGrows
  BY <1>13 DEF ServerIsRead
<1>21. ASSUME NEW h \in Handlers, ActionDone(h) PROVE TextGrows
  BY <1>21 DEF ActionDone
<1>22. ASSUME NEW h \in Handlers, UseCachedListing(h) PROVE TextGrows
  BY <1>22 DEF UseCachedListing
<1>23. ASSUME NEW h \in Handlers, StoreListing(h) PROVE TextGrows
  BY <1>23 DEF StoreListing
<1>24. CASE ListingExpires
  BY <1>24 DEF ListingExpires
<1>14. CASE Tick
  BY <1>14 DEF Tick
<1>15. CASE ClickRefused
  BY <1>15 DEF ClickRefused, Render
<1>16. CASE AfterRender
  BY <1>16 DEF AfterRender, FollowIfGrown, scrollToBottom
<1>17. CASE ScriptImported
  BY <1>17 DEF ScriptImported, FollowIfGrown, scrollToBottom
<1>18. CASE ScrollReturns
  BY <1>18 DEF ScrollReturns
<1>19. CASE Close
  BY <1>19 DEF Close
<1>20. CASE WriteLine
  BY <1>20 DEF WriteLine
<1>. QED  BY <1>1, <1>2, <1>3, <1>4, <1>5, <1>6, <1>7, <1>8, <1>9, <1>10, <1>11,
             <1>12, <1>13, <1>14, <1>15, <1>16, <1>17, <1>18, <1>19, <1>20,
             <1>21, <1>22, <1>23, <1>24
          DEF Next, Asks, Resumes, Controls, BrowserAnswers

LEMMA PanelMovesOnly == PanelType /\ [Next]_vars => PanelMoves
<1>. SUFFICES ASSUME PanelType, [Next]_vars PROVE PanelMoves
  OBVIOUS
<1>. USE DEF PanelMoves, fields, flow, component, rendered, panel, calls, server, history, UserClicks, PageIsGone
<1>1. CASE UNCHANGED vars
  BY <1>1 DEF vars
<1>2. ASSUME NEW h \in Handlers, Open(h) PROVE PanelMoves
  BY <1>2 DEF Open, Begins, Await, Render
<1>3. ASSUME NEW h \in Handlers, Poll(h) PROVE PanelMoves
  BY <1>3 DEF Poll, Begins, Await
<1>4. ASSUME NEW h \in Handlers, ClickRefresh(h) PROVE PanelMoves
  BY <1>4 DEF ClickRefresh, Begins, Await, Render
<1>5. ASSUME NEW h \in Handlers, Click(h, "action") PROVE PanelMoves
  BY <1>5 DEF Click, Begins, Await, Render
<1>6. ASSUME NEW h \in Handlers, Click(h, "command") PROVE PanelMoves
  BY <1>6 DEF Click, Begins, Await, Render
<1>7. ASSUME NEW h \in Handlers, ActionReturns(h) PROVE PanelMoves
  BY <1>7 DEF ActionReturns, Await
<1>8. ASSUME NEW h \in Handlers, ActionFails(h) PROVE PanelMoves
  BY <1>8 DEF ActionFails, Ends, Await, Render, Acts
<1>9. ASSUME NEW h \in Handlers, SnapshotReturns(h) PROVE PanelMoves
  BY <1>9 DEF SnapshotReturns, Await
<1>10. ASSUME NEW h \in Handlers, PlayersReturn(h) PROVE PanelMoves
  BY <1>10 DEF PlayersReturn, Ends, Await, Render, Acts
<1>11. ASSUME NEW h \in Handlers, RefreshFails(h) PROVE PanelMoves
  BY <1>11 DEF RefreshFails, Ends, Await, Render, Acts
<1>12. ASSUME NEW h \in Handlers, ActionTakesEffect(h) PROVE PanelMoves
  BY <1>12 DEF ActionTakesEffect
<1>13. ASSUME NEW h \in Handlers, ServerIsRead(h) PROVE PanelMoves
  BY <1>13 DEF ServerIsRead
<1>21. ASSUME NEW h \in Handlers, ActionDone(h) PROVE PanelMoves
  BY <1>21 DEF ActionDone
<1>22. ASSUME NEW h \in Handlers, UseCachedListing(h) PROVE PanelMoves
  BY <1>22 DEF UseCachedListing
<1>23. ASSUME NEW h \in Handlers, StoreListing(h) PROVE PanelMoves
  BY <1>23 DEF StoreListing
<1>24. CASE ListingExpires
  BY <1>24 DEF ListingExpires
<1>14. CASE Tick
  BY <1>14 DEF Tick
<1>15. CASE ClickRefused
  BY <1>15 DEF ClickRefused, Render
<1>16. CASE AfterRender
  BY <1>16 DEF AfterRender, FollowIfGrown, scrollToBottom
<1>17. CASE ScriptImported
  BY <1>17 DEF ScriptImported, FollowIfGrown, scrollToBottom
<1>18. CASE ScrollReturns
  BY <1>18 DEF ScrollReturns
<1>19. CASE Close
  BY <1>19 DEF Close
<1>20. CASE WriteLine
  BY <1>20 DEF WriteLine
<1>. QED  BY <1>1, <1>2, <1>3, <1>4, <1>5, <1>6, <1>7, <1>8, <1>9, <1>10, <1>11,
             <1>12, <1>13, <1>14, <1>15, <1>16, <1>17, <1>18, <1>19, <1>20,
             <1>21, <1>22, <1>23, <1>24
          DEF Next, Asks, Resumes, Controls, BrowserAnswers

LEMMA LinesGrow ==
    ASSUME CountType, CountType', TextGrows
    PROVE  Lines <= Lines' /\ Lines \in Nat /\ Lines' \in Nat
BY BoundsAssumption DEF CountType, TextGrows, Lines, AtMost

LEMMA TailFacts ==
    ASSUME NEW s \in Seq(Nat), s # <<>>
    PROVE  /\ Len(s) \in Nat \ {0} /\ Len(Tail(s)) = Len(s) - 1
           /\ \A i \in 1 .. Len(s) - 1 : i + 1 \in 1 .. Len(s) /\ Tail(s)[i] = s[i + 1]
<1>1. Len(s) \in Nat \ {0} /\ Len(Tail(s)) = Len(s) - 1
  OBVIOUS
<1>2. ASSUME NEW i \in 1 .. Len(s) - 1 PROVE i + 1 \in 1 .. Len(s) /\ Tail(s)[i] = s[i + 1]
  BY <1>1, <1>2
<1>. QED  BY <1>1, <1>2

LEMMA AtMostGrows ==
    ASSUME NEW a \in Nat, NEW b \in Nat, NEW c \in Nat, NEW d \in Nat, a <= c, b <= d
    PROVE  LET old == AtMost(a, LogTailLines) + AtMost(b, MaxEchoLines)
               new == AtMost(c, LogTailLines) + AtMost(d, MaxEchoLines)
           IN  /\ old \in Nat /\ new \in Nat /\ old <= new
               /\ old = new /\ c <= LogTailLines /\ d <= MaxEchoLines => a = c /\ b = d
BY BoundsAssumption DEF AtMost

LEMMA OrderStep ==
    ASSUME CountType, CountType', PanelType, PanelType', TextGrows, OrderInv, PanelMoves
    PROVE  OrderInv'
<1>0. Lines \in Nat /\ Lines' \in Nat /\ Lines <= Lines'
  BY LinesGrow DEF PanelType
<1>1. CASE UNCHANGED <<scrolledAt, scrolls>>
  BY <1>0, <1>1 DEF OrderInv, PanelType
<1>2. CASE scrolledAt' = scrolledAt /\ scrolls' = Append(scrolls, Lines)
  <2>1. /\ Len(scrolls) \in Nat /\ Len(scrolls') = Len(scrolls) + 1
        /\ scrolls'[Len(scrolls')] = Lines
        /\ \A i \in 1 .. Len(scrolls) : scrolls'[i] = scrolls[i] /\ scrolls[i] \in Nat
    BY <1>2 DEF PanelType
  <2>2. \A i \in 1 .. Len(scrolls') : i = Len(scrolls') \/ i \in 1 .. Len(scrolls)
    BY <2>1 DEF PanelType
  <2>3. \A i \in 1 .. Len(scrolls) :
            scrolledAt <= scrolls[i] /\ scrolls[i] <= Lines /\ scrolledAt <= Lines
    BY DEF OrderInv, PanelType
  <2>4. \A i \in 1 .. Len(scrolls') : scrolledAt' <= scrolls'[i] /\ scrolls'[i] <= Lines
    BY <1>2, <2>1, <2>2, <2>3, <1>0 DEF OrderInv, PanelType
  <2>5. \A i \in 1 .. Len(scrolls') : scrolls'[i] \in Nat /\ scrolls'[i] <= Lines'
    BY <1>0, <2>1, <2>2, <2>4 DEF PanelType
  <2>6. ASSUME NEW i \in 1 .. Len(scrolls'), NEW j \in 1 .. Len(scrolls'), i <= j
        PROVE  scrolls'[i] <= scrolls'[j]
    <3>1. CASE j = Len(scrolls')
      BY <3>1, <2>1, <2>4 DEF PanelType
    <3>2. CASE j \in 1 .. Len(scrolls)
      <4>1. i \in 1 .. Len(scrolls)
        BY <2>1, <2>6, <3>2 DEF PanelType
      <4>. QED  BY <2>1, <2>6, <3>2, <4>1 DEF OrderInv, PanelType
    <3>. QED  BY <2>2, <3>1, <3>2 DEF PanelType
  <2>7. scrolledAt' <= Lines'
    BY <1>0, <1>2 DEF OrderInv, PanelType
  <2>. QED  BY <2>4, <2>5, <2>6, <2>7 DEF OrderInv, PanelType
<1>3. CASE scrolledAt' = scrolledAt /\ scrolls' = <<>>
  BY <1>0, <1>3 DEF OrderInv, PanelType
<1>4. CASE scrolls # <<>> /\ scrolledAt' = Head(scrolls) /\ scrolls' = Tail(scrolls)
  <2>1. Len(scrolls) \in Nat \ {0} /\ Len(scrolls') = Len(scrolls) - 1
    BY <1>4, TailFacts DEF PanelType
  <2>2. scrolledAt' = scrolls[1]
    BY <1>4 DEF PanelType
  <2>3. \A i \in 1 .. Len(scrolls') : i + 1 \in 1 .. Len(scrolls) /\ scrolls'[i] = scrolls[i + 1]
    BY <1>4, <2>1, TailFacts DEF PanelType
  <2>4. \A i \in 1 .. Len(scrolls) : scrolls[i] \in Nat /\ scrolls[1] <= scrolls[i]
    <3>1. \A i \in 1 .. Len(scrolls) : scrolls[i] \in Nat /\ 1 <= i /\ 1 \in 1 .. Len(scrolls)
      BY <2>1 DEF PanelType
    <3>. QED  BY <3>1 DEF OrderInv, PanelType
  <2>5. Lines' >= Lines /\ scrolledAt' \in Nat /\ scrolledAt' <= Lines
    BY <1>0, <2>1, <2>2, <2>4 DEF OrderInv
  <2>6. ASSUME NEW i \in 1 .. Len(scrolls')
        PROVE  scrolledAt' <= scrolls'[i] /\ scrolls'[i] <= Lines'
    <3>1. scrolls[i + 1] \in Nat /\ scrolls[1] <= scrolls[i + 1] /\ scrolls[i + 1] <= Lines
      BY <2>3, <2>4 DEF OrderInv
    <3>2. scrolls'[i] = scrolls[i + 1] /\ scrolledAt' = scrolls[1] /\ scrolls[1] \in Nat
      BY <2>2, <2>3, <2>5
    <3>3. scrolls[1] <= Lines' /\ scrolls[i + 1] <= Lines'
      BY <1>0, <2>5, <3>1, <3>2
    <3>. QED  BY <3>1, <3>2, <3>3
  <2>7. ASSUME NEW i \in 1 .. Len(scrolls'), NEW j \in 1 .. Len(scrolls'), i <= j
        PROVE  scrolls'[i] <= scrolls'[j]
    <3>1. i + 1 <= j + 1 /\ i + 1 \in 1 .. Len(scrolls) /\ j + 1 \in 1 .. Len(scrolls)
      BY <2>1, <2>3, <2>7
    <3>2. scrolls[i + 1] <= scrolls[j + 1]
      BY <3>1 DEF OrderInv
    <3>3. scrolls'[i] = scrolls[i + 1] /\ scrolls'[j] = scrolls[j + 1]
      BY <2>3
    <3>. QED  BY <3>2, <3>3
  <2>8. scrolledAt' <= Lines'
    BY <1>0, <2>5
  <2>. QED  BY <2>6, <2>7, <2>8 DEF OrderInv
<1>. QED  BY <1>1, <1>2, <1>3, <1>4 DEF PanelMoves

LEMMA NewestBounds ==
    ASSUME CountType, PanelType, OrderInv
    PROVE  Newest \in Nat \cup {-1} /\ scrolledAt <= Newest /\ Newest <= Lines
<1>1. CASE scrolls = <<>>
  BY <1>1, LinesType DEF PanelType, OrderInv, Newest
<1>2. CASE scrolls # <<>>
  <2>1. Len(scrolls) \in 1 .. Len(scrolls) /\ scrolls[Len(scrolls)] \in Nat
    BY <1>2 DEF PanelType
  <2>. QED  BY <1>2, <2>1 DEF PanelType, OrderInv, Newest
<1>. QED  BY <1>1, <1>2

LEMMA SentType ==
    ASSUME PanelType
    PROVE  sent[1] \in Nat /\ sent[2] \in Nat /\ sent = <<sent[1], sent[2]>>
BY DEF PanelType

LEMMA SentBounds ==
    ASSUME CountType, PanelType, TextInv, ~closed
    PROVE  SentLines \in Nat /\ SentLines <= Lines
BY SentType, BoundsAssumption DEF CountType, TextInv, SentLines, Lines, AtMost

LEMMA RenderFollows ==
    ASSUME TypeOK, TypeOK', TextInv, TextGrows, OrderInv, FollowInv,
           UNCHANGED <<closed, scrolledAt, scrolls, ahead>>, Render
    PROVE  FollowInv'
<1>. SUFFICES ASSUME ~closed, ~ahead PROVE FollowInv'
  BY DEF FollowInv
<1>1. batches' # <<>>
  BY DEF TypeOK, PanelType, Render
<1>2. Newest' = Newest /\ Newest \in Int
  BY NewestBounds DEF Newest, TypeOK
<1>3. Newest <= SentLines
  BY DEF FollowInv
<1>4. sent' = Text' /\ followed' = (followed /\ sent' = sent)
  BY DEF Render
<1>5. sent'[1] = log' /\ sent'[2] = echo' /\ sent[1] <= sent'[1] /\ sent[2] <= sent'[2]
  <2>1. sent'[1] = log' /\ sent'[2] = echo'
    BY <1>4 DEF Text
  <2>. QED  BY <2>1, SentType DEF TextInv, TextGrows, TypeOK, CountType
<1>6. /\ SentLines <= SentLines' /\ SentLines \in Nat /\ SentLines' \in Nat
      /\ SentLines = SentLines' =>
            sent' = sent \/ sent'[1] > LogTailLines \/ sent'[2] > MaxEchoLines
  <2>1. /\ sent = <<sent[1], sent[2]>> /\ sent[1] \in Nat /\ sent[2] \in Nat
        /\ sent' = <<sent'[1], sent'[2]>> /\ sent'[1] \in Nat /\ sent'[2] \in Nat
    BY <1>4, <1>5, SentType DEF Text, TypeOK, CountType
  <2>2. SentLines <= SentLines' /\ SentLines \in Nat /\ SentLines' \in Nat
    BY <1>5, <2>1, AtMostGrows DEF SentLines
  <2>3. SentLines = SentLines' /\ sent'[1] <= LogTailLines /\ sent'[2] <= MaxEchoLines
        => sent'[1] = sent[1] /\ sent'[2] = sent[2]
    BY <1>5, <2>1, AtMostGrows DEF SentLines
  <2>. QED  BY <2>1, <2>2, <2>3, BoundsAssumption
<1>7. ASSUME Newest' = SentLines'
      PROVE  followed' \/ sent'[1] > LogTailLines \/ sent'[2] > MaxEchoLines
  <2>1. Newest = SentLines /\ SentLines = SentLines'
    BY <1>2, <1>3, <1>6, <1>7
  <2>2. CASE sent' = sent
    BY <1>4, <2>1, <2>2 DEF FollowInv
  <2>3. CASE sent'[1] > LogTailLines \/ sent'[2] > MaxEchoLines
    BY <2>3
  <2>. QED  BY <1>6, <2>1, <2>2, <2>3
<1>8. Newest' <= SentLines'
  BY <1>2, <1>3, <1>6
<1>. QED  BY <1>1, <1>7, <1>8 DEF FollowInv

LEMMA ScrollFollows ==
    ASSUME TypeOK, TextInv, OrderInv, FollowInv,
           UNCHANGED <<closed, scrolledAt, sent, log, echo>>, FollowIfGrown
    PROVE  FollowInv'
<1>. SUFFICES ASSUME ~closed, ~ahead' PROVE FollowInv'
  BY DEF FollowInv
<1>. SentLines' = SentLines
  BY DEF SentLines
<1>1. CASE Lines # scrolledAt /\ scrollToBottom
  <2>1. sent = Text /\ followed'
    BY <1>1 DEF scrollToBottom
  <2>2. SentLines = Lines
    BY <2>1 DEF SentLines, Lines, Text
  <2>3. Newest' = Lines
    BY <1>1, LinesType DEF TypeOK, PanelType, scrollToBottom, Newest
  <2>. QED  BY <2>1, <2>2, <2>3, LinesType DEF FollowInv, TypeOK
<1>2. CASE Lines = scrolledAt /\ UNCHANGED <<scrolls, followed, ahead>>
  <2>1. Newest' = Newest
    BY <1>2 DEF Newest
  <2>2. Newest = SentLines
    BY <1>2, NewestBounds, SentBounds, LinesType DEF FollowInv, TypeOK
  <2>. QED  BY <1>2, <2>1, <2>2 DEF FollowInv
<1>. QED  BY <1>1, <1>2 DEF FollowIfGrown

LEMMA FollowStep == TypeOK /\ TypeOK' /\ TextInv /\ TextGrows /\ OrderInv /\ FollowInv /\ [Next]_vars => FollowInv'
<1>. SUFFICES ASSUME TypeOK, TypeOK', TextInv, TextGrows, OrderInv, FollowInv, [Next]_vars PROVE FollowInv'
  OBVIOUS
<1>. USE DEF fields, flow, component, rendered, panel, calls, server, history, UserClicks, PageIsGone
<1>1. CASE UNCHANGED vars
  BY <1>1 DEF vars, FollowInv, Newest, SentLines
<1>2. ASSUME NEW h \in Handlers, Open(h) PROVE FollowInv'
  BY <1>2, RenderFollows DEF Open
<1>3. ASSUME NEW h \in Handlers, Poll(h) PROVE FollowInv'
  BY <1>3 DEF Poll, FollowInv, Newest, SentLines
<1>4. ASSUME NEW h \in Handlers, ClickRefresh(h) PROVE FollowInv'
  BY <1>4, RenderFollows DEF ClickRefresh
<1>5. ASSUME NEW h \in Handlers, Click(h, "action") PROVE FollowInv'
  BY <1>5, RenderFollows DEF Click
<1>6. ASSUME NEW h \in Handlers, Click(h, "command") PROVE FollowInv'
  BY <1>6, RenderFollows DEF Click
<1>7. ASSUME NEW h \in Handlers, ActionReturns(h) PROVE FollowInv'
  BY <1>7 DEF ActionReturns, FollowInv, Newest, SentLines
<1>8. ASSUME NEW h \in Handlers, ActionFails(h) PROVE FollowInv'
  BY <1>8, RenderFollows DEF ActionFails, Ends
<1>9. ASSUME NEW h \in Handlers, SnapshotReturns(h) PROVE FollowInv'
  BY <1>9 DEF SnapshotReturns, FollowInv, Newest, SentLines
<1>10. ASSUME NEW h \in Handlers, PlayersReturn(h) PROVE FollowInv'
  BY <1>10, RenderFollows DEF PlayersReturn, Ends
<1>11. ASSUME NEW h \in Handlers, RefreshFails(h) PROVE FollowInv'
  BY <1>11, RenderFollows DEF RefreshFails, Ends
<1>12. ASSUME NEW h \in Handlers, ActionTakesEffect(h) PROVE FollowInv'
  BY <1>12 DEF ActionTakesEffect, FollowInv, Newest, SentLines
<1>13. ASSUME NEW h \in Handlers, ServerIsRead(h) PROVE FollowInv'
  BY <1>13 DEF ServerIsRead, FollowInv, Newest, SentLines
<1>21. ASSUME NEW h \in Handlers, ActionDone(h) PROVE FollowInv'
  BY <1>21 DEF ActionDone, FollowInv, Newest, SentLines
<1>22. ASSUME NEW h \in Handlers, UseCachedListing(h) PROVE FollowInv'
  BY <1>22 DEF UseCachedListing, FollowInv, Newest, SentLines
<1>23. ASSUME NEW h \in Handlers, StoreListing(h) PROVE FollowInv'
  BY <1>23 DEF StoreListing, FollowInv, Newest, SentLines
<1>24. CASE ListingExpires
  BY <1>24 DEF ListingExpires, FollowInv, Newest, SentLines
<1>14. CASE Tick
  BY <1>14 DEF Tick, FollowInv, Newest, SentLines
<1>15. CASE ClickRefused
  BY <1>15, RenderFollows DEF ClickRefused
<1>16. CASE AfterRender
  <2>1. CASE life = "live"
    BY <1>16, <2>1, ScrollFollows DEF AfterRender
  <2>2. CASE life # "live"
    <3>1. life' # "live" /\ UNCHANGED <<closed, scrolledAt, scrolls, sent, followed, ahead>>
      BY <1>16, <2>2 DEF AfterRender
    <3>. QED  BY <3>1 DEF FollowInv, Newest, SentLines
  <2>. QED  BY <2>1, <2>2
<1>17. CASE ScriptImported
  <2>1. CASE closed
    BY <1>17, <2>1 DEF ScriptImported, FollowInv
  <2>2. CASE ~closed
    BY <1>17, <2>2, ScrollFollows DEF ScriptImported
  <2>. QED  BY <2>1, <2>2
<1>18. CASE ScrollReturns
  <2>1. Newest' = Newest
    <3>1. scrolls \in Seq(Nat) /\ scrolls # <<>> /\ scrolls' = Tail(scrolls) /\ scrolledAt' = Head(scrolls)
      BY <1>18 DEF ScrollReturns, TypeOK, PanelType
    <3>2. CASE Len(scrolls) = 1
      <4>1. scrolls' = <<>> /\ scrolls[Len(scrolls)] = Head(scrolls)
        BY <3>1, <3>2
      <4>. QED  BY <3>1, <4>1 DEF Newest
    <3>3. CASE Len(scrolls) # 1
      <4>1. Len(scrolls') = Len(scrolls) - 1 /\ Len(scrolls') \in Nat \ {0}
        BY <3>1, <3>3, TailFacts
      <4>2. scrolls' # <<>> /\ scrolls'[Len(scrolls')] = scrolls[Len(scrolls)]
        <5>1. scrolls'[Len(scrolls')] = scrolls[Len(scrolls') + 1]
          BY <3>1, <4>1, TailFacts
        <5>2. Len(scrolls') + 1 = Len(scrolls) /\ Len(scrolls') # 0
          BY <3>1, <4>1, TailFacts
        <5>. QED  BY <5>1, <5>2
      <4>. QED  BY <3>1, <4>2 DEF Newest
    <3>. QED  BY <3>2, <3>3
  <2>. QED  BY <1>18, <2>1 DEF ScrollReturns, FollowInv, SentLines
<1>19. CASE Close
  BY <1>19 DEF Close, FollowInv
<1>20. CASE WriteLine
  BY <1>20 DEF WriteLine, FollowInv, Newest, SentLines
<1>. QED  BY <1>1, <1>2, <1>3, <1>4, <1>5, <1>6, <1>7, <1>8, <1>9, <1>10, <1>11,
             <1>12, <1>13, <1>14, <1>15, <1>16, <1>17, <1>18, <1>19, <1>20,
             <1>21, <1>22, <1>23, <1>24
          DEF Next, Asks, Resumes, Controls, BrowserAnswers

\* Once the browser has answered everything, the panel was last scrolled when
\* it showed what it shows now, unless lines were dropped from what it shows or
\* it was scrolled for lines that were not yet rendered.
THEOREM PanelCorrect == Spec => []PanelFollows
<1>. DEFINE Inv == TextInv /\ OrderInv /\ FollowInv
<1>1. Init => Inv
  <2>. SUFFICES ASSUME Init PROVE Inv
    OBVIOUS
  <2>1. TextInv
    BY DEF Init, TextInv, Text
  <2>2. Lines = 0 /\ SentLines = 0
    BY BoundsAssumption DEF Init, Lines, SentLines, AtMost, Text
  <2>3. OrderInv
    BY <2>2 DEF Init, OrderInv
  <2>4. FollowInv
    BY <2>2 DEF Init, FollowInv, Newest
  <2>. QED  BY <2>1, <2>3, <2>4
<1>2. TypeOK /\ TypeOK' /\ Inv /\ [Next]_vars => Inv'
  BY TextStep, TextOnlyGrows, PanelMovesOnly, OrderStep, FollowStep DEF TypeOK
<1>3. TypeOK /\ Inv => PanelFollows
  BY DEF FollowInv, PanelFollows
<1>. QED  BY <1>1, <1>2, <1>3, TypeCorrect, PTL DEF Spec
=============================================================================
