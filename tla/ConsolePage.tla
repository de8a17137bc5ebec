----------------------------- MODULE ConsolePage -----------------------------
(***************************************************************************)
(* The console page (Web/src/Components/Pages/Home.razor) and its script   *)
(* (Home.razor.js).                                                        *)
(*                                                                         *)
(* The page reads the server when it opens, once a second from its poll,   *)
(* and after each action of the user.  Every handler runs on the circuit's *)
(* context, so what it does between two awaits is one step here, and       *)
(* handlers interleave at their awaits only.  Blazor sends a rendered      *)
(* batch to the browser, which confirms it later; OnAfterRenderAsync runs  *)
(* when it has, and the buttons the user sees are those of the last batch  *)
(* confirmed.  Batches and calls reach the browser in the order they are   *)
(* sent, which is how Blazor behaves (external).                           *)
(*                                                                         *)
(* Of the controller (RconServerController.cs, the whole of which is in    *)
(* ServerController) there is what decides how recent a snapshot is: when  *)
(* an action takes effect and invalidates, and the listing both reads go   *)
(* through, with its gate and its cache.                                   *)
(*                                                                         *)
(* Abstracted: the server's state is known by how many actions have taken  *)
(* effect on it, so a button that is not quiet is enabled in any state of  *)
(* the server, and what the server is told from elsewhere counts for       *)
(* nothing; the players and the error texts are shown, never acted on;  *)
(* the log only grows, and of it and of the echo it is known how many      *)
(* lines were ever written.  The prerendered copy of the page, which makes *)
(* the first read and is thrown away, is left out.                         *)
(***************************************************************************)
EXTENDS Integers, Sequences

CONSTANTS Handlers,     \* handlers that may be under way at once
          LogTailLines, \* lines of the log the controller returns at most
          MaxEchoLines, \* lines of command output the page keeps
          MaxClicks,    \* bound: clicks of the user
          MaxLines,     \* bound: lines the server writes
          MaxBatches    \* bound: batches, and calls, the browser has not answered

ASSUME BoundsAssumption ==
    {LogTailLines, MaxEchoLines, MaxClicks, MaxLines, MaxBatches} \subseteq Nat

VARIABLES
    \* the component
    life,       \* "opening", its first batch unconfirmed ("new"), "importing", "live"
    closed,     \* DisposeAsync has been called
    polling,    \* the poll loop: "none", "on", "cancelled"
    due,        \* its timer has ticked
    role,       \* what each handler under way is
    at,         \* the call of the controller it awaits
    loaded,     \* snapshot is not null
    snapshot,   \* effects of actions it shows
    log, echo,  \* lines ever written to the log read last, and to the echo
    busy,
    pollError,  \* whether the last read to end has failed
    scrolledAt,
    \* between the page and the browser
    batches,    \* whether the buttons are quiet in each batch not confirmed
    quiet,      \* ... and in the last that is
    sent,       \* log and echo as of the last batch
    scrolls,    \* what scrolledAt becomes as each scrollToBottom returns
    \* the controller and the server
    stage,      \* how far it has come: "called", "listed" in the gate, "answered"
    got,        \* effects as of the listing it has, or as of its own action
    cachedListing, \* effects as of the cached listing, or NoListing
    effects,    \* effects of actions so far
    written,    \* lines the server has written
    \* history, read by properties only
    clicks,     \* clicks of the user
    returned,   \* the last effect of an action that has returned to the page
    followed,   \* the panel shows what it showed when it was last scrolled
    ahead,      \* lines not yet rendered were counted then
    rushed,     \* the page was closed before its script had been imported
    afterwards  \* handlers begun on the closed page, counted to two

fields == <<loaded, snapshot, log, echo, busy, pollError>>
flow == <<role, at, afterwards>>
calls == <<stage, got, cachedListing>>
component == <<life, closed, polling, due>>
rendered == <<batches, sent, followed>>
panel == <<scrolledAt, scrolls, ahead>>
server == <<effects, written>>
history == <<clicks, returned, rushed>>
vars == <<fields, flow, calls, component, rendered, panel, quiet, server, history>>

NoListing == -1

\* Mutant: the index of the last line is taken for the number of lines.
AtMostButOne(n, bound) == IF n > bound THEN bound ELSE n - 1

AtMost(n, bound) == IF n > bound THEN bound ELSE n

\* log.Count + echo.Count.
Text == <<log, echo>>
Lines == AtMost(log, LogTailLines) + AtMost(echo, MaxEchoLines)

Init ==
    /\ life = "opening"
    /\ closed = FALSE
    /\ polling = "none"
    /\ due = FALSE
    /\ role = [h \in Handlers |-> "none"]
    /\ at = [h \in Handlers |-> "none"]
    /\ loaded = FALSE
    /\ snapshot = 0
    /\ log = 0
    /\ echo = 0
    /\ busy = FALSE
    /\ pollError = FALSE
    /\ scrolledAt = -1
    /\ batches = <<>>
    /\ quiet = TRUE
    /\ sent = Text
    /\ scrolls = <<>>
    /\ stage = [h \in Handlers |-> "none"]
    /\ got = [h \in Handlers |-> NoListing]
    /\ cachedListing = NoListing
    /\ effects = 0
    /\ written = 0
    /\ clicks = 0
    /\ returned = 0
    /\ followed = FALSE
    /\ ahead = FALSE
    /\ rushed = FALSE
    /\ afterwards = 0

-----------------------------------------------------------------------------
(***************************************************************************)
(* Pieces the handlers share.                                              *)
(***************************************************************************)

\* StateHasChanged: the fields, as this step leaves them, make a batch.  The
\* buttons are quiet while busy, and absent without a snapshot.
Render ==
    IF closed
    THEN UNCHANGED rendered
    ELSE /\ Len(batches) < MaxBatches
         /\ batches' = Append(batches, busy' \/ ~loaded')
         /\ sent' = Text'
         /\ followed' = (followed /\ sent' = sent)

\* The handler calls the controller and awaits it.
Await(h, what) ==
    /\ at' = [at EXCEPT ![h] = what]
    /\ stage' = [stage EXCEPT ![h] = IF what = "none" THEN "none" ELSE "called"]
    /\ got' = [got EXCEPT ![h] = NoListing]
    /\ UNCHANGED cachedListing

\* Handlers are alike, so any that is free will do.
IsNext(h) == h = CHOOSE free \in Handlers : role[free] = "none"

Begins(h, as, what) ==
    /\ role[h] = "none" /\ IsNext(h)
    /\ role' = [role EXCEPT ![h] = as]
    /\ afterwards' = IF closed THEN AtMost(afterwards + 1, 2) ELSE afterwards
    /\ Await(h, what)

\* The user sees buttons that are not quiet, and clicks one.
UserClicks ==
    /\ ~quiet
    /\ clicks < MaxClicks
    /\ clicks' = clicks + 1
    /\ UNCHANGED <<component, panel, quiet, server, returned, rushed>>

Acts(h) == role[h] \in {"action", "command"}

\* A handler ends, an action through the finally that resets busy.
Ends(h) ==
    /\ role' = [role EXCEPT ![h] = "none"]
    /\ Await(h, "none")
    /\ busy' = (busy /\ ~Acts(h))
    /\ Render
    /\ UNCHANGED afterwards

-----------------------------------------------------------------------------
(***************************************************************************)
(* The handlers.                                                           *)
(***************************************************************************)

\* OnInitializedAsync: the first read begins, and the page is rendered without it.
Open(h) ==
    /\ life = "opening"
    /\ life' = "new"
    /\ Begins(h, "first", "snapshot")
    /\ UNCHANGED fields
    /\ Render
    /\ UNCHANGED <<closed, polling, due, panel, quiet, server, history>>

\* WaitForNextTickAsync completes: the turn waits for the context.
Tick ==
    /\ polling = "on"
    /\ ~due
    /\ \A h \in Handlers : role[h] # "poll"
    /\ due' = TRUE
    /\ UNCHANGED <<life, closed, polling>>
    /\ UNCHANGED <<fields, flow, calls, rendered, panel, quiet, server, history>>

\* Mutant: the turn renders the page without reading the server.
PollWithoutRead(h) ==
    /\ due
    /\ due' = FALSE
    /\ role[h] = "none" /\ IsNext(h)
    /\ UNCHANGED <<fields, flow, calls>>
    /\ Render
    /\ UNCHANGED <<life, closed, polling, panel, quiet, server, history>>

\* PollAsync: a turn, which goes on even if the page was closed meanwhile.
Poll(h) ==
    /\ due
    /\ due' = FALSE
    /\ Begins(h, "poll", "snapshot")
    /\ UNCHANGED <<life, closed, polling>>
    /\ UNCHANGED <<fields, rendered, panel, quiet, server, history>>

\* The Refresh button: RefreshAsync itself, which does not set busy.
ClickRefresh(h) ==
    /\ UserClicks
    /\ Begins(h, "refresh", "snapshot")
    /\ UNCHANGED fields
    /\ Render

\* RunAsync and SendCommandAsync up to the call of the controller.
Click(h, as) ==
    /\ UserClicks
    /\ Begins(h, as, "action")
    /\ busy' = TRUE
    /\ echo' = IF as = "command" THEN echo + 1 ELSE echo
    /\ UNCHANGED <<loaded, snapshot, log, pollError>>
    /\ Render

\* Without Docker a start or a restart is refused before any await.
ClickRefused ==
    /\ UserClicks
    /\ busy' = FALSE
    /\ UNCHANGED <<loaded, snapshot, log, echo, pollError>>
    /\ Render
    /\ UNCHANGED <<flow, calls>>

\* The action has succeeded; a command's answer is echoed, and the state read.
ActionReturns(h) ==
    /\ at[h] = "action"
    /\ stage[h] = "answered"
    /\ returned' = IF got[h] > returned THEN got[h] ELSE returned
    /\ echo' = IF role[h] = "command" THEN echo + 1 ELSE echo
    /\ Await(h, "snapshot")
    /\ UNCHANGED <<loaded, snapshot, log, busy, pollError, role, afterwards>>
    /\ UNCHANGED <<component, rendered, panel, quiet, server, clicks, rushed>>

\* The action throws; a command's error is echoed.
ActionFails(h) ==
    /\ at[h] = "action"
    /\ stage[h] = "called"
    /\ echo' = IF role[h] = "command" THEN echo + 1 ELSE echo
    /\ UNCHANGED <<loaded, snapshot, log, pollError>>
    /\ Ends(h)
    /\ UNCHANGED <<component, panel, quiet, server, history>>

\* RefreshAsync: the snapshot lands, and the players are asked for ...
SnapshotReturns(h) ==
    /\ at[h] = "snapshot"
    /\ stage[h] = "answered"
    /\ loaded' = TRUE
    /\ snapshot' = got[h]
    /\ Await(h, "players")
    /\ UNCHANGED <<log, echo, busy, pollError, role, afterwards>>
    /\ UNCHANGED <<component, rendered, panel, quiet, server, history>>

\* ... the players land, and with them the log, which is read without an await.
PlayersReturn(h) ==
    /\ at[h] = "players"
    /\ stage[h] = "answered"
    /\ log' = written
    /\ pollError' = FALSE
    /\ UNCHANGED <<loaded, snapshot, echo>>
    /\ Ends(h)
    /\ UNCHANGED <<component, panel, quiet, server, history>>

\* RCON refuses the password, which the reads let through: it is caught and shown.
RefreshFails(h) ==
    /\ stage[h] = "listed"
    /\ pollError' = TRUE
    /\ UNCHANGED <<loaded, snapshot, log, echo>>
    /\ Ends(h)
    /\ UNCHANGED <<component, panel, quiet, server, history>>

-----------------------------------------------------------------------------
(***************************************************************************)
(* OnAfterRenderAsync, the script, and DisposeAsync.                       *)
(***************************************************************************)

\* scrollToBottom: it finds the panel as the batches sent so far have made it.
scrollToBottom ==
    /\ Len(scrolls) < MaxBatches
    /\ scrolls' = Append(scrolls, Lines)
    /\ followed' = TRUE
    /\ ahead' = (sent # Text)

\* The panel is scrolled when the number of lines has changed.
FollowIfGrown ==
    \/ Lines # scrolledAt /\ scrollToBottom
    \/ Lines = scrolledAt /\ UNCHANGED <<scrolls, followed, ahead>>

\* A batch is confirmed.  After the first the script is imported; until it is
\* there nothing is scrolled.
AfterRender ==
    /\ batches # <<>>
    /\ quiet' = Head(batches)
    /\ batches' = Tail(batches)
    /\ life' = IF life = "new" THEN "importing" ELSE life
    /\ IF life = "live" THEN FollowIfGrown ELSE UNCHANGED <<scrolls, followed, ahead>>
    /\ UNCHANGED <<closed, polling, due, scrolledAt, sent>>
    /\ UNCHANGED <<fields, flow, calls, server, history>>

\* Mutant: what is on the page already is not scrolled to.
ScriptImportedIdle ==
    /\ life = "importing"
    /\ life' = "live"
    /\ polling' = "on"
    /\ scrolledAt' = Lines
    /\ UNCHANGED <<closed, due, rendered, scrolls, ahead, quiet>>
    /\ UNCHANGED <<fields, flow, calls, server, history>>

\* The import returns, to a closed page too, which has no panel to scroll.
ScriptImported ==
    /\ life = "importing"
    /\ life' = "live"
    /\ polling' = "on"
    /\ IF closed THEN UNCHANGED <<scrolls, followed, ahead>> ELSE FollowIfGrown
    /\ UNCHANGED <<closed, due, scrolledAt, batches, sent, quiet>>
    /\ UNCHANGED <<fields, flow, calls, server, history>>

\* A call of scrollToBottom returns.
ScrollReturns ==
    /\ scrolls # <<>>
    /\ scrolls' = Tail(scrolls)
    /\ scrolledAt' = Head(scrolls)
    /\ UNCHANGED <<fields, flow, calls, component, rendered, ahead, quiet, server, history>>

\* No batch, answer or click comes from the browser any more, and no panel is
\* left to follow anything.
PageIsGone ==
    /\ batches' = <<>>
    /\ scrolls' = <<>>
    /\ quiet' = TRUE
    /\ sent' = <<0, 0>>
    /\ followed' = FALSE
    /\ ahead' = FALSE

\* Mutant: the poll loop is left to the end of the circuit.
CloseKeepingPoll ==
    /\ life # "opening"
    /\ ~closed
    /\ closed' = TRUE
    /\ PageIsGone
    /\ rushed' = (life # "live")
    /\ UNCHANGED <<life, polling, due, scrolledAt>>
    /\ UNCHANGED <<fields, flow, calls, server, clicks, returned>>

\* DisposeAsync: the user leaves the page.
Close ==
    /\ life # "opening"
    /\ ~closed
    /\ closed' = TRUE
    /\ polling' = IF polling = "on" THEN "cancelled" ELSE polling
    /\ PageIsGone
    /\ rushed' = (life # "live")
    /\ UNCHANGED <<life, due, scrolledAt>>
    /\ UNCHANGED <<fields, flow, calls, server, clicks, returned>>

-----------------------------------------------------------------------------
(***************************************************************************)
(* The controller and the server.                                          *)
(***************************************************************************)

\* The action of a handler changes what the server is doing ...
ActionTakesEffect(h) ==
    /\ at[h] = "action"
    /\ stage[h] = "called"
    /\ got[h] = NoListing
    /\ effects' = effects + 1
    /\ got' = [got EXCEPT ![h] = effects']
    /\ UNCHANGED <<stage, cachedListing, written>>
    /\ UNCHANGED <<fields, flow, component, rendered, panel, quiet, history>>

\* ... or finds nothing to change, and invalidates the cached listing.
ActionDone(h) ==
    /\ at[h] = "action"
    /\ stage[h] = "called"
    /\ stage' = [stage EXCEPT ![h] = "answered"]
    /\ cachedListing' = NoListing
    /\ UNCHANGED got
    /\ UNCHANGED <<fields, flow, component, rendered, panel, quiet, server, history>>

\* GetListingAsync, for the snapshot and for the players: whoever is in the gate.
Reads(h) == at[h] \in {"snapshot", "players"}
GateIsFree == \A h \in Handlers : stage[h] # "listed"

UseCachedListing(h) ==
    /\ Reads(h) /\ stage[h] = "called"
    /\ GateIsFree
    /\ cachedListing # NoListing
    /\ got' = [got EXCEPT ![h] = cachedListing]
    /\ stage' = [stage EXCEPT ![h] = "answered"]
    /\ UNCHANGED cachedListing
    /\ UNCHANGED <<fields, flow, component, rendered, panel, quiet, server, history>>

\* The gate is entered and the server asked.  That it does not answer, or that
\* the listing fails, is how the server is now.
ServerIsRead(h) ==
    /\ Reads(h) /\ stage[h] = "called"
    /\ GateIsFree
    /\ cachedListing = NoListing
    /\ got' = [got EXCEPT ![h] = effects]
    /\ stage' = [stage EXCEPT ![h] = "listed"]
    /\ UNCHANGED cachedListing
    /\ UNCHANGED <<fields, flow, component, rendered, panel, quiet, server, history>>

\* The listing is cached, if there is one, and the gate released.
StoreListing(h) ==
    /\ stage[h] = "listed"
    /\ cachedListing' \in {got[h], NoListing}
    /\ stage' = [stage EXCEPT ![h] = "answered"]
    /\ UNCHANGED got
    /\ UNCHANGED <<fields, flow, component, rendered, panel, quiet, server, history>>

\* ListCacheWindow passes.
ListingExpires ==
    /\ cachedListing # NoListing
    /\ cachedListing' = NoListing
    /\ UNCHANGED <<stage, got, fields, flow, component, rendered, panel, quiet, server, history>>

\* The server writes a line.
WriteLine ==
    /\ written < MaxLines
    /\ written' = written + 1
    /\ UNCHANGED effects
    /\ UNCHANGED <<fields, flow, calls, component, rendered, panel, quiet, history>>

-----------------------------------------------------------------------------
Asks(h) ==
    \/ Open(h) \/ Poll(h) \/ ClickRefresh(h) \/ Click(h, "action") \/ Click(h, "command")

Resumes(h) ==
    \/ ActionReturns(h) \/ ActionFails(h)
    \/ SnapshotReturns(h) \/ PlayersReturn(h) \/ RefreshFails(h)

Controls(h) ==
    \/ ActionTakesEffect(h) \/ ActionDone(h)
    \/ UseCachedListing(h) \/ ServerIsRead(h) \/ StoreListing(h)

BrowserAnswers == AfterRender \/ ScriptImported \/ ScrollReturns

Next ==
    \/ \E h \in Handlers : Asks(h) \/ Resumes(h) \/ Controls(h)
    \/ ListingExpires \/ Tick \/ ClickRefused
    \/ BrowserAnswers \/ Close
    \/ WriteLine

Spec == Init /\ [][Next]_vars

\* The page opens, and its timer ticks while it polls; calls come back, for
\* RconClient and HttpClient have timeouts; the cached listing gets too old; and
\* the browser answers while the page is open.
FairSpec ==
    /\ Spec
    /\ WF_vars(Tick \/ \E h \in Handlers : Open(h) \/ Poll(h))
    /\ \A h \in Handlers : WF_vars(Resumes(h) \/ Controls(h))
    /\ WF_vars(ListingExpires)
    /\ WF_vars(BrowserAnswers)

-----------------------------------------------------------------------------
(***************************************************************************)
(* Properties.                                                             *)
(***************************************************************************)

ComponentType ==
    /\ life \in {"opening", "new", "importing", "live"}
    /\ polling \in {"none", "on", "cancelled"}
    /\ {closed, due, loaded, busy, pollError, quiet, followed, ahead, rushed} \subseteq BOOLEAN

FlowType ==
    /\ role \in [Handlers -> {"none", "first", "poll", "refresh", "action", "command"}]
    /\ at \in [Handlers -> {"none", "action", "snapshot", "players"}]
    /\ stage \in [Handlers -> {"none", "called", "listed", "answered"}]
    /\ \A h \in Handlers : role[h] = "none" <=> at[h] = "none"

CountType ==
    {snapshot, log, echo, effects, written, returned, clicks, afterwards} \subseteq Nat

CallType ==
    /\ got \in [Handlers -> Nat \cup {NoListing}] /\ cachedListing \in Nat \cup {NoListing}
    /\ \A h \in Handlers : Reads(h) /\ stage[h] \in {"listed", "answered"} => got[h] # NoListing

PanelType ==
    /\ sent \in Nat \X Nat
    /\ scrolledAt \in Nat \cup {-1}
    /\ scrolls \in Seq(Nat)
    /\ batches \in Seq(BOOLEAN)

\* Every variable has its type; only a handler under way awaits anything; the
\* panel is scrolled to a number of lines.
TypeOK == ComponentType /\ FlowType /\ CountType /\ CallType /\ PanelType

\* RunAsync "re-reads the state after", and PollAsync "keeps every value on the
\* page current": however reads overlap and in whatever order they land, and
\* although a listing from before an action may reach the cache after it, the
\* page comes to show an action that returned to it, or an error, or is closed.
ActionIsShown ==
    snapshot < returned ~> snapshot >= returned \/ pollError \/ closed

\* "The console panel follows the newest line": once the browser has answered
\* everything, the panel was last scrolled when it showed what it shows now.
\* The exceptions: lines were dropped, so that their number may have stayed, or
\* lines not yet rendered were counted with those that were.
PanelFollows ==
    life = "live" /\ ~closed /\ batches = <<>> /\ scrolls = <<>>
        => followed \/ ahead \/ sent[1] > LogTailLines \/ sent[2] > MaxEchoLines

\* "The page was closed": at most one more read begins on a closed page, that
\* of a tick that was due, unless it was closed before its poll had started.
ClosedPageFallsQuiet == afterwards <= 1 \/ rushed
=============================================================================
