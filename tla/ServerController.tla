-------------------------- MODULE ServerController --------------------------
(***************************************************************************)
(* RconServerController (Web/src/Services/Rcon/RconServerController.cs):   *)
(* the one object every open page uses to start, stop, restart and watch   *)
(* the Minecraft server.  Commands and "stop" go over RCON, start and stop *)
(* of the container go to the Docker daemon (DockerContainers.cs).         *)
(*                                                                         *)
(* Every await is a step of its own, so the operations of several users    *)
(* interleave on the cached listing, the "stopping" flag and the cached    *)
(* version, while the server loads, exits and is revived by its restart    *)
(* policy on its own.                                                      *)
(*                                                                         *)
(* An RCON call is what RconService promises of it: the command is run, or *)
(* the call fails, or "stop" comes back as a success that was never        *)
(* delivered; a copy that runs late is a server that exits by itself.      *)
(* Abstracted: names, addresses, uptime and session lengths (shown, never  *)
(* acted on), the contents of a listing (only how recent it is), and the   *)
(* clock: the stop deadline may pass at any time (StopTimeoutSeconds is    *)
(* positive), and a cached listing whose 750 ms window is over, which no   *)
(* operation tells from null, becomes null.                                *)
(***************************************************************************)
EXTENDS Integers

CONSTANTS Users,         \* the flows that share the controller
          HasDocker,     \* the docker field is set: CanControlContainer
          RestartPolicy, \* the container has restart: always or unless-stopped
          MaxOps,        \* bound: operations started in one behaviour
          MaxOutside     \* bound: exits and starts of the server nobody here asked for

ASSUME SwitchesAssumption == HasDocker \in BOOLEAN /\ RestartPolicy \in BOOLEAN
ASSUME OpsAssumption == MaxOps \in Nat /\ MaxOutside \in Nat

VARIABLES
    \* the controller object
    listGate,      \* SemaphoreSlim(1, 1)
    cachedListing, \* the last listing while in ListCacheWindow, or NoListing
    stopping,      \* the volatile flag
    cachedVersion, \* the run whose banner was read, 0 for null
    versionReadFor, \* the StartedAt it was read for, 0 for null
    \* each user's operation
    pc,            \* the await it is at
    op,            \* which operation it is, or was
    result,        \* how it ended
    seen,          \* what InspectAsync returned to it
    got,           \* the listing it has, NoListing for null
    making,        \* what VersionFor holds for it: StartedAt, what it read
    ops,           \* operations started so far
    \* the server, its container and its log
    phase,         \* what the container and the server in it are doing
    run,           \* which start of the container this is, or was
    exit,          \* exit code of the run that ended; 0 again once the container runs
    banner,        \* the run whose banner heads latest.log
    outside,       \* exits and starts nobody here asked for
    \* history, read by properties only
    epoch,         \* actions that have taken effect on the server
    settled,       \* the epoch at the last Invalidate
    asked,         \* asked[u]: settled, when u's operation began
    firstRun,      \* firstRun[u]: run, when u's restart began
    revived        \* revived[u]: a start since Docker stopped the container for u

controller == <<listGate, cachedListing, stopping, cachedVersion, versionReadFor>>
flow == <<pc, op, result, seen, got, making, ops>>
server == <<phase, run, exit, banner, outside>>
history == <<epoch, settled, asked, firstRun, revived>>
vars == <<controller, flow, server, history>>

\* A listing is known by the epoch it was taken in; late is history: it was
\* taken, but not yet stored, when the cache was invalidated.
NoListing == [asOf |-> 0, late |-> FALSE]

\* ContainerState: null and Missing carry no start time.
Unknown == [known |-> FALSE, is |-> "down", exit |-> 0, started |-> 0]
NoSnapshot == [started |-> 0, version |-> 0]

Up == phase \in {"loading", "ready", "closing"}
StopSteps == {"stopRcon", "dockerStop", "wait"}
InListing == {"list", "store"}

Init ==
    /\ listGate = 1
    /\ cachedListing = NoListing
    /\ stopping = FALSE
    /\ cachedVersion = 0
    /\ versionReadFor = 0
    /\ pc = [u \in Users |-> "idle"]
    /\ op = [u \in Users |-> "none"]
    /\ result = [u \in Users |-> "none"]
    /\ seen = [u \in Users |-> Unknown]
    /\ got = [u \in Users |-> NoListing]
    /\ making = [u \in Users |-> NoSnapshot]
    /\ ops = 0
    /\ phase \in {"down", "ready"} \cup (IF HasDocker THEN {"missing"} ELSE {})
    /\ run = 1
    /\ exit = 0
    /\ banner = 1
    /\ outside = 0
    /\ epoch = 1
    /\ settled = 0
    /\ asked = [u \in Users |-> 0]
    /\ firstRun = [u \in Users |-> 0]
    /\ revived = [u \in Users |-> FALSE]

-----------------------------------------------------------------------------
(***************************************************************************)
(* Pieces the operations share.                                            *)
(***************************************************************************)

\* Invalidate(): the field is cleared without taking listGate.
Invalidate ==
    /\ cachedListing' = NoListing
    /\ settled' = epoch
    /\ got' = [v \in Users |->
                IF pc[v] = "store" THEN [got[v] EXCEPT !.late = got[v].asOf > 0] ELSE got[v]]

\* An action of a user changes what the server is doing.
TakesEffect == epoch' = epoch + 1

Begin(u, what, at) ==
    /\ pc[u] = "idle"
    /\ ops < MaxOps
    /\ ops' = ops + 1
    /\ pc' = [pc EXCEPT ![u] = at]
    /\ op' = [op EXCEPT ![u] = what]
    /\ result' = [result EXCEPT ![u] = IF at = "idle" THEN "refused" ELSE "none"]
    /\ asked' = [asked EXCEPT ![u] = IF at \in {"inspect", "listGate"} THEN settled ELSE 0]
    /\ firstRun' = [firstRun EXCEPT ![u] = IF what = "restart" THEN run ELSE 0]
    /\ revived' = [revived EXCEPT ![u] = FALSE]
    /\ UNCHANGED <<seen, got, making, server, epoch, settled>>

End(u, how) ==
    /\ pc' = [pc EXCEPT ![u] = "idle"]
    /\ result' = [result EXCEPT ![u] = how]
    /\ UNCHANGED <<op, ops>>

Goto(u, at) ==
    /\ pc' = [pc EXCEPT ![u] = at]
    /\ UNCHANGED <<op, result, ops>>

-----------------------------------------------------------------------------
(***************************************************************************)
(* StartAsync, StopAsync, RestartAsync.  Without a container to control,   *)
(* RequireContainerControl refuses a start or a restart before anything.   *)
(***************************************************************************)
Start(u) ==
    /\ Begin(u, "start", IF HasDocker THEN "dockerStart" ELSE "idle")
    /\ UNCHANGED controller

Stop(u) ==
    /\ Begin(u, "stop", "stopRcon")
    /\ stopping' = TRUE
    /\ UNCHANGED <<listGate, cachedListing, cachedVersion, versionReadFor>>

Restart(u) ==
    /\ Begin(u, "restart", IF HasDocker THEN "stopRcon" ELSE "idle")
    /\ stopping' = (HasDocker \/ stopping)
    /\ UNCHANGED <<listGate, cachedListing, cachedVersion, versionReadFor>>

\* Mutant: the flag is reset after the wait only, not in a finally.
LeaveStopWithoutFinally(u, how) ==
    /\ stopping' = (how # "ok" /\ stopping)
    /\ Invalidate
    /\ IF how = "ok" /\ op[u] = "restart" THEN Goto(u, "dockerStart") ELSE End(u, how)
    /\ UNCHANGED <<listGate, cachedVersion, versionReadFor, seen, making>>
    /\ UNCHANGED <<asked, firstRun>>

\* The end of StopAsync, its finally included; a restart goes on to StartAsync.
LeaveStop(u, how) ==
    /\ stopping' = FALSE
    /\ Invalidate
    /\ IF how = "ok" /\ op[u] = "restart" THEN Goto(u, "dockerStart") ELSE End(u, how)
    /\ UNCHANGED <<listGate, cachedVersion, versionReadFor, seen, making>>
    /\ UNCHANGED <<asked, firstRun>>

\* Mutant: Docker is asked only when RCON would not take the command.
AfterRconStopTrustingRcon(u, took) ==
    \/ /\ HasDocker /\ ~took
       /\ Goto(u, "dockerStop")
       /\ UNCHANGED <<controller, seen, got, making, settled, asked, firstRun>>
    \/ /\ took
       /\ Goto(u, "wait")
       /\ UNCHANGED <<controller, seen, got, making, settled, asked, firstRun>>
    \/ /\ ~HasDocker /\ ~took
       /\ LeaveStop(u, "refused")

\* StopAsync once TryRconStopAsync has returned took: with Docker the container
\* is stopped in any case; without it, nobody else can stop the server.
AfterRconStop(u, took) ==
    \/ /\ HasDocker \/ took
       /\ Goto(u, IF HasDocker THEN "dockerStop" ELSE "wait")
       /\ UNCHANGED <<controller, seen, got, making, settled, asked, firstRun>>
    \/ /\ ~HasDocker /\ ~took
       /\ LeaveStop(u, "refused")

\* TryRconStopAsync: the server takes "stop" and closes its RCON listener.
RconStopTaken(u) ==
    /\ pc[u] = "stopRcon"
    /\ phase = "ready"
    /\ phase' = "closing"
    /\ TakesEffect
    /\ AfterRconStop(u, TRUE)
    /\ UNCHANGED <<run, exit, banner, outside, revived>>

\* ... the client tolerates a connection that broke before the command left it ...
RconStopLost(u) ==
    /\ pc[u] = "stopRcon"
    /\ AfterRconStop(u, TRUE)
    /\ UNCHANGED <<server, epoch, revived>>

\* ... or nothing is listening, or no answer comes in time.
RconStopFailed(u) ==
    /\ pc[u] = "stopRcon"
    /\ AfterRconStop(u, FALSE)
    /\ UNCHANGED <<server, epoch, revived>>

\* A wrong password is not taken for a server that is down.
RconStopDenied(u) ==
    /\ pc[u] = "stopRcon"
    /\ phase = "ready"
    /\ LeaveStop(u, "failed")
    /\ UNCHANGED <<server, epoch, revived>>

\* The daemon stops the container, which its restart policy then honours; 143 is
\* SIGTERM, and 137, SIGKILL, is read alike.
ContainerStops(u) ==
    /\ Up
    /\ phase' = "down"
    /\ exit' = 143
    /\ TakesEffect
    /\ UNCHANGED <<run, banner, outside>>

\* docker.StopAsync returns once the container is down; 304 when it already was.
DockerStop(u) ==
    /\ pc[u] = "dockerStop"
    /\ \/ ContainerStops(u)
       \/ phase = "down" /\ UNCHANGED <<server, epoch>>
    /\ revived' = [revived EXCEPT ![u] = FALSE]
    /\ Goto(u, "wait")
    /\ UNCHANGED <<controller, seen, got, making, settled, asked, firstRun>>

\* The daemon refuses, is not there, or its answer is lost.
DockerStopFailed(u) ==
    /\ pc[u] = "dockerStop"
    /\ \/ ContainerStops(u)
       \/ UNCHANGED <<server, epoch>>
    /\ LeaveStop(u, "failed")
    /\ UNCHANGED revived

\* WaitForExitAsync returns: there is no container to watch, it is not running,
\* or the daemon could not be asked (InspectAsync returns null).
WaitForExit(u) ==
    /\ pc[u] = "wait"
    /\ LeaveStop(u, "ok")
    /\ UNCHANGED <<server, epoch, revived>>

\* ... or the container is still running when the deadline passes.
WaitTimedOut(u) ==
    /\ pc[u] = "wait"
    /\ HasDocker
    /\ Up
    /\ LeaveStop(u, "timeout")
    /\ UNCHANGED <<server, epoch, revived>>

ContainerStarts ==
    /\ phase = "down"
    /\ phase' = "loading"
    /\ run' = run + 1
    /\ exit' = 0
    /\ revived' = [v \in Users |-> revived[v] \/ op[v] \in {"stop", "restart"}]
    /\ UNCHANGED banner

\* docker.StartAsync; 304 when the container was already running.
DockerStart(u) ==
    /\ pc[u] = "dockerStart"
    /\ \/ ContainerStarts /\ TakesEffect /\ UNCHANGED outside
       \/ Up /\ UNCHANGED <<server, epoch, revived>>
    /\ Goto(u, "started")
    /\ UNCHANGED <<controller, seen, got, making, settled, asked, firstRun>>

DockerStartFailed(u) ==
    /\ pc[u] = "dockerStart"
    /\ \/ ContainerStarts /\ TakesEffect /\ UNCHANGED outside
       \/ UNCHANGED <<server, epoch, revived>>
    /\ End(u, "failed")
    /\ UNCHANGED <<controller, seen, got, making, settled, asked, firstRun>>

LeaveStart(u) ==
    /\ pc[u] = "started"
    /\ Invalidate
    /\ End(u, "ok")
    /\ UNCHANGED <<listGate, stopping, cachedVersion, versionReadFor>>
    /\ UNCHANGED <<seen, making, server, epoch, asked, firstRun, revived>>

-----------------------------------------------------------------------------
(***************************************************************************)
(* SendCommandAsync with a command that is not empty.                      *)
(***************************************************************************)
SendCommand(u) ==
    /\ Begin(u, "command", "command")
    /\ UNCHANGED controller

\* The server runs it; "stop" typed at the console also closes it.
CommandRuns(u) ==
    /\ pc[u] = "command"
    /\ phase = "ready"
    /\ phase' \in {"ready", "closing"}
    /\ TakesEffect
    /\ Goto(u, "commandRan")
    /\ UNCHANGED <<controller, seen, got, making, run, exit, banner, outside>>
    /\ UNCHANGED <<settled, asked, firstRun, revived>>

\* Mutant: the cached listing survives the command.
CommandReturnsKeepingCache(u) ==
    /\ pc[u] = "commandRan"
    /\ settled' = epoch
    /\ End(u, "ok")
    /\ UNCHANGED <<controller, seen, got, making, server, epoch, asked, firstRun, revived>>

CommandReturns(u) ==
    /\ pc[u] = "commandRan"
    /\ Invalidate
    /\ End(u, "ok")
    /\ UNCHANGED <<listGate, stopping, cachedVersion, versionReadFor, seen, making>>
    /\ UNCHANGED <<server, epoch, asked, firstRun, revived>>

\* ExecuteAsync throws, whether or not the command was run: no Invalidate.
CommandFailed(u) ==
    /\ pc[u] \in {"command", "commandRan"}
    /\ End(u, "failed")
    /\ UNCHANGED <<controller, seen, got, making, server, history>>

-----------------------------------------------------------------------------
(***************************************************************************)
(* GetSnapshotAsync and GetPlayersAsync.                                   *)
(***************************************************************************)
GetSnapshot(u) ==
    /\ Begin(u, "snapshot", IF HasDocker THEN "inspect" ELSE "listGate")
    /\ UNCHANGED controller

GetPlayers(u) ==
    /\ Begin(u, "players", "listGate")
    /\ UNCHANGED controller

\* InspectAsync: what the daemon says, or null when it cannot be asked.
Inspect(u) ==
    /\ pc[u] = "inspect"
    /\ \E s \in {Unknown, [known |-> TRUE, is |-> phase, exit |-> exit,
                           started |-> IF phase = "missing" THEN 0 ELSE run]} :
        seen' = [seen EXCEPT ![u] = s]
    /\ Goto(u, "listGate")
    /\ UNCHANGED <<controller, got, making, server, history>>

\* DetermineState.
IsCleanExit(code) == code \in {0, 130, 137, 143}

StateOf(container, answering) ==
    CASE ~container.known -> IF answering THEN "Running" ELSE "Stopped"
      [] container.known /\ container.is = "missing" -> "Faulted"
      [] container.known /\ container.is = "down" ->
            IF IsCleanExit(container.exit) THEN "Stopped" ELSE "Faulted"
      [] OTHER ->
            IF stopping THEN "Stopping" ELSE IF answering THEN "Running" ELSE "Starting"

\* GetListingAsync has returned: GetPlayersAsync has no await left, a snapshot
\* goes on to ReadPropertiesAsync, which never fails it.
ListingReturned(u, listing) ==
    /\ IF op[u] = "snapshot"
       THEN /\ Goto(u, "properties")
            /\ got' = [got EXCEPT ![u] = listing]
            /\ UNCHANGED seen
       ELSE /\ End(u, "ok")
            /\ got' = [got EXCEPT ![u] = NoListing]
            /\ seen' = [seen EXCEPT ![u] = Unknown]
    /\ asked' = [asked EXCEPT ![u] = 0]
    /\ UNCHANGED <<stopping, cachedVersion, versionReadFor, making, server, epoch, settled, firstRun, revived>>

\* VersionFor: the head of the log is read again when StartedAt, null included,
\* is not the one it was last read for.
VersionIsCached(u) == cachedVersion # 0 /\ versionReadFor = seen[u].started

\* server.properties has been read: what is left of the snapshot has no await,
\* and no lock against other snapshots.  Up to VersionFor's check it writes
\* nothing; the cached version ends it ...
PropertiesRead(u) ==
    /\ pc[u] = "properties"
    /\ \/ VersionIsCached(u) /\ End(u, "ok") /\ UNCHANGED making
       \/ /\ ~VersionIsCached(u)
          /\ Goto(u, "readLog")
          /\ making' = [making EXCEPT ![u] = [started |-> seen[u].started, version |-> 0]]
    /\ seen' = [seen EXCEPT ![u] = Unknown]
    /\ got' = [got EXCEPT ![u] = NoListing]
    /\ UNCHANGED <<controller, server, history>>

\* ... or logReader.ReadVersion ...
ReadLogHead(u) ==
    /\ pc[u] = "readLog"
    /\ making' = [making EXCEPT ![u].version = banner]
    /\ Goto(u, "assign")
    /\ UNCHANGED <<controller, seen, got, server, history>>

\* ... and the two assignments do.
AssignVersion(u) ==
    /\ pc[u] = "assign"
    /\ cachedVersion' = making[u].version
    /\ Goto(u, "assignFor")
    /\ UNCHANGED <<listGate, cachedListing, stopping, versionReadFor, seen, got, making, server, history>>

AssignReadFor(u) ==
    /\ pc[u] = "assignFor"
    /\ versionReadFor' = making[u].started
    /\ making' = [making EXCEPT ![u] = NoSnapshot]
    /\ End(u, "ok")
    /\ UNCHANGED <<listGate, cachedListing, stopping, cachedVersion, seen, got, server, history>>

\* Mutant: the gate is not waited for.
EnterListGateUnlocked(u) ==
    /\ pc[u] = "listGate"
    /\ cachedListing = NoListing
    /\ listGate' = listGate - 1
    /\ Goto(u, "list")
    /\ UNCHANGED <<cachedListing, stopping, cachedVersion, versionReadFor>>
    /\ UNCHANGED <<seen, got, making, server, history>>

\* listGate.WaitAsync: there is no listing, or it is too old.
EnterListGate(u) ==
    /\ pc[u] = "listGate"
    /\ listGate > 0
    /\ cachedListing = NoListing
    /\ listGate' = listGate - 1
    /\ Goto(u, "list")
    /\ UNCHANGED <<cachedListing, stopping, cachedVersion, versionReadFor>>
    /\ UNCHANGED <<seen, got, making, server, history>>

\* ... or it is returned and the gate released at once.
UseCachedListing(u) ==
    /\ pc[u] = "listGate"
    /\ listGate > 0
    /\ cachedListing # NoListing
    /\ ListingReturned(u, cachedListing)
    /\ UNCHANGED <<listGate, cachedListing>>

\* The server answers "list"; ParseListing may not recognise the answer.
ListAnswered(u) ==
    /\ pc[u] = "list"
    /\ phase = "ready"
    /\ \E listing \in {NoListing, [asOf |-> epoch, late |-> FALSE]} :
        got' = [got EXCEPT ![u] = listing]
    /\ Goto(u, "store")
    /\ UNCHANGED <<controller, seen, making, server, history>>

\* ExecuteAsync throws, except for a wrong password: there is no listing.
ListFailed(u) ==
    /\ pc[u] = "list"
    /\ Goto(u, "store")
    /\ UNCHANGED <<controller, seen, got, making, server, history>>

\* Mutant: the gate is released after a reply only, not in a finally.
ListDeniedInGate(u) ==
    /\ pc[u] = "list"
    /\ phase = "ready"
    /\ seen' = [seen EXCEPT ![u] = Unknown]
    /\ asked' = [asked EXCEPT ![u] = 0]
    /\ End(u, "failed")
    /\ UNCHANGED <<controller, got, making, server, epoch, settled, firstRun, revived>>

\* RconAuthenticationException leaves through the finally, the cache untouched.
ListDenied(u) ==
    /\ pc[u] = "list"
    /\ phase = "ready"
    /\ listGate' = listGate + 1
    /\ seen' = [seen EXCEPT ![u] = Unknown]
    /\ asked' = [asked EXCEPT ![u] = 0]
    /\ End(u, "failed")
    /\ UNCHANGED <<cachedListing, stopping, cachedVersion, versionReadFor>>
    /\ UNCHANGED <<got, making, server, epoch, settled, firstRun, revived>>

\* The listing is cached, the gate released.
StoreListing(u) ==
    /\ pc[u] = "store"
    /\ cachedListing' = got[u]
    /\ listGate' = listGate + 1
    /\ ListingReturned(u, got[u])

\* ListCacheWindow passes.
ListingExpires ==
    /\ cachedListing # NoListing
    /\ cachedListing' = NoListing
    /\ UNCHANGED <<listGate, stopping, cachedVersion, versionReadFor, flow, server, history>>

-----------------------------------------------------------------------------
(***************************************************************************)
(* The server and its container (external).                                *)
(***************************************************************************)

\* The process is gone: its restart policy brings it straight back.
ProcessEnds(code) ==
    /\ \/ RestartPolicy /\ phase' = "loading" /\ run' = run + 1 /\ exit' = 0
       \/ ~RestartPolicy /\ phase' = "down" /\ exit' = code /\ UNCHANGED run
    /\ UNCHANGED <<banner, controller, flow, history>>

\* A server that was told to stop ends.
ServerCloses ==
    /\ phase = "closing"
    /\ ProcessEnds(0)
    /\ UNCHANGED outside

\* It crashes.
ServerCrashes ==
    /\ phase \in {"loading", "ready"}
    /\ outside < MaxOutside
    /\ outside' = outside + 1
    /\ ProcessEnds(1)

\* A new run replaces latest.log, then opens RCON.
BannerWritten ==
    /\ phase = "loading"
    /\ banner < run
    /\ banner' = run
    /\ UNCHANGED <<phase, run, exit, outside, controller, flow, history>>

ServerLoaded ==
    /\ phase = "loading"
    /\ banner = run
    /\ phase' = "ready"
    /\ UNCHANGED <<run, exit, banner, outside, controller, flow, history>>

\* Somebody starts the container without this application.
HostStart ==
    /\ outside < MaxOutside
    /\ outside' = outside + 1
    /\ ContainerStarts
    /\ UNCHANGED <<controller, flow, epoch, settled, asked, firstRun>>

-----------------------------------------------------------------------------
StopStep(u) ==
    \/ RconStopTaken(u) \/ RconStopLost(u) \/ RconStopFailed(u) \/ RconStopDenied(u)
    \/ DockerStop(u) \/ DockerStopFailed(u)
    \/ WaitForExit(u) \/ WaitTimedOut(u)

StartStep(u) == DockerStart(u) \/ DockerStartFailed(u) \/ LeaveStart(u)

CommandStep(u) == CommandRuns(u) \/ CommandReturns(u) \/ CommandFailed(u)

ListingStep(u) ==
    \/ Inspect(u) \/ UseCachedListing(u)
    \/ ListAnswered(u) \/ ListFailed(u) \/ ListDenied(u) \/ StoreListing(u)

VersionStep(u) ==
    \/ PropertiesRead(u) \/ ReadLogHead(u)
    \/ AssignVersion(u) \/ AssignReadFor(u)

Step(u) == StopStep(u) \/ StartStep(u) \/ CommandStep(u) \/ ListingStep(u) \/ VersionStep(u)

Ask(u) ==
    \/ Start(u) \/ Stop(u) \/ Restart(u)
    \/ SendCommand(u) \/ GetSnapshot(u) \/ GetPlayers(u)

Outside ==
    \/ ListingExpires \/ ServerCloses \/ ServerCrashes
    \/ BannerWritten \/ ServerLoaded \/ HostStart

Next ==
    \/ \E u \in Users : Ask(u) \/ Step(u) \/ EnterListGate(u)
    \/ Outside

Spec == Init /\ [][Next]_vars

\* Every await comes back (RconClient and HttpClient have timeouts), and
\* SemaphoreSlim lets a waiter in when the gate keeps being free.
FairSpec ==
    /\ Spec
    /\ \A u \in Users : WF_vars(Step(u)) /\ SF_vars(EnterListGate(u) \/ UseCachedListing(u))

-----------------------------------------------------------------------------
(***************************************************************************)
(* Properties.                                                             *)
(***************************************************************************)

Listings == [asOf : Nat, late : BOOLEAN]
Phases == {"missing", "down", "loading", "ready", "closing"}
Steps == {"idle", "stopRcon", "dockerStop", "wait", "dockerStart", "started", "command",
          "commandRan", "inspect", "listGate", "list", "store", "properties",
          "readLog", "assign", "assignFor"}
Operations == {"none", "start", "stop", "restart", "command", "snapshot", "players"}
Results == {"none", "ok", "failed", "timeout", "refused"}
Containers == [known : BOOLEAN, is : Phases, exit : Nat, started : Nat]
Snapshots == [started : Nat, version : Nat]

ControllerType ==
    /\ listGate \in {0, 1}
    /\ cachedListing \in Listings
    /\ stopping \in BOOLEAN
    /\ cachedVersion \in Nat
    /\ versionReadFor \in Nat

FlowType ==
    /\ pc \in [Users -> Steps]
    /\ op \in [Users -> Operations]
    /\ result \in [Users -> Results]
    /\ seen \in [Users -> Containers]
    /\ got \in [Users -> Listings]
    /\ making \in [Users -> Snapshots]
    /\ ops \in Nat

ServerType ==
    /\ phase \in Phases
    /\ run \in Nat
    /\ exit \in Nat
    /\ banner \in Nat
    /\ outside \in Nat

HistoryType ==
    /\ epoch \in Nat \ {0}
    /\ settled \in Nat
    /\ asked \in [Users -> Nat]
    /\ firstRun \in [Users -> Nat]
    /\ revived \in [Users -> BOOLEAN]

\* Every variable holds a value of its type; in particular listGate never goes
\* above the one place GetListingAsync's finally gives back.
TypeOK == ControllerType /\ FlowType /\ ServerType /\ HistoryType

Finished(u, what, how) == pc[u] = "idle" /\ op[u] = what /\ result[u] = how

\* A stop that came back as a success has stopped the server for good: until
\* somebody starts it, it stays down, whatever its restart policy (the comment
\* in StopAsync on why RCON alone is not enough).
StopSticks ==
    HasDocker => \A u \in Users : Finished(u, "stop", "ok") /\ ~revived[u] => ~Up

\* RestartAsync: a restart that came back as a success has put a new run of the
\* server in the place of the one it found, whatever the other users did.
RestartMeansNewRun ==
    \A u \in Users : Finished(u, "restart", "ok") => run > firstRun[u]

\* WaitForExitAsync: the TimeoutException is raised only when the container was
\* started again, by somebody, after Docker had stopped it.
TimeoutMeansStarted ==
    \A u \in Users : result[u] = "timeout" => revived[u]

\* StopAsync's finally: however the stops of all users end, no page is left
\* showing "Stopping" once none of them is in progress.
StoppingFlagIsHeld == stopping => \E u \in Users : pc[u] \in StopSteps

\* Invalidate and ListCacheWindow: a listing GetListingAsync is about to return
\* is no older than the last invalidation before it was asked for; the one
\* exception was on its way to the cache when the cache was invalidated.
Recent(u, listing) == listing = NoListing \/ listing.late \/ listing.asOf >= asked[u]

NoStaleListing ==
    \A u \in Users : /\ pc[u] = "listGate" => Recent(u, cachedListing)
                     /\ pc[u] = "store" => Recent(u, got[u])

\* VersionFor: "The banner only changes when the server restarts, so re-read the
\* log head then": of a running server whose banner heads the log, that banner is
\* what is cached when the log is not read again.
VersionFollowsLog ==
    \A u \in Users : /\ pc[u] = "properties" /\ VersionIsCached(u)
                     /\ StateOf(seen[u], got[u] # NoListing) = "Running"
                     /\ seen[u].started = banner
                     => cachedVersion = banner

\* The listing gate and the finally blocks: every operation comes back, with an
\* answer or an error, whatever the server, Docker and the other users do.
EveryOperationEnds == \A u \in Users : pc[u] # "idle" ~> pc[u] = "idle"
=============================================================================
