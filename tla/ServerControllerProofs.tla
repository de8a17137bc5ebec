----------------------- MODULE ServerControllerProofs -----------------------
(***************************************************************************)
(* Theorems about ServerController, for every set of users, with and       *)
(* without Docker, under every restart policy and every bound.             *)
(***************************************************************************)
EXTENDS ServerController, TLAPS

(***************************************************************************)
(* What a stop and a restart rely on.  An operation has no result before   *)
(* it ends; whoever is past docker.StopAsync in StopAsync is stopping or   *)
(* restarting, and has seen the container down unless it was started since.*)
(***************************************************************************)
NoResultYet == \A u \in Users : pc[u] # "idle" => result[u] = "none"

StopsOrRestarts ==
    \A u \in Users : /\ pc[u] \in StopSteps => op[u] \in {"stop", "restart"}
                     /\ op[u] = "stop" /\ pc[u] # "idle" => pc[u] \in StopSteps

DownUnlessStarted ==
    HasDocker => \A u \in Users : pc[u] = "wait" \/ Finished(u, "stop", "ok") => revived[u] \/ ~Up

StopInv == NoResultYet /\ StopsOrRestarts /\ DownUnlessStarted /\ TimeoutMeansStarted

(***************************************************************************)
(* How far a restart has come: it found run firstRun; once Docker has      *)
(* stopped the container, either that run has been replaced or the         *)
(* container is down; and once docker.StartAsync is back, it is replaced.  *)
(***************************************************************************)
RestartSoFar(u) ==
    /\ firstRun[u] =< run
    /\ pc[u] \in StopSteps \cup {"dockerStart", "started", "idle"}
    /\ pc[u] # "idle" => HasDocker
    /\ pc[u] \in {"wait", "dockerStart"} => run > firstRun[u] \/ ~Up
    /\ pc[u] = "started" => run > firstRun[u]
    /\ pc[u] = "idle" /\ result[u] = "ok" => run > firstRun[u]

RestartInv == \A u \in Users : op[u] = "restart" => RestartSoFar(u)

(***************************************************************************)
(* Nothing the cache holds, or will hold, is older than the last           *)
(* invalidation, except what was overtaken by it.                          *)
(***************************************************************************)
Current(listing) == listing = NoListing \/ listing.late \/ listing.asOf >= settled

CacheInv ==
    /\ settled =< epoch
    /\ \A u \in Users : asked[u] =< settled
    /\ Current(cachedListing)
    /\ \A u \in Users : pc[u] = "store" => Current(got[u])
    /\ \A u \in Users : pc[u] \notin {"store", "properties"} => got[u] = NoListing

-----------------------------------------------------------------------------
(***************************************************************************)
(* Type correctness.  That listGate stays within its one place rests on    *)
(* whoever is between WaitAsync and Release having taken it.               *)
(***************************************************************************)
GateInv ==
    /\ \A u \in Users : pc[u] \in InListing => listGate = 0
    /\ \A u, v \in Users : pc[u] \in InListing /\ pc[v] \in InListing => u = v

\* The two listings the code makes are listings.
LEMMA ListingTypes == NoListing \in Listings /\ \A n \in Nat : [asOf |-> n, late |-> FALSE] \in Listings
BY DEF NoListing, Listings

\* Invalidate marks listings on their way to the cache and changes nothing else of them.
LEMMA InvalidateType ==
    ASSUME TypeOK, Invalidate
    PROVE  cachedListing' \in Listings /\ got' \in [Users -> Listings] /\ settled' \in Nat
<1>1. \A l \in Listings, b \in BOOLEAN : [l EXCEPT !.late = b] \in Listings
  BY DEF Listings
<1>2. \A v \in Users : [got[v] EXCEPT !.late = got[v].asOf > 0] \in Listings
  <2>1. ASSUME NEW v \in Users
        PROVE  [got[v] EXCEPT !.late = got[v].asOf > 0] \in Listings
    <3>1. got[v] \in Listings
      BY DEF TypeOK, FlowType
    <3>2. (got[v].asOf > 0) \in BOOLEAN
      OBVIOUS
    <3>. QED  BY <1>1, <3>1, <3>2, Zenon
  <2>. QED  BY <2>1
<1>. QED  BY <1>2, ListingTypes DEF TypeOK, FlowType, HistoryType, Invalidate

\* StopAsync's finally keeps the controller, the flows and settled well typed.
LEMMA LeaveStopType ==
    ASSUME TypeOK, NEW u \in Users, NEW how \in Results, LeaveStop(u, how)
    PROVE  ControllerType' /\ FlowType' /\ settled' \in Nat /\ UNCHANGED <<asked, firstRun>>
<1>1. cachedListing' \in Listings /\ got' \in [Users -> Listings] /\ settled' \in Nat
  BY InvalidateType DEF LeaveStop
<1>2. ControllerType'
  BY <1>1 DEF TypeOK, ControllerType, LeaveStop
<1>3. UNCHANGED <<seen, making, asked, firstRun>>
  BY DEF LeaveStop
<1>4. /\ pc' \in [Users -> Steps]
      /\ result' \in [Users -> Results]
      /\ UNCHANGED <<op, ops>>
  <2>1. CASE Goto(u, "dockerStart")
    BY <2>1 DEF TypeOK, FlowType, Goto, Steps
  <2>2. CASE End(u, how)
    BY <2>2 DEF TypeOK, FlowType, End, Steps
  <2>. QED  BY <2>1, <2>2 DEF LeaveStop
<1>. QED  BY <1>1, <1>2, <1>3, <1>4 DEF TypeOK, FlowType

\* Starting the container keeps the server and revived well typed.
LEMMA ContainerStartsType ==
    ASSUME TypeOK, ContainerStarts
    PROVE  /\ phase' \in Phases /\ run' \in Nat /\ exit' \in Nat /\ UNCHANGED banner
           /\ revived' \in [Users -> BOOLEAN]
<1>1. phase' \in Phases /\ run' \in Nat /\ exit' \in Nat /\ UNCHANGED banner
  BY DEF TypeOK, ServerType, ContainerStarts, Phases
<1>2. revived' \in [Users -> BOOLEAN]
  BY Zenon DEF TypeOK, HistoryType, ContainerStarts
<1>. QED  BY <1>1, <1>2

\* InspectAsync returns a ContainerState or null.
LEMMA InspectType ==
    ASSUME TypeOK, NEW u \in Users, Inspect(u)
    PROVE  seen' \in [Users -> Containers]
<1>1. Unknown \in Containers
  BY DEF Unknown, Containers, Phases
<1>2. [known |-> TRUE, is |-> phase, exit |-> exit,
       started |-> IF phase = "missing" THEN 0 ELSE run] \in Containers
  BY DEF TypeOK, ServerType, Containers
<1>. QED  BY <1>1, <1>2 DEF TypeOK, FlowType, Inspect

\* GetListingAsync has returned to GetSnapshotAsync or GetPlayersAsync.
LEMMA ListingReturnedType ==
    ASSUME TypeOK, NEW u \in Users, NEW listing \in Listings, ListingReturned(u, listing)
    PROVE  /\ FlowType' /\ ServerType' /\ HistoryType'
           /\ UNCHANGED <<cachedVersion, versionReadFor, stopping>>
<1>1. UNCHANGED <<stopping, cachedVersion, versionReadFor, making, server, epoch, settled, firstRun, revived>>
  BY DEF ListingReturned
<1>2. ServerType'
  BY <1>1 DEF TypeOK, ServerType, server
<1>3. asked' \in [Users -> Nat]
  BY DEF TypeOK, HistoryType, ListingReturned
<1>4. HistoryType'
  BY <1>1, <1>3 DEF TypeOK, HistoryType
<1>5. seen' \in [Users -> Containers]
  <2>1. Unknown \in Containers
    BY DEF Unknown, Containers, Phases
  <2>2. UNCHANGED seen \/ seen' = [seen EXCEPT ![u] = Unknown]
    BY DEF ListingReturned
  <2>. QED  BY <2>1, <2>2 DEF TypeOK, FlowType
<1>6. got' \in [Users -> Listings]
  BY ListingTypes DEF TypeOK, FlowType, ListingReturned
<1>7. pc' \in [Users -> Steps] /\ result' \in [Users -> Results] /\ UNCHANGED <<op, ops>>
  BY DEF TypeOK, FlowType, ListingReturned, Goto, End, Steps, Results
<1>. QED  BY <1>1, <1>2, <1>4, <1>5, <1>6, <1>7 DEF TypeOK, FlowType

VersionSteps == {"properties", "readLog", "assign", "assignFor"}

\* The rest of a snapshot touches nothing but itself and the cached version.
LEMMA VersionStepFrame ==
    ASSUME NEW u \in Users, VersionStep(u)
    PROVE  /\ UNCHANGED <<listGate, cachedListing, stopping, server, history>>
           /\ pc[u] \in VersionSteps
           /\ (\E at \in VersionSteps \ {"properties"} : Goto(u, at)) \/ End(u, "ok")
           /\ \/ UNCHANGED got /\ pc[u] # "properties"
              \/ got' = [got EXCEPT ![u] = NoListing]
BY DEF VersionStep, PropertiesRead, ReadLogHead, AssignVersion, AssignReadFor, VersionSteps, controller

\* ... and keeps their types.
LEMMA VersionStepType == ASSUME TypeOK, NEW u \in Users, VersionStep(u) PROVE TypeOK'
<1>1. ServerType' /\ HistoryType'
  BY VersionStepFrame DEF TypeOK, ServerType, HistoryType, server, history
<1>2. pc' \in [Users -> Steps] /\ result' \in [Users -> Results] /\ UNCHANGED <<op, ops>>
  BY VersionStepFrame DEF TypeOK, FlowType, Goto, End, Steps, Results, VersionSteps
<1>3. got' \in [Users -> Listings]
  BY VersionStepFrame, ListingTypes DEF TypeOK, FlowType
<1>4. seen' \in [Users -> Containers]
  <2>1. UNCHANGED seen \/ seen' = [seen EXCEPT ![u] = Unknown]
    BY DEF VersionStep, PropertiesRead, ReadLogHead, AssignVersion, AssignReadFor
  <2>2. Unknown \in Containers
    BY DEF Unknown, Containers, Phases
  <2>. QED  BY <2>1, <2>2 DEF TypeOK, FlowType
<1>5. making[u] \in Snapshots /\ seen[u].started \in Nat /\ banner \in Nat
  BY DEF TypeOK, FlowType, Containers, ServerType
<1>6. making' \in [Users -> Snapshots]
  <2>1. CASE PropertiesRead(u)
    <3>1. [started |-> seen[u].started, version |-> 0] \in Snapshots
      BY <1>5 DEF Snapshots
    <3>. QED  BY <2>1, <3>1 DEF PropertiesRead, TypeOK, FlowType
  <2>2. CASE ReadLogHead(u)
    <3>1. making' = [making EXCEPT ![u] = [@ EXCEPT !.version = banner]]
      BY <2>2 DEF ReadLogHead
    <3>2. [making[u] EXCEPT !.version = banner] \in Snapshots
      BY <1>5 DEF Snapshots
    <3>. QED  BY <3>1, <3>2 DEF TypeOK, FlowType
  <2>3. CASE AssignVersion(u)
    BY <2>3 DEF AssignVersion, TypeOK, FlowType
  <2>4. CASE AssignReadFor(u)
    BY <2>4 DEF AssignReadFor, TypeOK, FlowType, NoSnapshot, Snapshots
  <2>. QED  BY <2>1, <2>2, <2>3, <2>4 DEF VersionStep
<1>7. cachedVersion' \in Nat /\ versionReadFor' \in Nat
  BY <1>5 DEF VersionStep, PropertiesRead, ReadLogHead, AssignVersion, AssignReadFor, Snapshots, controller, TypeOK, ControllerType
<1>8. ControllerType'
  BY <1>7, VersionStepFrame DEF TypeOK, ControllerType
<1>. QED  BY <1>1, <1>2, <1>3, <1>4, <1>6, <1>8 DEF TypeOK, FlowType

\* Every step keeps every variable in its type.
LEMMA TypeStep == TypeOK /\ GateInv /\ [Next]_vars => TypeOK'
<1> SUFFICES ASSUME TypeOK, GateInv, [Next]_vars
             PROVE  TypeOK'
  OBVIOUS
<1>. USE DEF TypeOK, ControllerType, FlowType, ServerType, HistoryType, Steps, Phases,
             Operations, Results, Containers, Snapshots, Unknown, NoSnapshot,
             vars, controller, flow, server, history
<1>1. ASSUME NEW u \in Users, Start(u)
      PROVE  TypeOK'
  BY <1>1 DEF Start, Begin
<1>2. ASSUME NEW u \in Users, Stop(u)
      PROVE  TypeOK'
  BY <1>2 DEF Stop, Begin
<1>3. ASSUME NEW u \in Users, Restart(u)
      PROVE  TypeOK'
  BY <1>3 DEF Restart, Begin
<1>4. ASSUME NEW u \in Users, SendCommand(u)
      PROVE  TypeOK'
  BY <1>4 DEF SendCommand, Begin
<1>5. ASSUME NEW u \in Users, GetSnapshot(u)
      PROVE  TypeOK'
  BY <1>5 DEF GetSnapshot, Begin
<1>6. ASSUME NEW u \in Users, GetPlayers(u)
      PROVE  TypeOK'
  BY <1>6 DEF GetPlayers, Begin
<1>7. ASSUME NEW u \in Users, RconStopTaken(u)
      PROVE  TypeOK'
  <2>1. /\ Goto(u, IF HasDocker THEN "dockerStop" ELSE "wait")
        /\ UNCHANGED <<controller, seen, got, making, settled, asked, firstRun, revived>>
        /\ epoch' = epoch + 1 /\ phase' = "closing" /\ UNCHANGED <<run, exit, banner, outside>>
    BY <1>7 DEF RconStopTaken, TakesEffect, AfterRconStop
  <2>. QED  BY <2>1 DEF Goto
<1>8. ASSUME NEW u \in Users, RconStopLost(u)
      PROVE  TypeOK'
  BY <1>8 DEF RconStopLost, AfterRconStop, LeaveStop, Invalidate, Goto, End
<1>9. ASSUME NEW u \in Users, RconStopFailed(u)
      PROVE  TypeOK'
  <2>1. CASE LeaveStop(u, "refused")
    BY <1>9, <2>1, LeaveStopType DEF RconStopFailed
  <2>2. CASE HasDocker /\ ~LeaveStop(u, "refused")
    BY <1>9, <2>2 DEF RconStopFailed, AfterRconStop, Goto
  <2>. QED  BY <1>9, <2>1, <2>2 DEF RconStopFailed, AfterRconStop
<1>10. ASSUME NEW u \in Users, RconStopDenied(u)
      PROVE  TypeOK'
  BY <1>10, LeaveStopType DEF RconStopDenied
<1>11. ASSUME NEW u \in Users, DockerStop(u)
      PROVE  TypeOK'
  BY <1>11 DEF DockerStop, ContainerStops, TakesEffect, Goto
<1>12. ASSUME NEW u \in Users, DockerStopFailed(u)
      PROVE  TypeOK'
  <2>1. ControllerType' /\ FlowType' /\ settled' \in Nat /\ UNCHANGED <<asked, firstRun, revived>>
    BY <1>12, LeaveStopType DEF DockerStopFailed
  <2>2. ServerType' /\ epoch' \in Nat \ {0}
    BY <1>12 DEF DockerStopFailed, ContainerStops, TakesEffect
  <2>. QED  BY <2>1, <2>2
<1>13. ASSUME NEW u \in Users, WaitForExit(u)
      PROVE  TypeOK'
  BY <1>13, LeaveStopType DEF WaitForExit
<1>14. ASSUME NEW u \in Users, WaitTimedOut(u)
      PROVE  TypeOK'
  BY <1>14, LeaveStopType DEF WaitTimedOut
<1>15. ASSUME NEW u \in Users, DockerStart(u)
      PROVE  TypeOK'
  <2>1. ControllerType' /\ FlowType' /\ UNCHANGED <<settled, asked, firstRun>>
    BY <1>15 DEF DockerStart, Goto
  <2>2. ServerType' /\ epoch' \in Nat \ {0} /\ revived' \in [Users -> BOOLEAN]
    BY <1>15, ContainerStartsType DEF DockerStart, TakesEffect
  <2>. QED  BY <2>1, <2>2
<1>16. ASSUME NEW u \in Users, DockerStartFailed(u)
      PROVE  TypeOK'
  <2>1. ControllerType' /\ FlowType' /\ UNCHANGED <<settled, asked, firstRun>>
    BY <1>16 DEF DockerStartFailed, End
  <2>2. ServerType' /\ epoch' \in Nat \ {0} /\ revived' \in [Users -> BOOLEAN]
    BY <1>16, ContainerStartsType DEF DockerStartFailed, TakesEffect
  <2>. QED  BY <2>1, <2>2
<1>17. ASSUME NEW u \in Users, LeaveStart(u)
      PROVE  TypeOK'
  <2>1. cachedListing' \in Listings /\ got' \in [Users -> Listings] /\ settled' \in Nat
    BY <1>17, InvalidateType DEF LeaveStart
  <2>. QED  BY <1>17, <2>1 DEF LeaveStart, End
<1>18. ASSUME NEW u \in Users, CommandRuns(u)
      PROVE  TypeOK'
  BY <1>18 DEF CommandRuns, TakesEffect, Goto
<1>19. ASSUME NEW u \in Users, CommandReturns(u)
      PROVE  TypeOK'
  <2>1. cachedListing' \in Listings /\ got' \in [Users -> Listings] /\ settled' \in Nat
    BY <1>19, InvalidateType DEF CommandReturns
  <2>. QED  BY <1>19, <2>1 DEF CommandReturns, End
<1>20. ASSUME NEW u \in Users, CommandFailed(u)
      PROVE  TypeOK'
  BY <1>20 DEF CommandFailed, End
<1>21. ASSUME NEW u \in Users, Inspect(u)
      PROVE  TypeOK'
  BY <1>21, InspectType DEF Inspect, Goto
<1>22. ASSUME NEW u \in Users, UseCachedListing(u)
      PROVE  TypeOK'
  BY <1>22, ListingReturnedType DEF UseCachedListing
<1>23. ASSUME NEW u \in Users, ListAnswered(u)
      PROVE  TypeOK'
  <2>1. got' \in [Users -> Listings]
    BY <1>23, ListingTypes DEF ListAnswered
  <2>. QED  BY <1>23, <2>1 DEF ListAnswered, Goto
<1>24. ASSUME NEW u \in Users, ListFailed(u)
      PROVE  TypeOK'
  BY <1>24 DEF ListFailed, Goto
<1>25. ASSUME NEW u \in Users, ListDenied(u)
      PROVE  TypeOK'
  <2>1. listGate' = 1
    BY <1>25 DEF ListDenied, GateInv, InListing
  <2>2. seen' \in [Users -> Containers] /\ asked' \in [Users -> Nat]
    BY <1>25 DEF ListDenied
  <2>. QED  BY <1>25, <2>1, <2>2 DEF ListDenied, End
<1>26. ASSUME NEW u \in Users, StoreListing(u)
      PROVE  TypeOK'
  <2>1. got[u] \in Listings /\ listGate' = 1
    BY <1>26 DEF StoreListing, GateInv, InListing
  <2>. QED  BY <1>26, <2>1, ListingReturnedType DEF StoreListing
<1>27. ASSUME NEW u \in Users, EnterListGate(u)
      PROVE  TypeOK'
  BY <1>27 DEF EnterListGate, Goto
<1>28. CASE ListingExpires
  BY <1>28, ListingTypes DEF ListingExpires
<1>29. CASE ServerCloses
  BY <1>29 DEF ServerCloses, ProcessEnds
<1>30. CASE ServerCrashes
  BY <1>30 DEF ServerCrashes, ProcessEnds
<1>31. CASE BannerWritten
  BY <1>31 DEF BannerWritten
<1>32. CASE ServerLoaded
  BY <1>32 DEF ServerLoaded
<1>33. CASE HostStart
  BY <1>33 DEF HostStart, ContainerStarts
<1>34. CASE UNCHANGED vars
  BY <1>34
<1>35. ASSUME NEW u \in Users, VersionStep(u)
      PROVE  TypeOK'
  BY <1>35, VersionStepType
<1>. QED  BY <1>1, <1>2, <1>3, <1>4, <1>5, <1>6, <1>7, <1>8, <1>9, <1>10, <1>11, <1>12, <1>13, <1>14, <1>15, <1>16, <1>17, <1>18, <1>19, <1>20, <1>21, <1>22, <1>23, <1>24, <1>25, <1>26, <1>27, <1>28, <1>29, <1>30, <1>31, <1>32, <1>33, <1>34, <1>35 DEF Next, Ask, Step, StopStep, StartStep, CommandStep, ListingStep, Outside

\* The gate is taken by whoever asks for a listing, and given back by it.
LEMMA GateStep == TypeOK /\ GateInv /\ [Next]_vars => GateInv'
<1> SUFFICES ASSUME TypeOK, GateInv, [Next]_vars
             PROVE  GateInv'
  OBVIOUS
<1>0. listGate \in {0, 1} /\ pc \in [Users -> Steps]
  BY DEF TypeOK, ControllerType, FlowType
<1>. USE DEF GateInv, InListing
<1>1. ASSUME NEW u \in Users, NEW at \in Steps, at \notin InListing, pc[u] \notin InListing,
             pc' = [pc EXCEPT ![u] = at], UNCHANGED listGate
      PROVE  GateInv'
  BY <1>0, <1>1
<1>2. ASSUME NEW u \in Users, Ask(u)
      PROVE  GateInv'
  <2>1. UNCHANGED listGate
    BY <1>2 DEF Ask, Start, Stop, Restart, SendCommand, GetSnapshot, GetPlayers, controller
  <2>2. PICK at \in Steps \ InListing : pc' = [pc EXCEPT ![u] = at] /\ pc[u] = "idle"
    BY <1>2 DEF Ask, Start, Stop, Restart, SendCommand, GetSnapshot, GetPlayers, Begin, Steps
  <2>. QED  BY <1>1, <2>1, <2>2
<1>3. ASSUME NEW u \in Users, StopStep(u)
      PROVE  GateInv'
  <2>1. UNCHANGED listGate
    BY <1>3 DEF StopStep, RconStopTaken, RconStopLost, RconStopFailed, RconStopDenied, DockerStop,
                DockerStopFailed, WaitForExit, WaitTimedOut, AfterRconStop, LeaveStop, controller
  <2>2. pc[u] \in StopSteps
    BY <1>3 DEF StopStep, RconStopTaken, RconStopLost, RconStopFailed, RconStopDenied, DockerStop,
                DockerStopFailed, WaitForExit, WaitTimedOut, StopSteps
  <2>3. PICK at \in {"dockerStop", "wait", "dockerStart", "idle"} : pc' = [pc EXCEPT ![u] = at]
    BY <1>3 DEF StopStep, RconStopTaken, RconStopLost, RconStopFailed, RconStopDenied, DockerStop,
                DockerStopFailed, WaitForExit, WaitTimedOut, AfterRconStop, LeaveStop, Goto, End
  <2>. QED  BY <1>1, <2>1, <2>2, <2>3 DEF Steps, StopSteps
<1>4. ASSUME NEW u \in Users, StartStep(u) \/ CommandStep(u)
      PROVE  GateInv'
  <2>1. UNCHANGED listGate
    BY <1>4 DEF StartStep, DockerStart, DockerStartFailed, LeaveStart, CommandStep, CommandRuns,
                CommandReturns, CommandFailed, controller
  <2>2. pc[u] \in {"dockerStart", "started", "command", "commandRan"}
    BY <1>4 DEF StartStep, DockerStart, DockerStartFailed, LeaveStart, CommandStep, CommandRuns,
                CommandReturns, CommandFailed
  <2>3. PICK at \in {"started", "commandRan", "idle"} : pc' = [pc EXCEPT ![u] = at]
    BY <1>4 DEF StartStep, DockerStart, DockerStartFailed, LeaveStart, CommandStep, CommandRuns,
                CommandReturns, CommandFailed, Goto, End
  <2>. QED  BY <1>1, <2>1, <2>2, <2>3 DEF Steps
<1>5. ASSUME NEW u \in Users, Inspect(u) \/ UseCachedListing(u)
      PROVE  GateInv'
  BY <1>0, <1>5 DEF Inspect, UseCachedListing, ListingReturned, Goto, End, controller
<1>6. ASSUME NEW u \in Users, ListAnswered(u) \/ ListFailed(u)
      PROVE  GateInv'
  BY <1>0, <1>6 DEF ListAnswered, ListFailed, Goto, controller
<1>7. ASSUME NEW u \in Users, ListDenied(u) \/ StoreListing(u)
      PROVE  GateInv'
  <2>1. listGate' = 1 /\ \A v \in Users : pc[v] \in InListing => v = u
    BY <1>7 DEF ListDenied, StoreListing
  <2>2. PICK at \in {"idle", "properties"} : pc' = [pc EXCEPT ![u] = at]
    BY <1>7 DEF ListDenied, StoreListing, ListingReturned, Goto, End
  <2>. QED  BY <1>0, <2>1, <2>2
<1>8. ASSUME NEW u \in Users, EnterListGate(u)
      PROVE  GateInv'
  BY <1>0, <1>8 DEF EnterListGate, Goto
<1>9. CASE Outside
  <2>1. UNCHANGED <<listGate, pc>>
    BY <1>9 DEF Outside, ListingExpires, ServerCloses, ServerCrashes, ProcessEnds, BannerWritten,
                ServerLoaded, HostStart, controller, flow
  <2>. QED  BY <2>1
<1>10. CASE UNCHANGED vars
  BY <1>10 DEF vars, controller, flow
<1>11. ASSUME NEW u \in Users, VersionStep(u)
      PROVE  GateInv'
  <2>1. UNCHANGED listGate /\ pc[u] \in VersionSteps
    BY <1>11, VersionStepFrame
  <2>2. PICK at \in VersionSteps \cup {"idle"} : pc' = [pc EXCEPT ![u] = at]
    BY <1>11, VersionStepFrame DEF Goto, End
  <2>. QED  BY <1>1, <2>1, <2>2 DEF VersionSteps, Steps
<1>. QED  BY <1>2, <1>3, <1>4, <1>5, <1>6, <1>7, <1>8, <1>9, <1>10, <1>11 DEF Next, Step, ListingStep

\* Initially nobody is in the gate.
LEMMA TypeInit == Init => TypeOK /\ GateInv
<1> SUFFICES ASSUME Init PROVE TypeOK /\ GateInv
  OBVIOUS
<1>1. ControllerType
  BY ListingTypes DEF Init, ControllerType
<1>2. FlowType
  BY ListingTypes DEF Init, FlowType, Steps, Operations, Results, Containers, Phases,
                      Snapshots, Unknown, NoSnapshot
<1>3. ServerType /\ HistoryType
  BY DEF Init, ServerType, HistoryType, Phases
<1>. QED  BY <1>1, <1>2, <1>3 DEF TypeOK, GateInv, InListing, Init

\* The two together are inductive.
LEMMA TypesAndGate == Spec => [](TypeOK /\ GateInv)
BY TypeInit, TypeStep, GateStep, PTL DEF Spec

\* TypeOK, and with it the one place of listGate, holds for every number of users.
THEOREM TypeCorrect == Spec => []TypeOK
BY TypesAndGate, PTL

-----------------------------------------------------------------------------
(***************************************************************************)
(* What the steps do to pc and to the flag, once and for all.              *)
(***************************************************************************)

\* Steps that are not in StopAsync.
OtherStep(u) ==
    \/ Start(u) \/ SendCommand(u) \/ GetSnapshot(u) \/ GetPlayers(u)
    \/ StartStep(u) \/ CommandStep(u) \/ ListingStep(u) \/ VersionStep(u) \/ EnterListGate(u)

\* They neither come from StopAsync nor lead into it, and leave its flag alone.
LEMMA OtherStepFrame ==
    ASSUME NEW u \in Users, OtherStep(u)
    PROVE  /\ UNCHANGED stopping
           /\ pc[u] \notin StopSteps
           /\ \E at \in Steps \ StopSteps : pc' = [pc EXCEPT ![u] = at]
<1>1. CASE Start(u) \/ SendCommand(u) \/ GetSnapshot(u) \/ GetPlayers(u)
  BY <1>1 DEF Start, SendCommand, GetSnapshot, GetPlayers, Begin, controller, Steps, StopSteps
<1>2. CASE StartStep(u) \/ CommandStep(u)
  BY <1>2 DEF StartStep, DockerStart, DockerStartFailed, LeaveStart, CommandStep, CommandRuns,
              CommandReturns, CommandFailed, Goto, End, controller, Steps, StopSteps
<1>3. CASE ListingStep(u) \/ EnterListGate(u)
  BY <1>3 DEF ListingStep, Inspect, UseCachedListing, ListAnswered, ListFailed, ListDenied,
              StoreListing, EnterListGate, ListingReturned, Goto, End, controller, Steps, StopSteps
<1>4. CASE VersionStep(u)
  BY <1>4, VersionStepFrame DEF VersionSteps, Goto, End, Steps, StopSteps
<1>. QED  BY <1>1, <1>2, <1>3, <1>4 DEF OtherStep

\* A step of StopAsync goes on in it, or leaves it.
LEMMA StopStepCases ==
    ASSUME NEW u \in Users, StopStep(u)
    PROVE  /\ pc[u] \in StopSteps
           /\ \/ /\ \E at \in {"dockerStop", "wait"} : Goto(u, at)
                 /\ UNCHANGED <<controller, settled, asked, got>>
              \/ \E how \in Results : LeaveStop(u, how)
<1>1. pc[u] \in StopSteps
  BY DEF StopStep, RconStopTaken, RconStopLost, RconStopFailed, RconStopDenied, DockerStop,
         DockerStopFailed, WaitForExit, WaitTimedOut, StopSteps
<1>2. \/ /\ \E at \in {"dockerStop", "wait"} : Goto(u, at)
         /\ UNCHANGED <<controller, settled, asked, got>>
      \/ \E how \in Results : LeaveStop(u, how)
  <2>1. CASE \E took \in BOOLEAN : AfterRconStop(u, took)
    BY <2>1 DEF AfterRconStop, Results
  <2>2. CASE DockerStop(u)
    BY <2>2 DEF DockerStop
  <2>3. CASE \E how \in Results : LeaveStop(u, how)
    BY <2>3
  <2>. QED  BY <2>1, <2>2, <2>3 DEF StopStep, RconStopTaken, RconStopLost, RconStopFailed,
               RconStopDenied, DockerStopFailed, WaitForExit, WaitTimedOut, Results
<1>. QED  BY <1>1, <1>2

\* Nothing outside the application touches its flows.
LEMMA OutsideFrame ==
    ASSUME Outside \/ UNCHANGED vars
    PROVE  UNCHANGED <<stopping, pc, op, result, got, settled, asked, epoch, firstRun>>
BY DEF Outside, ListingExpires, ServerCloses, ServerCrashes, ProcessEnds, BannerWritten,
       ServerLoaded, HostStart, controller, flow, history, vars

\* Every step is one of these, or the first of a stop or of a restart.
LEMMA StepCases ==
    ASSUME [Next]_vars
    PROVE  \/ \E u \in Users : Stop(u) \/ Restart(u) \/ StopStep(u) \/ OtherStep(u)
           \/ Outside \/ UNCHANGED vars
BY DEF Next, Ask, Step, OtherStep

-----------------------------------------------------------------------------
(***************************************************************************)
(* The flag.                                                               *)
(***************************************************************************)

\* No page is left showing "Stopping": the flag is up only while some user is
\* between the first and the last line of StopAsync.
THEOREM StoppingIsHeld == Spec => []StoppingFlagIsHeld
<1>1. Init => StoppingFlagIsHeld
  BY DEF Init, StoppingFlagIsHeld
<1>2. TypeOK /\ StoppingFlagIsHeld /\ [Next]_vars => StoppingFlagIsHeld'
  <2> SUFFICES ASSUME TypeOK, StoppingFlagIsHeld, [Next]_vars
               PROVE  StoppingFlagIsHeld'
    OBVIOUS
  <2>. USE DEF StoppingFlagIsHeld
  <2>0. pc \in [Users -> Steps]
    BY DEF TypeOK, FlowType
  <2>1. ASSUME NEW u \in Users, pc'[u] \in StopSteps
        PROVE  StoppingFlagIsHeld'
    BY <2>1
  <2>2. ASSUME NEW u \in Users, Stop(u)
        PROVE  StoppingFlagIsHeld'
    BY <2>0, <2>1, <2>2 DEF Stop, Begin, StopSteps
  <2>3. ASSUME NEW u \in Users, pc[u] \notin StopSteps, UNCHANGED stopping,
               \E at \in Steps : pc' = [pc EXCEPT ![u] = at]
        PROVE  StoppingFlagIsHeld'
    <3>1. \A v \in Users : pc[v] \in StopSteps => pc'[v] \in StopSteps
      BY <2>0, <2>3
    <3>. QED  BY <2>3, <3>1, Zenon
  <2>4. ASSUME NEW u \in Users, Restart(u)
        PROVE  StoppingFlagIsHeld'
    <3>1. CASE HasDocker
      BY <2>0, <2>1, <2>4, <3>1 DEF Restart, Begin, StopSteps
    <3>2. CASE ~HasDocker
      <4>1. stopping' = stopping
        BY <2>4, <3>2, SMT DEF Restart, TypeOK, ControllerType
      <4>2. pc[u] \notin StopSteps /\ pc' = [pc EXCEPT ![u] = "idle"]
        BY <2>4, <3>2 DEF Restart, Begin, StopSteps
      <4>. QED  BY <2>3, <4>1, <4>2 DEF Steps
    <3>. QED  BY <3>1, <3>2
  <2>5. ASSUME NEW u \in Users, StopStep(u)
        PROVE  StoppingFlagIsHeld'
    <3>1. CASE \E at \in {"dockerStop", "wait"} : Goto(u, at)
      BY <2>0, <2>1, <3>1 DEF Goto, StopSteps
    <3>2. CASE \E how \in Results : LeaveStop(u, how)
      BY <3>2 DEF LeaveStop
    <3>. QED  BY <2>5, <3>1, <3>2, StopStepCases
  <2>6. ASSUME NEW u \in Users, OtherStep(u)
        PROVE  StoppingFlagIsHeld'
    BY <2>3, <2>6, OtherStepFrame
  <2>7. CASE Outside \/ UNCHANGED vars
    BY <2>7, OutsideFrame, Zenon
  <2>. QED  BY <2>2, <2>4, <2>5, <2>6, <2>7, StepCases
<1>. QED  BY <1>1, <1>2, TypeCorrect, PTL DEF Spec

-----------------------------------------------------------------------------
(***************************************************************************)
(* The cached listing.                                                     *)
(***************************************************************************)

\* Invalidate leaves nothing behind that is older than itself and not marked.
LEMMA InvalidateCache ==
    ASSUME TypeOK, CacheInv, Invalidate, NEW u \in Users, pc[u] \notin {"store", "properties"},
           NEW at \in {"idle", "dockerStart"}, pc' = [pc EXCEPT ![u] = at],
           UNCHANGED asked, epoch' \in Int, epoch' >= epoch
    PROVE  CacheInv'
<1>1. settled' = epoch /\ cachedListing' = NoListing
  BY DEF Invalidate
<1>2. settled' =< epoch' /\ \A v \in Users : asked'[v] =< settled'
  BY <1>1 DEF CacheInv, TypeOK, HistoryType
<1>3. ASSUME NEW v \in Users
      PROVE  /\ pc'[v] = "store" => Current(got[v])'
             /\ pc'[v] \notin {"store", "properties"} => got'[v] = NoListing
  <2>0. pc \in [Users -> Steps] /\ got[v] \in Listings
    BY DEF TypeOK, FlowType
  <2>1. CASE pc[v] = "store"
    <3>1. got'[v] = [got[v] EXCEPT !.late = got[v].asOf > 0] /\ pc'[v] = "store"
      BY <2>0, <2>1 DEF Invalidate
    <3>2. CASE got[v].asOf > 0
      BY <2>0, <3>1, <3>2 DEF Current, Listings
    <3>3. CASE ~(got[v].asOf > 0)
      <4>1. got[v].asOf = 0
        BY <2>0, <3>3 DEF Listings
      <4>2. (got[v].asOf > 0) = FALSE
        BY <4>1
      <4>3. got'[v] = NoListing
        BY <2>0, <3>1, <4>1, <4>2 DEF Listings, NoListing
      <4>. QED  BY <3>1, <4>3 DEF Current
    <3>. QED  BY <3>2, <3>3
  <2>2. CASE pc[v] # "store"
    BY <2>0, <2>2 DEF Invalidate, CacheInv
  <2>. QED  BY <2>1, <2>2
<1>. QED  BY <1>1, <1>2, <1>3 DEF CacheInv, Current

\* Every step keeps the cache current.
LEMMA CacheStep == TypeOK /\ CacheInv /\ [Next]_vars => CacheInv'
<1> SUFFICES ASSUME TypeOK, CacheInv, [Next]_vars
             PROVE  CacheInv'
  OBVIOUS
<1>0. /\ pc \in [Users -> Steps] /\ got \in [Users -> Listings] /\ cachedListing \in Listings
      /\ settled \in Nat /\ epoch \in Nat /\ asked \in [Users -> Nat]
  BY DEF TypeOK, FlowType, ControllerType, HistoryType
<1>1. ASSUME UNCHANGED <<cachedListing, settled, asked, got>>, epoch' \in {epoch, epoch + 1},
             NEW u \in Users, pc[u] \notin {"store", "properties"},
             \E at \in Steps \ {"store"} : pc' = [pc EXCEPT ![u] = at]
      PROVE  CacheInv'
  BY <1>0, <1>1 DEF CacheInv, Current
<1>2. ASSUME NEW u \in Users, Ask(u)
      PROVE  CacheInv'
  <2>1. PICK at \in Steps \ {"store"} : pc[u] = "idle" /\ pc' = [pc EXCEPT ![u] = at]
    BY <1>2 DEF Ask, Start, Stop, Restart, SendCommand, GetSnapshot, GetPlayers, Begin, Steps
  <2>2. UNCHANGED <<cachedListing, settled, epoch, got>>
    BY <1>2 DEF Ask, Start, Stop, Restart, SendCommand, GetSnapshot, GetPlayers, Begin, controller
  <2>3. PICK n \in {settled, 0} : asked' = [asked EXCEPT ![u] = n]
    BY <1>2 DEF Ask, Start, Stop, Restart, SendCommand, GetSnapshot, GetPlayers, Begin
  <2>. QED  BY <1>0, <2>1, <2>2, <2>3 DEF CacheInv, Current
<1>3. ASSUME NEW u \in Users, StopStep(u)
      PROVE  CacheInv'
  <2>1. epoch' \in {epoch, epoch + 1}
    BY <1>3 DEF StopStep, RconStopTaken, RconStopLost, RconStopFailed, RconStopDenied, DockerStop,
                DockerStopFailed, WaitForExit, WaitTimedOut, ContainerStops, TakesEffect
  <2>2. pc[u] \notin {"store", "properties"}
    BY <1>3, StopStepCases DEF StopSteps
  <2>3. CASE /\ \E at \in {"dockerStop", "wait"} : Goto(u, at)
             /\ UNCHANGED <<controller, settled, asked, got>>
    <3>1. UNCHANGED <<cachedListing, settled, asked, got>>
      BY <2>3 DEF controller
    <3>2. \E at \in Steps \ {"store"} : pc' = [pc EXCEPT ![u] = at]
      BY <2>3 DEF Goto, Steps
    <3>. QED  BY <1>1, <2>1, <2>2, <3>1, <3>2
  <2>4. CASE \E how \in Results : LeaveStop(u, how)
    <3>1. Invalidate /\ UNCHANGED asked
      BY <2>4 DEF LeaveStop
    <3>2. \E at \in {"idle", "dockerStart"} : pc' = [pc EXCEPT ![u] = at]
      BY <2>4 DEF LeaveStop, Goto, End
    <3>3. epoch' \in Int /\ epoch' >= epoch
      BY <1>0, <2>1
    <3>. QED  BY <2>2, <3>1, <3>2, <3>3, InvalidateCache
  <2>. QED  BY <1>3, <2>3, <2>4, StopStepCases
<1>4. ASSUME NEW u \in Users, DockerStart(u) \/ DockerStartFailed(u) \/ CommandRuns(u) \/ CommandFailed(u)
      PROVE  CacheInv'
  <2>1. epoch' \in {epoch, epoch + 1} /\ UNCHANGED <<cachedListing, settled, asked, got>>
    BY <1>4 DEF DockerStart, DockerStartFailed, CommandRuns, CommandFailed, TakesEffect,
                controller, history
  <2>2. /\ pc[u] \notin {"store", "properties"}
        /\ \E at \in Steps \ {"store"} : pc' = [pc EXCEPT ![u] = at]
    BY <1>4 DEF DockerStart, DockerStartFailed, CommandRuns, CommandFailed, Goto, End, Steps
  <2>. QED  BY <1>1, <2>1, <2>2
<1>5. ASSUME NEW u \in Users, LeaveStart(u) \/ CommandReturns(u)
      PROVE  CacheInv'
  <2>1. /\ Invalidate /\ UNCHANGED <<asked, epoch>>
        /\ pc[u] \notin {"store", "properties"} /\ pc' = [pc EXCEPT ![u] = "idle"]
    BY <1>5 DEF LeaveStart, CommandReturns, End
  <2>2. epoch' \in Int /\ epoch' >= epoch
    BY <1>0, <2>1
  <2>. QED  BY <2>1, <2>2, InvalidateCache
<1>6. ASSUME NEW u \in Users, Inspect(u) \/ EnterListGate(u)
      PROVE  CacheInv'
  BY <1>0, <1>1, <1>6 DEF Inspect, EnterListGate, Goto, Steps, controller, history
<1>7. ASSUME NEW u \in Users, ListDenied(u)
      PROVE  CacheInv'
  BY <1>0, <1>7 DEF ListDenied, End, CacheInv, Current
<1>8. ASSUME NEW u \in Users, ListAnswered(u) \/ ListFailed(u)
      PROVE  CacheInv'
  <2>1. pc' = [pc EXCEPT ![u] = "store"] /\ UNCHANGED <<cachedListing, settled, asked, epoch>>
    BY <1>8 DEF ListAnswered, ListFailed, Goto, controller, history
  <2>2. Current(got'[u]) /\ \A v \in Users \ {u} : got'[v] = got[v]
    <3>1. CASE ListFailed(u)
      BY <3>1 DEF ListFailed, CacheInv, Current
    <3>2. CASE ListAnswered(u)
      <4>1. PICK listing \in {NoListing, [asOf |-> epoch, late |-> FALSE]} :
                got' = [got EXCEPT ![u] = listing]
        BY <3>2 DEF ListAnswered
      <4>. QED  BY <1>0, <4>1 DEF CacheInv, Current
    <3>. QED  BY <1>8, <3>1, <3>2
  <2>. QED  BY <1>0, <2>1, <2>2 DEF CacheInv, Current
<1>9. ASSUME NEW u \in Users, UseCachedListing(u) \/ StoreListing(u)
      PROVE  CacheInv'
  <2>1. UNCHANGED <<settled, epoch>> /\ asked' = [asked EXCEPT ![u] = 0]
    BY <1>9 DEF UseCachedListing, StoreListing, ListingReturned
  <2>2. \/ pc' = [pc EXCEPT ![u] = "properties"]
        \/ pc' = [pc EXCEPT ![u] = "idle"] /\ got' = [got EXCEPT ![u] = NoListing]
    BY <1>9 DEF UseCachedListing, StoreListing, ListingReturned, Goto, End
  <2>3. \A v \in Users \ {u} : got'[v] = got[v]
    BY <1>0, <1>9 DEF UseCachedListing, StoreListing, ListingReturned
  <2>4. Current(cachedListing')
    BY <1>9 DEF UseCachedListing, StoreListing, CacheInv
  <2>. QED  BY <1>0, <2>1, <2>2, <2>3, <2>4 DEF CacheInv, Current
<1>11. ASSUME NEW u \in Users, VersionStep(u)
      PROVE  CacheInv'
  <2>1. UNCHANGED <<cachedListing, settled, epoch, asked>> /\ pc[u] # "store"
    BY <1>11, VersionStepFrame DEF VersionSteps, history
  <2>2. pc' = [pc EXCEPT ![u] = pc'[u]] /\ pc'[u] \notin {"store", "properties"}
    BY <1>0, <1>11, VersionStepFrame DEF VersionSteps, Goto, End
  <2>3. got'[u] = NoListing /\ \A v \in Users \ {u} : got'[v] = got[v]
    BY <1>0, <1>11, VersionStepFrame DEF VersionSteps, CacheInv
  <2>. QED  BY <1>0, <2>1, <2>2, <2>3 DEF CacheInv, Current
<1>10. CASE Outside \/ UNCHANGED vars
  <2>1. cachedListing' \in {cachedListing, NoListing}
    BY <1>10 DEF Outside, ListingExpires, ServerCloses, ServerCrashes, ProcessEnds, BannerWritten,
                 ServerLoaded, HostStart, controller, vars
  <2>. QED  BY <1>10, <2>1, OutsideFrame DEF CacheInv, Current
<1>. QED  BY <1>2, <1>3, <1>4, <1>5, <1>6, <1>7, <1>8, <1>9, <1>10, <1>11
          DEF Next, Step, StartStep, CommandStep, ListingStep

\* A page never gets a listing from before the last action that had returned when
\* it asked, save one that was on its way to the cache when it was invalidated.
THEOREM ListingsAreRecent == Spec => []NoStaleListing
<1>1. Init => CacheInv
  BY DEF Init, CacheInv, Current
<1>2. TypeOK /\ CacheInv => NoStaleListing
  <2> SUFFICES ASSUME TypeOK, CacheInv, NEW u \in Users
               PROVE  /\ Recent(u, cachedListing)
                      /\ pc[u] = "store" => Recent(u, got[u])
    BY DEF NoStaleListing
  <2>1. asked[u] \in Nat /\ settled \in Nat /\ asked[u] =< settled
    BY DEF TypeOK, HistoryType, CacheInv
  <2>2. ASSUME NEW listing \in Listings, Current(listing)
        PROVE  Recent(u, listing)
    <3>1. listing.asOf \in Nat
      BY DEF Listings
    <3>. QED  BY <2>1, <2>2, <3>1 DEF Current, Recent
  <2>3. cachedListing \in Listings /\ got[u] \in Listings
    BY DEF TypeOK, ControllerType, FlowType
  <2>. QED  BY <2>2, <2>3 DEF CacheInv
<1>. QED  BY <1>1, <1>2, CacheStep, TypeCorrect, PTL DEF Spec

-----------------------------------------------------------------------------
(***************************************************************************)
(* Stops and restarts.                                                     *)
(***************************************************************************)

\* A container that is down comes up only through ContainerStarts, which every
\* stop and every restart in progress or just ended takes notice of.
LEMMA UpByStart ==
    ASSUME [Next]_vars
    PROVE  (Up' => Up) \/ ContainerStarts
<1>1. CASE \E u \in Users : Ask(u)
  BY <1>1 DEF Ask, Start, Stop, Restart, SendCommand, GetSnapshot, GetPlayers, Begin, server, Up
<1>2. CASE \E u \in Users : StopStep(u)
  BY <1>2 DEF StopStep, RconStopTaken, RconStopLost, RconStopFailed, RconStopDenied, DockerStop,
              DockerStopFailed, ContainerStops, WaitForExit, WaitTimedOut, server, Up
<1>3. CASE \E u \in Users : StartStep(u) \/ CommandStep(u)
  BY <1>3 DEF StartStep, DockerStart, DockerStartFailed, LeaveStart, CommandStep, CommandRuns,
              CommandReturns, CommandFailed, server, Up
<1>4. CASE \E u \in Users : ListingStep(u) \/ EnterListGate(u)
  BY <1>4 DEF ListingStep, Inspect, UseCachedListing, ListAnswered, ListFailed, ListDenied,
              StoreListing, EnterListGate, ListingReturned, server, Up
<1>5. CASE Outside \/ UNCHANGED vars
  BY <1>5 DEF Outside, ListingExpires, ServerCloses, ServerCrashes, ProcessEnds, BannerWritten,
              ServerLoaded, HostStart, server, vars, Up
<1>6. CASE \E u \in Users : VersionStep(u)
  BY <1>6, VersionStepFrame DEF server, Up
<1>. QED  BY <1>1, <1>2, <1>3, <1>4, <1>5, <1>6 DEF Next, Step

\* Which operation it is changes only when one begins.
LEMMA OpOfOthers ==
    ASSUME NEW u \in Users, Step(u) \/ EnterListGate(u)
    PROVE  UNCHANGED <<op, ops, firstRun>>
<1>1. CASE StopStep(u)
  BY <1>1 DEF StopStep, RconStopTaken, RconStopLost, RconStopFailed, RconStopDenied, DockerStop,
              DockerStopFailed, WaitForExit, WaitTimedOut, AfterRconStop, LeaveStop, Goto, End
<1>2. CASE StartStep(u) \/ CommandStep(u)
  BY <1>2 DEF StartStep, DockerStart, DockerStartFailed, LeaveStart, CommandStep, CommandRuns,
              CommandReturns, CommandFailed, Goto, End, history
<1>3. CASE ListingStep(u) \/ EnterListGate(u)
  BY <1>3 DEF ListingStep, Inspect, UseCachedListing, ListAnswered, ListFailed, ListDenied,
              StoreListing, EnterListGate, ListingReturned, Goto, End, history
<1>4. CASE VersionStep(u)
  BY <1>4, VersionStepFrame DEF Goto, End, history
<1>. QED  BY <1>1, <1>2, <1>3, <1>4 DEF Step

\* A step of one operation moves that operation only, and ends it with a result
\* or not at all.
LEMMA MovesOne ==
    ASSUME TypeOK, NEW u \in Users, Step(u) \/ EnterListGate(u)
    PROVE  /\ pc[u] # "idle"
           /\ \A v \in Users \ {u} : pc'[v] = pc[v] /\ result'[v] = result[v]
           /\ pc'[u] # "idle" => result'[u] = result[u]
<1>0. pc \in [Users -> Steps] /\ result \in [Users -> Results]
  BY DEF TypeOK, FlowType
<1>1. pc[u] # "idle"
  BY DEF Step, StopStep, RconStopTaken, RconStopLost, RconStopFailed, RconStopDenied, DockerStop,
         DockerStopFailed, WaitForExit, WaitTimedOut, StartStep, DockerStart, DockerStartFailed,
         LeaveStart, CommandStep, CommandRuns, CommandReturns, CommandFailed, ListingStep, Inspect,
         UseCachedListing, ListAnswered, ListFailed, ListDenied, StoreListing, EnterListGate,
         VersionStep, PropertiesRead, ReadLogHead, AssignVersion, AssignReadFor
<1>2. (\E at \in Steps : Goto(u, at)) \/ (\E how \in Results : End(u, how))
  <2>1. CASE StopStep(u)
    BY <2>1, StopStepCases DEF LeaveStop, Steps
  <2>2. CASE StartStep(u) \/ CommandStep(u)
    BY <2>2 DEF StartStep, DockerStart, DockerStartFailed, LeaveStart, CommandStep, CommandRuns,
                CommandReturns, CommandFailed, Steps, Results
  <2>3. CASE ListingStep(u) \/ EnterListGate(u)
    BY <2>3 DEF ListingStep, Inspect, UseCachedListing, ListAnswered, ListFailed, ListDenied,
                StoreListing, EnterListGate, ListingReturned, Steps, Results
  <2>4. CASE VersionStep(u)
    BY <2>4, VersionStepFrame DEF VersionSteps, Steps, Results
  <2>. QED  BY <2>1, <2>2, <2>3, <2>4 DEF Step
<1>. QED  BY <1>0, <1>1, <1>2 DEF Goto, End

\* revived is lost only by an operation that begins or is stopped by Docker.
LEMMA RevivedStays ==
    ASSUME TypeOK, NEW u \in Users, Step(u) \/ EnterListGate(u)
    PROVE  /\ \A v \in Users \ {u} : revived[v] => revived'[v]
           /\ revived[u] => revived'[u] \/ DockerStop(u)
<1>0. revived \in [Users -> BOOLEAN]
  BY DEF TypeOK, HistoryType
<1>1. CASE DockerStop(u)
  BY <1>0, <1>1, Zenon DEF DockerStop
<1>2. CASE ContainerStarts
  BY <1>0, <1>2, Zenon DEF ContainerStarts
<1>3. CASE UNCHANGED revived
  BY <1>3
<1>4. DockerStop(u) \/ ContainerStarts \/ UNCHANGED revived
  <2>1. CASE StopStep(u)
    BY <2>1 DEF StopStep, RconStopTaken, RconStopLost, RconStopFailed, RconStopDenied,
                DockerStopFailed, WaitForExit, WaitTimedOut
  <2>2. CASE StartStep(u) \/ CommandStep(u)
    BY <2>2 DEF StartStep, DockerStart, DockerStartFailed, LeaveStart, CommandStep, CommandRuns,
                CommandReturns, CommandFailed, history
  <2>3. CASE ListingStep(u) \/ EnterListGate(u)
    BY <2>3 DEF ListingStep, Inspect, UseCachedListing, ListAnswered, ListFailed, ListDenied,
                StoreListing, EnterListGate, ListingReturned, history
  <2>4. CASE VersionStep(u)
    BY <2>4, VersionStepFrame DEF history
  <2>. QED  BY <2>1, <2>2, <2>3, <2>4 DEF Step
<1>. QED  BY <1>1, <1>2, <1>3, <1>4

\* What an operation is like that has just begun.
LEMMA Begun ==
    ASSUME TypeOK, NEW u \in Users, Ask(u)
    PROVE  /\ pc[u] = "idle"
           /\ \A v \in Users \ {u} : /\ pc'[v] = pc[v] /\ op'[v] = op[v] /\ result'[v] = result[v]
                                     /\ firstRun'[v] = firstRun[v] /\ revived'[v] = revived[v]
           /\ pc'[u] # "idle" => result'[u] = "none"
           /\ result'[u] \in {"none", "refused"}
           /\ pc'[u] \in {"idle", "stopRcon", "dockerStart", "command", "inspect", "listGate"}
           /\ pc'[u] = "stopRcon" => op'[u] \in {"stop", "restart"}
           /\ op'[u] = "stop" => pc'[u] = "stopRcon"
           /\ op'[u] = "restart" => /\ firstRun'[u] = run
                                    /\ pc'[u] = IF HasDocker THEN "stopRcon" ELSE "idle"
           /\ UNCHANGED server
<1>0. /\ pc \in [Users -> Steps] /\ op \in [Users -> Operations] /\ result \in [Users -> Results]
      /\ firstRun \in [Users -> Nat] /\ revived \in [Users -> BOOLEAN]
  BY DEF TypeOK, FlowType, HistoryType
<1>1. \A v \in Users \ {u} : revived'[v] = revived[v]
  BY <1>0, Zenon DEF Ask, Start, Stop, Restart, SendCommand, GetSnapshot, GetPlayers, Begin
<1>2. CASE Start(u)
  BY <1>0, <1>1, <1>2 DEF Start, Begin
<1>3. CASE Stop(u)
  BY <1>0, <1>1, <1>3 DEF Stop, Begin
<1>4. CASE Restart(u)
  BY <1>0, <1>1, <1>4 DEF Restart, Begin
<1>5. CASE SendCommand(u) \/ GetSnapshot(u) \/ GetPlayers(u)
  BY <1>0, <1>1, <1>5 DEF SendCommand, GetSnapshot, GetPlayers, Begin
<1>. QED  BY <1>2, <1>3, <1>4, <1>5 DEF Ask

\* With Docker, a stop comes to its wait only through Docker, and ends well, or
\* in a timeout, only from there.
LEMMA StopProgress ==
    ASSUME TypeOK, HasDocker, NEW u \in Users, StopStep(u)
    PROVE  /\ pc'[u] = "wait" => DockerStop(u)
           /\ pc'[u] \in {"idle", "dockerStart"} =>
                \/ WaitForExit(u)
                \/ WaitTimedOut(u) /\ pc'[u] = "idle" /\ result'[u] = "timeout"
                \/ pc'[u] = "idle" /\ result'[u] = "failed"
<1>0. pc \in [Users -> Steps] /\ result \in [Users -> Results]
  BY DEF TypeOK, FlowType
<1>1. CASE RconStopTaken(u) \/ RconStopLost(u) \/ RconStopFailed(u)
  BY <1>0, <1>1 DEF RconStopTaken, RconStopLost, RconStopFailed, AfterRconStop, Goto
<1>2. CASE RconStopDenied(u) \/ DockerStopFailed(u)
  BY <1>0, <1>2 DEF RconStopDenied, DockerStopFailed, LeaveStop, End
<1>3. CASE DockerStop(u)
  BY <1>0, <1>3 DEF DockerStop, Goto
<1>4. CASE WaitForExit(u)
  BY <1>0, <1>4 DEF WaitForExit, LeaveStop, Goto, End
<1>5. CASE WaitTimedOut(u)
  BY <1>0, <1>5 DEF WaitTimedOut, LeaveStop, Goto, End
<1>. QED  BY <1>1, <1>2, <1>3, <1>4, <1>5 DEF StopStep

\* Other operations never time out, and never become a stop.
LEMMA OtherResults ==
    ASSUME TypeOK, NEW u \in Users, OtherStep(u)
    PROVE  result'[u] = "timeout" => result[u] = "timeout"
<1>0. result \in [Users -> Results]
  BY DEF TypeOK, FlowType
<1>1. CASE Start(u) \/ SendCommand(u) \/ GetSnapshot(u) \/ GetPlayers(u)
  BY <1>0, <1>1 DEF Start, SendCommand, GetSnapshot, GetPlayers, Begin
<1>2. CASE StartStep(u) \/ CommandStep(u)
  BY <1>0, <1>2 DEF StartStep, DockerStart, DockerStartFailed, LeaveStart, CommandStep, CommandRuns,
                    CommandReturns, CommandFailed, Goto, End
<1>3. CASE ListingStep(u) \/ EnterListGate(u)
  BY <1>0, <1>3 DEF ListingStep, Inspect, UseCachedListing, ListAnswered, ListFailed, ListDenied,
                    StoreListing, EnterListGate, ListingReturned, Goto, End
<1>4. CASE VersionStep(u)
  BY <1>0, <1>4, VersionStepFrame DEF Goto, End
<1>. QED  BY <1>1, <1>2, <1>3, <1>4 DEF OtherStep

\* A start is noticed by the stops and restarts it happens during, or after.
LEMMA StartNoticed ==
    ASSUME TypeOK, ContainerStarts, NEW v \in Users, op[v] \in {"stop", "restart"}
    PROVE  revived'[v]
BY DEF TypeOK, HistoryType, ContainerStarts

\* Without Docker nothing times out.
LEMMA TimeoutNeedsDocker ==
    ASSUME TypeOK, ~HasDocker, NEW u \in Users, StopStep(u), result[u] # "timeout"
    PROVE  result'[u] # "timeout"
<1>0. result \in [Users -> Results]
  BY DEF TypeOK, FlowType
<1>. QED  BY <1>0 DEF StopStep, RconStopTaken, RconStopLost, RconStopFailed, RconStopDenied, DockerStop,
                DockerStopFailed, WaitForExit, WaitTimedOut, AfterRconStop, LeaveStop, Goto, End

\* Every step keeps what stops rely on.
LEMMA StopInvStep == TypeOK /\ StopInv /\ [Next]_vars => StopInv'
<1> SUFFICES ASSUME TypeOK, StopInv, [Next]_vars
             PROVE  StopInv'
  OBVIOUS
<1>. USE DEF StopInv, Finished
<1>1. ASSUME NEW u \in Users, Ask(u)
      PROVE  StopInv'
  <2>1. NoResultYet'
    BY <1>1, Begun DEF NoResultYet
  <2>2. StopsOrRestarts'
    BY <1>1, Begun DEF StopsOrRestarts, StopSteps
  <2>3. Up' = Up
    BY <1>1, Begun DEF server, Up
  <2>4. DownUnlessStarted'
    BY <1>1, <2>3, Begun DEF DownUnlessStarted
  <2>5. TimeoutMeansStarted'
    BY <1>1, Begun DEF TimeoutMeansStarted
  <2>. QED  BY <2>1, <2>2, <2>4, <2>5
<1>2. ASSUME NEW u \in Users, Step(u) \/ EnterListGate(u)
      PROVE  StopInv'
  <2>1. StopStep(u) \/ OtherStep(u)
    BY <1>2 DEF Step, OtherStep
  <2>2. NoResultYet'
    BY <1>2, MovesOne DEF NoResultYet
  <2>3. pc'[u] \in StopSteps => pc[u] \in StopSteps
    <3>0. pc \in [Users -> Steps]
      BY DEF TypeOK, FlowType
    <3>. QED  BY <2>1, <3>0, StopStepCases, OtherStepFrame
  <2>4. StopsOrRestarts'
    <3>1. op[u] = "stop" => StopStep(u)
      BY <1>2, <2>1, MovesOne, OtherStepFrame DEF StopsOrRestarts
    <3>2. op[u] = "stop" /\ pc'[u] # "idle" => pc'[u] \in StopSteps
      <4> SUFFICES ASSUME op[u] = "stop", pc'[u] # "idle"
                   PROVE  pc'[u] \in StopSteps
        OBVIOUS
      <4>0. pc \in [Users -> Steps]
        BY DEF TypeOK, FlowType
      <4>. QED  BY <3>1, <4>0, StopStepCases DEF LeaveStop, Goto, End, StopSteps
    <3>. QED  BY <1>2, <2>3, <3>2, MovesOne, OpOfOthers DEF StopsOrRestarts
  <2>5. ASSUME HasDocker, NEW v \in Users, (pc[v] = "wait" \/ Finished(v, "stop", "ok")),
               revived[v] => revived'[v]
        PROVE  revived'[v] \/ ~Up'
    <3>1. revived[v] \/ ~Up
      BY <2>5 DEF DownUnlessStarted
    <3>2. op[v] \in {"stop", "restart"}
      BY <2>5 DEF StopsOrRestarts, StopSteps
    <3>. QED  BY <2>5, <3>1, <3>2, UpByStart, StartNoticed
  <2>6. DownUnlessStarted'
    <3> SUFFICES ASSUME HasDocker, NEW v \in Users, pc'[v] = "wait" \/ Finished(v, "stop", "ok")'
                 PROVE  revived'[v] \/ ~Up'
      BY DEF DownUnlessStarted
    <3>1. CASE v # u
      BY <1>2, <2>5, <3>1, MovesOne, OpOfOthers, RevivedStays
    <3>2. CASE v = u
      <4>1. StopStep(u)
        BY <1>2, <2>1, <2>3, <3>2, MovesOne, OpOfOthers, OtherStepFrame DEF StopsOrRestarts, StopSteps
      <4>2. CASE DockerStop(u)
        BY <4>2 DEF DockerStop, ContainerStops, server, Up
      <4>3. CASE WaitForExit(u)
        BY <2>5, <3>2, <4>3 DEF WaitForExit
      <4>. QED  BY <3>2, <4>1, <4>2, <4>3, StopProgress
    <3>. QED  BY <3>1, <3>2
  <2>7. TimeoutMeansStarted'
    <3> SUFFICES ASSUME NEW v \in Users, result'[v] = "timeout"
                 PROVE  revived'[v]
      BY DEF TimeoutMeansStarted
    <3>1. CASE v # u
      BY <1>2, <3>1, MovesOne, RevivedStays DEF TimeoutMeansStarted
    <3>2. CASE v = u
      <4>1. result[u] = "none" /\ pc'[u] = "idle"
        BY <1>2, <3>2, MovesOne DEF NoResultYet
      <4>2. StopStep(u)
        BY <2>1, <3>2, <4>1, OtherResults
      <4>3. HasDocker
        BY <3>2, <4>1, <4>2, TimeoutNeedsDocker
      <4>4. WaitTimedOut(u)
        <5>1. ~WaitForExit(u)
          BY <3>2, <4>1 DEF WaitForExit, LeaveStop, Goto, End, TypeOK, FlowType
        <5>. QED  BY <3>2, <4>1, <4>2, <4>3, <5>1, StopProgress
      <4>. QED  BY <3>2, <4>3, <4>4 DEF WaitTimedOut, DownUnlessStarted
    <3>. QED  BY <3>1, <3>2
  <2>. QED  BY <2>2, <2>4, <2>6, <2>7
<1>3. CASE Outside \/ UNCHANGED vars
  <2>1. UNCHANGED <<pc, op, result>>
    BY <1>3, OutsideFrame
  <2>2. \A v \in Users : revived[v] => revived'[v]
    BY <1>3, Zenon DEF Outside, ListingExpires, ServerCloses, ServerCrashes, ProcessEnds,
       BannerWritten, ServerLoaded, HostStart, ContainerStarts, history, vars, TypeOK, HistoryType
  <2>3. NoResultYet' /\ StopsOrRestarts' /\ TimeoutMeansStarted'
    BY <2>1, <2>2 DEF NoResultYet, StopsOrRestarts, TimeoutMeansStarted
  <2>4. DownUnlessStarted'
    <3> SUFFICES ASSUME HasDocker, NEW v \in Users, pc[v] = "wait" \/ Finished(v, "stop", "ok")
                 PROVE  revived'[v] \/ ~Up'
      BY <2>1 DEF DownUnlessStarted
    <3>1. op[v] \in {"stop", "restart"}
      BY DEF StopsOrRestarts, StopSteps
    <3>. QED  BY <2>2, <3>1, UpByStart, StartNoticed DEF DownUnlessStarted
  <2>. QED  BY <2>3, <2>4
<1>. QED  BY <1>1, <1>2, <1>3 DEF Next

\* A stop that succeeded holds until somebody starts the server, whatever the
\* container's restart policy.
THEOREM StopsHold == Spec => []StopSticks
<1>1. Init => StopInv
  BY DEF Init, StopInv, NoResultYet, StopsOrRestarts, DownUnlessStarted, TimeoutMeansStarted,
         Finished, StopSteps
<1>2. StopInv => StopSticks
  BY DEF StopInv, DownUnlessStarted, StopSticks
<1>. QED  BY <1>1, <1>2, StopInvStep, TypeCorrect, PTL DEF Spec

\* The TimeoutException of a stop always means that the server was started again.
THEOREM TimeoutsAreStarts == Spec => []TimeoutMeansStarted
<1>1. Init => StopInv
  BY DEF Init, StopInv, NoResultYet, StopsOrRestarts, DownUnlessStarted, TimeoutMeansStarted,
         Finished, StopSteps
<1>2. StopInv => TimeoutMeansStarted
  BY DEF StopInv
<1>. QED  BY <1>1, <1>2, StopInvStep, TypeCorrect, PTL DEF Spec
\* Runs are counted upwards.
LEMMA RunGrows ==
    ASSUME TypeOK, [Next]_vars
    PROVE  run' \in {run, run + 1} /\ run' >= run
<1>0. run \in Nat
  BY DEF TypeOK, ServerType
<1>1. run' \in {run, run + 1}
  <2>1. CASE \E u \in Users : Ask(u)
    BY <2>1, Begun DEF server
  <2>2. CASE \E u \in Users : StopStep(u)
    BY <2>2 DEF StopStep, RconStopTaken, RconStopLost, RconStopFailed, RconStopDenied, DockerStop,
                DockerStopFailed, ContainerStops, WaitForExit, WaitTimedOut, server
  <2>3. CASE \E u \in Users : StartStep(u) \/ CommandStep(u)
    BY <2>3 DEF StartStep, DockerStart, DockerStartFailed, ContainerStarts, LeaveStart, CommandStep,
                CommandRuns, CommandReturns, CommandFailed, server
  <2>4. CASE \E u \in Users : ListingStep(u) \/ EnterListGate(u)
    BY <2>4 DEF ListingStep, Inspect, UseCachedListing, ListAnswered, ListFailed, ListDenied,
                StoreListing, EnterListGate, ListingReturned, server
  <2>5. CASE Outside \/ UNCHANGED vars
    BY <2>5 DEF Outside, ListingExpires, ServerCloses, ServerCrashes, ProcessEnds, BannerWritten,
                ServerLoaded, HostStart, ContainerStarts, server, vars
  <2>6. CASE \E u \in Users : VersionStep(u)
    BY <2>6, VersionStepFrame DEF server
  <2>. QED  BY <2>1, <2>2, <2>3, <2>4, <2>5, <2>6 DEF Next, Step
<1>. QED  BY <1>0, <1>1

\* A run that has been replaced stays replaced, and a container that is down
\* comes up as a new run.
LEMMA RunReplaced ==
    ASSUME TypeOK, [Next]_vars, NEW n \in Nat, n =< run
    PROVE  /\ n =< run'
           /\ run > n => run' > n
           /\ run > n \/ ~Up => run' > n \/ ~Up'
<1>0. run \in Nat
  BY DEF TypeOK, ServerType
<1>1. ContainerStarts => run' = run + 1
  BY DEF ContainerStarts
<1>. QED  BY <1>0, <1>1, RunGrows, UpByStart

\* Every step keeps what is known of restarts.
LEMMA RestartInvStep == TypeOK /\ RestartInv /\ [Next]_vars => RestartInv'
<1> SUFFICES ASSUME TypeOK, RestartInv, [Next]_vars, NEW v \in Users, op'[v] = "restart"
             PROVE  RestartSoFar(v)'
  BY DEF RestartInv
<1>. USE DEF RestartSoFar
<1>0. /\ run \in Nat /\ firstRun \in [Users -> Nat]
      /\ pc \in [Users -> Steps] /\ result \in [Users -> Results]
  BY DEF TypeOK, ServerType, HistoryType, FlowType
<1>1. ASSUME op[v] = "restart", firstRun'[v] = firstRun[v],
             pc'[v] = pc[v], result'[v] = result[v]
      PROVE  RestartSoFar(v)'
  BY <1>0, <1>1, RunReplaced DEF RestartInv
<1>2. ASSUME NEW u \in Users, Ask(u)
      PROVE  RestartSoFar(v)'
  <2>1. CASE v # u
    BY <1>1, <1>2, <2>1, Begun
  <2>2. CASE v = u
    BY <1>0, <1>2, <2>2, Begun DEF StopSteps, server
  <2>. QED  BY <2>1, <2>2
<1>3. ASSUME NEW u \in Users, Step(u) \/ EnterListGate(u), v # u
      PROVE  op[v] = "restart" /\ UNCHANGED <<firstRun[v], pc[v], result[v]>>
  BY <1>3, MovesOne, OpOfOthers
<1>4. ASSUME StopStep(v)
      PROVE  RestartSoFar(v)'
  <2>1. op[v] = "restart" /\ firstRun'[v] = firstRun[v]
    BY <1>4, OpOfOthers DEF Step
  <2>2. HasDocker /\ firstRun'[v] =< run'
    BY <1>0, <1>4, <2>1, StopStepCases, RunReplaced DEF RestartInv, StopSteps
  <2>3. pc'[v] \in {"dockerStop", "wait", "dockerStart", "idle"}
    BY <1>0, <1>4, StopStepCases DEF LeaveStop, Goto, End
  <2>4. CASE pc'[v] = "wait"
    <3>1. DockerStop(v)
      BY <1>4, <2>2, <2>4, StopProgress
    <3>2. ~Up'
      BY <3>1 DEF DockerStop, ContainerStops, server, Up
    <3>. QED  BY <2>2, <2>4, <3>2 DEF StopSteps
  <2>5. CASE WaitForExit(v)
    <3>1. pc'[v] = "dockerStart" \/ result'[v] # "ok"
      BY <1>0, <2>1, <2>5 DEF WaitForExit, LeaveStop, Goto
    <3>2. run' > firstRun'[v] \/ ~Up'
      BY <1>0, <2>1, <2>5, RunReplaced DEF WaitForExit, RestartInv
    <3>3. pc'[v] = "dockerStart"
      BY <1>0, <2>1, <2>5 DEF WaitForExit, LeaveStop, Goto
    <3>. QED  BY <2>2, <3>2, <3>3 DEF StopSteps
  <2>. QED  BY <1>4, <2>2, <2>3, <2>4, <2>5, StopProgress DEF StopSteps
<1>5. ASSUME OtherStep(v), Step(v) \/ EnterListGate(v)
      PROVE  RestartSoFar(v)'
  <2>1. op[v] = "restart" /\ firstRun'[v] = firstRun[v]
    BY <1>5, OpOfOthers
  <2>2. pc[v] \in {"dockerStart", "started"}
    BY <1>5, <2>1, MovesOne, OtherStepFrame DEF RestartInv
  <2>3. HasDocker /\ firstRun'[v] =< run'
    BY <1>0, <2>1, <2>2, RunReplaced DEF RestartInv
  <2>4. StartStep(v)
    BY <1>5, <2>2 DEF Step, StopStep, RconStopTaken, RconStopLost, RconStopFailed, RconStopDenied,
        DockerStop, DockerStopFailed, WaitForExit, WaitTimedOut, CommandStep, CommandRuns,
        CommandReturns, CommandFailed, ListingStep, Inspect, UseCachedListing, ListAnswered,
        ListFailed, ListDenied, StoreListing, EnterListGate, VersionStep, PropertiesRead,
        ReadLogHead, AssignVersion, AssignReadFor
  <2>5. CASE DockerStart(v)
    <3>1. pc'[v] = "started"
      BY <1>0, <2>5 DEF DockerStart, Goto
    <3>2. run' > firstRun'[v]
      <4>1. CASE ContainerStarts
        BY <1>0, <2>1, <4>1 DEF ContainerStarts, RestartInv
      <4>2. CASE Up /\ UNCHANGED server
        BY <1>0, <2>1, <2>2, <2>5, <4>2 DEF DockerStart, RestartInv, server
      <4>. QED  BY <2>5, <4>1, <4>2 DEF DockerStart
    <3>. QED  BY <2>3, <3>1, <3>2
  <2>6. CASE DockerStartFailed(v)
    BY <1>0, <2>3, <2>6 DEF DockerStartFailed, End
  <2>7. CASE LeaveStart(v)
    <3>1. pc'[v] = "idle" /\ pc[v] = "started"
      BY <1>0, <2>7 DEF LeaveStart, End
    <3>2. run' > firstRun'[v]
      BY <1>0, <2>1, <3>1, RunReplaced DEF RestartInv
    <3>. QED  BY <2>3, <3>1, <3>2
  <2>. QED  BY <2>4, <2>5, <2>6, <2>7 DEF StartStep
<1>6. CASE Outside \/ UNCHANGED vars
  BY <1>1, <1>6, OutsideFrame
<1>. QED  BY <1>1, <1>2, <1>3, <1>4, <1>5, <1>6 DEF Next, Step, OtherStep

\* A restart that succeeded has replaced the run it found by a new one, whatever
\* other users started or stopped meanwhile.
THEOREM RestartsRestart == Spec => []RestartMeansNewRun
<1>1. Init => RestartInv
  BY DEF Init, RestartInv, RestartSoFar
<1>2. RestartInv => RestartMeansNewRun
  BY DEF RestartInv, RestartSoFar, RestartMeansNewRun, Finished
<1>. QED  BY <1>1, <1>2, RestartInvStep, TypeCorrect, PTL DEF Spec

=============================================================================
