----------------------------- MODULE RconClient -----------------------------
(***************************************************************************)
(* The RCON client of McAdmin (Web/src/Services/Rcon/RconClient.cs): one   *)
(* TCP connection to the Minecraft server, opened on demand, kept between  *)
(* commands, and shared by every caller of the application behind a        *)
(* SemaphoreSlim(1, 1).                                                    *)
(*                                                                         *)
(* A caller runs ExecuteAsync: it takes the gate, makes sure there is a    *)
(* connection that has logged in, writes the command and reads packets     *)
(* until the answer is complete.  Every await is a step of its own, so the *)
(* server may restart, answer late or drop the connection in between.      *)
(*                                                                         *)
(* The Minecraft server is external: what it does is taken from what the   *)
(* client expects of it.  Abstracted: the bytes of a packet (a packet is   *)
(* a record; its body is the number of the command it answers and its size *)
(* class), the clock (a deadline may pass at any await it covers), and the *)
(* cancellation token, which every caller of the application leaves at its *)
(* default.                                                                *)
(***************************************************************************)
EXTENDS Integers, Sequences

CONSTANTS Callers,      \* the flows that share the client
          MaxCommands,  \* bound: commands issued in one behaviour
          MaxRuns,      \* bound: times the Minecraft server is started
          Replies       \* answers a command may get: sequences of packet sizes

(***************************************************************************)
(* The size of a packet's body as the client sees it: exactly              *)
(* MaxBodyLength characters ("full"), fewer ("part"), or a length field    *)
(* outside what ReadPacketAsync accepts ("over").                          *)
(***************************************************************************)
Sizes == {"full", "part", "over"}

ASSUME BoundsAssumption == MaxCommands \in Nat /\ MaxRuns \in Nat
ASSUME RepliesAssumption == Replies \subseteq Seq(Sizes)

\* What the client counts on: ReadPacketAsync, that every packet has a length it
\* accepts, ReadResponseAsync, that only the last packet of an answer is short.
Acceptable(replies) == \A sizes \in replies : \A k \in 1..Len(sizes) : sizes[k] # "over"
SplitWhenFull(replies) ==
    \A sizes \in replies : \A k \in 1..Len(sizes) : sizes[k] = "part" => k = Len(sizes)

VARIABLES
    \* the client object
    gate,      \* SemaphoreSlim(1, 1): how many more callers may enter
    client,    \* TRUE when client and stream are set and look connected
    nextId,    \* the last request id handed out
    \* each caller of ExecuteAsync
    pc,        \* the await it is at
    cmd,       \* the number of its command, 0 before the first
    ends,      \* its tolerateDisconnect argument
    attempt,   \* 1, or 2 once SendAsync runs again against a fresh connection
    id,        \* the request id SendAsync or EnsureConnectedAsync waits for
    body,      \* whose answers it has appended to its StringBuilder
    whole,     \* TRUE when the last packet appended ended its answer
    outcome,   \* how its last call came back
    startRun,  \* the server run in which its last call got the gate
    issued,    \* commands issued so far
    \* the Minecraft server and the connection to it
    up,        \* TRUE while the server accepts RCON connections
    run,       \* which run of the server this is, or was
    link,      \* TRUE while the server keeps the current connection open
    authed,    \* TRUE when the current connection has logged in
    inbox,     \* packets on the current connection the server has not handled
    late,      \* commands on dropped connections the server has not handled
    wire,      \* packets on the current connection the client has not read
    ran        \* ran[n]: how often the server has run command n

clientVars == <<gate, nextId>>
callerVars == <<pc, cmd, ends, attempt, id, body, whole, outcome, startRun, issued>>
connection == <<client, link, authed, inbox, late, wire>>
serverVars == <<up, run, ran>>
vars == <<clientVars, callerVars, connection, serverVars>>

Commands == 1..MaxCommands

(***************************************************************************)
(* Packets.  A command or a login goes to the server; a verdict (the       *)
(* packet of type TypeAuthResponse) or a reply comes back.  cmd is the     *)
(* command a packet belongs to, 0 for a login: the code never sees it.     *)
(***************************************************************************)
Request(kind, i, n) == [kind |-> kind, id |-> i, cmd |-> n]
Verdict(i) == [kind |-> "verdict", id |-> i, cmd |-> 0, size |-> "part", last |-> TRUE]
Reply(i, n, size, last) ==
    [kind |-> "reply", id |-> i, cmd |-> n, size |-> size, last |-> last]

\* The packets that carry an answer of the given sizes to request i.
Answer(i, n, sizes) ==
    [k \in 1..Len(sizes) |-> Reply(i, n, sizes[k], k = Len(sizes))]

\* States between gate.WaitAsync and gate.Release.
InGate == {"connecting", "authenticating", "sending", "reading"}
Holds(c) == pc[c] \in InGate

Init ==
    /\ gate = 1
    /\ client = FALSE
    /\ nextId = 0
    /\ pc = [c \in Callers |-> "idle"]
    /\ cmd = [c \in Callers |-> 0]
    /\ ends = [c \in Callers |-> FALSE]
    /\ attempt = [c \in Callers |-> 1]
    /\ id = [c \in Callers |-> 0]
    /\ body = [c \in Callers |-> {}]
    /\ whole = [c \in Callers |-> FALSE]
    /\ outcome = [c \in Callers |-> "none"]
    /\ startRun = [c \in Callers |-> 0]
    /\ issued = 0
    /\ up = FALSE
    /\ run = 0
    /\ link = FALSE
    /\ authed = FALSE
    /\ inbox = {}
    /\ late = {}
    /\ wire = <<>>
    /\ ran = [n \in Commands |-> 0]

-----------------------------------------------------------------------------
(***************************************************************************)
(* Steps of the client.                                                    *)
(***************************************************************************)

\* Close(): both objects are disposed.  A command the server has received but
\* not handled is still its to run; its answer has nowhere to go.
Close ==
    /\ client' = FALSE
    /\ link' = FALSE
    /\ authed' = FALSE
    /\ inbox' = {}
    /\ wire' = <<>>
    /\ late' = late \cup {p.cmd : p \in {q \in inbox : q.kind = "command"}}

\* ExecuteAsync leaves through its finally: the gate is released.
Return(c, how) ==
    /\ pc' = [pc EXCEPT ![c] = "idle"]
    /\ outcome' = [outcome EXCEPT ![c] = how]
    /\ gate' = gate + 1

\* A caller enters ExecuteAsync.  Only "stop" is sent with tolerateDisconnect.
ExecuteAsync(c) ==
    /\ pc[c] = "idle"
    /\ issued < MaxCommands
    /\ issued' = issued + 1
    /\ \E e \in BOOLEAN : ends' = [ends EXCEPT ![c] = e]
    /\ cmd' = [cmd EXCEPT ![c] = issued + 1]
    /\ pc' = [pc EXCEPT ![c] = "waiting"]
    /\ attempt' = [attempt EXCEPT ![c] = 1]
    /\ body' = [body EXCEPT ![c] = {}]
    /\ whole' = [whole EXCEPT ![c] = FALSE]
    /\ outcome' = [outcome EXCEPT ![c] = "none"]
    /\ UNCHANGED <<clientVars, id, startRun, connection, serverVars>>

\* Mutant: the gate lets everybody in.
EnterGateAnyway(c) ==
    /\ pc[c] = "waiting"
    /\ pc' = [pc EXCEPT ![c] = "connecting"]
    /\ startRun' = [startRun EXCEPT ![c] = run]
    /\ UNCHANGED <<gate, nextId, cmd, ends, attempt, id, body, whole, outcome, issued,
                   connection, serverVars>>

\* gate.WaitAsync completes.
EnterGate(c) ==
    /\ pc[c] = "waiting"
    /\ gate > 0
    /\ gate' = gate - 1
    /\ pc' = [pc EXCEPT ![c] = "connecting"]
    /\ startRun' = [startRun EXCEPT ![c] = run]
    /\ UNCHANGED <<nextId, cmd, ends, attempt, id, body, whole, outcome, issued,
                   connection, serverVars>>

\* EnsureConnectedAsync, first return: the socket of an earlier call looks alive.
ReuseConnection(c) ==
    /\ pc[c] = "connecting"
    /\ client
    /\ pc' = [pc EXCEPT ![c] = "sending"]
    /\ UNCHANGED <<clientVars, cmd, ends, attempt, id, body, whole, outcome, startRun,
                   issued, connection, serverVars>>

\* EnsureConnectedAsync connects, keeps the socket and writes the password.
OpenConnection(c) ==
    /\ pc[c] = "connecting"
    /\ ~client
    /\ up
    /\ client' = TRUE
    /\ link' = TRUE
    /\ authed' = FALSE
    /\ nextId' = nextId + 1
    /\ id' = [id EXCEPT ![c] = nextId + 1]
    /\ inbox' = {Request("login", nextId + 1, 0)}
    /\ wire' = <<>>
    /\ pc' = [pc EXCEPT ![c] = "authenticating"]
    /\ UNCHANGED <<gate, cmd, ends, attempt, body, whole, outcome, startRun, issued,
                   late, serverVars>>

\* EnsureConnectedAsync reads one packet: not a verdict, keep reading; a
\* verdict with id -1, close and give up; any other verdict, logged in.
ReadVerdict(c) ==
    /\ pc[c] = "authenticating"
    /\ wire # <<>>
    /\ Head(wire).size # "over"
    /\ \/ /\ Head(wire).kind # "verdict"
          /\ wire' = Tail(wire)
          /\ UNCHANGED <<gate, pc, outcome, client, link, authed, inbox, late>>
       \/ /\ Head(wire).kind = "verdict"
          /\ Head(wire).id = -1
          /\ Close
          /\ Return(c, "rejected")
       \/ /\ Head(wire).kind = "verdict"
          /\ Head(wire).id # -1
          /\ wire' = Tail(wire)
          /\ pc' = [pc EXCEPT ![c] = "sending"]
          /\ UNCHANGED <<gate, outcome, client, link, authed, inbox, late>>
    /\ UNCHANGED <<nextId, cmd, ends, attempt, id, body, whole, startRun, issued, serverVars>>

\* SendAsync writes the command under a fresh id.  A write to a connection the
\* server has dropped may well succeed; nobody receives it.
WriteCommand(c) ==
    /\ pc[c] = "sending"
    /\ nextId' = nextId + 1
    /\ id' = [id EXCEPT ![c] = nextId + 1]
    /\ inbox' = IF link THEN inbox \cup {Request("command", nextId + 1, cmd[c])} ELSE inbox
    /\ body' = [body EXCEPT ![c] = {}]
    /\ pc' = [pc EXCEPT ![c] = "reading"]
    /\ UNCHANGED <<gate, cmd, ends, attempt, whole, outcome, startRun, issued,
                   client, link, authed, late, wire, serverVars>>

(***************************************************************************)
(* SendAsync throws.  A lost or refused connection ("failed") of a command *)
(* that ends the server counts as its success.  Otherwise ExecuteAsync     *)
(* closes and sends once more; the second exception reaches the caller,    *)
(* and then nothing closes the socket: after an InvalidDataException it    *)
(* still looks connected, after a broken connection it may or may not.     *)
(***************************************************************************)
Tolerated(c, how) == ends[c] /\ how = "failed"

\* Mutant: no second attempt.
FailAtOnce(c, how) ==
    /\ Close
    /\ Return(c, IF Tolerated(c, how) THEN "ended" ELSE how)
    /\ UNCHANGED attempt

\* Mutant: attempts are not counted.
FailForEver(c, how) ==
    /\ Close
    /\ pc' = [pc EXCEPT ![c] = "connecting"]
    /\ UNCHANGED <<gate, outcome, attempt>>

Fail(c, how) ==
    \/ /\ Tolerated(c, how)
       /\ Close
       /\ Return(c, "ended")
       /\ UNCHANGED attempt
    \/ /\ ~Tolerated(c, how)
       /\ attempt[c] = 1
       /\ Close
       /\ attempt' = [attempt EXCEPT ![c] = 2]
       /\ pc' = [pc EXCEPT ![c] = "connecting"]
       /\ UNCHANGED <<gate, outcome>>
    \/ /\ ~Tolerated(c, how)
       /\ attempt[c] = 2
       /\ \/ UNCHANGED connection
          \/ how = "failed" /\ Close
       /\ Return(c, how)
       /\ UNCHANGED attempt

\* Mutant: the rest of a long answer is not waited for.
ReadFirstPacket(c) ==
    /\ pc[c] = "reading"
    /\ wire # <<>>
    /\ Head(wire).size # "over"
    /\ wire' = Tail(wire)
    /\ \/ /\ Head(wire).id # id[c]
          /\ UNCHANGED <<gate, pc, outcome, body, whole>>
       \/ /\ Head(wire).id = id[c]
          /\ body' = [body EXCEPT ![c] = @ \cup {Head(wire).cmd}]
          /\ whole' = [whole EXCEPT ![c] = Head(wire).last]
          /\ Return(c, "answered")
    /\ UNCHANGED <<nextId, cmd, ends, attempt, id, startRun, issued,
                   client, link, authed, inbox, late, serverVars>>

\* Mutant: the request id of a packet is not looked at.
ReadAnyReply(c) ==
    /\ pc[c] = "reading"
    /\ wire # <<>>
    /\ Head(wire).size # "over"
    /\ wire' = Tail(wire)
    /\ body' = [body EXCEPT ![c] = @ \cup {Head(wire).cmd}]
    /\ whole' = [whole EXCEPT ![c] = Head(wire).last]
    /\ \/ Head(wire).size # "full" /\ Return(c, "answered")
       \/ Head(wire).size = "full" /\ UNCHANGED <<gate, pc, outcome>>
    /\ UNCHANGED <<nextId, cmd, ends, attempt, id, startRun, issued,
                   client, link, authed, inbox, late, serverVars>>

\* ReadResponseAsync reads one packet with an acceptable length: left over from
\* an earlier request, skip it; otherwise append it, and return unless it is
\* full or more has arrived already (stream.DataAvailable).
ReadReply(c) ==
    /\ pc[c] = "reading"
    /\ wire # <<>>
    /\ Head(wire).size # "over"
    /\ wire' = Tail(wire)
    /\ \/ /\ Head(wire).id # id[c]
          /\ UNCHANGED <<gate, pc, outcome, body, whole>>
       \/ /\ Head(wire).id = id[c]
          /\ body' = [body EXCEPT ![c] = @ \cup {Head(wire).cmd}]
          /\ whole' = [whole EXCEPT ![c] = Head(wire).last]
          /\ \/ Head(wire).size # "full" /\ Return(c, "answered")
             \/ /\ Head(wire).size = "full" \/ Tail(wire) # <<>>
                /\ UNCHANGED <<gate, pc, outcome>>
    /\ UNCHANGED <<nextId, cmd, ends, attempt, id, startRun, issued,
                   client, link, authed, inbox, late, serverVars>>

\* ReadPacketAsync refuses the length field: InvalidDataException, with the
\* rest of the packet still in the stream.
ReadGarbage(c) ==
    /\ pc[c] \in {"authenticating", "reading"}
    /\ wire # <<>>
    /\ Head(wire).size = "over"
    /\ Fail(c, "garbled")
    /\ UNCHANGED <<nextId, cmd, ends, id, body, whole, startRun, issued, serverVars>>

\* ConnectAsync is refused, or a read or write finds the connection gone:
\* SocketException, IOException or EndOfStreamException.
Disconnected(c) ==
    /\ \/ pc[c] = "connecting" /\ ~client /\ ~up
       \/ pc[c] \in {"authenticating", "reading"} /\ ~link /\ wire = <<>>
       \/ pc[c] = "sending" /\ ~link
    /\ Fail(c, "failed")
    /\ UNCHANGED <<nextId, cmd, ends, id, body, whole, startRun, issued, serverVars>>

\* Mutant: the connection is kept after a deadline.
TimeOutKeepingConnection(c) ==
    /\ Holds(c)
    /\ pc[c] = "connecting" => ~client
    /\ Return(c, "timeout")
    /\ UNCHANGED <<nextId, cmd, ends, attempt, id, body, whole, startRun, issued,
                   connection, serverVars>>

\* Mutant: a deadline is retried like a broken connection.
TimeOutAndRetry(c) ==
    /\ Holds(c)
    /\ pc[c] = "connecting" => ~client
    /\ Fail(c, "garbled")
    /\ UNCHANGED <<nextId, cmd, ends, id, body, whole, startRun, issued, serverVars>>

\* Mutant: the gate is not released after a deadline.
TimeOutInGate(c) ==
    /\ Holds(c)
    /\ pc[c] = "connecting" => ~client
    /\ Close
    /\ pc' = [pc EXCEPT ![c] = "idle"]
    /\ outcome' = [outcome EXCEPT ![c] = "timeout"]
    /\ UNCHANGED <<gate, nextId, cmd, ends, attempt, id, body, whole, startRun, issued,
                   serverVars>>

\* The deadline of this SendAsync passes at one of its awaits.
TimeOut(c) ==
    /\ Holds(c)
    /\ pc[c] = "connecting" => ~client
    /\ Close
    /\ Return(c, "timeout")
    /\ UNCHANGED <<nextId, cmd, ends, attempt, id, body, whole, startRun, issued, serverVars>>

-----------------------------------------------------------------------------
(***************************************************************************)
(* The Minecraft server (external).                                        *)
(***************************************************************************)

Start ==
    /\ ~up
    /\ run < MaxRuns
    /\ up' = TRUE
    /\ run' = run + 1
    /\ UNCHANGED <<clientVars, callerVars, connection, ran>>

\* The server stops, told to or not, and drops every connection.  What it had
\* sent may still reach the client, what it had not read is lost.
Shutdown ==
    /\ up
    /\ up' = FALSE
    /\ link' = FALSE
    /\ inbox' = {}
    /\ late' = {}
    /\ wire' \in {wire, <<>>}
    /\ UNCHANGED <<clientVars, callerVars, client, authed, run, ran>>

\* Some servers send an empty reply before the verdict.
HandleLogin ==
    \E p \in inbox, accepted, empty \in BOOLEAN :
        /\ p.kind = "login"
        /\ inbox' = inbox \ {p}
        /\ authed' = accepted
        /\ wire' = wire \o (IF empty THEN <<Reply(p.id, 0, "part", TRUE)>> ELSE <<>>)
                        \o <<Verdict(IF accepted THEN p.id ELSE -1)>>
        /\ UNCHANGED <<clientVars, callerVars, client, link, late, serverVars>>

\* A command runs and is answered, or runs without an answer, as "stop" does.
\* A connection that has not logged in gets a verdict instead.
HandleCommand ==
    \E p \in inbox :
        /\ p.kind = "command"
        /\ inbox' = inbox \ {p}
        /\ \/ /\ authed
              /\ ran' = [ran EXCEPT ![p.cmd] = @ + 1]
              /\ \E sizes \in Replies \cup {<<>>} :
                    wire' = wire \o Answer(p.id, p.cmd, sizes)
           \/ /\ ~authed
              /\ wire' = Append(wire, Verdict(-1))
              /\ UNCHANGED ran
        /\ UNCHANGED <<clientVars, callerVars, client, link, authed, late, up, run>>

\* A command from a connection the client has already dropped.
HandleLateCommand ==
    \E n \in late :
        /\ late' = late \ {n}
        /\ ran' = [ran EXCEPT ![n] = @ + 1]
        /\ UNCHANGED <<clientVars, callerVars, client, link, authed, inbox, wire, up, run>>

-----------------------------------------------------------------------------
CallerStep(c) ==
    \/ EnterGate(c)
    \/ ReuseConnection(c)
    \/ OpenConnection(c)
    \/ ReadVerdict(c)
    \/ WriteCommand(c)
    \/ ReadReply(c)
    \/ ReadGarbage(c)
    \/ Disconnected(c)
    \/ TimeOut(c)

Next ==
    \/ \E c \in Callers : ExecuteAsync(c) \/ CallerStep(c)
    \/ Start
    \/ Shutdown
    \/ HandleLogin
    \/ HandleCommand
    \/ HandleLateCommand

Spec == Init /\ [][Next]_vars

(***************************************************************************)
(* The runtime resumes a caller whose await can complete, the timer fires, *)
(* and SemaphoreSlim does not pass a waiter over for ever.  Nothing is     *)
(* assumed of the server.                                                  *)
(***************************************************************************)
Fairness == \A c \in Callers : WF_vars(CallerStep(c)) /\ SF_vars(EnterGate(c))
FairSpec == Spec /\ Fairness

-----------------------------------------------------------------------------
(***************************************************************************)
(* Properties.                                                             *)
(***************************************************************************)
Packets == [kind : {"verdict", "reply"}, id : Int, cmd : 0..MaxCommands,
            size : Sizes, last : BOOLEAN]
Requests == [kind : {"login"}, id : Nat, cmd : {0}]
              \cup [kind : {"command"}, id : Nat, cmd : Commands]

ClientType ==
    /\ gate \in {0, 1}
    /\ nextId \in Nat

ConnectionType ==
    /\ client \in BOOLEAN
    /\ link \in BOOLEAN
    /\ authed \in BOOLEAN

CallerType ==
    /\ pc \in [Callers -> InGate \cup {"idle", "waiting"}]
    /\ cmd \in [Callers -> 0..MaxCommands]
    /\ ends \in [Callers -> BOOLEAN]
    /\ attempt \in [Callers -> {1, 2}]
    /\ id \in [Callers -> Nat]
    /\ body \in [Callers -> SUBSET (0..MaxCommands)]
    /\ whole \in [Callers -> BOOLEAN]
    /\ outcome \in [Callers -> {"none", "answered", "ended", "rejected",
                                "failed", "garbled", "timeout"}]
    /\ startRun \in [Callers -> 0..MaxRuns]
    /\ issued \in 0..MaxCommands

TrafficType ==
    /\ inbox \subseteq Requests
    /\ late \subseteq Commands
    /\ wire \in Seq(Packets)

ServerType ==
    /\ up \in BOOLEAN
    /\ run \in 0..MaxRuns
    /\ ran \in [Commands -> Nat]

\* Every variable has its type; gate is the count of a SemaphoreSlim(1, 1),
\* whose Release throws when it would rise above 1.
TypeOK == ClientType /\ ConnectionType /\ CallerType /\ TrafficType /\ ServerType

\* The gate keeps conversations apart: two callers are never between WaitAsync
\* and Release together, whichever way the earlier one left.
OneConversation == \A c, d \in Callers : Holds(c) /\ Holds(d) => c = d

\* What a caller collects was printed for its own command, although answers
\* cut short by another caller may still lie in the stream before it.
AnswersOwnCommand == \A c \in Callers : body[c] \subseteq {cmd[c]}

\* What a caller is told of an answered command is final: it has been run, its
\* answer is complete, and no copy of it is left that the server might still run.
AnswersAreFinal ==
    \A c \in Callers : outcome[c] = "answered" =>
        /\ whole[c]
        /\ ran[cmd[c]] > 0
        /\ cmd[c] \notin late \cup {p.cmd : p \in inbox}

\* A command is never written to a connection that is open but has not logged
\* in, such as one that a deadline caught between connecting and the verdict.
LoggedInFirst == \A p \in inbox : p.kind = "command" => authed

\* True when the server went down, or was down, since c got the gate.
Outage(c) == ~up \/ run # startRun[c]

\* A socket left over from an earlier run of the server does not by itself
\* fail a call: the second attempt hides it.
FailureNeedsAnOutage ==
    \A c \in Callers : outcome[c] = "failed" => Outage(c)

\* The retry sends a command again only when the first copy was lost with the
\* server: while the server stays up it runs the command once.
RunsOnceWithoutOutage ==
    \A c \in Callers : ~Outage(c) /\ cmd[c] # 0 => ran[cmd[c]] <= 1

\* Every call of ExecuteAsync comes back, whatever the server does.
EveryCallReturns == \A c \in Callers : pc[c] = "waiting" ~> pc[c] = "idle"

\* The client, with its connection hidden, is the service its callers rely on.
Service == INSTANCE RconService WITH busy <- [c \in Callers |-> pc[c] # "idle"],
                                     overdue <- late
ImplementsService == Service!Spec
=============================================================================
