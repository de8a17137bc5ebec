-------------------------- MODULE RconClientProofs --------------------------
(***************************************************************************)
(* Theorems about RconClient, for every set of callers, every bound and    *)
(* every set of answers.                                                   *)
(***************************************************************************)
EXTENDS RconClient, SequenceTheorems, TLAPS

-----------------------------------------------------------------------------
(***************************************************************************)
(* Type correctness.  It needs to know besides that a caller has a command *)
(* from the moment it enters ExecuteAsync.                                 *)
(***************************************************************************)
HasCommand == \A c \in Callers : pc[c] # "idle" => cmd[c] \in Commands

\* The callers between WaitAsync and Release are those the count says.
GateInv ==
    /\ \A c \in Callers : Holds(c) => gate = 0
    /\ OneConversation

TypeInv == TypeOK /\ HasCommand /\ GateInv

\* The packets of an answer are packets.
LEMMA AnswerType ==
    ASSUME NEW i \in Int, NEW n \in 0..MaxCommands, NEW sizes \in Replies \cup {<<>>}
    PROVE  Answer(i, n, sizes) \in Seq(Packets)
<1>1. sizes \in Seq(Sizes)
  <2>1. <<>> \in Seq(Sizes)
    OBVIOUS
  <2>. QED  BY <2>1, RepliesAssumption
<1>2. \A k \in 1..Len(sizes) : Reply(i, n, sizes[k], k = Len(sizes)) \in Packets
  BY <1>1 DEF Reply, Packets
<1>3. Len(sizes) \in Nat
  BY <1>1
<1>. QED  BY <1>2, <1>3 DEF Answer

\* The empty reply and the verdict are packets too.
LEMMA LoginPacketsType ==
    ASSUME NEW i \in Int
    PROVE  /\ Reply(i, 0, "part", TRUE) \in Packets
           /\ Verdict(i) \in Packets
BY BoundsAssumption DEF Reply, Verdict, Packets, Sizes

\* A one-packet answer is a sequence.
LEMMA Singleton == ASSUME NEW S, NEW x \in S PROVE <<x>> \in Seq(S)
OBVIOUS

\* What Close leaves behind is well typed.
LEMMA CloseType ==
    ASSUME TrafficType, Close
    PROVE  TrafficType' /\ client' = FALSE /\ link' = FALSE /\ authed' = FALSE
<1>1. \A p \in inbox : p.kind = "command" => p.cmd \in Commands
  BY DEF TrafficType, Requests
<1>2. late' \subseteq Commands
  BY <1>1 DEF Close, TrafficType
<1>3. <<>> \in Seq(Packets)
  OBVIOUS
<1>. QED  BY <1>2, <1>3, Zenon DEF Close, TrafficType

\* The server touches neither the callers nor the gate.
LEMMA ServerLeavesCallers ==
    ASSUME TypeInv, UNCHANGED <<clientVars, callerVars>>
    PROVE  ClientType' /\ CallerType' /\ HasCommand' /\ GateInv'
<1>1. ClientType'
  BY DEF TypeInv, TypeOK, ClientType, clientVars
<1>2. CallerType'
  BY DEF TypeInv, TypeOK, CallerType, callerVars
<1>3. HasCommand' /\ GateInv'
  BY DEF TypeInv, HasCommand, GateInv, OneConversation, Holds, callerVars, clientVars
<1>. QED  BY <1>1, <1>2, <1>3

\* Every step of the client and of the server preserves types.
LEMMA TypeStep == TypeInv /\ [Next]_vars => TypeInv'
<1> SUFFICES ASSUME TypeInv, [Next]_vars
             PROVE  TypeInv'
  OBVIOUS
<1>. USE DEF TypeInv, TypeOK
<1>1. ASSUME NEW c \in Callers, ExecuteAsync(c)
      PROVE  TypeInv'
  <2>1. ClientType'
    <3>1. UNCHANGED <<gate, nextId>>
      BY <1>1, Zenon DEF ExecuteAsync, clientVars
    <3>. QED  BY <3>1 DEF ClientType
  <2>2. ConnectionType'
    BY <1>1, Zenon DEF ConnectionType, ExecuteAsync, connection
  <2>3. CallerType'
    BY <1>1, BoundsAssumption DEF CallerType, ServerType, ExecuteAsync, InGate, Holds, HasCommand, Commands
  <2>4. TrafficType'
    BY <1>1 DEF TrafficType, ExecuteAsync, connection
  <2>5. ServerType'
    BY <1>1 DEF ServerType, ExecuteAsync, serverVars
  <2>6. HasCommand'
    BY <1>1, BoundsAssumption DEF HasCommand, CallerType, ExecuteAsync, InGate, Commands
  <2>7. GateInv'
    BY <1>1 DEF GateInv, OneConversation, ClientType, CallerType, ExecuteAsync, Holds, InGate, clientVars
  <2>. QED  BY <2>1, <2>2, <2>3, <2>4, <2>5, <2>6, <2>7
<1>2. ASSUME NEW c \in Callers, EnterGate(c)
      PROVE  TypeInv'
  <2>1. ClientType'
    <3>1. gate > 0 /\ gate' = gate - 1 /\ UNCHANGED nextId
      BY <1>2, Zenon DEF EnterGate, clientVars
    <3>. QED  BY <3>1 DEF ClientType
  <2>2. ConnectionType'
    BY <1>2, Zenon DEF ConnectionType, EnterGate, connection
  <2>3. CallerType'
    BY <1>2 DEF CallerType, ServerType, EnterGate, InGate, Holds, HasCommand, Commands
  <2>4. TrafficType'
    BY <1>2 DEF TrafficType, EnterGate, connection
  <2>5. ServerType'
    BY <1>2 DEF ServerType, EnterGate, serverVars
  <2>6. HasCommand'
    BY <1>2 DEF HasCommand, CallerType, EnterGate, InGate, Commands
  <2>7. GateInv'
    BY <1>2 DEF GateInv, OneConversation, ClientType, CallerType, EnterGate, Holds, InGate, clientVars
  <2>. QED  BY <2>1, <2>2, <2>3, <2>4, <2>5, <2>6, <2>7
<1>3. ASSUME NEW c \in Callers, ReuseConnection(c)
      PROVE  TypeInv'
  <2>1. ClientType'
    <3>1. UNCHANGED <<gate, nextId>>
      BY <1>3, Zenon DEF ReuseConnection, clientVars
    <3>. QED  BY <3>1 DEF ClientType
  <2>2. ConnectionType'
    BY <1>3, Zenon DEF ConnectionType, ReuseConnection, connection
  <2>3. CallerType'
    BY <1>3 DEF CallerType, ServerType, ReuseConnection, InGate, Holds, HasCommand, Commands
  <2>4. TrafficType'
    BY <1>3 DEF TrafficType, ReuseConnection, connection
  <2>5. ServerType'
    BY <1>3 DEF ServerType, ReuseConnection, serverVars
  <2>6. HasCommand'
    BY <1>3 DEF HasCommand, CallerType, ReuseConnection, InGate, Commands
  <2>7. GateInv'
    BY <1>3 DEF GateInv, OneConversation, ClientType, CallerType, ReuseConnection, Holds, InGate, clientVars
  <2>. QED  BY <2>1, <2>2, <2>3, <2>4, <2>5, <2>6, <2>7
<1>4. ASSUME NEW c \in Callers, OpenConnection(c)
      PROVE  TypeInv'
  <2>1. ClientType'
    <3>1. UNCHANGED gate /\ nextId' = nextId + 1
      BY <1>4, Zenon DEF OpenConnection, clientVars
    <3>. QED  BY <3>1 DEF ClientType
  <2>2. ConnectionType'
    BY <1>4, Zenon DEF ConnectionType, OpenConnection, connection
  <2>3. CallerType'
    <3>1. nextId + 1 \in Nat
      BY DEF ClientType
    <3>. QED  BY <1>4, <3>1 DEF CallerType, OpenConnection, InGate
  <2>4. TrafficType'
    BY <1>4 DEF ClientType, TrafficType, OpenConnection, Request, Requests, connection
  <2>5. ServerType'
    BY <1>4 DEF ServerType, OpenConnection, serverVars
  <2>6. HasCommand'
    BY <1>4 DEF HasCommand, CallerType, OpenConnection, InGate, Commands
  <2>7. GateInv'
    BY <1>4 DEF GateInv, OneConversation, ClientType, CallerType, OpenConnection, Holds, InGate, clientVars
  <2>. QED  BY <2>1, <2>2, <2>3, <2>4, <2>5, <2>6, <2>7
<1>5. ASSUME NEW c \in Callers, ReadVerdict(c)
      PROVE  TypeInv'
  <2>1. ClientType'
    <3>1. gate' \in {gate, gate + 1} /\ UNCHANGED nextId
      BY <1>5, Zenon DEF ReadVerdict, Return, clientVars
    <3>2. gate = 0
      BY <1>5 DEF ReadVerdict, GateInv, Holds, InGate
    <3>. QED  BY <3>1, <3>2 DEF ClientType
  <2>2. ConnectionType'
    BY <1>5, Zenon DEF ConnectionType, ReadVerdict, Return, Close, connection
  <2>3. CallerType'
    BY <1>5 DEF CallerType, ServerType, ReadVerdict, Return, InGate, Holds, HasCommand, Commands
  <2>4. TrafficType'
    <3>1. wire # <<>> => Tail(wire) \in Seq(Packets)
      BY DEF TrafficType
    <3>2. \/ Close
          \/ UNCHANGED <<inbox, late>> /\ wire # <<>> /\ wire' = Tail(wire)
      BY <1>5, Zenon DEF ReadVerdict
    <3>. QED  BY <3>1, <3>2, CloseType DEF TrafficType
  <2>5. ServerType'
    BY <1>5 DEF ServerType, ReadVerdict, serverVars
  <2>6. HasCommand'
    BY <1>5 DEF HasCommand, CallerType, ReadVerdict, Return, InGate, Commands
  <2>7. GateInv'
    BY <1>5 DEF GateInv, OneConversation, ClientType, CallerType, ReadVerdict, Return, Holds, InGate, clientVars
  <2>. QED  BY <2>1, <2>2, <2>3, <2>4, <2>5, <2>6, <2>7
<1>6. ASSUME NEW c \in Callers, WriteCommand(c)
      PROVE  TypeInv'
  <2>1. ClientType'
    <3>1. UNCHANGED gate /\ nextId' = nextId + 1
      BY <1>6, Zenon DEF WriteCommand, clientVars
    <3>. QED  BY <3>1 DEF ClientType
  <2>2. ConnectionType'
    BY <1>6, Zenon DEF ConnectionType, WriteCommand, connection
  <2>3. CallerType'
    <3>1. nextId + 1 \in Nat
      BY DEF ClientType
    <3>. QED  BY <1>6, <3>1 DEF CallerType, WriteCommand, InGate
  <2>4. TrafficType'
    BY <1>6 DEF ClientType, TrafficType, WriteCommand, HasCommand, Request, Requests, InGate
  <2>5. ServerType'
    BY <1>6 DEF ServerType, WriteCommand, serverVars
  <2>6. HasCommand'
    BY <1>6 DEF HasCommand, CallerType, WriteCommand, InGate, Commands
  <2>7. GateInv'
    BY <1>6 DEF GateInv, OneConversation, ClientType, CallerType, WriteCommand, Holds, InGate, clientVars
  <2>. QED  BY <2>1, <2>2, <2>3, <2>4, <2>5, <2>6, <2>7
<1>7. ASSUME NEW c \in Callers, ReadReply(c)
      PROVE  TypeInv'
  <2>1. ClientType'
    <3>1. gate' \in {gate, gate + 1} /\ UNCHANGED nextId
      BY <1>7, Zenon DEF ReadReply, Return, clientVars
    <3>2. gate = 0
      BY <1>7 DEF ReadReply, GateInv, Holds, InGate
    <3>. QED  BY <3>1, <3>2 DEF ClientType
  <2>2. ConnectionType'
    BY <1>7, Zenon DEF ConnectionType, ReadReply, Return, connection
  <2>3. CallerType'
    <3>1. wire # <<>> => Head(wire) \in Packets
      BY DEF TrafficType
    <3>2. wire # <<>> => Head(wire).cmd \in 0..MaxCommands /\ Head(wire).last \in BOOLEAN
      BY <3>1 DEF Packets
    <3>3. body' \in [Callers -> SUBSET (0..MaxCommands)]
      <4>1. body' = body \/ body' = [body EXCEPT ![c] = @ \cup {Head(wire).cmd}]
        BY <1>7 DEF ReadReply
      <4>2. Head(wire).cmd \in 0..MaxCommands
        BY <1>7, <3>2 DEF ReadReply
      <4>. QED  BY <4>1, <4>2 DEF CallerType
    <3>6. whole' \in [Callers -> BOOLEAN]
      <4>1. whole' = whole \/ whole' = [whole EXCEPT ![c] = Head(wire).last]
        BY <1>7 DEF ReadReply
      <4>. QED  BY <1>7, <3>2, <4>1, Zenon DEF CallerType, ReadReply
    <3>4. /\ pc' \in [Callers -> InGate \cup {"idle", "waiting"}]
          /\ outcome' \in [Callers -> {"none", "answered", "ended", "rejected",
                                       "failed", "garbled", "timeout"}]
      BY <1>7 DEF CallerType, ReadReply, Return
    <3>5. UNCHANGED <<cmd, ends, attempt, id, startRun, issued>>
      BY <1>7 DEF ReadReply
    <3>. QED  BY <3>3, <3>4, <3>5, <3>6, Zenon DEF CallerType
  <2>4. TrafficType'
    BY <1>7 DEF TrafficType, ReadReply
  <2>5. ServerType'
    BY <1>7 DEF ServerType, ReadReply, serverVars
  <2>6. HasCommand'
    BY <1>7 DEF HasCommand, CallerType, ReadReply, Return, InGate, Commands
  <2>7. GateInv'
    BY <1>7 DEF GateInv, OneConversation, ClientType, CallerType, ReadReply, Return, Holds, InGate, clientVars
  <2>. QED  BY <2>1, <2>2, <2>3, <2>4, <2>5, <2>6, <2>7
<1>8. ASSUME NEW c \in Callers, ReadGarbage(c)
      PROVE  TypeInv'
  <2>1. ClientType'
    <3>1. gate' \in {gate, gate + 1} /\ UNCHANGED nextId
      BY <1>8, Zenon DEF ReadGarbage, Fail, Return, clientVars
    <3>2. gate = 0
      BY <1>8 DEF ReadGarbage, GateInv, Holds, InGate
    <3>. QED  BY <3>1, <3>2 DEF ClientType
  <2>2. ConnectionType'
    BY <1>8, Zenon DEF ConnectionType, ReadGarbage, Fail, Return, Close, connection
  <2>3. CallerType'
    BY <1>8 DEF CallerType, ServerType, ReadGarbage, Fail, Return, InGate, Holds, HasCommand, Commands
  <2>4. TrafficType'
    BY <1>8, CloseType DEF TrafficType, ReadGarbage, Fail, connection
  <2>5. ServerType'
    BY <1>8 DEF ServerType, ReadGarbage, serverVars
  <2>6. HasCommand'
    BY <1>8 DEF HasCommand, CallerType, ReadGarbage, Fail, Return, InGate, Commands
  <2>7. GateInv'
    BY <1>8 DEF GateInv, OneConversation, ClientType, CallerType, ReadGarbage, Fail, Return, Holds, InGate, clientVars
  <2>. QED  BY <2>1, <2>2, <2>3, <2>4, <2>5, <2>6, <2>7
<1>9. ASSUME NEW c \in Callers, Disconnected(c)
      PROVE  TypeInv'
  <2>1. ClientType'
    <3>1. gate' \in {gate, gate + 1} /\ UNCHANGED nextId
      BY <1>9, Zenon DEF Disconnected, Fail, Return, clientVars
    <3>2. gate = 0
      BY <1>9 DEF Disconnected, GateInv, Holds, InGate
    <3>. QED  BY <3>1, <3>2 DEF ClientType
  <2>2. ConnectionType'
    BY <1>9, Zenon DEF ConnectionType, Disconnected, Fail, Return, Close, connection
  <2>3. CallerType'
    BY <1>9 DEF CallerType, ServerType, Disconnected, Fail, Return, InGate, Holds, HasCommand, Commands
  <2>4. TrafficType'
    BY <1>9, CloseType DEF TrafficType, Disconnected, Fail, connection
  <2>5. ServerType'
    BY <1>9 DEF ServerType, Disconnected, serverVars
  <2>6. HasCommand'
    BY <1>9 DEF HasCommand, CallerType, Disconnected, Fail, Return, InGate, Commands
  <2>7. GateInv'
    <3>1. /\ Holds(c)
          /\ \/ pc' = [pc EXCEPT ![c] = "idle"]
             \/ pc' = [pc EXCEPT ![c] = "connecting"] /\ UNCHANGED gate
      BY <1>9 DEF Disconnected, Fail, Return, Holds, InGate
    <3>. QED  BY <3>1 DEF GateInv, OneConversation, CallerType, Holds, InGate
  <2>. QED  BY <2>1, <2>2, <2>3, <2>4, <2>5, <2>6, <2>7
<1>10. ASSUME NEW c \in Callers, TimeOut(c)
      PROVE  TypeInv'
  <2>1. ClientType'
    <3>1. gate' = gate + 1 /\ UNCHANGED nextId
      BY <1>10, Zenon DEF TimeOut, Return, clientVars
    <3>2. gate = 0
      BY <1>10 DEF TimeOut, GateInv, Holds, InGate
    <3>. QED  BY <3>1, <3>2 DEF ClientType
  <2>2. ConnectionType'
    BY <1>10, Zenon DEF ConnectionType, TimeOut, Return, Close, connection
  <2>3. CallerType'
    BY <1>10 DEF CallerType, ServerType, TimeOut, Return, InGate, Holds, HasCommand, Commands
  <2>4. TrafficType'
    BY <1>10, CloseType DEF TrafficType, TimeOut, connection
  <2>5. ServerType'
    BY <1>10 DEF ServerType, TimeOut, serverVars
  <2>6. HasCommand'
    BY <1>10 DEF HasCommand, CallerType, TimeOut, Return, InGate, Commands
  <2>7. GateInv'
    BY <1>10 DEF GateInv, OneConversation, ClientType, CallerType, TimeOut, Return, Holds, InGate, clientVars
  <2>. QED  BY <2>1, <2>2, <2>3, <2>4, <2>5, <2>6, <2>7
<1>11. CASE Start
  <2>1. ConnectionType' /\ TrafficType'
    BY <1>11 DEF Start, ConnectionType, TrafficType, connection
  <2>2. ServerType'
    BY <1>11, BoundsAssumption DEF Start, ServerType
  <2>3. UNCHANGED <<clientVars, callerVars>>
    BY <1>11 DEF Start
  <2>. QED  BY <2>1, <2>2, <2>3, ServerLeavesCallers
<1>12. CASE Shutdown
  <2>1. TrafficType'
    <3>1. <<>> \in Seq(Packets)
      OBVIOUS
    <3>. QED  BY <1>12, <3>1 DEF Shutdown, TrafficType
  <2>2. ConnectionType' /\ ServerType'
    BY <1>12 DEF Shutdown, ConnectionType, ServerType
  <2>3. UNCHANGED <<clientVars, callerVars>>
    BY <1>12 DEF Shutdown
  <2>. QED  BY <2>1, <2>2, <2>3, ServerLeavesCallers
<1>13. CASE HandleLogin
  <2>1. PICK p \in inbox, accepted \in BOOLEAN, empty \in BOOLEAN :
           /\ inbox' = inbox \ {p}
           /\ authed' = accepted
           /\ wire' = wire
                \o (IF empty THEN <<Reply(p.id, 0, "part", TRUE)>> ELSE <<>>)
                \o <<Verdict(IF accepted THEN p.id ELSE -1)>>
           /\ UNCHANGED <<clientVars, callerVars, client, link, late, serverVars>>
    BY <1>13 DEF HandleLogin
  <2>2. TrafficType'
    <3>1. p.id \in Int
      BY DEF TrafficType, Requests
    <3> DEFINE first == IF empty THEN <<Reply(p.id, 0, "part", TRUE)>> ELSE <<>>
               second == <<Verdict(IF accepted THEN p.id ELSE -1)>>
    <3>2. first \in Seq(Packets)
      <4>1. Reply(p.id, 0, "part", TRUE) \in Packets
        BY <3>1, LoginPacketsType
      <4>2. <<Reply(p.id, 0, "part", TRUE)>> \in Seq(Packets)
        BY <4>1, Singleton, Zenon
      <4>3. <<>> \in Seq(Packets)
        OBVIOUS
      <4>. QED  BY <4>2, <4>3, Zenon
    <3>3. second \in Seq(Packets)
      <4>1. (IF accepted THEN p.id ELSE -1) \in Int
        BY <3>1
      <4>2. Verdict(IF accepted THEN p.id ELSE -1) \in Packets
        BY <4>1, LoginPacketsType
      <4>. QED  BY <4>2
    <3>4. wire' = wire \o first \o second
      BY <2>1
    <3>. HIDE DEF first, second
    <3>5. wire' \in Seq(Packets)
      BY <3>2, <3>3, <3>4 DEF TrafficType
    <3>. QED  BY <2>1, <3>5 DEF TrafficType
  <2>3. ConnectionType'
    BY <2>1 DEF ConnectionType
  <2>4. ServerType'
    BY <2>1 DEF ServerType, serverVars
  <2>. QED  BY <2>1, <2>2, <2>3, <2>4, ServerLeavesCallers
<1>14. CASE HandleCommand
  <2>1. PICK p \in inbox :
           /\ p.kind = "command"
           /\ inbox' = inbox \ {p}
           /\ \/ /\ ran' = [ran EXCEPT ![p.cmd] = @ + 1]
                 /\ \E sizes \in Replies \cup {<<>>} :
                       wire' = wire \o Answer(p.id, p.cmd, sizes)
              \/ /\ wire' = Append(wire, Verdict(-1))
                 /\ ran' = ran
           /\ UNCHANGED <<clientVars, callerVars, client, link, authed, late, up, run>>
    BY <1>14 DEF HandleCommand
  <2>2. p.id \in Int /\ p.cmd \in Commands
    BY <2>1 DEF TrafficType, Requests
  <2>3. wire' \in Seq(Packets)
    <3>1. ASSUME NEW sizes \in Replies \cup {<<>>}, wire' = wire \o Answer(p.id, p.cmd, sizes)
          PROVE  wire' \in Seq(Packets)
      <4>1. Answer(p.id, p.cmd, sizes) \in Seq(Packets)
        BY <2>2, AnswerType DEF Commands
      <4>. QED  BY <3>1, <4>1 DEF TrafficType
    <3>2. CASE wire' = Append(wire, Verdict(-1))
      <4>1. Verdict(-1) \in Packets
        <5>1. -1 \in Int
          OBVIOUS
        <5>. QED  BY <5>1, LoginPacketsType, Zenon
      <4>. QED  BY <3>2, <4>1 DEF TrafficType
    <3>. QED  BY <2>1, <3>1, <3>2
  <2>4. TrafficType'
    BY <2>1, <2>3 DEF TrafficType
  <2>5. ServerType'
    BY <2>1, <2>2 DEF ServerType
  <2>6. ConnectionType'
    BY <2>1 DEF ConnectionType
  <2>. QED  BY <2>1, <2>4, <2>5, <2>6, ServerLeavesCallers
<1>15. CASE HandleLateCommand
  <2>1. TrafficType' /\ ServerType'
    BY <1>15 DEF HandleLateCommand, TrafficType, ServerType
  <2>2. ConnectionType'
    BY <1>15 DEF HandleLateCommand, ConnectionType
  <2>3. UNCHANGED <<clientVars, callerVars>>
    BY <1>15 DEF HandleLateCommand
  <2>. QED  BY <2>1, <2>2, <2>3, ServerLeavesCallers
<1>16. CASE UNCHANGED vars
  <2>1. TrafficType' /\ ServerType' /\ ConnectionType'
    BY <1>16 DEF vars, TrafficType, ServerType, ConnectionType, connection, serverVars
  <2>2. UNCHANGED <<clientVars, callerVars>>
    BY <1>16 DEF vars
  <2>. QED  BY <2>1, <2>2, ServerLeavesCallers
<1>. QED
  BY <1>1, <1>2, <1>3, <1>4, <1>5, <1>6, <1>7, <1>8, <1>9, <1>10, <1>11, <1>12,
     <1>13, <1>14, <1>15, <1>16 DEF Next, CallerStep

\* Initially nothing is sent and the gate is free.
LEMMA TypeInit == Init => TypeInv
<1> SUFFICES ASSUME Init
             PROVE  TypeInv
  OBVIOUS
<1>. USE DEF Init
<1>1. ClientType
  BY DEF ClientType
<1>2. ConnectionType
  BY DEF ConnectionType
<1>3. CallerType
  BY BoundsAssumption DEF CallerType
<1>4. TrafficType
  <2>1. <<>> \in Seq(Packets)
    OBVIOUS
  <2>. QED  BY <2>1, Zenon DEF TrafficType
<1>5. ServerType
  <2>1. run \in 0..MaxRuns /\ ran \in [Commands -> Nat]
    BY BoundsAssumption
  <2>. QED  BY <2>1 DEF ServerType
<1>6. HasCommand /\ GateInv
  BY DEF HasCommand, GateInv, OneConversation, Holds, InGate
<1>. QED  BY <1>1, <1>2, <1>3, <1>4, <1>5, <1>6 DEF TypeInv, TypeOK

\* Every variable keeps its type; in particular the gate is never released
\* more often than it was entered, which would make SemaphoreSlim throw.
THEOREM TypeCorrect == Spec => []TypeOK
<1>1. TypeInv => TypeOK
  BY DEF TypeInv
<1>. QED  BY <1>1, TypeInit, TypeStep, PTL DEF Spec

\* Two callers never talk to the server at the same time.
THEOREM MutualExclusion == Spec => []OneConversation
<1>1. TypeInv => OneConversation
  BY DEF TypeInv, GateInv
<1>. QED  BY <1>1, TypeInit, TypeStep, PTL DEF Spec

-----------------------------------------------------------------------------
(***************************************************************************)
(* A failed call has seen an outage.  While a caller is on its second      *)
(* attempt it uses a connection it has opened itself, so that finding this *)
(* connection gone means that the server went down in the meantime.        *)
(***************************************************************************)
AttemptInv ==
    /\ \A c \in Callers : pc[c] = "waiting" => attempt[c] = 1
    /\ \A c \in Callers : pc[c] # "idle" => outcome[c] = "none"
    /\ \A c \in Callers : pc[c] \in {"authenticating", "sending", "reading"} => client

OutageInv ==
    /\ \A c \in Callers : startRun[c] <= run
    /\ link => up
    /\ \A c \in Callers : Holds(c) /\ attempt[c] = 2 /\ client /\ ~link => Outage(c)
    /\ FailureNeedsAnOutage

(***************************************************************************)
(* A command meets a connection that has logged in.  Only the login caller *)
(* ever sees a connection that has not, and it leaves with the verdict.    *)
(***************************************************************************)
LoggingIn == \E c \in Callers : pc[c] = "authenticating"

LoginInv ==
    /\ LoggedInFirst
    /\ ~link => inbox = {}
    /\ link /\ ~LoggingIn => authed
    /\ ~LoggingIn => \A p \in inbox : p.kind = "command"
    /\ LoggingIn =>
          /\ \A p \in inbox : p.kind = "login"
          /\ \A p, q \in inbox : p = q
          /\ inbox # {} => wire = <<>>
          /\ \A k \in 1..Len(wire) :
                /\ wire[k].size # "over"
                /\ wire[k].kind = "verdict" /\ wire[k].id # -1 => authed

\* Attempts, ids and the order of the packets keep their bounds in every step.
LEMMA AttemptStep == TypeInv /\ AttemptInv /\ [Next]_vars => AttemptInv'
<1> SUFFICES ASSUME TypeInv, AttemptInv, [Next]_vars
             PROVE  AttemptInv'
  OBVIOUS
<1>. USE DEF AttemptInv, TypeInv, TypeOK, CallerType, GateInv, OneConversation, Holds, InGate
<1>1. ASSUME NEW c \in Callers, ExecuteAsync(c)
      PROVE  AttemptInv'
  BY <1>1 DEF ExecuteAsync, clientVars, connection, serverVars
<1>2. ASSUME NEW c \in Callers, EnterGate(c)
      PROVE  AttemptInv'
  BY <1>2 DEF EnterGate, clientVars, connection, serverVars
<1>3. ASSUME NEW c \in Callers, ReuseConnection(c)
      PROVE  AttemptInv'
  BY <1>3 DEF ReuseConnection, clientVars, connection, serverVars
<1>4. ASSUME NEW c \in Callers, OpenConnection(c)
      PROVE  AttemptInv'
  BY <1>4 DEF OpenConnection, clientVars, connection, serverVars
<1>5. ASSUME NEW c \in Callers, ReadVerdict(c)
      PROVE  AttemptInv'
  <2>1. pc[c] = "authenticating" /\ UNCHANGED attempt
    BY <1>5 DEF ReadVerdict
  <2>2. \/ UNCHANGED <<pc, outcome, client>>
        \/ /\ pc' = [pc EXCEPT ![c] = "idle"]
           /\ outcome' = [outcome EXCEPT ![c] = "rejected"]
        \/ /\ pc' = [pc EXCEPT ![c] = "sending"]
           /\ UNCHANGED <<outcome, client>>
    BY <1>5, Zenon DEF ReadVerdict, Return
  <2>. QED  BY <2>1, <2>2
<1>6. ASSUME NEW c \in Callers, WriteCommand(c)
      PROVE  AttemptInv'
  BY <1>6 DEF WriteCommand, clientVars, connection, serverVars
<1>7. ASSUME NEW c \in Callers, ReadReply(c)
      PROVE  AttemptInv'
  BY <1>7 DEF ReadReply, Return, clientVars, connection, serverVars
<1>8. ASSUME NEW c \in Callers, ReadGarbage(c)
      PROVE  AttemptInv'
  <2>1. pc[c] \in InGate
    BY <1>8 DEF ReadGarbage
  <2>2. \/ /\ pc' = [pc EXCEPT ![c] = "idle"]
           /\ \E how \in {"ended", "failed", "garbled"} : outcome' = [outcome EXCEPT ![c] = how]
           /\ UNCHANGED attempt
        \/ /\ pc' = [pc EXCEPT ![c] = "connecting"]
           /\ attempt' = [attempt EXCEPT ![c] = 2]
           /\ UNCHANGED outcome
    BY <1>8 DEF ReadGarbage, Fail, Return
  <2>. QED  BY <2>1, <2>2
<1>9. ASSUME NEW c \in Callers, Disconnected(c)
      PROVE  AttemptInv'
  <2>1. pc[c] \in InGate
    BY <1>9 DEF Disconnected
  <2>2. \/ /\ pc' = [pc EXCEPT ![c] = "idle"]
           /\ \E how \in {"ended", "failed", "garbled"} : outcome' = [outcome EXCEPT ![c] = how]
           /\ UNCHANGED attempt
        \/ /\ pc' = [pc EXCEPT ![c] = "connecting"]
           /\ attempt' = [attempt EXCEPT ![c] = 2]
           /\ UNCHANGED outcome
    BY <1>9 DEF Disconnected, Fail, Return
  <2>. QED  BY <2>1, <2>2
<1>10. ASSUME NEW c \in Callers, TimeOut(c)
      PROVE  AttemptInv'
  BY <1>10 DEF TimeOut, Return, Close, clientVars, connection, serverVars
<1>11. CASE Start
  BY <1>11 DEF Start, clientVars, callerVars, connection, serverVars
<1>12. CASE Shutdown
  BY <1>12 DEF Shutdown, clientVars, callerVars, connection, serverVars
<1>13. CASE HandleLogin
  BY <1>13 DEF HandleLogin, clientVars, callerVars, connection, serverVars
<1>14. CASE HandleCommand
  BY <1>14 DEF HandleCommand, clientVars, callerVars, connection, serverVars
<1>15. CASE HandleLateCommand
  BY <1>15 DEF HandleLateCommand, clientVars, callerVars, connection, serverVars
<1>16. CASE UNCHANGED vars
  BY <1>16 DEF vars, clientVars, callerVars, connection, serverVars
<1>. QED
  BY <1>1, <1>2, <1>3, <1>4, <1>5, <1>6, <1>7, <1>8, <1>9, <1>10, <1>11, <1>12, <1>13, <1>14, <1>15, <1>16
     DEF Next, CallerStep

\* Every step accounts for the outage a second attempt needs.
LEMMA OutageStep == TypeInv /\ AttemptInv /\ OutageInv /\ [Next]_vars => OutageInv'
<1> SUFFICES ASSUME TypeInv, AttemptInv, OutageInv, [Next]_vars
             PROVE  OutageInv'
  OBVIOUS
<1>. USE DEF OutageInv, AttemptInv, TypeInv, TypeOK, CallerType, ServerType, GateInv, OneConversation, Holds, InGate, Outage, FailureNeedsAnOutage
<1>1. ASSUME NEW c \in Callers, ExecuteAsync(c)
      PROVE  OutageInv'
  BY <1>1 DEF ExecuteAsync, clientVars, connection, serverVars
<1>2. ASSUME NEW c \in Callers, EnterGate(c)
      PROVE  OutageInv'
  BY <1>2 DEF EnterGate, clientVars, connection, serverVars
<1>3. ASSUME NEW c \in Callers, ReuseConnection(c)
      PROVE  OutageInv'
  BY <1>3 DEF ReuseConnection, clientVars, connection, serverVars
<1>4. ASSUME NEW c \in Callers, OpenConnection(c)
      PROVE  OutageInv'
  BY <1>4 DEF OpenConnection, clientVars, connection, serverVars
<1>5. ASSUME NEW c \in Callers, ReadVerdict(c)
      PROVE  OutageInv'
  BY <1>5 DEF ReadVerdict, Return, Close, clientVars, connection, serverVars
<1>6. ASSUME NEW c \in Callers, WriteCommand(c)
      PROVE  OutageInv'
  BY <1>6 DEF WriteCommand, clientVars, connection, serverVars
<1>7. ASSUME NEW c \in Callers, ReadReply(c)
      PROVE  OutageInv'
  BY <1>7 DEF ReadReply, Return, clientVars, connection, serverVars
<1>8. ASSUME NEW c \in Callers, ReadGarbage(c)
      PROVE  OutageInv'
  BY <1>8 DEF ReadGarbage, Fail, Return, Close, Tolerated, clientVars, connection, serverVars
<1>9. ASSUME NEW c \in Callers, Disconnected(c)
      PROVE  OutageInv'
  BY <1>9 DEF Disconnected, Fail, Return, Close, Tolerated, clientVars, connection, serverVars
<1>10. ASSUME NEW c \in Callers, TimeOut(c)
      PROVE  OutageInv'
  BY <1>10 DEF TimeOut, Return, Close, clientVars, connection, serverVars
<1>11. CASE Start
  BY <1>11 DEF Start, clientVars, callerVars, connection, serverVars
<1>12. CASE Shutdown
  BY <1>12 DEF Shutdown, clientVars, callerVars, connection, serverVars
<1>13. CASE HandleLogin
  BY <1>13 DEF HandleLogin, clientVars, callerVars, connection, serverVars
<1>14. CASE HandleCommand
  BY <1>14 DEF HandleCommand, clientVars, callerVars, connection, serverVars
<1>15. CASE HandleLateCommand
  BY <1>15 DEF HandleLateCommand, clientVars, callerVars, connection, serverVars
<1>16. CASE UNCHANGED vars
  BY <1>16 DEF vars, clientVars, callerVars, connection, serverVars
<1>. QED
  BY <1>1, <1>2, <1>3, <1>4, <1>5, <1>6, <1>7, <1>8, <1>9, <1>10, <1>11, <1>12, <1>13, <1>14, <1>15, <1>16
     DEF Next, CallerStep

\* Nobody has made an attempt yet.
LEMMA OutageInit == Init => AttemptInv /\ OutageInv
BY BoundsAssumption
   DEF Init, AttemptInv, OutageInv, FailureNeedsAnOutage, Outage, Holds, InGate

\* A call fails only if the server was down at some moment since it got the
\* gate: the second attempt makes up for a stale socket.
THEOREM FailedCallsSawAnOutage == Spec => []FailureNeedsAnOutage
<1>1. OutageInv => FailureNeedsAnOutage
  BY DEF OutageInv
<1>. QED
  BY <1>1, TypeInit, TypeStep, OutageInit, AttemptStep, OutageStep, PTL DEF Spec

\* Every step keeps the login ahead of the commands of its connection.
LEMMA LoginStep == TypeInv /\ LoginInv /\ [Next]_vars => LoginInv'
<1> SUFFICES ASSUME TypeInv, LoginInv, [Next]_vars
             PROVE  LoginInv'
  OBVIOUS
<1>. USE DEF LoginInv, LoggedInFirst
\* A step that leaves the connection alone and neither starts nor ends a login.
<1> DEFINE Quiet == LoggingIn' = LoggingIn /\ UNCHANGED <<link, authed, inbox, wire>>
<1>quiet. Quiet => LoginInv'
  OBVIOUS
\* A step after which the client has no connection.
<1>closed. Close /\ ~LoggingIn' => LoginInv'
  BY DEF Close
<1>. HIDE DEF Quiet
<1>alone. \A c \in Callers : Holds(c) /\ pc[c] # "authenticating" => ~LoggingIn
  BY DEF TypeInv, GateInv, OneConversation, LoggingIn, Holds, InGate
<1>1. ASSUME NEW c \in Callers, ExecuteAsync(c)
      PROVE  LoginInv'
  BY <1>1, <1>quiet DEF Quiet, LoggingIn, TypeInv, TypeOK, CallerType, ExecuteAsync, connection
<1>2. ASSUME NEW c \in Callers, EnterGate(c)
      PROVE  LoginInv'
  BY <1>2, <1>quiet DEF Quiet, LoggingIn, TypeInv, TypeOK, CallerType, EnterGate, connection
<1>3. ASSUME NEW c \in Callers, ReuseConnection(c)
      PROVE  LoginInv'
  BY <1>3, <1>quiet DEF Quiet, LoggingIn, TypeInv, TypeOK, CallerType, ReuseConnection, connection
<1>4. ASSUME NEW c \in Callers, OpenConnection(c)
      PROVE  LoginInv'
  <2>1. LoggingIn' /\ link' /\ wire' = <<>>
    BY <1>4 DEF OpenConnection, LoggingIn, TypeInv, TypeOK, CallerType
  <2>2. inbox' = {Request("login", nextId + 1, 0)}
    BY <1>4 DEF OpenConnection
  <2>3. \A p \in inbox' : p.kind = "login"
    BY <2>2 DEF Request
  <2>. QED  BY <2>1, <2>2, <2>3
<1>5. ASSUME NEW c \in Callers, ReadVerdict(c)
      PROVE  LoginInv'
  <2>1. LoggingIn /\ wire # <<>> /\ inbox = {}
    BY <1>5 DEF ReadVerdict, LoggingIn
  <2>2. wire \in Seq(Packets) /\ Head(wire) = wire[1] /\ 1 \in 1..Len(wire)
    BY <2>1 DEF TypeInv, TypeOK, TrafficType
  <2>3. \A k \in 1..Len(Tail(wire)) : k + 1 \in 1..Len(wire) /\ Tail(wire)[k] = wire[k + 1]
    BY <2>1, <2>2
  <2>4. CASE /\ wire' = Tail(wire)
             /\ UNCHANGED <<pc, link, authed, inbox>>
    BY <2>1, <2>3, <2>4 DEF LoggingIn
  <2>5. CASE Close /\ pc' = [pc EXCEPT ![c] = "idle"]
    <3>1. ~LoggingIn'
      BY <1>5, <2>5 DEF ReadVerdict, LoggingIn, TypeInv, TypeOK, CallerType, GateInv,
                        OneConversation, Holds, InGate
    <3>. QED  BY <2>5, <3>1, <1>closed
  <2>6. CASE /\ Head(wire).kind = "verdict" /\ Head(wire).id # -1
             /\ pc' = [pc EXCEPT ![c] = "sending"]
             /\ UNCHANGED <<link, authed, inbox>>
    <3>1. authed
      BY <2>1, <2>2, <2>6
    <3>2. ~LoggingIn'
      BY <1>5, <2>6 DEF ReadVerdict, LoggingIn, TypeInv, TypeOK, CallerType, GateInv,
                        OneConversation, Holds, InGate
    <3>. QED  BY <2>1, <2>6, <3>1, <3>2
  <2>. QED  BY <1>5, <2>4, <2>5, <2>6 DEF ReadVerdict, Return
<1>6. ASSUME NEW c \in Callers, WriteCommand(c)
      PROVE  LoginInv'
  <2>1. ~LoggingIn /\ ~LoggingIn'
    BY <1>6, <1>alone DEF WriteCommand, LoggingIn, Holds, InGate, TypeInv, TypeOK, CallerType
  <2>2. \A p \in inbox' : p.kind = "command"
    BY <1>6, <2>1 DEF WriteCommand, Request
  <2>3. /\ ~link => inbox' = inbox
        /\ UNCHANGED <<link, authed>>
    BY <1>6 DEF WriteCommand
  <2>. QED  BY <2>1, <2>2, <2>3
<1>7. ASSUME NEW c \in Callers, ReadReply(c)
      PROVE  LoginInv'
  <2>1. ~LoggingIn /\ ~LoggingIn'
    BY <1>7, <1>alone
       DEF ReadReply, Return, LoggingIn, Holds, InGate, TypeInv, TypeOK, CallerType
  <2>2. UNCHANGED <<link, authed, inbox>>
    BY <1>7 DEF ReadReply
  <2>. QED  BY <2>1, <2>2
<1>8. ASSUME NEW c \in Callers, ReadGarbage(c)
      PROVE  LoginInv'
  <2>1. pc[c] # "authenticating"
    <3>1. wire # <<>> /\ Head(wire).size = "over"
      BY <1>8 DEF ReadGarbage
    <3>2. Head(wire) = wire[1] /\ 1 \in 1..Len(wire)
      BY <3>1 DEF TypeInv, TypeOK, TrafficType
    <3>. QED  BY <3>1, <3>2 DEF LoggingIn
  <2>2. ~LoggingIn
    BY <1>8, <2>1, <1>alone DEF ReadGarbage, Holds, InGate
  <2>3. ~LoggingIn'
    BY <1>8, <2>2 DEF ReadGarbage, Fail, Return, LoggingIn, TypeInv, TypeOK, CallerType
  <2>4. Close \/ UNCHANGED connection
    BY <1>8 DEF ReadGarbage, Fail
  <2>5. CASE UNCHANGED connection
    BY <2>2, <2>3, <2>5, <1>quiet DEF Quiet, connection
  <2>. QED  BY <2>3, <2>4, <2>5, <1>closed
<1>9. ASSUME NEW c \in Callers, Disconnected(c)
      PROVE  LoginInv'
  <2>1. pc' = [pc EXCEPT ![c] = "idle"] \/ pc' = [pc EXCEPT ![c] = "connecting"]
    BY <1>9 DEF Disconnected, Fail, Return
  <2>2. Holds(c)
    BY <1>9 DEF Disconnected, Holds, InGate
  <2>3. ~LoggingIn'
    BY <2>1, <2>2 DEF LoggingIn, TypeInv, TypeOK, CallerType, GateInv, OneConversation, Holds,
                      InGate
  <2>4. Close \/ UNCHANGED connection
    BY <1>9 DEF Disconnected, Fail
  <2>5. CASE UNCHANGED connection
    <3>1. ~link \/ ~LoggingIn
      BY <1>9, <2>2, <1>alone DEF Disconnected, Holds, InGate
    <3>2. UNCHANGED <<link, authed, inbox, wire>>
      BY <2>5 DEF connection
    <3>. QED  BY <2>3, <3>1, <3>2
  <2>. QED  BY <2>3, <2>4, <2>5, <1>closed
<1>10. ASSUME NEW c \in Callers, TimeOut(c)
      PROVE  LoginInv'
  <2>1. Close /\ Holds(c) /\ pc' = [pc EXCEPT ![c] = "idle"]
    BY <1>10 DEF TimeOut, Return
  <2>2. ~LoggingIn'
    BY <2>1 DEF LoggingIn, TypeInv, TypeOK, CallerType, GateInv, OneConversation, Holds, InGate
  <2>. QED  BY <2>1, <2>2, <1>closed
<1>11. CASE Start
  BY <1>11, <1>quiet DEF Quiet, Start, LoggingIn, callerVars, connection
<1>12. CASE Shutdown
  <2>1. ~link' /\ inbox' = {} /\ UNCHANGED <<pc, authed>> /\ wire' \in {wire, <<>>}
    BY <1>12 DEF Shutdown, callerVars
  <2>. QED  BY <2>1 DEF LoggingIn
<1>13. CASE HandleLogin
  <2>1. PICK p \in inbox, accepted \in BOOLEAN, empty \in BOOLEAN :
           /\ p.kind = "login"
           /\ inbox' = inbox \ {p}
           /\ authed' = accepted
           /\ wire' = wire
                \o (IF empty THEN <<Reply(p.id, 0, "part", TRUE)>> ELSE <<>>)
                \o <<Verdict(IF accepted THEN p.id ELSE -1)>>
           /\ UNCHANGED <<clientVars, callerVars, client, link, late, serverVars>>
    BY <1>13 DEF HandleLogin
  <2>2. LoggingIn /\ LoggingIn'
    BY <2>1 DEF LoggingIn, callerVars
  <2>3. inbox' = {} /\ wire = <<>> /\ link' = link
    BY <2>1, <2>2
  <2>4. \A k \in 1..Len(wire') :
           \/ wire'[k] = Reply(p.id, 0, "part", TRUE)
           \/ wire'[k] = Verdict(IF accepted THEN p.id ELSE -1)
    <3> DEFINE a == Reply(p.id, 0, "part", TRUE)
               b == Verdict(IF accepted THEN p.id ELSE -1)
    <3>1. wire' = <<>> \o (IF empty THEN <<a>> ELSE <<>>) \o <<b>>
      BY <2>1, <2>3
    <3>. HIDE DEF a, b
    <3> DEFINE AB == {a, b}
    <3>2. <<>> \in Seq(AB) /\ <<a>> \in Seq(AB) /\ <<b>> \in Seq(AB)
      BY Singleton
    <3>. HIDE DEF AB
    <3>3. wire' \in Seq(AB)
      BY <3>1, <3>2
    <3>4. \A k \in 1..Len(wire') : wire'[k] = a \/ wire'[k] = b
      BY <3>3 DEF AB
    <3>. QED  BY <3>4 DEF a, b
  <2>5. \A k \in 1..Len(wire') :
           /\ wire'[k].size # "over"
           /\ wire'[k].kind = "verdict" /\ wire'[k].id # -1 => authed'
    BY <2>1, <2>4 DEF Reply, Verdict
  <2>. QED  BY <2>2, <2>3, <2>5
<1>14. CASE HandleCommand
  <2>1. PICK p \in inbox : p.kind = "command" /\ inbox' = inbox \ {p}
    BY <1>14 DEF HandleCommand
  <2>2. UNCHANGED <<pc, link, authed>>
    BY <1>14 DEF HandleCommand, callerVars
  <2>3. ~LoggingIn /\ ~LoggingIn'
    BY <2>1, <2>2 DEF LoggingIn
  <2>. QED  BY <2>1, <2>2, <2>3
<1>15. CASE HandleLateCommand
  BY <1>15, <1>quiet DEF Quiet, HandleLateCommand, LoggingIn, callerVars
<1>16. CASE UNCHANGED vars
  BY <1>16, <1>quiet DEF Quiet, LoggingIn, vars, callerVars, connection
<1>. QED
  BY <1>1, <1>2, <1>3, <1>4, <1>5, <1>6, <1>7, <1>8, <1>9, <1>10, <1>11, <1>12, <1>13, <1>14, <1>15, <1>16
     DEF Next, CallerStep

\* No command is ever written to an open connection that has not logged in,
\* whatever deadline or failure interrupted the calls before.
THEOREM CommandsFollowLogin == Spec => []LoggedInFirst
<1>1. Init => LoginInv
  BY DEF Init, LoginInv, LoggedInFirst, LoggingIn
<1>2. LoginInv => LoggedInFirst
  BY DEF LoginInv
<1>. QED  BY <1>1, <1>2, TypeInit, TypeStep, LoginStep, PTL DEF Spec

-----------------------------------------------------------------------------
(***************************************************************************)
(* The traffic on the connection.  Request ids are fresh, at most one      *)
(* packet waits for the server, and what answers a request belongs to the  *)
(* command of the caller that reads: a connection on which something else  *)
(* may still come is closed before the caller leaves it.                   *)
(***************************************************************************)
OnWire == {wire[k] : k \in 1..Len(wire)}

\* Commands and request ids are used once; without a client nothing comes.
UsedInv ==
    /\ \A c \in Callers : cmd[c] <= issued
    /\ \A c, d \in Callers : cmd[c] = cmd[d] /\ cmd[c] # 0 => c = d
    /\ \A p \in inbox : p.id <= nextId
    /\ \A q \in OnWire : q.id <= nextId
    /\ link => client
    /\ ~client => OnWire = {}

\* A command in the inbox is the one its reader waits for, unanswered so far.
SentByReader ==
    /\ \A p, q \in inbox : p = q
    /\ \A p \in inbox : p.kind = "command" =>
          /\ \E c \in Callers : pc[c] = "reading" /\ id[c] = p.id /\ cmd[c] = p.cmd
          /\ \A q \in OnWire : q.id # p.id

\* What comes under the reader's id answers its command, which has been run.
AnswersReader ==
    /\ \A c \in Callers : body[c] \subseteq {cmd[c]}
    /\ \A c \in Callers : pc[c] = "reading" => \A q \in OnWire : q.id = id[c] => q.cmd = cmd[c]
    /\ \A q \in OnWire : q.cmd # 0 => ran[q.cmd] > 0

\* A second attempt has a connection of its own; only the answer it waits for
\* can be too long to accept.
OwnConnection ==
    \A c \in Callers : Holds(c) /\ attempt[c] = 2 =>
       /\ pc[c] = "connecting" => ~client
       /\ \A q \in OnWire : q.size = "over" => pc[c] = "reading" /\ q.id = id[c]

OwnInv == UsedInv /\ SentByReader /\ AnswersReader /\ OwnConnection

ConnectionInv == TypeInv /\ AttemptInv /\ LoginInv

\* The packets on the wire are packets.
LEMMA OnWireType == ASSUME TypeInv PROVE OnWire \subseteq Packets /\ (wire = <<>> => OnWire = {})
BY DEF TypeInv, TypeOK, TrafficType, OnWire

\* Reading takes the first packet and adds none.
LEMMA OnWireTail ==
    ASSUME TypeInv, wire # <<>>
    PROVE  /\ Head(wire) \in OnWire
           /\ wire' = Tail(wire) => OnWire' \subseteq OnWire
<1>1. wire \in Seq(Packets)
  BY DEF TypeInv, TypeOK, TrafficType
<1>2. PICK n \in Nat : n = Len(wire) /\ n # 0
  BY <1>1, EmptySeq
<1>3. Head(wire) = wire[1] /\ 1 \in 1..n
  BY <1>1, <1>2
<1>4. Len(Tail(wire)) = n - 1 /\ \A k \in 1..(n - 1) : Tail(wire)[k] = wire[k + 1] /\ k + 1 \in 1..n
  BY <1>1, <1>2, HeadTailProperties
<1>5. Head(wire) \in OnWire
  BY <1>2, <1>3 DEF OnWire
<1>6. ASSUME wire' = Tail(wire) PROVE OnWire' \subseteq OnWire
  BY <1>2, <1>4, <1>6 DEF OnWire
<1>. QED  BY <1>5, <1>6

\* Packets sent behind the others.
LEMMA OnWireConcat ==
    ASSUME TypeInv, NEW more \in Seq(Packets), wire' = wire \o more
    PROVE  OnWire' = OnWire \cup {more[k] : k \in 1..Len(more)}
<1>1. wire \in Seq(Packets)
  BY DEF TypeInv, TypeOK, TrafficType
<1>2. wire' \in Seq(Packets)
  BY <1>1
<1>3. Range(wire') = Range(wire) \cup Range(more)
  BY <1>1, RangeConcatenation
<1>. QED  BY <1>1, <1>2, <1>3, RangeEquality DEF OnWire

\* What Close leaves.
LEMMA CloseFacts ==
    ASSUME Close
    PROVE  /\ ~client' /\ ~link' /\ ~authed' /\ inbox' = {} /\ OnWire' = {}
           /\ late' = late \cup {p.cmd : p \in {q \in inbox : q.kind = "command"}}
BY DEF Close, OnWire

(***************************************************************************)
(* The ways a caller leaves the connection: closed, after a failure or a   *)
(* deadline; closed, to try again; or as it is, after a second failure.    *)
(* Nothing is left in the inbox then.                                      *)
(***************************************************************************)
Failures == {"ended", "rejected", "failed", "garbled", "timeout"}

LeavesWith(c, how) ==
    /\ pc' = [pc EXCEPT ![c] = "idle"]
    /\ outcome' = [outcome EXCEPT ![c] = how]
    /\ UNCHANGED attempt

Quit(c) == Close /\ \E how \in Failures : LeavesWith(c, how)

Retry(c) ==
    /\ attempt[c] = 1
    /\ \/ pc[c] # "reading"
       \/ ~link
       \/ \E q \in OnWire : q.size = "over"
    /\ Close
    /\ pc' = [pc EXCEPT ![c] = "connecting"]
    /\ attempt' = [attempt EXCEPT ![c] = 2]
    /\ UNCHANGED outcome

Abandon(c) ==
    /\ attempt[c] = 2
    /\ inbox = {}
    /\ UNCHANGED connection
    /\ \E how \in Failures : LeavesWith(c, how)

Leave(c) ==
    /\ Holds(c)
    /\ Quit(c) \/ Retry(c) \/ Abandon(c)
    /\ UNCHANGED <<nextId, cmd, ends, id, body, whole, startRun, issued, serverVars>>

\* EnsureConnectedAsync reads a packet and does not give up.
PassVerdict(c) ==
    /\ pc[c] = "authenticating"
    /\ wire # <<>>
    /\ wire' = Tail(wire)
    /\ pc' = pc \/ pc' = [pc EXCEPT ![c] = "sending"]
    /\ UNCHANGED <<clientVars, cmd, ends, attempt, id, body, whole, outcome, startRun, issued,
                   client, link, authed, inbox, late, serverVars>>

\* While a caller is in the gate, it alone may be reading.
LEMMA AloneInGate ==
    ASSUME ConnectionInv, NEW c \in Callers, Holds(c)
    PROVE  /\ \A d \in Callers : Holds(d) => d = c
           /\ pc[c] # "authenticating" => ~LoggingIn
BY DEF ConnectionInv, TypeInv, GateInv, OneConversation, LoggingIn, Holds, InGate

\* Only a caller that reads has something in the inbox, but for a login.
LEMMA InboxFacts ==
    ASSUME ConnectionInv, OwnInv, NEW c \in Callers, Holds(c)
    PROVE  /\ pc[c] \notin {"authenticating", "reading"} => inbox = {}
           /\ \A p \in inbox : p.kind = "command" =>
                 pc[c] = "reading" /\ id[c] = p.id /\ cmd[c] = p.cmd
           /\ pc[c] = "reading" => \A p \in inbox : p.kind = "command"
<1>1. ~LoggingIn => \A p \in inbox : p.kind = "command"
  BY DEF ConnectionInv, LoginInv
<1>2. ASSUME NEW p \in inbox, p.kind = "command"
      PROVE  pc[c] = "reading" /\ id[c] = p.id /\ cmd[c] = p.cmd
  <2>1. PICK d \in Callers : pc[d] = "reading" /\ id[d] = p.id /\ cmd[d] = p.cmd
    BY <1>2 DEF OwnInv, SentByReader
  <2>2. Holds(d)
    BY <2>1 DEF Holds, InGate
  <2>. QED  BY <2>1, <2>2, AloneInGate
<1>. QED  BY <1>1, <1>2, AloneInGate

\* When the next packet is the answer the caller waits for, or too long to be
\* one on its second attempt, the server has nothing left to handle.
LEMMA NothingLeft ==
    ASSUME ConnectionInv, OwnInv, NEW c \in Callers, pc[c] = "reading", NEW q \in OnWire,
           q.id = id[c]
    PROVE  inbox = {}
<1>1. Holds(c)
  BY DEF Holds, InGate
<1>2. \A p \in inbox : p.kind = "command" /\ p.id = id[c]
  BY <1>1, InboxFacts
<1>. QED  BY <1>2 DEF OwnInv, SentByReader

\* A caller whose SendAsync throws leaves in one of these ways.
LEMMA FailLeaves ==
    ASSUME ConnectionInv, OwnInv, NEW c \in Callers, ReadGarbage(c) \/ Disconnected(c)
    PROVE  Leave(c)
<1>1. Holds(c)
  BY DEF ReadGarbage, Disconnected, Holds, InGate
<1>2. UNCHANGED <<nextId, cmd, ends, id, body, whole, startRun, issued, serverVars>>
  BY DEF ReadGarbage, Disconnected
<1>3. /\ pc[c] = "reading" => ~link \/ \E q \in OnWire : q.size = "over"
      /\ attempt[c] = 2 => inbox = {}
  <2>1. CASE ReadGarbage(c)
    <3>1. Head(wire) \in OnWire /\ Head(wire).size = "over" /\ pc[c] \in {"authenticating", "reading"}
      BY <2>1, OnWireTail DEF ConnectionInv, ReadGarbage
    <3>2. attempt[c] = 2 => pc[c] = "reading" /\ Head(wire).id = id[c]
      BY <1>1, <3>1 DEF OwnInv, OwnConnection
    <3>. QED  BY <3>1, <3>2, NothingLeft
  <2>2. CASE Disconnected(c)
    <3>1. ~link
      BY <2>2 DEF Disconnected, OwnInv, UsedInv
    <3>. QED  BY <3>1 DEF ConnectionInv, LoginInv
  <2>. QED  BY <2>1, <2>2
<1>4. PICK how \in {"garbled", "failed"} : Fail(c, how)
  BY DEF ReadGarbage, Disconnected
<1>5. Quit(c) \/ Retry(c) \/ Abandon(c)
  BY <1>3, <1>4 DEF Fail, Return, Quit, Retry, Abandon, LeavesWith, Failures
<1>. QED  BY <1>1, <1>2, <1>5 DEF Leave

\* Every step of a caller in the gate.
LEMMA CallerSteps ==
    ASSUME ConnectionInv, OwnInv, NEW c \in Callers, CallerStep(c)
    PROVE  \/ EnterGate(c) \/ ReuseConnection(c) \/ OpenConnection(c) \/ PassVerdict(c)
           \/ WriteCommand(c) \/ ReadReply(c) \/ Leave(c)
<1>1. CASE ReadVerdict(c)
  <2>1. Holds(c)
    BY <1>1 DEF ReadVerdict, Holds, InGate
  <2>2. UNCHANGED <<nextId, cmd, ends, attempt, id, body, whole, startRun, issued, serverVars>>
    BY <1>1 DEF ReadVerdict
  <2>3. CASE Close /\ Return(c, "rejected")
    BY <2>1, <2>2, <2>3 DEF Return, Leave, Quit, LeavesWith, Failures
  <2>4. CASE ~Close \/ ~Return(c, "rejected")
    BY <1>1, <2>2, <2>4 DEF ReadVerdict, PassVerdict, clientVars
  <2>. QED  BY <2>3, <2>4
<1>2. CASE ReadGarbage(c) \/ Disconnected(c)
  BY <1>2, FailLeaves
<1>3. CASE TimeOut(c)
  BY <1>3 DEF TimeOut, Return, Leave, Quit, LeavesWith, Failures
<1>. QED  BY <1>1, <1>2, <1>3 DEF CallerStep

\* The server's packets: a login is answered by a verdict, and perhaps an empty
\* reply before it, a command by replies of the sizes of its answer.
SentFor(p, q) ==
    \/ /\ p.kind = "login"
       /\ q.id \in {p.id, -1} /\ q.cmd = 0 /\ q.size = "part" /\ q.last = TRUE
    \/ /\ p.kind = "command"
       /\ q.id = p.id /\ q.cmd = p.cmd
       /\ \E sizes \in Replies \cup {<<>>} : \E k \in 1..Len(sizes) :
             q.size = sizes[k] /\ q.last = (k = Len(sizes))

Handles(p) ==
    /\ p.kind = "command" => authed
    /\ inbox' = {}
    /\ ran' = IF p.kind = "command" THEN [ran EXCEPT ![p.cmd] = @ + 1] ELSE ran
    /\ \A q \in OnWire' : q \in OnWire \/ SentFor(p, q)
    /\ UNCHANGED <<clientVars, callerVars, client, link, late, up, run>>

\* The server handles the only packet in the inbox.
LEMMA ServerSteps ==
    ASSUME ConnectionInv, OwnInv, HandleLogin \/ HandleCommand
    PROVE  \E p \in inbox : Handles(p)
<1>0. wire \in Seq(Packets) /\ inbox \subseteq Requests
  BY DEF ConnectionInv, TypeInv, TypeOK, TrafficType
<1>1. CASE HandleLogin
  <2>1. PICK p \in inbox, accepted \in BOOLEAN, empty \in BOOLEAN :
           /\ p.kind = "login"
           /\ inbox' = inbox \ {p}
           /\ wire' = wire
                \o (IF empty THEN <<Reply(p.id, 0, "part", TRUE)>> ELSE <<>>)
                \o <<Verdict(IF accepted THEN p.id ELSE -1)>>
           /\ UNCHANGED <<clientVars, callerVars, client, link, late, serverVars>>
    BY <1>1 DEF HandleLogin
  <2>2. inbox' = {} /\ p.cmd = 0 /\ p.id \in Nat
    BY <1>0, <2>1 DEF OwnInv, SentByReader, Requests
  <2> DEFINE a == Reply(p.id, 0, "part", TRUE)
             b == Verdict(IF accepted THEN p.id ELSE -1)
             more == (IF empty THEN <<a>> ELSE <<>>) \o <<b>>
  <2>3. a \in Packets /\ b \in Packets
    <3>1. (IF accepted THEN p.id ELSE -1) \in Int
      BY <2>2
    <3>2. p.id \in Int
      BY <2>2
    <3>. QED  BY <3>1, <3>2, LoginPacketsType, Zenon
  <2>4. more \in Seq(Packets) /\ \A k \in 1..Len(more) : more[k] \in {a, b}
    <3>. HIDE DEF a, b
    <3>1. (IF empty THEN <<a>> ELSE <<>>) \in Seq({a, b}) /\ <<b>> \in Seq({a, b})
      BY Singleton, EmptySeq
    <3>2. more \in Seq({a, b})
      BY <3>1, ConcatProperties
    <3>3. {a, b} \subseteq Packets
      BY <2>3
    <3>. HIDE DEF more
    <3>. QED  BY <3>2, <3>3, SeqMonotonic, ElementOfSeq
  <2>5. wire' = wire \o more
    <3>. HIDE DEF a, b
    <3>1. (IF empty THEN <<a>> ELSE <<>>) \in Seq({a, b}) /\ <<b>> \in Seq({a, b})
      BY Singleton, EmptySeq
    <3>2. (IF empty THEN <<a>> ELSE <<>>) \in Seq(Packets) /\ <<b>> \in Seq(Packets)
      BY <2>3, Singleton, EmptySeq
    <3>3. wire' = wire \o (IF empty THEN <<a>> ELSE <<>>) \o <<b>>
      BY <2>1 DEF a, b
    <3> DEFINE first == IF empty THEN <<a>> ELSE <<>>
               second == <<b>>
    <3>4. first \in Seq(Packets) /\ second \in Seq(Packets) /\ wire' = wire \o first \o second
      BY <3>2, <3>3
    <3>. HIDE DEF first, second
    <3>5. wire' = wire \o (first \o second)
      BY <1>0, <3>4, ConcatAssociative
    <3>. QED  BY <3>5 DEF first, second
  <2>6. \A q \in OnWire' : q \in OnWire \/ q = a \/ q = b
    <3>. HIDE DEF a, b, more
    <3>. QED  BY <2>4, <2>5, OnWireConcat DEF ConnectionInv
  <2>7. SentFor(p, a) /\ SentFor(p, b)
    BY <2>1, <2>2 DEF Reply, Verdict, SentFor
  <2>8. /\ p.kind # "command"
        /\ UNCHANGED <<clientVars, callerVars, client, link, late, up, run, ran>>
    BY <2>1 DEF serverVars
  <2>. HIDE DEF a, b, more
  <2>. QED  BY <2>2, <2>6, <2>7, <2>8 DEF Handles
<1>2. CASE HandleCommand
  <2>1. PICK p \in inbox :
           /\ p.kind = "command"
           /\ inbox' = inbox \ {p}
           /\ \/ /\ authed
                 /\ ran' = [ran EXCEPT ![p.cmd] = @ + 1]
                 /\ \E sizes \in Replies \cup {<<>>} : wire' = wire \o Answer(p.id, p.cmd, sizes)
              \/ ~authed
           /\ UNCHANGED <<clientVars, callerVars, client, link, authed, late, up, run>>
    BY <1>2 DEF HandleCommand
  <2>2. authed
    BY <2>1 DEF ConnectionInv, LoginInv, LoggedInFirst
  <2>3. PICK sizes \in Replies \cup {<<>>} : wire' = wire \o Answer(p.id, p.cmd, sizes)
    BY <2>1, <2>2
  <2>4. inbox' = {} /\ p.id \in Int /\ p.cmd \in 0..MaxCommands
    BY <1>0, <2>1 DEF OwnInv, SentByReader, Requests, Commands
  <2>5. sizes \in Seq(Sizes)
    BY RepliesAssumption, EmptySeq
  <2>6. PICK n \in Nat : n = Len(sizes)
    BY <2>5
  <2>7. /\ Len(Answer(p.id, p.cmd, sizes)) = n
        /\ \A k \in 1..n : Answer(p.id, p.cmd, sizes)[k] = Reply(p.id, p.cmd, sizes[k], k = n)
        /\ \A k \in 1..n : sizes[k] \in Sizes
    BY <2>5, <2>6 DEF Answer
  <2>8. OnWire' = OnWire \cup {Answer(p.id, p.cmd, sizes)[k] : k \in 1..n}
    <3>1. Answer(p.id, p.cmd, sizes) \in Seq(Packets)
      BY <2>4, AnswerType
    <3>. QED  BY <2>3, <2>7, <3>1, OnWireConcat DEF ConnectionInv
  <2>9. \A q \in OnWire' : q \in OnWire \/ \E k \in 1..n : q = Reply(p.id, p.cmd, sizes[k], k = n)
    BY <2>7, <2>8
  <2>10. \A k \in 1..n : SentFor(p, Reply(p.id, p.cmd, sizes[k], k = n))
    BY <2>1, <2>6 DEF Reply, SentFor
  <2>11. /\ p.kind = "command" /\ ran' = [ran EXCEPT ![p.cmd] = @ + 1]
         /\ UNCHANGED <<clientVars, callerVars, client, link, late, up, run>>
    BY <2>1, <2>2
  <2>. QED  BY <2>2, <2>4, <2>9, <2>10, <2>11 DEF Handles
<1>. QED  BY <1>1, <1>2

\* Commands and request ids stay fresh.
LEMMA UsedStep == ConnectionInv /\ OwnInv /\ [Next]_vars => UsedInv'
<1>. SUFFICES ASSUME ConnectionInv, OwnInv, [Next]_vars
              PROVE  UsedInv'
  OBVIOUS
<1>0. /\ UsedInv /\ nextId \in Nat /\ issued \in Nat /\ cmd \in [Callers -> 0..MaxCommands]
      /\ inbox \subseteq Requests /\ OnWire \subseteq Packets
      /\ \A p \in inbox : p.id \in Nat
      /\ \A q \in OnWire : q.id \in Int
  BY OnWireType
     DEF OwnInv, ConnectionInv, TypeInv, TypeOK, ClientType, CallerType, TrafficType, Requests, Packets
<1>. USE DEF UsedInv
<1>same. ASSUME UNCHANGED <<cmd, issued, nextId, link, client, inbox, wire>>
         PROVE  UsedInv'
  BY <1>0, <1>same DEF OnWire
<1>1. ASSUME NEW c \in Callers, ExecuteAsync(c)
      PROVE  UsedInv'
  <2>1. UNCHANGED <<nextId, inbox, wire, link, client>>
    BY <1>1 DEF ExecuteAsync, clientVars, connection
  <2>2. OnWire' = OnWire
    BY <2>1 DEF OnWire
  <2>3. issued' = issued + 1 /\ cmd' = [cmd EXCEPT ![c] = issued + 1]
    BY <1>1 DEF ExecuteAsync
  <2>. QED  BY <1>0, <2>1, <2>2, <2>3
<1>2. ASSUME NEW c \in Callers, EnterGate(c) \/ ReuseConnection(c)
      PROVE  UsedInv'
  BY <1>same, <1>2 DEF EnterGate, ReuseConnection, clientVars, connection
<1>3. ASSUME NEW c \in Callers, OpenConnection(c)
      PROVE  UsedInv'
  <2>1. /\ UNCHANGED <<cmd, issued>> /\ nextId' = nextId + 1 /\ client' /\ wire' = <<>>
        /\ inbox' = {Request("login", nextId + 1, 0)}
    BY <1>3 DEF OpenConnection
  <2>2. OnWire' = {}
    BY <2>1 DEF OnWire
  <2>. QED  BY <1>0, <2>1, <2>2 DEF Request
<1>4. ASSUME NEW c \in Callers, PassVerdict(c)
      PROVE  UsedInv'
  BY <1>0, <1>4, OnWireTail DEF PassVerdict, clientVars, ConnectionInv
<1>5. ASSUME NEW c \in Callers, WriteCommand(c)
      PROVE  UsedInv'
  <2>1. /\ UNCHANGED <<cmd, issued, link, client, wire>> /\ nextId' = nextId + 1
        /\ inbox' \subseteq inbox \cup {Request("command", nextId + 1, cmd[c])}
    BY <1>5 DEF WriteCommand
  <2>2. OnWire' = OnWire
    BY <2>1 DEF OnWire
  <2>. QED  BY <1>0, <2>1, <2>2 DEF Request
<1>6. ASSUME NEW c \in Callers, ReadReply(c)
      PROVE  UsedInv'
  BY <1>0, <1>6, OnWireTail DEF ReadReply, ConnectionInv
<1>7. ASSUME NEW c \in Callers, Leave(c)
      PROVE  UsedInv'
  <2>1. UNCHANGED <<nextId, cmd, issued>>
    BY <1>7 DEF Leave
  <2>2. CASE Close
    BY <1>0, <2>1, <2>2, CloseFacts
  <2>3. CASE UNCHANGED connection
    BY <1>0, <2>1, <2>3 DEF connection, OnWire
  <2>. QED  BY <1>7, <2>2, <2>3 DEF Leave, Quit, Retry, Abandon
<1>8. CASE Start
  BY <1>same, <1>8 DEF Start, clientVars, callerVars, connection
<1>9. CASE Shutdown
  <2>1. OnWire' \subseteq OnWire
    BY <1>9 DEF Shutdown, OnWire
  <2>. QED  BY <1>0, <1>9, <2>1 DEF Shutdown, clientVars, callerVars
<1>10. ASSUME NEW p \in inbox, Handles(p)
       PROVE  UsedInv'
  <2>1. ASSUME NEW q \in OnWire' PROVE q.id <= nextId
    BY <1>0, <1>10 DEF Handles, SentFor
  <2>2. ~client => inbox = {}
    BY <1>0 DEF ConnectionInv, LoginInv
  <2>. QED  BY <1>0, <1>10, <2>1, <2>2 DEF Handles, clientVars, callerVars
<1>11. CASE HandleLateCommand
  BY <1>same, <1>11 DEF HandleLateCommand, clientVars, callerVars
<1>12. CASE UNCHANGED vars
  BY <1>same, <1>12 DEF vars, clientVars, callerVars, connection
<1>. QED
  BY <1>1, <1>2, <1>3, <1>4, <1>5, <1>6, <1>7, <1>8, <1>9, <1>10, <1>11, <1>12, CallerSteps, ServerSteps
     DEF Next

\* The inbox stays the reader's.
LEMMA SentStep == ConnectionInv /\ OwnInv /\ [Next]_vars => SentByReader'
<1>. SUFFICES ASSUME ConnectionInv, OwnInv, [Next]_vars
              PROVE  SentByReader'
  OBVIOUS
<1>0. /\ SentByReader /\ pc \in [Callers -> InGate \cup {"idle", "waiting"}]
      /\ cmd \in [Callers -> 0..MaxCommands] /\ id \in [Callers -> Nat] /\ nextId \in Nat
      /\ \A q \in OnWire : q.id \in Int /\ q.id <= nextId
  BY OnWireType
     DEF OwnInv, UsedInv, ConnectionInv, TypeInv, TypeOK, ClientType, CallerType, Packets
<1>. USE DEF SentByReader
<1>1. ASSUME inbox' = {}
      PROVE  SentByReader'
  BY <1>1
\* The inbox is as before, nothing is added on the wire, and no reader has changed.
<1>2. ASSUME UNCHANGED inbox, OnWire' \subseteq OnWire,
             \A d \in Callers : pc[d] = "reading" =>
                pc'[d] = "reading" /\ id'[d] = id[d] /\ cmd'[d] = cmd[d]
      PROVE  SentByReader'
  BY <1>0, <1>2
<1>3. ASSUME NEW c \in Callers, ExecuteAsync(c)
      PROVE  SentByReader'
  BY <1>0, <1>2, <1>3 DEF ExecuteAsync, connection, OnWire
<1>4. ASSUME NEW c \in Callers, EnterGate(c) \/ ReuseConnection(c)
      PROVE  SentByReader'
  BY <1>0, <1>2, <1>4 DEF EnterGate, ReuseConnection, connection, OnWire
<1>5. ASSUME NEW c \in Callers, OpenConnection(c)
      PROVE  SentByReader'
  BY <1>0, <1>5 DEF OpenConnection, Request
<1>6. ASSUME NEW c \in Callers, PassVerdict(c)
      PROVE  SentByReader'
  <2>1. OnWire' \subseteq OnWire
    BY <1>6, OnWireTail DEF PassVerdict, ConnectionInv
  <2>2. \A d \in Callers : pc[d] = "reading" =>
                pc'[d] = "reading" /\ id'[d] = id[d] /\ cmd'[d] = cmd[d]
    BY <1>0, <1>6 DEF PassVerdict
  <2>. QED  BY <1>2, <1>6, <2>1, <2>2 DEF PassVerdict
<1>7. ASSUME NEW c \in Callers, WriteCommand(c)
      PROVE  SentByReader'
  <2>1. inbox = {}
    BY <1>7, InboxFacts DEF WriteCommand, Holds, InGate
  <2>2. /\ inbox' \subseteq {Request("command", nextId + 1, cmd[c])}
        /\ pc'[c] = "reading" /\ id'[c] = nextId + 1 /\ cmd' = cmd /\ wire' = wire
    BY <1>0, <1>7, <2>1 DEF WriteCommand
  <2>3. \A q \in OnWire' : q.id # nextId + 1
    BY <1>0, <2>2 DEF OnWire
  <2>. QED  BY <2>2, <2>3 DEF Request
<1>8. ASSUME NEW c \in Callers, ReadReply(c)
      PROVE  SentByReader'
  <2>1. Head(wire) \in OnWire /\ OnWire' \subseteq OnWire /\ UNCHANGED <<inbox, id, cmd>>
    BY <1>8, OnWireTail DEF ReadReply, ConnectionInv
  <2>2. CASE Head(wire).id = id[c]
    BY <1>1, <1>8, <2>1, <2>2, NothingLeft DEF ReadReply
  <2>3. CASE Head(wire).id # id[c]
    BY <1>2, <1>8, <2>1, <2>3 DEF ReadReply
  <2>. QED  BY <2>2, <2>3
<1>9. ASSUME NEW c \in Callers, Leave(c)
      PROVE  SentByReader'
  <2>1. inbox' = {}
    BY <1>9, CloseFacts DEF Leave, Quit, Retry, Abandon, connection
  <2>. QED  BY <1>1, <2>1
<1>10. CASE Start
  BY <1>2, <1>10 DEF Start, callerVars, connection, OnWire
<1>11. CASE Shutdown
  BY <1>1, <1>11 DEF Shutdown
<1>12. ASSUME NEW p \in inbox, Handles(p)
       PROVE  SentByReader'
  BY <1>1, <1>12 DEF Handles
<1>13. CASE HandleLateCommand
  BY <1>2, <1>13 DEF HandleLateCommand, callerVars, OnWire
<1>14. CASE UNCHANGED vars
  BY <1>2, <1>14 DEF vars, callerVars, connection, OnWire
<1>. QED
  BY <1>3, <1>4, <1>5, <1>6, <1>7, <1>8, <1>9, <1>10, <1>11, <1>12, <1>13, <1>14, CallerSteps, ServerSteps
     DEF Next

\* What the reader collects stays its own, and comes of commands that have run.
LEMMA AnswersStep == ConnectionInv /\ OwnInv /\ [Next]_vars => AnswersReader'
<1>. SUFFICES ASSUME ConnectionInv, OwnInv, [Next]_vars
              PROVE  AnswersReader'
  OBVIOUS
<1>0. /\ AnswersReader /\ pc \in [Callers -> InGate \cup {"idle", "waiting"}]
      /\ cmd \in [Callers -> 0..MaxCommands] /\ id \in [Callers -> Nat] /\ nextId \in Nat
      /\ body \in [Callers -> SUBSET (0..MaxCommands)] /\ ran \in [Commands -> Nat]
      /\ OnWire \subseteq Packets
      /\ \A q \in OnWire : q.id \in Int /\ q.id <= nextId /\ q.cmd \in 0..MaxCommands
  BY OnWireType
     DEF OwnInv, UsedInv, ConnectionInv, TypeInv, TypeOK, ClientType, CallerType, ServerType, Packets
<1>. USE DEF AnswersReader
\* Nothing is added on the wire, nothing collected, and nobody starts to read.
<1>1. ASSUME OnWire' \subseteq OnWire, UNCHANGED <<body, cmd, ran>>,
             \A d \in Callers : pc'[d] = "reading" => pc[d] = "reading" /\ id'[d] = id[d]
      PROVE  AnswersReader'
  BY <1>0, <1>1
<1>2. ASSUME NEW c \in Callers, ExecuteAsync(c)
      PROVE  AnswersReader'
  BY <1>0, <1>2 DEF ExecuteAsync, connection, serverVars, OnWire
<1>3. ASSUME NEW c \in Callers, EnterGate(c) \/ ReuseConnection(c)
      PROVE  AnswersReader'
  <2>1. OnWire' = OnWire /\ UNCHANGED <<body, cmd, ran, id>>
    BY <1>3 DEF EnterGate, ReuseConnection, connection, serverVars, OnWire
  <2>2. \A d \in Callers : pc'[d] = "reading" => pc[d] = "reading"
    BY <1>0, <1>3 DEF EnterGate, ReuseConnection
  <2>. QED  BY <1>1, <2>1, <2>2
<1>4. ASSUME NEW c \in Callers, OpenConnection(c)
      PROVE  AnswersReader'
  <2>1. OnWire' = {} /\ UNCHANGED <<body, cmd, ran>>
    BY <1>4 DEF OpenConnection, serverVars, OnWire
  <2>. QED  BY <1>0, <2>1
<1>5. ASSUME NEW c \in Callers, PassVerdict(c)
      PROVE  AnswersReader'
  <2>1. OnWire' \subseteq OnWire
    BY <1>5, OnWireTail DEF PassVerdict, ConnectionInv
  <2>. QED  BY <1>0, <1>1, <1>5, <2>1 DEF PassVerdict, serverVars
<1>6. ASSUME NEW c \in Callers, WriteCommand(c)
      PROVE  AnswersReader'
  <2>1. /\ UNCHANGED <<cmd, ran>> /\ OnWire' = OnWire
        /\ pc' = [pc EXCEPT ![c] = "reading"] /\ id' = [id EXCEPT ![c] = nextId + 1]
        /\ body' = [body EXCEPT ![c] = {}]
    BY <1>6 DEF WriteCommand, serverVars, OnWire
  <2>2. \A d \in Callers : pc'[d] = "reading" => d = c
    BY <1>0, <1>6, <2>1, AloneInGate DEF WriteCommand, Holds, InGate
  <2>3. \A q \in OnWire' : q.id # nextId + 1
    BY <1>0, <2>1
  <2>. QED  BY <1>0, <2>1, <2>2, <2>3
<1>7. ASSUME NEW c \in Callers, ReadReply(c)
      PROVE  AnswersReader'
  <2>1. Head(wire) \in OnWire /\ OnWire' \subseteq OnWire /\ UNCHANGED <<id, cmd, ran>>
    BY <1>7, OnWireTail DEF ReadReply, ConnectionInv, serverVars
  <2>2. \A d \in Callers : pc'[d] = "reading" => pc[d] = "reading"
    BY <1>0, <1>7 DEF ReadReply, Return
  <2>3. CASE Head(wire).id = id[c]
    <3>1. body' = [body EXCEPT ![c] = @ \cup {cmd[c]}]
      BY <1>0, <1>7, <2>1, <2>3 DEF ReadReply
    <3>2. \A d \in Callers : body'[d] \subseteq {cmd'[d]}
      BY <1>0, <2>1, <3>1
    <3>. QED  BY <1>0, <2>1, <2>2, <3>2
  <2>4. CASE Head(wire).id # id[c]
    BY <1>1, <1>7, <2>1, <2>2, <2>4 DEF ReadReply
  <2>. QED  BY <2>3, <2>4
<1>8. ASSUME NEW c \in Callers, Leave(c)
      PROVE  AnswersReader'
  <2>1. OnWire' \subseteq OnWire
    BY <1>8, CloseFacts DEF Leave, Quit, Retry, Abandon, connection, OnWire
  <2>2. \A d \in Callers : pc'[d] = "reading" => pc[d] = "reading"
    BY <1>0, <1>8 DEF Leave, Quit, Retry, Abandon, LeavesWith
  <2>. QED  BY <1>1, <1>8, <2>1, <2>2 DEF Leave, serverVars
<1>9. CASE Start
  BY <1>1, <1>9 DEF Start, callerVars, connection, OnWire
<1>10. CASE Shutdown
  <2>1. OnWire' \subseteq OnWire
    BY <1>10 DEF Shutdown, OnWire
  <2>. QED  BY <1>1, <1>10, <2>1 DEF Shutdown, callerVars
<1>11. ASSUME NEW p \in inbox, Handles(p)
       PROVE  AnswersReader'
  <2>1. UNCHANGED <<pc, id, cmd, body>>
    BY <1>11 DEF Handles, callerVars
  <2>2. inbox \subseteq Requests
    BY DEF ConnectionInv, TypeInv, TypeOK, TrafficType
  <2>3. \A n \in Commands : ran'[n] >= ran[n] /\ (p.kind = "command" /\ n = p.cmd => ran'[n] > 0)
    BY <1>0, <1>11, <2>2 DEF Handles, Requests
  <2>4. ASSUME NEW q \in OnWire', q.cmd # 0 PROVE ran'[q.cmd] > 0
    <3>1. CASE q \in OnWire
      <4>1. q.cmd \in Commands /\ ran[q.cmd] > 0 /\ ran[q.cmd] \in Nat /\ ran'[q.cmd] \in Int
        BY <1>0, <1>11, <2>2, <2>4, <3>1, BoundsAssumption DEF Commands, Handles, Requests
      <4>. QED  BY <2>3, <4>1
    <3>2. CASE q \notin OnWire
      <4>1. p.kind = "command" /\ q.cmd = p.cmd /\ p.cmd \in Commands
        BY <1>11, <2>2, <2>4, <3>2 DEF Handles, SentFor, Requests
      <4>. QED  BY <2>3, <4>1
    <3>. QED  BY <3>1, <3>2
  <2>5. ASSUME NEW c \in Callers, pc[c] = "reading", NEW q \in OnWire', q.id = id[c]
        PROVE  q.cmd = cmd[c]
    <3>1. CASE q \in OnWire
      BY <1>0, <2>5, <3>1
    <3>2. CASE q \notin OnWire
      <4>1. p.kind = "command" /\ p.cmd = cmd[c]
        BY <2>5, InboxFacts DEF Holds, InGate
      <4>. QED  BY <1>11, <3>2, <4>1 DEF Handles, SentFor
    <3>. QED  BY <3>1, <3>2
  <2>. QED  BY <1>0, <2>1, <2>4, <2>5
<1>12. CASE HandleLateCommand
  <2>1. OnWire' = OnWire /\ UNCHANGED <<pc, id, cmd, body>>
    BY <1>12 DEF HandleLateCommand, callerVars, OnWire
  <2>2. PICK n \in late : ran' = [ran EXCEPT ![n] = @ + 1]
    BY <1>12 DEF HandleLateCommand
  <2>3. \A m \in Commands : ran[m] > 0 => ran'[m] > 0
    BY <1>0, <2>2
  <2>4. \A q \in OnWire : q.cmd # 0 => q.cmd \in Commands
    BY <1>0, BoundsAssumption DEF Commands
  <2>. QED  BY <1>0, <2>1, <2>3, <2>4
<1>13. CASE UNCHANGED vars
  BY <1>1, <1>13 DEF vars, callerVars, connection, serverVars, OnWire
<1>. QED
  BY <1>2, <1>3, <1>4, <1>5, <1>6, <1>7, <1>8, <1>9, <1>10, <1>11, <1>12, <1>13, CallerSteps, ServerSteps
     DEF Next

\* A second attempt keeps its connection to itself.
LEMMA OwnConnectionStep == ConnectionInv /\ OwnInv /\ [Next]_vars => OwnConnection'
<1>. SUFFICES ASSUME ConnectionInv, OwnInv, [Next]_vars
              PROVE  OwnConnection'
  OBVIOUS
<1>0. /\ OwnConnection /\ pc \in [Callers -> InGate \cup {"idle", "waiting"}]
      /\ attempt \in [Callers -> {1, 2}] /\ id \in [Callers -> Nat]
      /\ \A c \in Callers : pc[c] = "waiting" => attempt[c] = 1
      /\ ~client => OnWire = {}
  BY DEF OwnInv, UsedInv, ConnectionInv, TypeInv, TypeOK, CallerType, AttemptInv
<1>. USE DEF OwnConnection, Holds, InGate
\* Nobody gets further, and nothing is added on the wire.
<1>1. ASSUME UNCHANGED client, OnWire' \subseteq OnWire,
             \A d \in Callers : Holds(d)' => attempt'[d] = attempt[d] /\ id'[d] = id[d] /\ pc'[d] = pc[d]
      PROVE  OwnConnection'
  BY <1>0, <1>1
\* Who holds the gate afterwards is c, on its first attempt or with nothing to come.
<1>2. ASSUME NEW c \in Callers, \A d \in Callers : Holds(d)' => d = c,
             Holds(c)' /\ attempt'[c] = 2 =>
                /\ pc'[c] = "connecting" => ~client'
                /\ \A q \in OnWire' : q.size # "over"
      PROVE  OwnConnection'
  BY <1>2
<1>3. ASSUME NEW c \in Callers, ExecuteAsync(c)
      PROVE  OwnConnection'
  BY <1>0, <1>1, <1>3 DEF ExecuteAsync, connection, OnWire
<1>4. ASSUME NEW c \in Callers, EnterGate(c) \/ ReuseConnection(c)
      PROVE  OwnConnection'
  <2>1. UNCHANGED <<client, attempt, id>> /\ OnWire' = OnWire
    BY <1>4 DEF EnterGate, ReuseConnection, connection, OnWire
  <2>2. attempt[c] = 1
    BY <1>0, <1>4 DEF EnterGate, ReuseConnection
  <2>3. \A d \in Callers : d # c => pc'[d] = pc[d]
    BY <1>0, <1>4 DEF EnterGate, ReuseConnection
  <2>. QED  BY <1>0, <2>1, <2>2, <2>3
<1>5. ASSUME NEW c \in Callers, OpenConnection(c)
      PROVE  OwnConnection'
  <2>1. OnWire' = {} /\ pc' = [pc EXCEPT ![c] = "authenticating"] /\ pc[c] = "connecting"
    BY <1>5 DEF OpenConnection, OnWire
  <2>2. \A d \in Callers : Holds(d)' => d = c
    BY <1>0, <2>1, AloneInGate
  <2>. QED  BY <1>0, <1>2, <2>1, <2>2
<1>6. ASSUME NEW c \in Callers, PassVerdict(c)
      PROVE  OwnConnection'
  <2>1. /\ OnWire' \subseteq OnWire /\ UNCHANGED <<client, attempt, id>>
        /\ pc[c] = "authenticating" /\ (pc' = pc \/ pc' = [pc EXCEPT ![c] = "sending"])
    BY <1>6, OnWireTail DEF PassVerdict, ConnectionInv
  <2>. QED  BY <1>0, <2>1
<1>7. ASSUME NEW c \in Callers, WriteCommand(c)
      PROVE  OwnConnection'
  <2>1. /\ OnWire' = OnWire /\ UNCHANGED <<client, attempt>>
        /\ pc[c] = "sending" /\ pc' = [pc EXCEPT ![c] = "reading"]
    BY <1>7 DEF WriteCommand, OnWire
  <2>2. \A d \in Callers : Holds(d)' => d = c
    BY <1>0, <2>1, AloneInGate
  <2>. QED  BY <1>0, <1>2, <2>1, <2>2
<1>8. ASSUME NEW c \in Callers, ReadReply(c)
      PROVE  OwnConnection'
  <2>1. OnWire' \subseteq OnWire /\ UNCHANGED <<client, attempt, id>>
    BY <1>8, OnWireTail DEF ReadReply, ConnectionInv
  <2>2. pc' = pc \/ pc' = [pc EXCEPT ![c] = "idle"]
    BY <1>8 DEF ReadReply, Return
  <2>. QED  BY <1>0, <1>1, <2>1, <2>2
<1>9. ASSUME NEW c \in Callers, Leave(c)
      PROVE  OwnConnection'
  <2>1. \A d \in Callers : Holds(d)' => d = c
    BY <1>0, <1>9, AloneInGate DEF Leave, Quit, Retry, Abandon, LeavesWith
  <2>2. CASE Retry(c)
    BY <1>0, <1>2, <2>1, <2>2, CloseFacts DEF Retry
  <2>3. CASE Quit(c) \/ Abandon(c)
    BY <1>0, <1>2, <2>1, <2>3 DEF Quit, Abandon, LeavesWith
  <2>. QED  BY <1>9, <2>2, <2>3 DEF Leave
<1>10. CASE Start
  BY <1>1, <1>10 DEF Start, callerVars, connection, OnWire
<1>11. CASE Shutdown
  <2>1. OnWire' \subseteq OnWire
    BY <1>11 DEF Shutdown, OnWire
  <2>. QED  BY <1>1, <1>11, <2>1 DEF Shutdown, callerVars
<1>12. ASSUME NEW p \in inbox, Handles(p)
       PROVE  OwnConnection'
  <2>1. UNCHANGED <<pc, id, attempt, client>>
    BY <1>12 DEF Handles, callerVars
  <2>2. ASSUME NEW c \in Callers, Holds(c), NEW q \in OnWire', q \notin OnWire, q.size = "over"
        PROVE  pc[c] = "reading" /\ q.id = id[c]
    BY <1>12, <2>2, InboxFacts DEF Handles, SentFor
  <2>. QED  BY <1>0, <2>1, <2>2
<1>13. CASE HandleLateCommand
  BY <1>1, <1>13 DEF HandleLateCommand, callerVars, OnWire
<1>14. CASE UNCHANGED vars
  BY <1>1, <1>14 DEF vars, callerVars, connection, OnWire
<1>. QED
  BY <1>3, <1>4, <1>5, <1>6, <1>7, <1>8, <1>9, <1>10, <1>11, <1>12, <1>13, <1>14, CallerSteps, ServerSteps
     DEF Next

\* Nothing has been sent yet.
LEMMA OwnInit == Init => ConnectionInv /\ OwnInv
<1>. SUFFICES ASSUME Init
              PROVE  ConnectionInv /\ OwnInv
  OBVIOUS
<1>1. LoginInv
  BY DEF Init, LoginInv, LoggedInFirst, LoggingIn
<1>2. OnWire = {}
  BY DEF Init, OnWire
<1>3. OwnInv
  BY <1>2 DEF Init, OwnInv, UsedInv, SentByReader, AnswersReader, OwnConnection, Holds, InGate
<1>. QED  BY <1>1, <1>3, TypeInit, OutageInit DEF ConnectionInv

\* Every step keeps the traffic in order.
LEMMA OwnStep == ConnectionInv /\ OwnInv /\ [Next]_vars => ConnectionInv' /\ OwnInv'
BY TypeStep, AttemptStep, LoginStep, UsedStep, SentStep, AnswersStep, OwnConnectionStep
   DEF ConnectionInv, OwnInv

\* So it is in every state.
LEMMA OwnAlways == Spec => [](ConnectionInv /\ OwnInv)
BY OwnInit, OwnStep, PTL DEF Spec

\* What a caller collects was printed for its own command: neither what is left
\* of an earlier caller's answer nor a late answer is ever taken for it.
THEOREM OwnAnswers == Spec => []AnswersOwnCommand
<1>1. OwnInv => AnswersOwnCommand
  BY DEF OwnInv, AnswersReader, AnswersOwnCommand
<1>. QED  BY <1>1, OwnAlways, PTL

-----------------------------------------------------------------------------
(***************************************************************************)
(* How often a command can run.  Every copy of it has been run, is overdue *)
(* or is in the inbox, and there are no more copies than attempts.         *)
(***************************************************************************)
InInbox(n) == \E p \in inbox : p.cmd = n
Copies(n) == ran[n] + (IF n \in late THEN 1 ELSE 0) + (IF InInbox(n) THEN 1 ELSE 0)

\* The copies c may have sent so far.
Sent(c) == IF pc[c] = "waiting" THEN 0
           ELSE IF pc[c] = "reading" THEN attempt[c] ELSE attempt[c] - 1

CountInv ==
    /\ \A n \in Commands : Copies(n) <= 2 /\ (n > issued => Copies(n) = 0)
    /\ \A c \in Callers : pc[c] # "idle" => Copies(cmd[c]) <= Sent(c)

\* Copies are counted by natural numbers.
LEMMA CopiesType ==
    ASSUME TypeInv, NEW n \in Commands
    PROVE  /\ Copies(n) \in Nat /\ ran[n] \in Nat /\ ran[n] <= Copies(n)
           /\ n \in late => ran[n] < Copies(n)
           /\ InInbox(n) => ran[n] < Copies(n)
           /\ Copies(n) = 0 <=> ran[n] = 0 /\ n \notin late /\ ~InInbox(n)
BY DEF Copies, TypeInv, TypeOK, ServerType

\* No copy is added by a step that neither runs a command nor sends one.
LEMMA CopiesKept ==
    ASSUME TypeInv, TypeInv', UNCHANGED ran, NEW n \in Commands,
           n \in late' => n \in late \/ InInbox(n),
           InInbox(n)' => InInbox(n),
           n \in late' /\ InInbox(n)' => n \in late
    PROVE  Copies(n)' <= Copies(n)
BY DEF Copies, TypeInv, TypeOK, ServerType

\* Closing a connection moves a copy, or drops it.
LEMMA CopiesClosed ==
    ASSUME TypeInv, TypeInv', UNCHANGED ran, Close, NEW n \in Commands
    PROVE  Copies(n)' <= Copies(n)
<1>1. ~InInbox(n)' /\ (n \in late' => n \in late \/ InInbox(n))
  BY CloseFacts DEF InInbox
<1>. QED  BY <1>1, CopiesKept

\* The server runs a copy that it had not run.
LEMMA CopiesRun ==
    ASSUME ConnectionInv, OwnInv, TypeInv', NEW p \in inbox, Handles(p), NEW n \in Commands
    PROVE  Copies(n)' <= Copies(n)
<1>1. p.kind = "login" => p.cmd = 0
  BY DEF ConnectionInv, TypeInv, TypeOK, TrafficType, Requests
<1>2. ~InInbox(n)' /\ late' = late
  BY DEF Handles, InInbox
<1>3. CASE p.kind = "command" /\ p.cmd = n
  <2>1. ran'[n] = ran[n] + 1 /\ InInbox(n)
    BY <1>3 DEF Handles, InInbox, ConnectionInv, TypeInv, TypeOK, ServerType
  <2>. QED  BY <1>2, <2>1, CopiesType DEF Copies, ConnectionInv
<1>4. CASE p.kind # "command" \/ p.cmd # n
  <2>1. ran'[n] = ran[n]
    BY <1>4 DEF Handles, ConnectionInv, TypeInv, TypeOK, ServerType
  <2>. QED  BY <1>2, <2>1, CopiesType DEF Copies, ConnectionInv
<1>. QED  BY <1>3, <1>4

\* A late copy is run.
LEMMA CopiesRunLate ==
    ASSUME TypeInv, TypeInv', HandleLateCommand, NEW n \in Commands
    PROVE  Copies(n)' <= Copies(n)
<1>1. PICK m \in late : late' = late \ {m} /\ ran' = [ran EXCEPT ![m] = @ + 1] /\ inbox' = inbox
  BY DEF HandleLateCommand
<1>2. InInbox(n)' <=> InInbox(n)
  BY <1>1 DEF InInbox
<1>3. CASE n = m
  BY <1>1, <1>2, <1>3 DEF Copies, TypeInv, TypeOK, ServerType
<1>4. CASE n # m
  BY <1>1, <1>2, <1>4 DEF Copies, TypeInv, TypeOK, ServerType
<1>. QED  BY <1>3, <1>4

\* Every step keeps count.
LEMMA CountStep == ConnectionInv /\ OwnInv /\ CountInv /\ [Next]_vars => CountInv'
<1>. SUFFICES ASSUME ConnectionInv, OwnInv, CountInv, [Next]_vars
              PROVE  CountInv'
  OBVIOUS
<1>0. /\ pc \in [Callers -> InGate \cup {"idle", "waiting"}] /\ issued \in 0..MaxCommands
      /\ cmd \in [Callers -> 0..MaxCommands] /\ attempt \in [Callers -> {1, 2}]
      /\ \A c \in Callers : pc[c] # "idle" => cmd[c] \in Commands
      /\ \A c \in Callers : cmd[c] <= issued
      /\ \A c \in Callers : pc[c] = "waiting" => attempt[c] = 1
  BY DEF ConnectionInv, TypeInv, TypeOK, CallerType, HasCommand, OwnInv, UsedInv, AttemptInv
<1>t. TypeInv /\ TypeInv'
  BY TypeStep DEF ConnectionInv
<1>n. \A n \in Commands : Copies(n) \in Nat /\ Copies(n)' \in Nat
  BY <1>t DEF Copies, TypeInv, TypeOK, ServerType
<1>goal. ASSUME \A n \in Commands : Copies(n)' <= 2 /\ (n > issued' => Copies(n)' = 0),
                \A d \in Callers, n \in Commands : pc'[d] # "idle" /\ cmd'[d] = n => Copies(n)' <= Sent(d)'
         PROVE  CountInv'
  <2>1. \A d \in Callers : pc'[d] # "idle" => cmd'[d] \in Commands
    BY <1>t DEF TypeInv, HasCommand
  <2>. QED  BY <1>goal, <2>1 DEF CountInv
\* No copy is added, and nobody goes back.
<1>1. ASSUME \A n \in Commands : Copies(n)' <= Copies(n), UNCHANGED <<cmd, issued>>,
             \A d \in Callers : pc'[d] # "idle" => pc[d] # "idle" /\ Sent(d) <= Sent(d)'
      PROVE  CountInv'
  <2>1. ASSUME NEW n \in Commands PROVE Copies(n)' <= 2 /\ (n > issued' => Copies(n)' = 0)
    <3>1. Copies(n)' <= Copies(n) /\ Copies(n) <= 2 /\ (n > issued => Copies(n) = 0) /\ issued' = issued
      BY <1>1, <2>1 DEF CountInv
    <3>. QED  BY <1>n, <2>1, <3>1
  <2>2. ASSUME NEW d \in Callers, pc'[d] # "idle", NEW n \in Commands, cmd'[d] = n
        PROVE  Copies(n)' <= Sent(d)'
    <3>1. cmd[d] = n /\ pc[d] # "idle"
      BY <1>1, <2>2
    <3>2. Copies(n)' <= Copies(n) /\ Copies(n) <= Sent(d) /\ Sent(d) <= Sent(d)'
      BY <1>1, <2>2, <3>1 DEF CountInv
    <3>3. Sent(d) \in Int /\ Sent(d)' \in Int
      BY <1>0, <1>t DEF Sent, TypeInv, TypeOK, CallerType
    <3>. QED  BY <1>n, <3>2, <3>3
  <2>. QED  BY <1>goal, <2>1, <2>2
<1>same. ASSUME UNCHANGED <<ran, late, inbox>>
         PROVE  \A n : Copies(n)' = Copies(n)
  BY <1>same DEF Copies, InInbox
<1>2. ASSUME NEW c \in Callers, ExecuteAsync(c)
      PROVE  CountInv'
  <2>1. /\ issued' = issued + 1 /\ cmd' = [cmd EXCEPT ![c] = issued + 1]
        /\ pc' = [pc EXCEPT ![c] = "waiting"] /\ attempt' = [attempt EXCEPT ![c] = 1]
        /\ issued < MaxCommands /\ UNCHANGED <<ran, late, inbox>>
    BY <1>2 DEF ExecuteAsync, connection, serverVars
  <2>2. \A n \in Commands : Copies(n)' = Copies(n)
    BY <1>same, <2>1
  <2>3. ASSUME NEW d \in Callers, pc'[d] # "idle", NEW n \in Commands, cmd'[d] = n
        PROVE  Copies(n)' <= Sent(d)'
    <3>1. CASE d = c
      <4>1. n = issued + 1 /\ Sent(c)' = 0
        BY <1>0, <2>1, <2>3, <3>1 DEF Sent
      <4>2. Copies(n)' = 0
        BY <1>0, <2>2, <4>1 DEF CountInv
      <4>. QED  BY <3>1, <4>1, <4>2
    <3>2. CASE d # c
      <4>1. n = cmd[d] /\ pc[d] # "idle" /\ Sent(d)' = Sent(d)
        BY <1>0, <2>1, <2>3, <3>2 DEF Sent
      <4>. QED  BY <2>2, <4>1 DEF CountInv
    <3>. QED  BY <3>1, <3>2
  <2>4. ASSUME NEW n \in Commands PROVE Copies(n)' <= 2 /\ (n > issued' => Copies(n)' = 0)
    <3>1. Copies(n)' = Copies(n) /\ Copies(n) <= 2 /\ (n > issued => Copies(n) = 0)
      BY <2>2 DEF CountInv
    <3>2. n > issued + 1 => n > issued
      BY <1>0 DEF Commands
    <3>. QED  BY <2>1, <3>1, <3>2
  <2>. QED  BY <1>goal, <2>3, <2>4
<1>3. ASSUME NEW c \in Callers, EnterGate(c) \/ ReuseConnection(c) \/ OpenConnection(c) \/ PassVerdict(c)
      PROVE  CountInv'
  <2>1. /\ UNCHANGED <<cmd, issued, ran, late, attempt>>
        /\ \E s \in {"connecting", "sending", "authenticating"} : pc' = [pc EXCEPT ![c] = s]
        /\ pc[c] \in {"waiting", "connecting", "authenticating"}
    BY <1>0, <1>3 DEF EnterGate, ReuseConnection, OpenConnection, PassVerdict, connection, serverVars
  <2>2. \A d \in Callers : pc'[d] # "idle" => pc[d] # "idle" /\ Sent(d) <= Sent(d)'
    BY <1>0, <2>1 DEF Sent
  <2>3. \A n \in Commands : InInbox(n)' => InInbox(n)
    BY <1>3 DEF EnterGate, ReuseConnection, OpenConnection, PassVerdict, connection, InInbox, Request,
                Commands
  <2>. QED  BY <1>1, <1>t, <2>1, <2>2, <2>3, CopiesKept
<1>4. ASSUME NEW c \in Callers, WriteCommand(c)
      PROVE  CountInv'
  <2>1. /\ UNCHANGED <<cmd, issued, ran, late, attempt>> /\ pc[c] = "sending"
        /\ pc' = [pc EXCEPT ![c] = "reading"]
        /\ inbox' \subseteq inbox \cup {Request("command", nextId + 1, cmd[c])}
    BY <1>4 DEF WriteCommand, serverVars
  <2>2. \A n \in Commands : InInbox(n)' => InInbox(n) \/ n = cmd[c]
    BY <2>1 DEF InInbox, Request
  <2>3. \A n \in Commands : n # cmd[c] => Copies(n)' <= Copies(n)
    BY <1>t, <2>1, <2>2, CopiesKept
  <2>4. PICK m \in Commands : m = cmd[c]
    BY <1>0, <2>1
  <2>5. Copies(m)' <= Copies(m) + 1
    BY <1>t, <2>1 DEF Copies, TypeInv, TypeOK, ServerType
  <2>6. Sent(c) = attempt[c] - 1 /\ Sent(c)' = attempt[c] /\ attempt[c] \in {1, 2}
    BY <1>0, <2>1 DEF Sent
  <2>7. Copies(m)' <= attempt[c]
    <3>1. Copies(m) <= Sent(c)
      BY <2>1, <2>4 DEF CountInv
    <3>. QED  BY <1>n, <2>5, <2>6, <3>1
  <2>8. ASSUME NEW n \in Commands PROVE Copies(n)' <= 2 /\ (n > issued' => Copies(n)' = 0)
    <3>1. CASE n = m
      <4>1. ~(n > issued)
        BY <1>0, <2>4, <3>1 DEF Commands
      <4>. QED  BY <1>n, <2>1, <2>6, <2>7, <3>1, <4>1
    <3>2. CASE n # m
      <4>1. Copies(n)' <= Copies(n) /\ Copies(n) <= 2 /\ (n > issued => Copies(n) = 0)
        BY <2>3, <2>4, <3>2 DEF CountInv
      <4>. QED  BY <1>n, <2>1, <4>1
    <3>. QED  BY <3>1, <3>2
  <2>9. ASSUME NEW d \in Callers, pc'[d] # "idle", NEW n \in Commands, cmd'[d] = n
        PROVE  Copies(n)' <= Sent(d)'
    <3>1. CASE d = c
      BY <2>1, <2>4, <2>6, <2>7, <2>9, <3>1
    <3>2. CASE d # c
      <4>1. cmd[d] = n /\ n # m /\ Sent(d)' = Sent(d) /\ pc[d] # "idle"
        BY <1>0, <2>1, <2>4, <2>9, <3>2 DEF Sent, OwnInv, UsedInv, Commands
      <4>2. Copies(n)' <= Copies(n) /\ Copies(n) <= Sent(d) /\ Sent(d) \in Int
        BY <1>0, <2>3, <2>4, <4>1 DEF CountInv, Sent
      <4>. QED  BY <1>n, <4>1, <4>2
    <3>. QED  BY <3>1, <3>2
  <2>. QED  BY <1>goal, <2>8, <2>9
<1>5. ASSUME NEW c \in Callers, ReadReply(c)
      PROVE  CountInv'
  <2>1. UNCHANGED <<cmd, issued, ran, late, inbox, attempt>> /\ (pc' = pc \/ pc' = [pc EXCEPT ![c] = "idle"])
    BY <1>5 DEF ReadReply, Return, serverVars
  <2>2. \A d \in Callers : pc'[d] # "idle" => pc'[d] = pc[d] /\ Sent(d)' = Sent(d) /\ Sent(d) \in Int
    BY <1>0, <2>1 DEF Sent
  <2>. QED  BY <1>0, <1>1, <1>n, <1>same, <2>1, <2>2
<1>6. ASSUME NEW c \in Callers, Leave(c)
      PROVE  CountInv'
  <2>1. /\ UNCHANGED <<cmd, issued, ran>> /\ Holds(c)
        /\ \/ pc' = [pc EXCEPT ![c] = "idle"] /\ attempt' = attempt
           \/ /\ pc' = [pc EXCEPT ![c] = "connecting"] /\ attempt[c] = 1
              /\ attempt' = [attempt EXCEPT ![c] = 2]
    BY <1>6 DEF Leave, Quit, Retry, Abandon, LeavesWith, serverVars
  <2>2. \A d \in Callers : pc'[d] # "idle" => pc[d] # "idle" /\ Sent(d) <= Sent(d)'
    BY <1>0, <2>1 DEF Sent, Holds, InGate
  <2>3. CASE Close
    BY <1>1, <1>t, <2>1, <2>2, <2>3, CopiesClosed
  <2>4. CASE UNCHANGED connection
    BY <1>1, <1>n, <1>same, <2>1, <2>2, <2>4 DEF connection
  <2>. QED  BY <1>6, <2>3, <2>4 DEF Leave, Quit, Retry, Abandon
\* The server, and stuttering, leave the callers alone.
<1>7. ASSUME UNCHANGED callerVars, \A n \in Commands : Copies(n)' <= Copies(n)
      PROVE  CountInv'
  <2>1. \A d \in Callers : Sent(d)' = Sent(d) /\ Sent(d) \in Int
    BY <1>0, <1>7 DEF Sent, callerVars
  <2>. QED  BY <1>1, <1>7, <2>1 DEF callerVars
<1>8. CASE Start \/ UNCHANGED vars
  BY <1>7, <1>8, <1>n, <1>same DEF Start, vars, callerVars, connection, serverVars
<1>9. CASE Shutdown
  <2>1. \A n \in Commands : n \notin late' /\ ~InInbox(n)'
    BY <1>9 DEF Shutdown, InInbox
  <2>. QED  BY <1>7, <1>9, <1>t, <2>1, CopiesKept DEF Shutdown, callerVars
<1>10. ASSUME NEW p \in inbox, Handles(p)
       PROVE  CountInv'
  BY <1>7, <1>10, <1>t, CopiesRun DEF Handles, callerVars
<1>11. CASE HandleLateCommand
  BY <1>7, <1>11, <1>t, CopiesRunLate DEF HandleLateCommand, callerVars
<1>. QED
  BY <1>2, <1>3, <1>4, <1>5, <1>6, <1>8, <1>9, <1>10, <1>11, CallerSteps, ServerSteps
     DEF Next

\* No command has been issued yet.
LEMMA CountInit == Init => CountInv
BY DEF Init, CountInv, Copies, InInbox, Sent

\* So it does in every state.
LEMMA CountAlways == Spec => []CountInv
BY CountInit, CountStep, OwnAlways, PTL DEF Spec

-----------------------------------------------------------------------------
(***************************************************************************)
(* The client implements the service: each step is a step of RconService   *)
(* or leaves it alone.                                                     *)
(***************************************************************************)
\* What a caller leaves on a connection it closes is a copy of its own command.
LEMMA CloseLate ==
    ASSUME ConnectionInv, OwnInv, NEW c \in Callers, Holds(c), Close
    PROVE  late' = late \/ late' = late \cup {cmd[c]}
<1>1. \A n \in late' : n \in late \/ n = cmd[c]
  BY CloseFacts, InboxFacts
<1>2. late \subseteq late'
  BY CloseFacts
<1>. QED  BY <1>1, <1>2

\* A caller that gives up.
LEMMA LeaveIsGivingUp ==
    ASSUME ConnectionInv, OwnInv, NEW c \in Callers, Leave(c)
    PROVE  [Service!Next]_(Service!vars)
<1>1. Holds(c) /\ UNCHANGED <<cmd, issued, ran>>
  BY DEF Leave, serverVars
<1>2. late' = late \/ late' = late \cup {cmd[c]}
  BY <1>1, CloseLate DEF Leave, Quit, Retry, Abandon, connection
<1>3. pc \in [Callers -> InGate \cup {"idle", "waiting"}] /\ pc[c] # "idle"
  BY <1>1 DEF ConnectionInv, TypeInv, TypeOK, CallerType, Holds, InGate
<1>4. CASE Retry(c)
  <2>1. [d \in Callers |-> pc[d] # "idle"]' = [d \in Callers |-> pc[d] # "idle"] /\ outcome' = outcome
    BY <1>3, <1>4 DEF Retry
  <2>2. CASE late' = late
    BY <1>1, <2>1, <2>2 DEF Service!vars
  <2>3. CASE late' = late \cup {cmd[c]}
    <3>1. Service!GiveUpCopy(c)
      BY <1>1, <1>3, <2>1, <2>3 DEF Service!GiveUpCopy
    <3>. QED  BY <3>1 DEF Service!Next
  <2>. QED  BY <1>2, <2>2, <2>3
<1>5. CASE Quit(c) \/ Abandon(c)
  <2>1. PICK how \in Failures : LeavesWith(c, how)
    BY <1>5 DEF Quit, Abandon
  <2>2. [d \in Callers |-> pc[d] # "idle"]' = [[d \in Callers |-> pc[d] # "idle"] EXCEPT ![c] = FALSE]
    BY <1>3, <2>1 DEF LeavesWith
  <2>3. Service!GaveUp(c)
    BY <1>1, <1>2, <1>3, <2>1, <2>2 DEF Service!GaveUp, LeavesWith, Failures
  <2>. QED  BY <2>3 DEF Service!Next
<1>. QED  BY <1>4, <1>5 DEF Leave

\* Every step is a step of the service or leaves it alone.
LEMMA ServiceStep == ConnectionInv /\ OwnInv /\ CountInv /\ [Next]_vars => [Service!Next]_(Service!vars)
<1>. SUFFICES ASSUME ConnectionInv, OwnInv, CountInv, [Next]_vars
              PROVE  [Service!Next]_(Service!vars)
  OBVIOUS
<1>. DEFINE busy == [c \in Callers |-> pc[c] # "idle"]
<1>0. /\ pc \in [Callers -> InGate \cup {"idle", "waiting"}] /\ ran \in [Commands -> Nat]
      /\ \A c \in Callers : pc[c] # "idle" => cmd[c] \in Commands
      /\ inbox \subseteq Requests /\ late \subseteq Commands
  BY DEF ConnectionInv, TypeInv, TypeOK, CallerType, HasCommand, ServerType, TrafficType
\* Nothing that the service is about has changed.
<1>same. ASSUME UNCHANGED <<busy, cmd, outcome, issued, ran, late>>
         PROVE  [Service!Next]_(Service!vars)
  BY <1>same DEF Service!vars
<1>1. ASSUME NEW c \in Callers, ExecuteAsync(c)
      PROVE  [Service!Next]_(Service!vars)
  <2>1. busy' = [busy EXCEPT ![c] = TRUE]
    BY <1>0, <1>1 DEF ExecuteAsync
  <2>2. Service!Ask(c)
    BY <1>1, <2>1 DEF ExecuteAsync, Service!Ask, connection, serverVars
  <2>. QED  BY <2>2 DEF Service!Next
<1>2. ASSUME NEW c \in Callers,
             EnterGate(c) \/ ReuseConnection(c) \/ OpenConnection(c) \/ PassVerdict(c) \/ WriteCommand(c)
      PROVE  [Service!Next]_(Service!vars)
  <2>1. UNCHANGED <<cmd, outcome, issued, ran, late>>
    BY <1>2 DEF EnterGate, ReuseConnection, OpenConnection, PassVerdict, WriteCommand, connection,
                serverVars
  <2>2. /\ pc[c] # "idle"
        /\ pc' = pc \/ \E s \in InGate : pc' = [pc EXCEPT ![c] = s]
    BY <1>2 DEF EnterGate, ReuseConnection, OpenConnection, PassVerdict, WriteCommand, InGate
  <2>3. busy' = busy
    BY <1>0, <2>2 DEF InGate
  <2>. QED  BY <1>same, <2>1, <2>3
<1>3. ASSUME NEW c \in Callers, ReadReply(c)
      PROVE  [Service!Next]_(Service!vars)
  <2>1. UNCHANGED <<cmd, issued, ran, late>> /\ pc[c] = "reading"
    BY <1>3 DEF ReadReply, serverVars
  <2>2. CASE Return(c, "answered") /\ Head(wire).id = id[c]
    <3>1. Head(wire) \in OnWire
      BY <1>3, OnWireTail DEF ReadReply, ConnectionInv
    <3>2. Head(wire).cmd = cmd[c] /\ cmd[c] \in Commands
      BY <1>0, <2>1, <2>2, <3>1 DEF OwnInv, AnswersReader
    <3>3. ran[cmd[c]] > 0
      BY <3>1, <3>2 DEF OwnInv, AnswersReader, Commands
    <3>4. busy' = [busy EXCEPT ![c] = FALSE]
      BY <1>0, <2>2 DEF Return
    <3>5. Service!Answered(c)
      BY <2>1, <2>2, <3>3, <3>4 DEF Return, Service!Answered
    <3>. QED  BY <3>5 DEF Service!Next
  <2>3. CASE UNCHANGED <<pc, outcome>>
    BY <1>same, <2>1, <2>3
  <2>. QED  BY <1>3, <2>2, <2>3 DEF ReadReply
<1>4. ASSUME NEW c \in Callers, Leave(c)
      PROVE  [Service!Next]_(Service!vars)
  BY <1>4, LeaveIsGivingUp
<1>5. CASE Start \/ UNCHANGED vars
  BY <1>same, <1>5 DEF Start, vars, callerVars, connection, serverVars
<1>6. CASE Shutdown
  <2>1. Service!LoseOverdue
    BY <1>6 DEF Shutdown, callerVars, Service!LoseOverdue
  <2>. QED  BY <2>1 DEF Service!Next
<1>7. ASSUME NEW p \in inbox, Handles(p)
      PROVE  [Service!Next]_(Service!vars)
  <2>1. UNCHANGED <<pc, cmd, outcome, issued, late>>
    BY <1>7 DEF Handles, callerVars
  <2>2. CASE p.kind = "command"
    <3>1. PICK c \in Callers : pc[c] = "reading" /\ cmd[c] = p.cmd
      BY <2>2 DEF OwnInv, SentByReader
    <3>2. p.cmd \in Commands /\ InInbox(p.cmd)
      BY <1>0, <2>2 DEF Requests, InInbox
    <3>3. ran[cmd[c]] < 2
      BY <1>0, <3>1, <3>2, CopiesType DEF CountInv, ConnectionInv
    <3>4. ran' = [ran EXCEPT ![cmd[c]] = @ + 1]
      BY <1>7, <2>2, <3>1 DEF Handles
    <3>5. Service!RunAsked(c)
      BY <2>1, <3>1, <3>3, <3>4 DEF Service!RunAsked
    <3>. QED  BY <3>5 DEF Service!Next
  <2>3. CASE p.kind # "command"
    BY <1>7, <1>same, <2>1, <2>3 DEF Handles
  <2>. QED  BY <2>2, <2>3
<1>8. CASE HandleLateCommand
  <2>1. PICK n \in late : late' = late \ {n} /\ ran' = [ran EXCEPT ![n] = @ + 1]
    BY <1>8 DEF HandleLateCommand
  <2>2. n \in Commands /\ ran[n] < 2
    BY <1>0, CopiesType DEF CountInv, ConnectionInv
  <2>3. Service!RunOverdue(n)
    BY <1>8, <2>1, <2>2 DEF HandleLateCommand, callerVars, Service!RunOverdue
  <2>4. n \in Service!Commands
    BY <2>2 DEF Commands, Service!Commands
  <2>. QED  BY <2>3, <2>4 DEF Service!Next
<1>. QED
  BY <1>1, <1>2, <1>3, <1>4, <1>5, <1>6, <1>7, <1>8, CallerSteps, ServerSteps DEF Next

\* The first state is a first state of the service.
LEMMA ServiceInit == Init => Service!Init
<1>. SUFFICES ASSUME Init
              PROVE  Service!Init
  OBVIOUS
<1>1. [c \in Callers |-> pc[c] # "idle"] = [c \in Callers |-> FALSE]
  BY DEF Init
<1>. QED  BY <1>1 DEF Init, Service!Init, Commands, Service!Commands

\* Whatever the connection goes through, a caller sees no more than the service
\* allows: an answered command has run, none runs more than twice, and one that
\* runs after its call came back is a copy the client had given up on.
THEOREM ServiceImplemented == Spec => ImplementsService
<1>. QED
  BY ServiceInit, ServiceStep, OwnAlways, CountAlways, PTL DEF Spec, ImplementsService, Service!Spec

-----------------------------------------------------------------------------
(***************************************************************************)
(* What RconService promises its callers, and so what the client keeps.    *)
(***************************************************************************)
Busy(c) == pc[c] # "idle"

\* How a call comes back.
Endings == {"answered", "ended", "rejected", "failed", "garbled", "timeout"}

\* Inductive for the service alone: what is numbered has been asked, too.
PromiseInv ==
    /\ issued \in 0..MaxCommands
    /\ cmd \in [Callers -> 0..issued]
    /\ outcome \in [Callers -> Endings \cup {"none"}]
    /\ ran \in [Commands -> Nat]
    /\ late \subseteq 1..issued
    /\ \A c \in Callers : Busy(c) => cmd[c] # 0 /\ outcome[c] = "none"
    /\ \A c \in Callers : outcome[c] = "answered" => cmd[c] # 0 /\ ran[cmd[c]] > 0
    /\ \A n \in Commands : ran[n] <= 2 /\ (n > issued => ran[n] = 0)

\* A step of the service keeps its promises.
LEMMA PromiseStep == PromiseInv /\ [Service!Next]_(Service!vars) => PromiseInv'
<1>. SUFFICES ASSUME PromiseInv, [Service!Next]_(Service!vars)
              PROVE  PromiseInv'
  OBVIOUS
<1>. DEFINE busy == [c \in Callers |-> pc[c] # "idle"]
<1>0. /\ \A c \in Callers : busy[c] <=> Busy(c)
      /\ \A c \in Callers : busy'[c] <=> Busy(c)'
      /\ issued \in Nat /\ MaxCommands \in Nat /\ issued <= MaxCommands
  <2>1. \A c \in Callers : busy[c] = (pc[c] # "idle") /\ busy'[c] = (pc'[c] # "idle")
    OBVIOUS
  <2>2. issued \in Nat /\ MaxCommands \in Nat /\ issued <= MaxCommands
    BY BoundsAssumption DEF PromiseInv
  <2>. HIDE DEF busy
  <2>. QED  BY <2>1, <2>2 DEF Busy
<1>1. CASE UNCHANGED Service!vars
  <2>1. UNCHANGED <<busy, cmd, outcome, issued, ran, late>>
    BY <1>1 DEF Service!vars
  <2>. QED  BY <1>0, <2>1 DEF PromiseInv
<1>2. ASSUME NEW c \in Callers, Service!Ask(c)
      PROVE  PromiseInv'
  <2>1. /\ issued < MaxCommands /\ issued' = issued + 1 /\ UNCHANGED <<ran, late>>
        /\ cmd' = [cmd EXCEPT ![c] = issued + 1] /\ busy' = [busy EXCEPT ![c] = TRUE]
        /\ outcome' = [outcome EXCEPT ![c] = "none"]
    BY <1>2 DEF Service!Ask
  <2>2. \A d \in Callers \ {c} : Busy(d)' <=> Busy(d)
    BY <1>0, <2>1
  <2>. QED  BY <1>0, <2>1, <2>2 DEF PromiseInv, Commands
<1>3. ASSUME NEW n \in Commands, ran[n] < 2, n <= issued, ran' = [ran EXCEPT ![n] = @ + 1],
             UNCHANGED <<busy, cmd, outcome, issued>>, late' \subseteq late
      PROVE  PromiseInv'
  <2>1. \A m \in Commands : ran'[m] = IF m = n THEN ran[n] + 1 ELSE ran[m]
    BY <1>3 DEF PromiseInv
  <2>2. ran' \in [Commands -> Nat] /\ \A m \in Commands : ran'[m] >= ran[m]
    BY <1>3, <2>1 DEF PromiseInv
  <2>3. \A d \in Callers : outcome[d] = "answered" => ran'[cmd[d]] > 0
    BY <1>0, <2>2 DEF PromiseInv, Commands
  <2>4. \A d \in Callers : Busy(d)' <=> Busy(d)
    BY <1>0, <1>3
  <2>5. \A m \in Commands : ran'[m] <= 2 /\ (m > issued => ran'[m] = 0)
    BY <1>0, <1>3, <2>1 DEF PromiseInv, Commands
  <2>6. late' \subseteq 1..issued'
    BY <1>3 DEF PromiseInv
  <2>. QED  BY <1>3, <2>2, <2>3, <2>4, <2>5, <2>6 DEF PromiseInv
<1>4. ASSUME NEW c \in Callers, Service!RunAsked(c)
      PROVE  PromiseInv'
  <2>1. cmd[c] \in Commands /\ cmd[c] <= issued
    BY <1>0, <1>4 DEF Service!RunAsked, PromiseInv, Commands
  <2>. QED  BY <1>3, <1>4, <2>1 DEF Service!RunAsked
<1>5. ASSUME NEW c \in Callers, UNCHANGED <<issued, cmd, ran>>, Busy(c),
             late' \subseteq late \cup {cmd[c]},
             \/ UNCHANGED <<busy, outcome>>
             \/ /\ busy' = [busy EXCEPT ![c] = FALSE]
                /\ \E how \in Endings : /\ outcome' = [outcome EXCEPT ![c] = how]
                                        /\ how = "answered" => ran[cmd[c]] > 0
      PROVE  PromiseInv'
  <2>1. cmd[c] \in 1..issued
    BY <1>0, <1>5 DEF PromiseInv
  <2>2. \A d \in Callers \ {c} : Busy(d)' <=> Busy(d)
    BY <1>0, <1>5
  <2>3. CASE UNCHANGED <<busy, outcome>>
    BY <1>0, <1>5, <2>1, <2>3 DEF PromiseInv
  <2>4. CASE busy' = [busy EXCEPT ![c] = FALSE]
    <3>0. outcome \in [Callers -> Endings \cup {"none"}]
      BY DEF PromiseInv
    <3>1. ~Busy(c)'
      BY <1>0, <2>4
    <3>2. PICK how \in Endings : /\ outcome' = [outcome EXCEPT ![c] = how]
                                 /\ how = "answered" => ran[cmd[c]] > 0
      BY <1>0, <1>5, <3>1
    <3>3. /\ outcome' \in [Callers -> Endings \cup {"none"}] /\ outcome'[c] = how
          /\ \A d \in Callers \ {c} : outcome'[d] = outcome[d]
      BY <3>2, <3>0
    <3>4. \A d \in Callers : Busy(d)' => cmd[d] # 0 /\ outcome'[d] = "none"
      BY <2>2, <3>1, <3>3 DEF PromiseInv
    <3>5. \A d \in Callers : outcome'[d] = "answered" => cmd[d] # 0 /\ ran[cmd[d]] > 0
      BY <1>0, <2>1, <3>2, <3>3 DEF PromiseInv
    <3>. QED  BY <1>5, <2>1, <3>3, <3>4, <3>5 DEF PromiseInv
  <2>. QED  BY <1>5, <2>3, <2>4
<1>6. ASSUME NEW c \in Callers, Service!GiveUpCopy(c) \/ Service!Answered(c) \/ Service!GaveUp(c)
      PROVE  PromiseInv'
  <2>1. Busy(c)
    BY <1>0, <1>6 DEF Service!GiveUpCopy, Service!Answered, Service!GaveUp
  <2>2. CASE Service!GiveUpCopy(c)
    BY <1>5, <2>1, <2>2 DEF Service!GiveUpCopy
  <2>3. CASE Service!Answered(c)
    <3>1. \E how \in Endings : /\ outcome' = [outcome EXCEPT ![c] = how]
                               /\ how = "answered" => ran[cmd[c]] > 0
      BY <2>3 DEF Service!Answered, Endings
    <3>2. /\ UNCHANGED <<issued, cmd, ran, late>>
          /\ busy' = [busy EXCEPT ![c] = FALSE]
      BY <2>3 DEF Service!Answered
    <3>. HIDE DEF busy
    <3>. QED  BY <1>5, <2>1, <3>1, <3>2
  <2>4. CASE Service!GaveUp(c)
    <3>1. \E how \in Endings : /\ outcome' = [outcome EXCEPT ![c] = how]
                               /\ how = "answered" => ran[cmd[c]] > 0
      BY <2>4 DEF Service!GaveUp, Endings
    <3>2. /\ UNCHANGED <<issued, cmd, ran>> /\ late' \subseteq late \cup {cmd[c]}
          /\ busy' = [busy EXCEPT ![c] = FALSE]
      BY <2>4 DEF Service!GaveUp
    <3>. HIDE DEF busy
    <3>. QED  BY <1>5, <2>1, <3>1, <3>2
  <2>. QED  BY <1>6, <2>2, <2>3, <2>4
<1>7. ASSUME NEW n \in Service!Commands, Service!RunOverdue(n)
      PROVE  PromiseInv'
  <2>1. n \in Commands /\ n <= issued /\ late' \subseteq late
    BY <1>0, <1>7 DEF Service!RunOverdue, PromiseInv, Commands
  <2>. QED  BY <1>3, <1>7, <2>1 DEF Service!RunOverdue
<1>8. CASE Service!LoseOverdue
  <2>1. UNCHANGED <<busy, cmd, outcome, issued, ran>> /\ late' = {}
    BY <1>8 DEF Service!LoseOverdue
  <2>. QED  BY <1>0, <2>1 DEF PromiseInv
<1>. QED  BY <1>1, <1>2, <1>4, <1>6, <1>7, <1>8 DEF Service!Next

\* The service runs nothing but what it owes.
LEMMA OwedStep == PromiseInv /\ [Service!Next]_(Service!vars) => [Service!Owed]_(Service!vars)
<1>. SUFFICES ASSUME PromiseInv, Service!Next
              PROVE  Service!Owed
  OBVIOUS
<1>0. ran \in [Service!Commands -> Nat]
  BY DEF PromiseInv, Commands, Service!Commands
<1>1. ASSUME NEW c \in Callers, Service!RunAsked(c) PROVE Service!Owed
  BY <1>0, <1>1 DEF Service!RunAsked, Service!Owed
<1>2. ASSUME NEW n \in Service!Commands, Service!RunOverdue(n) PROVE Service!Owed
  BY <1>0, <1>2 DEF Service!RunOverdue, Service!Owed
<1>3. ASSUME UNCHANGED ran PROVE Service!Owed
  BY <1>3 DEF Service!Owed
<1>4. ASSUME NEW c \in Callers,
             Service!Ask(c) \/ Service!GiveUpCopy(c) \/ Service!Answered(c) \/ Service!GaveUp(c)
      PROVE  Service!Owed
  BY <1>3, <1>4 DEF Service!Ask, Service!GiveUpCopy, Service!Answered, Service!GaveUp
<1>5. CASE Service!LoseOverdue
  BY <1>3, <1>5 DEF Service!LoseOverdue
<1>. QED  BY <1>1, <1>2, <1>4, <1>5 DEF Service!Next

\* What the callers of ExecuteAsync rely on holds of RconService, and the client
\* inherits it: an answered command has been run, none is run a third time or before
\* it was asked, and what runs is of a call in progress or was given up on.
THEOREM PromisesKept == Spec => []Service!KeptToCallers /\ Service!RunsWhatIsOwed
<1>1. Service!Init => PromiseInv
  <2>. SUFFICES ASSUME Service!Init PROVE PromiseInv
    OBVIOUS
  <2>1. \A c \in Callers : ~Busy(c)
    <3>1. [c \in Callers |-> pc[c] # "idle"] = [c \in Callers |-> FALSE]
      BY DEF Service!Init
    <3>. QED  BY <3>1 DEF Busy
  <2>. QED  BY <2>1, BoundsAssumption DEF Service!Init, PromiseInv, Service!Commands, Commands
<1>2. PromiseInv => Service!KeptToCallers
  BY DEF PromiseInv, Service!KeptToCallers, Service!Commands, Commands
<1>. QED
  BY <1>1, <1>2, PromiseStep, OwedStep, ServiceImplemented, PTL
  DEF ImplementsService, Service!Spec, Service!RunsWhatIsOwed

-----------------------------------------------------------------------------
(***************************************************************************)
(* While the server stays up a command runs once, if no packet is too long *)
(* to accept: then a caller tries again only if nothing has been sent.     *)
(***************************************************************************)
NoneTooLong == \A q \in OnWire : q.size # "over"

OnceInv ==
    /\ NoneTooLong
    /\ \A c \in Callers : ~Outage(c) /\ cmd[c] # 0 =>
          /\ Copies(cmd[c]) <= 1
          /\ Holds(c) /\ (pc[c] = "reading" => ~link) => Copies(cmd[c]) = 0

\* No packet too long to accept comes of answers that have none.
LEMMA NoneTooLongStep ==
    ASSUME Acceptable(Replies)
    PROVE  ConnectionInv /\ OwnInv /\ NoneTooLong /\ [Next]_vars => NoneTooLong'
<1>. SUFFICES ASSUME ConnectionInv, OwnInv, NoneTooLong, [Next]_vars
              PROVE  NoneTooLong'
  OBVIOUS
<1>1. CASE OnWire' \subseteq OnWire
  BY <1>1 DEF NoneTooLong
<1>2. ASSUME NEW c \in Callers, ExecuteAsync(c) \/ EnterGate(c) \/ ReuseConnection(c) \/ WriteCommand(c)
      PROVE  wire' = wire
  BY <1>2 DEF ExecuteAsync, EnterGate, ReuseConnection, WriteCommand, connection
<1>3. ASSUME NEW c \in Callers, PassVerdict(c) \/ ReadReply(c)
      PROVE  OnWire' \subseteq OnWire
  BY <1>3, OnWireTail DEF PassVerdict, ReadReply, ConnectionInv
<1>4. ASSUME NEW c \in Callers, OpenConnection(c)
      PROVE  OnWire' = {}
  BY <1>4 DEF OpenConnection, OnWire
<1>5. ASSUME NEW c \in Callers, Leave(c)
      PROVE  OnWire' = {} \/ wire' = wire
  BY <1>5, CloseFacts DEF Leave, Quit, Retry, Abandon, connection
<1>6. CASE Start \/ HandleLateCommand \/ UNCHANGED vars
  BY <1>1, <1>6 DEF Start, HandleLateCommand, vars, connection, OnWire
<1>7. CASE Shutdown
  BY <1>1, <1>7 DEF Shutdown, OnWire
<1>8. ASSUME NEW p \in inbox, Handles(p)
      PROVE  NoneTooLong'
  <2>1. ASSUME NEW q \in OnWire', SentFor(p, q) PROVE q.size # "over"
    BY <2>1, EmptySeq DEF SentFor, Acceptable
  <2>. QED  BY <1>8, <2>1 DEF Handles, NoneTooLong
<1>9. wire' = wire => OnWire' = OnWire
  BY DEF OnWire
<1>. QED
  BY <1>1, <1>2, <1>3, <1>4, <1>5, <1>6, <1>7, <1>8, <1>9, CallerSteps, ServerSteps DEF Next

\* Every step keeps it so.
LEMMA OnceStep ==
    ASSUME Acceptable(Replies)
    PROVE  ConnectionInv /\ OwnInv /\ CountInv /\ OutageInv /\ OnceInv /\ [Next]_vars => OnceInv'
<1>. SUFFICES ASSUME ConnectionInv, OwnInv, CountInv, OutageInv, OnceInv, [Next]_vars
              PROVE  OnceInv'
  OBVIOUS
<1>0. /\ pc \in [Callers -> InGate \cup {"idle", "waiting"}] /\ issued \in 0..MaxCommands
      /\ cmd \in [Callers -> 0..MaxCommands] /\ run \in Nat
      /\ \A c \in Callers : pc[c] # "idle" => cmd[c] \in Commands
      /\ \A c \in Callers : cmd[c] # 0 => cmd[c] \in Commands
      /\ startRun \in [Callers -> 0..MaxRuns]
      /\ \A c \in Callers : startRun[c] <= run
  BY BoundsAssumption
     DEF ConnectionInv, TypeInv, TypeOK, CallerType, HasCommand, ServerType, OutageInv, Commands
<1>t. TypeInv /\ TypeInv'
  BY TypeStep DEF ConnectionInv
<1>n. \A n \in Commands : Copies(n) \in Nat /\ Copies(n)' \in Nat
  BY <1>t DEF Copies, TypeInv, TypeOK, ServerType
<1>long. NoneTooLong /\ NoneTooLong'
  BY NoneTooLongStep DEF OnceInv
<1>goal. ASSUME \A d \in Callers, n \in Commands : ~Outage(d)' /\ cmd'[d] = n =>
                   /\ Copies(n)' <= 1
                   /\ Holds(d)' /\ (pc'[d] = "reading" => ~link') => Copies(n)' = 0
         PROVE  OnceInv'
  <2>1. \A d \in Callers : cmd'[d] # 0 => cmd'[d] \in Commands
    BY <1>t, BoundsAssumption DEF TypeInv, TypeOK, CallerType, Commands
  <2>. QED  BY <1>goal, <1>long, <2>1 DEF OnceInv
\* A caller that was as it is, with no more copies of its command.
<1>one. ASSUME NEW d \in Callers, NEW n \in Commands, cmd[d] = n, ~Outage(d), Copies(n)' <= Copies(n),
               Holds(d)' /\ (pc'[d] = "reading" => ~link') => Holds(d) /\ (pc[d] = "reading" => ~link)
        PROVE  /\ Copies(n)' <= 1
               /\ Holds(d)' /\ (pc'[d] = "reading" => ~link') => Copies(n)' = 0
  <2>1. Copies(n) <= 1 /\ (Holds(d) /\ (pc[d] = "reading" => ~link) => Copies(n) = 0)
    BY <1>one DEF OnceInv, Commands
  <2>. QED  BY <1>n, <1>one, <2>1
<1>1. ASSUME \A n \in Commands : Copies(n)' <= Copies(n), UNCHANGED <<cmd, startRun, up, run>>,
             \A d \in Callers : Holds(d)' /\ (pc'[d] = "reading" => ~link') =>
                Holds(d) /\ (pc[d] = "reading" => ~link)
      PROVE  OnceInv'
  <2>1. \A d \in Callers : Outage(d)' <=> Outage(d)
    BY <1>1 DEF Outage
  <2>2. ASSUME NEW d \in Callers, NEW n \in Commands, ~Outage(d)', cmd'[d] = n
        PROVE  /\ Copies(n)' <= 1
               /\ Holds(d)' /\ (pc'[d] = "reading" => ~link') => Copies(n)' = 0
    BY <1>1, <1>one, <2>1, <2>2
  <2>. QED  BY <1>goal, <2>2
<1>same. ASSUME UNCHANGED <<ran, late, inbox>>
         PROVE  \A n \in Commands : Copies(n)' <= Copies(n)
  <2>1. \A n \in Commands : Copies(n)' = Copies(n)
    BY <1>same DEF Copies, InInbox
  <2>. QED  BY <1>n, <2>1
<1>2. ASSUME NEW c \in Callers, ExecuteAsync(c)
      PROVE  OnceInv'
  <2>1. /\ cmd' = [cmd EXCEPT ![c] = issued + 1] /\ pc' = [pc EXCEPT ![c] = "waiting"]
        /\ UNCHANGED <<ran, late, inbox, link, startRun, up, run>>
    BY <1>2 DEF ExecuteAsync, connection, serverVars
  <2>2. ASSUME NEW d \in Callers, NEW n \in Commands, ~Outage(d)', cmd'[d] = n
        PROVE  /\ Copies(n)' <= 1
               /\ Holds(d)' /\ (pc'[d] = "reading" => ~link') => Copies(n)' = 0
    <3>1. CASE d = c
      <4>1. n > issued /\ Copies(n)' <= Copies(n)
        BY <1>0, <1>same, <2>1, <2>2, <3>1
      <4>. QED  BY <1>n, <4>1 DEF CountInv
    <3>2. CASE d # c
      <4>1. cmd[d] = n /\ ~Outage(d) /\ Copies(n)' <= Copies(n) /\ pc'[d] = pc[d]
        BY <1>0, <1>same, <2>1, <2>2, <3>2 DEF Outage
      <4>. QED  BY <1>one, <2>1, <4>1 DEF Holds
    <3>. QED  BY <3>1, <3>2
  <2>. QED  BY <1>goal, <2>2
<1>3. ASSUME NEW c \in Callers, EnterGate(c)
      PROVE  OnceInv'
  <2>1. /\ pc[c] = "waiting" /\ pc' = [pc EXCEPT ![c] = "connecting"]
        /\ startRun' = [startRun EXCEPT ![c] = run]
        /\ UNCHANGED <<cmd, ran, late, inbox, link, up, run>>
    BY <1>3 DEF EnterGate, connection, serverVars
  <2>2. ASSUME NEW d \in Callers, NEW n \in Commands, ~Outage(d)', cmd'[d] = n
        PROVE  /\ Copies(n)' <= 1
               /\ Holds(d)' /\ (pc'[d] = "reading" => ~link') => Copies(n)' = 0
    <3>1. CASE d = c
      <4>1. Copies(n) <= 0 /\ Copies(n)' <= Copies(n)
        BY <1>0, <1>same, <2>1, <2>2, <3>1 DEF CountInv, Sent
      <4>. QED  BY <1>n, <4>1
    <3>2. CASE d # c
      <4>1. cmd[d] = n /\ ~Outage(d) /\ Copies(n)' <= Copies(n) /\ pc'[d] = pc[d]
        BY <1>0, <1>same, <2>1, <2>2, <3>2 DEF Outage
      <4>. QED  BY <1>one, <2>1, <4>1 DEF Holds
    <3>. QED  BY <3>1, <3>2
  <2>. QED  BY <1>goal, <2>2
<1>4. ASSUME NEW c \in Callers, ReuseConnection(c) \/ OpenConnection(c) \/ PassVerdict(c)
      PROVE  OnceInv'
  <2>1. UNCHANGED <<cmd, ran, late, startRun, up, run>>
    BY <1>4 DEF ReuseConnection, OpenConnection, PassVerdict, connection, serverVars
  <2>2. \A n \in Commands : InInbox(n)' => InInbox(n)
    BY <1>4 DEF ReuseConnection, OpenConnection, PassVerdict, connection, InInbox, Request, Commands
  <2>3. /\ pc[c] \in {"connecting", "authenticating"}
        /\ pc' = pc \/ \E s \in {"sending", "authenticating"} : pc' = [pc EXCEPT ![c] = s]
    BY <1>4 DEF ReuseConnection, OpenConnection, PassVerdict
  <2>4. \A d \in Callers : d # c => pc'[d] = pc[d]
    BY <1>0, <2>3
  <2>5. Holds(c) /\ pc[c] # "reading"
    BY <2>3 DEF Holds, InGate
  <2>6. \A d \in Callers : Holds(d) => d = c
    BY <2>5, AloneInGate
  <2>7. \A d \in Callers : Holds(d)' => d = c
    BY <2>4, <2>6 DEF Holds
  <2>. QED  BY <1>1, <1>t, <2>1, <2>2, <2>5, <2>7, CopiesKept
<1>5. ASSUME NEW c \in Callers, WriteCommand(c)
      PROVE  OnceInv'
  <2>1. /\ UNCHANGED <<cmd, startRun, ran, late, up, run, link>> /\ pc[c] = "sending"
        /\ pc' = [pc EXCEPT ![c] = "reading"]
        /\ inbox' \subseteq inbox \cup {Request("command", nextId + 1, cmd[c])}
        /\ ~link => inbox' = inbox
    BY <1>5 DEF WriteCommand, serverVars
  <2>2. \A n \in Commands : InInbox(n)' => InInbox(n) \/ n = cmd[c]
    BY <2>1 DEF InInbox, Request
  <2>3. Holds(c) /\ \A d \in Callers : Outage(d)' <=> Outage(d)
    BY <2>1 DEF Holds, InGate, Outage
  <2>4. ASSUME NEW d \in Callers, NEW n \in Commands, ~Outage(d)', cmd'[d] = n
        PROVE  /\ Copies(n)' <= 1
               /\ Holds(d)' /\ (pc'[d] = "reading" => ~link') => Copies(n)' = 0
    <3>1. CASE d = c
      <4>1. Copies(n) = 0 /\ n = cmd[c]
        BY <2>1, <2>3, <2>4, <3>1 DEF OnceInv, Commands
      <4>2. ran[n] = 0 /\ n \notin late
        BY <1>t, <4>1, CopiesType
      <4>3. Copies(n)' <= 1
        BY <2>1, <4>2 DEF Copies
      <4>4. ~link' => Copies(n)' = 0
        BY <1>n, <1>same, <2>1, <4>1
      <4>. QED  BY <1>0, <2>1, <3>1, <4>3, <4>4
    <3>2. CASE d # c
      <4>1. cmd[d] = n /\ n # cmd[c] /\ pc'[d] = pc[d]
        BY <1>0, <2>1, <2>4, <3>2 DEF OwnInv, UsedInv, Commands
      <4>2. Copies(n)' <= Copies(n)
        BY <1>t, <2>1, <2>2, <4>1, CopiesKept
      <4>. QED  BY <1>one, <2>1, <2>3, <2>4, <4>1, <4>2 DEF Holds
    <3>. QED  BY <3>1, <3>2
  <2>. QED  BY <1>goal, <2>4
<1>6. ASSUME NEW c \in Callers, ReadReply(c)
      PROVE  OnceInv'
  <2>1. /\ UNCHANGED <<cmd, startRun, ran, late, inbox, link, up, run>>
        /\ pc' = pc \/ pc' = [pc EXCEPT ![c] = "idle"]
    BY <1>6 DEF ReadReply, Return, serverVars
  <2>2. \A d \in Callers : Holds(d)' => pc'[d] = pc[d]
    BY <1>0, <2>1 DEF Holds, InGate
  <2>. QED  BY <1>1, <1>same, <2>1, <2>2 DEF Holds
<1>7. ASSUME NEW c \in Callers, Leave(c)
      PROVE  OnceInv'
  <2>1. UNCHANGED <<cmd, startRun, ran, up, run>> /\ Holds(c)
    BY <1>7 DEF Leave, serverVars
  <2>2. \A d \in Callers : Holds(d)' => d = c
    BY <1>0, <1>7, <2>1, AloneInGate DEF Leave, Quit, Retry, Abandon, LeavesWith, Holds, InGate
  <2>3. Holds(c)' => (pc[c] = "reading" => ~link)
    <3>1. Retry(c) => (pc[c] = "reading" => ~link)
      BY <1>long DEF Retry, NoneTooLong
    <3>2. Quit(c) \/ Abandon(c) => ~Holds(c)'
      BY <1>0 DEF Quit, Abandon, LeavesWith, Holds, InGate
    <3>. QED  BY <1>7, <3>1, <3>2 DEF Leave
  <2>4. CASE Close
    BY <1>1, <1>t, <2>1, <2>2, <2>3, <2>4, CopiesClosed
  <2>5. CASE UNCHANGED connection
    BY <1>1, <1>same, <2>1, <2>2, <2>3, <2>5 DEF connection
  <2>. QED  BY <1>7, <2>4, <2>5 DEF Leave, Quit, Retry, Abandon
\* The server starts or stops: an outage for everybody.
<1>8. CASE Start \/ Shutdown
  <2>1. \A d \in Callers : Outage(d)'
    BY <1>0, <1>8 DEF Start, Shutdown, callerVars, Outage
  <2>. QED  BY <1>goal, <2>1
\* Any other step of the server leaves the callers and the link alone.
<1>9. ASSUME UNCHANGED <<callerVars, link, up, run>>, \A n \in Commands : Copies(n)' <= Copies(n)
      PROVE  OnceInv'
  BY <1>1, <1>9 DEF callerVars, Holds
<1>10. ASSUME NEW p \in inbox, Handles(p)
       PROVE  OnceInv'
  BY <1>9, <1>10, <1>t, CopiesRun DEF Handles
<1>11. CASE HandleLateCommand
  BY <1>9, <1>11, <1>t, CopiesRunLate DEF HandleLateCommand
<1>12. CASE UNCHANGED vars
  BY <1>9, <1>12, <1>same DEF vars, connection, serverVars
<1>. QED
  BY <1>2, <1>3, <1>4, <1>5, <1>6, <1>7, <1>8, <1>10, <1>11, <1>12, CallerSteps, ServerSteps DEF Next

\* While the server stays up it runs a command once at most, however often the
\* client tries, if all its packets have lengths the client accepts.
THEOREM RunsOnce == Acceptable(Replies) /\ Spec => []RunsOnceWithoutOutage
<1>. SUFFICES ASSUME Acceptable(Replies)
              PROVE  Spec => []RunsOnceWithoutOutage
  OBVIOUS
<1>1. Init => OnceInv
  BY DEF Init, OnceInv, NoneTooLong, OnWire, Outage
<1>2. ConnectionInv /\ OnceInv => RunsOnceWithoutOutage
  <2>. SUFFICES ASSUME ConnectionInv, OnceInv, NEW c \in Callers, ~Outage(c), cmd[c] # 0
                PROVE  ran[cmd[c]] <= 1
    BY DEF RunsOnceWithoutOutage
  <2>1. TypeInv /\ cmd[c] \in Commands
    BY BoundsAssumption DEF ConnectionInv, TypeInv, TypeOK, CallerType, Commands
  <2>2. ran[cmd[c]] <= Copies(cmd[c]) /\ Copies(cmd[c]) <= 1
    BY <2>1, CopiesType DEF OnceInv
  <2>. QED  BY <2>1, <2>2, CopiesType
<1>. QED
  BY <1>1, <1>2, OwnAlways, CountAlways, OutageInit, OutageStep, OnceStep, PTL DEF Spec, ConnectionInv

-----------------------------------------------------------------------------
(***************************************************************************)
(* An answer is final, if besides no packet but the last of an answer is   *)
(* short: a caller is told so only when the last packet has come, and a    *)
(* copy of its command is overdue only after it has gone without one.      *)
(***************************************************************************)
ShortIsLast == \A q \in OnWire : q.size = "part" => q.last = TRUE

NotLateInCall == \A c \in Callers : pc[c] # "idle" => cmd[c] \notin late

AnsweredFinally ==
    \A c \in Callers : outcome[c] = "answered" =>
       cmd[c] \in Commands /\ whole[c] = TRUE /\ ran[cmd[c]] > 0 /\ cmd[c] \notin late

FinalInv == NoneTooLong /\ ShortIsLast /\ NotLateInCall /\ AnsweredFinally

\* Every step keeps an answer final.
LEMMA FinalStep ==
    ASSUME Acceptable(Replies), SplitWhenFull(Replies)
    PROVE  ConnectionInv /\ OwnInv /\ CountInv /\ FinalInv /\ [Next]_vars => FinalInv'
<1>. SUFFICES ASSUME ConnectionInv, OwnInv, CountInv, FinalInv, [Next]_vars
              PROVE  FinalInv'
  OBVIOUS
<1>0. /\ pc \in [Callers -> InGate \cup {"idle", "waiting"}] /\ issued \in 0..MaxCommands
      /\ cmd \in [Callers -> 0..MaxCommands] /\ ran \in [Commands -> Nat] /\ late \subseteq Commands
      /\ outcome \in [Callers -> {"none", "answered", "ended", "rejected", "failed", "garbled", "timeout"}]
      /\ whole \in [Callers -> BOOLEAN]
      /\ \A c \in Callers : pc[c] # "idle" => cmd[c] \in Commands
      /\ \A c \in Callers : pc[c] # "idle" => outcome[c] = "none"
      /\ \A c, d \in Callers : cmd[c] = cmd[d] /\ cmd[c] \in Commands => c = d
      /\ OnWire \subseteq Packets
  BY OnWireType
     DEF ConnectionInv, TypeInv, TypeOK, CallerType, HasCommand, ServerType, TrafficType, AttemptInv,
         OwnInv, UsedInv, Commands
<1>t. TypeInv
  BY DEF ConnectionInv
<1>long. NoneTooLong /\ NoneTooLong'
  BY NoneTooLongStep DEF FinalInv
<1>. USE DEF FinalInv, ShortIsLast, NotLateInCall, AnsweredFinally
\* Nobody is answered, and nothing is late that was not.
<1>1. ASSUME OnWire' \subseteq OnWire, late' \subseteq late, UNCHANGED cmd,
             \A n \in Commands : ran[n] > 0 => ran'[n] > 0,
             \A d \in Callers : pc'[d] # "idle" => pc[d] # "idle",
             \A d \in Callers : outcome'[d] = "answered" => outcome[d] = "answered" /\ whole'[d] = whole[d]
      PROVE  FinalInv'
  BY <1>0, <1>1, <1>long
<1>2. ASSUME NEW c \in Callers, ExecuteAsync(c)
      PROVE  FinalInv'
  <2>1. /\ cmd' = [cmd EXCEPT ![c] = issued + 1] /\ pc' = [pc EXCEPT ![c] = "waiting"]
        /\ outcome' = [outcome EXCEPT ![c] = "none"] /\ whole' = [whole EXCEPT ![c] = FALSE]
        /\ issued < MaxCommands /\ UNCHANGED <<late, wire, ran>>
    BY <1>2 DEF ExecuteAsync, connection, serverVars
  <2>2. OnWire' = OnWire
    BY <2>1 DEF OnWire
  <2>3. PICK n \in Commands : n = issued + 1
    BY <1>0, <2>1, BoundsAssumption DEF Commands
  <2>4. n \notin late
    <3>1. Copies(n) = 0
      BY <1>0, <2>3 DEF CountInv
    <3>. QED  BY <1>t, <3>1, CopiesType
  <2>5. NotLateInCall'
    BY <1>0, <2>1, <2>3, <2>4
  <2>6. AnsweredFinally'
    BY <1>0, <2>1
  <2>. QED  BY <1>long, <2>2, <2>5, <2>6
<1>3. ASSUME NEW c \in Callers,
             EnterGate(c) \/ ReuseConnection(c) \/ OpenConnection(c) \/ PassVerdict(c) \/ WriteCommand(c)
      PROVE  FinalInv'
  <2>1. UNCHANGED <<late, cmd, ran, outcome, whole>>
    BY <1>3 DEF EnterGate, ReuseConnection, OpenConnection, PassVerdict, WriteCommand, connection, serverVars
  <2>2. \/ wire' = wire
        \/ wire' = <<>>
        \/ wire # <<>> /\ wire' = Tail(wire)
    BY <1>3 DEF EnterGate, ReuseConnection, OpenConnection, PassVerdict, WriteCommand, connection
  <2>3. OnWire' \subseteq OnWire
    <3>1. wire' = wire \/ wire' = <<>> => OnWire' \subseteq OnWire
      BY DEF OnWire
    <3>. QED  BY <1>t, <2>2, <3>1, OnWireTail
  <2>4. /\ pc[c] # "idle"
        /\ pc' = pc \/ \E s \in InGate : pc' = [pc EXCEPT ![c] = s]
    BY <1>3 DEF EnterGate, ReuseConnection, OpenConnection, PassVerdict, WriteCommand, InGate
  <2>5. \A d \in Callers : pc'[d] # "idle" => pc[d] # "idle"
    BY <1>0, <2>4
  <2>. QED  BY <1>1, <2>1, <2>3, <2>5
<1>4. ASSUME NEW c \in Callers, ReadReply(c)
      PROVE  FinalInv'
  <2>1. /\ OnWire' \subseteq OnWire /\ Head(wire) \in OnWire /\ pc[c] = "reading"
        /\ UNCHANGED <<late, cmd, ran>>
    BY <1>4, <1>t, OnWireTail DEF ReadReply, serverVars
  <2>2. CASE Return(c, "answered") /\ Head(wire).id = id[c]
    <3>1. /\ Head(wire).size # "full"
          /\ whole' = [whole EXCEPT ![c] = Head(wire).last]
      BY <1>0, <1>4, <2>1, <2>2 DEF ReadReply, Return
    <3>2. Head(wire).last = TRUE
      BY <1>0, <1>long, <2>1, <3>1 DEF NoneTooLong, Packets, Sizes
    <3>3. cmd[c] \in Commands /\ Head(wire).cmd = cmd[c] /\ cmd[c] \notin late
      BY <1>0, <2>1, <2>2 DEF OwnInv, AnswersReader
    <3>4. ran[cmd[c]] > 0
      BY <2>1, <3>3 DEF OwnInv, AnswersReader, Commands
    <3>5. /\ outcome' = [outcome EXCEPT ![c] = "answered"]
          /\ pc' = [pc EXCEPT ![c] = "idle"]
      BY <2>2 DEF Return
    <3>6. AnsweredFinally'
      BY <1>0, <2>1, <3>1, <3>2, <3>3, <3>4, <3>5
    <3>7. NotLateInCall'
      BY <1>0, <2>1, <3>5
    <3>. QED  BY <1>long, <2>1, <3>6, <3>7
  <2>3. CASE UNCHANGED <<pc, outcome>>
    <3>1. whole' = whole \/ \E b : whole' = [whole EXCEPT ![c] = b]
      BY <1>4 DEF ReadReply
    <3>2. \A d \in Callers : outcome'[d] = "answered" => outcome[d] = "answered" /\ whole'[d] = whole[d]
      BY <1>0, <2>1, <2>3, <3>1
    <3>. QED  BY <1>1, <2>1, <2>3, <3>2
  <2>. QED  BY <1>4, <2>2, <2>3 DEF ReadReply
<1>5. ASSUME NEW c \in Callers, Leave(c)
      PROVE  FinalInv'
  <2>1. Holds(c) /\ pc[c] # "idle" /\ UNCHANGED <<cmd, whole, ran>>
    BY <1>5 DEF Leave, serverVars, Holds, InGate
  <2>2. OnWire' \subseteq OnWire
    BY <1>5, CloseFacts DEF Leave, Quit, Retry, Abandon, connection, OnWire
  <2>3. CASE Retry(c)
    <3>1. ~link => inbox = {}
      BY DEF ConnectionInv, LoginInv
    <3>2. \A p \in inbox : p.kind # "command"
      BY <1>long, <2>1, <2>3, <3>1, InboxFacts DEF Retry, NoneTooLong
    <3>3. late' = late
      BY <2>3, <3>2, CloseFacts DEF Retry
    <3>4. \A d \in Callers : pc'[d] # "idle" => pc[d] # "idle"
      BY <1>0, <2>1, <2>3 DEF Retry
    <3>. QED  BY <1>1, <2>1, <2>2, <2>3, <3>3, <3>4 DEF Retry
  <2>4. CASE Quit(c) \/ Abandon(c)
    <3>1. PICK how \in Failures : LeavesWith(c, how)
      BY <2>4 DEF Quit, Abandon
    <3>2. late' = late \/ late' = late \cup {cmd[c]}
      BY <2>1, <2>4, CloseLate DEF Quit, Abandon, connection
    <3>3. /\ \A d \in Callers : pc'[d] # "idle" => pc[d] # "idle" /\ d # c
          /\ \A d \in Callers : outcome'[d] = "answered" => outcome[d] = "answered" /\ d # c
      BY <1>0, <3>1 DEF LeavesWith, Failures
    <3>4. NotLateInCall'
      BY <1>0, <2>1, <3>2, <3>3
    <3>5. AnsweredFinally'
      BY <1>0, <2>1, <3>2, <3>3
    <3>. QED  BY <1>long, <2>2, <3>4, <3>5
  <2>. QED  BY <1>5, <2>3, <2>4 DEF Leave
<1>6. CASE Start \/ UNCHANGED vars
  BY <1>1, <1>6 DEF Start, vars, callerVars, connection, serverVars, OnWire
<1>7. CASE Shutdown
  <2>1. OnWire' \subseteq OnWire
    BY <1>7 DEF Shutdown, OnWire
  <2>. QED  BY <1>1, <1>7, <2>1 DEF Shutdown, callerVars
<1>8. ASSUME NEW p \in inbox, Handles(p)
      PROVE  FinalInv'
  <2>1. UNCHANGED <<pc, cmd, outcome, whole, late>>
    BY <1>8 DEF Handles, callerVars
  <2>2. \A n \in Commands : ran[n] > 0 => ran'[n] > 0
    BY <1>0, <1>8 DEF Handles
  <2>3. ASSUME NEW q \in OnWire', q.size = "part" PROVE q.last = TRUE
    <3>1. ASSUME NEW sizes \in Replies \cup {<<>>}, NEW k \in 1..Len(sizes), q.size = sizes[k]
          PROVE  k = Len(sizes)
      <4>1. sizes # <<>>
        BY <3>1, EmptySeq
      <4>. QED  BY <2>3, <3>1, <4>1 DEF SplitWhenFull
    <3>. QED  BY <1>8, <2>3, <3>1 DEF Handles, SentFor
  <2>4. NotLateInCall' /\ AnsweredFinally'
    BY <2>1, <2>2
  <2>. QED  BY <1>long, <2>3, <2>4
<1>9. CASE HandleLateCommand
  <2>1. PICK n \in late : late' = late \ {n} /\ ran' = [ran EXCEPT ![n] = @ + 1]
    BY <1>9 DEF HandleLateCommand
  <2>2. \A m \in Commands : ran[m] > 0 => ran'[m] > 0
    BY <1>0, <2>1
  <2>3. UNCHANGED <<pc, cmd, outcome, whole, wire>>
    BY <1>9 DEF HandleLateCommand, callerVars
  <2>4. OnWire' = OnWire
    BY <2>3 DEF OnWire
  <2>. QED  BY <1>1, <2>1, <2>2, <2>3, <2>4
<1>. QED
  BY <1>2, <1>3, <1>4, <1>5, <1>6, <1>7, <1>8, <1>9, CallerSteps, ServerSteps DEF Next

\* What a caller is told of an answered command is final, if the server splits
\* its answers as the client counts on.
THEOREM FinalAnswers ==
    Acceptable(Replies) /\ SplitWhenFull(Replies) /\ Spec => []AnswersAreFinal
<1>. SUFFICES ASSUME Acceptable(Replies), SplitWhenFull(Replies)
              PROVE  Spec => []AnswersAreFinal
  OBVIOUS
<1>1. Init => FinalInv
  BY DEF Init, FinalInv, NoneTooLong, ShortIsLast, NotLateInCall, AnsweredFinally, OnWire
<1>2. ConnectionInv /\ OwnInv /\ FinalInv => AnswersAreFinal
  <2>. SUFFICES ASSUME ConnectionInv, OwnInv, FinalInv, NEW c \in Callers, outcome[c] = "answered"
                PROVE  /\ whole[c]
                       /\ ran[cmd[c]] > 0
                       /\ cmd[c] \notin late \cup {p.cmd : p \in inbox}
    BY DEF AnswersAreFinal
  <2>1. /\ whole[c] = TRUE /\ ran[cmd[c]] > 0 /\ cmd[c] \notin late
        /\ cmd[c] \in Commands /\ pc[c] = "idle"
    BY DEF FinalInv, AnsweredFinally, ConnectionInv, AttemptInv
  <2>2. ASSUME NEW p \in inbox, p.cmd = cmd[c] PROVE FALSE
    <3>1. p.kind = "command"
      BY <2>1, <2>2 DEF ConnectionInv, TypeInv, TypeOK, TrafficType, Requests, Commands
    <3>2. PICK d \in Callers : pc[d] = "reading" /\ cmd[d] = cmd[c]
      BY <2>2, <3>1 DEF OwnInv, SentByReader
    <3>3. d = c
      BY <2>1, <3>2 DEF OwnInv, UsedInv, Commands
    <3>. QED  BY <2>1, <3>2, <3>3
  <2>. QED  BY <2>1, <2>2
<1>. QED  BY <1>1, <1>2, OwnAlways, CountAlways, FinalStep, PTL DEF Spec
=============================================================================
