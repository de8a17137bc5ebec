---------------------------- MODULE RconService -----------------------------
(***************************************************************************)
(* What the application may rely on when it calls RconClient.ExecuteAsync  *)
(* (Web/src/Services/Rcon/RconClient.cs), without sockets, packets or      *)
(* gates: a call is asked, its command is run by the Minecraft server some *)
(* number of times, and the call comes back.                               *)
(*                                                                         *)
(*   - A call that comes back "answered" has had its command run.          *)
(*   - No command is run more than twice, and only after it was asked.     *)
(*   - A command may still be run after its call came back, but only a     *)
(*     copy the client had already given up on (overdue).                  *)
(***************************************************************************)
EXTENDS Integers

CONSTANTS Callers,      \* the flows that call ExecuteAsync
          MaxCommands   \* bound: commands asked in one behaviour

VARIABLES busy,     \* busy[c]: c waits for its call to come back
          cmd,      \* cmd[c]: the number of c's command, 0 before the first
          outcome,  \* outcome[c]: how c's last call came back
          issued,   \* commands asked so far
          ran,      \* ran[n]: how often the server has run command n
          overdue   \* commands with a copy that was given up on and may still run

vars == <<busy, cmd, outcome, issued, ran, overdue>>

Commands == 1..MaxCommands

Init ==
    /\ busy = [c \in Callers |-> FALSE]
    /\ cmd = [c \in Callers |-> 0]
    /\ outcome = [c \in Callers |-> "none"]
    /\ issued = 0
    /\ ran = [n \in Commands |-> 0]
    /\ overdue = {}

Ask(c) ==
    /\ ~busy[c]
    /\ issued < MaxCommands
    /\ issued' = issued + 1
    /\ cmd' = [cmd EXCEPT ![c] = issued + 1]
    /\ busy' = [busy EXCEPT ![c] = TRUE]
    /\ outcome' = [outcome EXCEPT ![c] = "none"]
    /\ UNCHANGED <<ran, overdue>>

\* The server runs the command of a call in progress.
RunAsked(c) ==
    /\ busy[c]
    /\ ran[cmd[c]] < 2
    /\ ran' = [ran EXCEPT ![cmd[c]] = @ + 1]
    /\ UNCHANGED <<busy, cmd, outcome, issued, overdue>>

\* The client gives up on a copy it has sent, and goes on.
GiveUpCopy(c) ==
    /\ busy[c]
    /\ overdue' = overdue \cup {cmd[c]}
    /\ UNCHANGED <<busy, cmd, outcome, issued, ran>>

\* The server runs a copy nobody waits for any more.
RunOverdue(n) ==
    /\ n \in overdue
    /\ ran[n] < 2
    /\ ran' = [ran EXCEPT ![n] = @ + 1]
    /\ overdue' = overdue \ {n}
    /\ UNCHANGED <<busy, cmd, outcome, issued>>

\* The server goes down with the copies it has not run.
LoseOverdue ==
    /\ overdue' = {}
    /\ UNCHANGED <<busy, cmd, outcome, issued, ran>>

\* A call comes back with an answer, or without one for one of several reasons.
Answered(c) ==
    /\ busy[c]
    /\ ran[cmd[c]] > 0
    /\ busy' = [busy EXCEPT ![c] = FALSE]
    /\ outcome' = [outcome EXCEPT ![c] = "answered"]
    /\ UNCHANGED <<cmd, issued, ran, overdue>>

GaveUp(c) ==
    /\ busy[c]
    /\ \E how \in {"ended", "rejected", "failed", "garbled", "timeout"} :
        outcome' = [outcome EXCEPT ![c] = how]
    /\ busy' = [busy EXCEPT ![c] = FALSE]
    /\ \/ UNCHANGED overdue
       \/ overdue' = overdue \cup {cmd[c]}
    /\ UNCHANGED <<cmd, issued, ran>>

Next ==
    \/ \E c \in Callers : Ask(c) \/ RunAsked(c) \/ GiveUpCopy(c) \/ Answered(c) \/ GaveUp(c)
    \/ \E n \in Commands : RunOverdue(n)
    \/ LoseOverdue

Spec == Init /\ [][Next]_vars

-----------------------------------------------------------------------------
\* An answered command has been run, none is run a third time, and none before it
\* was asked.
KeptToCallers ==
    /\ \A c \in Callers : outcome[c] = "answered" => ran[cmd[c]] > 0
    /\ \A n \in Commands : ran[n] <= 2 /\ (n > issued => ran[n] = 0)

\* What the server runs, a call in progress has asked for, or it is a copy that was
\* given up on.
Owed ==
    \A n \in Commands :
       ran'[n] # ran[n] => n \in overdue \/ \E c \in Callers : busy[c] /\ cmd[c] = n
RunsWhatIsOwed == [][Owed]_vars
=============================================================================
