------------------------- MODULE AccountStoreProofs -------------------------
(***************************************************************************)
(* Theorems about AccountStore, for every set of browsers, names and       *)
(* passwords and every bound.                                              *)
(***************************************************************************)
EXTENDS AccountStore, TLAPS

(***************************************************************************)
(* Type correctness, which is inductive as it stands.                      *)
(***************************************************************************)
\* TypeOK read one variable, or one relation, at a time.
TableType ==
    /\ rows \subseteq Ids /\ flagged \subseteq rows
    /\ username \in [Ids -> Names]
    /\ role \in [Ids -> Roles]
    /\ secret \in [Ids -> Secrets]
    /\ nextId \in Nat /\ \A i \in rows : i < nextId

CallType ==
    /\ pc \in [Flows -> Steps]
    /\ call \in [Flows -> Calls]
    /\ \A f \in Flows : pc[f] \notin {"idle", "create"} => call[f].id \in Ids /\ call[f].id < nextId
    /\ readFlag \subseteq Flows
    /\ ops \in 0..MaxOps

HistoryType ==
    /\ overlaps \subseteq Flows
    /\ imposed \subseteq rows /\ overtaken \subseteq Flows /\ crossed \subseteq Ids

\* TypeOK is these three and the type of the cookies.
LEMMA TypeParts ==
    /\ TypeOK <=> TableType /\ me \in [Flows -> Claims] /\ CallType /\ HistoryType
    /\ TypeOK' <=> TableType' /\ me' \in [Flows -> Claims] /\ CallType' /\ HistoryType'
BY DEF TypeOK, TableType, CallType, HistoryType

\* NoCall and NoOne have their types.
LEMMA Nobody == NoCall \in Calls /\ NoOne \in Claims
BY NameAssumption DEF NoCall, NoOne, Calls, Claims, Roles, Secrets

\* The first states are well typed.
LEMMA TypeInit == Init => TypeOK
<1>1. SUFFICES ASSUME Init PROVE TypeOK
  OBVIOUS
<1>2. 1 \in Ids /\ 2 \in Ids
  BY AccountsAssumption DEF Ids
<1>3. PICK p \in Secrets, n \in Names \ {DefaultAdminUsername} :
          /\ username = [i \in Ids |-> IF i = 2 THEN n ELSE DefaultAdminUsername]
          /\ role = [i \in Ids |-> "Administrator"]
          /\ secret = [i \in Ids |-> p]
          /\ IF p = DefaultAdminPassword
             THEN rows = {1} /\ flagged = {1} /\ nextId = 2
             ELSE rows = {1, 2} /\ flagged = {} /\ nextId = 3
  BY <1>1 DEF Init
<1>4. TableType
  <2>1. username \in [Ids -> Names] /\ role \in [Ids -> Roles] /\ secret \in [Ids -> Secrets]
    BY <1>3, NameAssumption DEF Roles
  <2>2. /\ rows \subseteq Ids /\ flagged \subseteq rows
        /\ nextId \in Nat /\ \A i \in rows : i < nextId
    BY <1>2, <1>3
  <2>. QED  BY <2>1, <2>2 DEF TableType
<1>5. me \in [Flows -> Claims] /\ CallType /\ HistoryType
  BY <1>1, Nobody, AccountsAssumption DEF Init, CallType, HistoryType, Steps
<1>. QED  BY <1>4, <1>5, TypeParts

\* What inserting a row does to the table.
LEMMA InsertType ==
    ASSUME TableType, NEW n \in Names, NEW r \in Roles, NEW p \in Secrets, Insert(n, r, p),
           flagged' \subseteq flagged \cup {nextId}, flagged' \subseteq rows'
    PROVE  TableType' /\ nextId < nextId' /\ rows \subseteq rows'
BY DEF TableType, Insert, InsertedId, Ids

\* A call begins: its arguments and its first step have their types.
LEMMA StartType ==
    ASSUME TypeOK, NEW f \in Flows, NEW c \in Calls, NEW step \in Steps, Start(f, c, step),
           step # "create" => c.id \in rows
    PROVE  TypeOK'
<1>1. c.id \in rows => c.id \in Ids /\ c.id < nextId
  BY DEF TypeOK
<1>2. CallType'
  <2>1. pc' \in [Flows -> Steps] /\ call' \in [Flows -> Calls] /\ readFlag' \subseteq Flows
    BY DEF Start, TypeOK
  <2>2. ops' \in 0..MaxOps
    BY AccountsAssumption DEF Start, TypeOK
  <2>3. ASSUME NEW g \in Flows, pc'[g] \notin {"idle", "create"}
        PROVE  call'[g].id \in Ids /\ call'[g].id < nextId'
    BY <1>1, <2>3 DEF Start, TypeOK, table
  <2>. QED  BY <2>1, <2>2, <2>3 DEF CallType
<1>3. TableType' /\ me' \in [Flows -> Claims] /\ HistoryType'
  BY TypeParts DEF Start, table, history, TableType, HistoryType
<1>. QED  BY <1>2, <1>3, TypeParts

\* A call ends while nextId does not fall.
LEMMA EndType ==
    ASSUME TypeOK, NEW f \in Flows, End(f), nextId' \in Nat, nextId <= nextId'
    PROVE  CallType'
<1>1. pc' \in [Flows -> Steps] /\ call' \in [Flows -> Calls]
  BY DEF TypeOK, End, Steps
<1>2. readFlag' \subseteq Flows /\ ops' \in 0..MaxOps
  BY DEF TypeOK, End
<1>3. ASSUME NEW g \in Flows, pc'[g] \notin {"idle", "create"}
      PROVE  call'[g].id \in Ids /\ call'[g].id < nextId'
  <2>1. pc[g] \notin {"idle", "create"}
    BY <1>3 DEF End, TypeOK
  <2>2. call[g].id \in Ids /\ call[g].id < nextId /\ call'[g] = call[g]
    BY <2>1 DEF End, TypeOK
  <2>3. nextId \in Nat
    BY DEF TypeOK
  <2>. QED  BY <2>2, <2>3, AccountsAssumption DEF Ids
<1>. QED  BY <1>1, <1>2, <1>3 DEF CallType

\* A refused save leaves everything well typed.
LEMMA ThrowType == ASSUME TypeOK, NEW f \in Flows, Throw(f) PROVE TypeOK'
<1>1. CallType'
  BY EndType DEF Throw, table, TypeOK
<1>. QED  BY <1>1, TypeParts DEF Throw, table, history, TableType, HistoryType

\* Starting again leaves everything well typed.
LEMMA InitializeType == ASSUME TypeOK, Initialize PROVE TypeOK'
<1>1. TableType' /\ rows \subseteq rows'
  <2>1. CASE UNCHANGED table
    BY <2>1, TypeParts DEF TableType, table
  <2>2. CASE /\ Insert(DefaultAdminUsername, "Administrator", DefaultAdminPassword)
             /\ flagged' = flagged \cup {InsertedId}
    BY <2>2, InsertType, NameAssumption, TypeParts DEF Roles, Secrets, Insert, InsertedId, TableType
  <2>. QED  BY <2>1, <2>2 DEF Initialize
<1>2. CallType'
  BY Nobody, AccountsAssumption DEF Initialize, TypeOK, CallType, Steps
<1>3. HistoryType'
  <2>1. CASE UNCHANGED <<table, imposed>>
    BY <1>1, <2>1 DEF Initialize, TypeOK, HistoryType
  <2>2. CASE /\ Insert(DefaultAdminUsername, "Administrator", DefaultAdminPassword)
             /\ imposed' = imposed \cup {InsertedId}
    BY <2>2 DEF Initialize, TypeOK, HistoryType, Insert
  <2>. QED  BY <2>1, <2>2 DEF Initialize
<1>. QED  BY <1>1, <1>2, <1>3, TypeParts DEF Initialize

\* Every step keeps the types: one case per action.
LEMMA TypeStep == TypeOK /\ [Next]_vars => TypeOK'
<1>. SUFFICES ASSUME TypeOK, [Next]_vars PROVE TypeOK'
  OBVIOUS
<1>1. CASE Initialize
  BY <1>1, InitializeType
<1>2. ASSUME NEW f \in Flows, Call(f) PROVE TypeOK'
  <2>. \A c : c \in Calls => c.id \in {0} \cup Ids /\ c.name \in Names /\ c.role \in Roles /\ c.new \in Secrets
    BY DEF Calls
  <2>. NoCall \in Calls /\ rows \subseteq Ids
    BY Nobody DEF TypeOK
  <2>. call[f] \in Calls
    BY DEF TypeOK
  <2>1. CASE ValidateCredentials(f)
    <3>1. PICK i \in rows : Start(f, [NoCall EXCEPT !.id = i, !.name = username[i], !.role = role[i]], "signIn")
      BY <2>1 DEF ValidateCredentials
    <3>2. [NoCall EXCEPT !.id = i, !.name = username[i], !.role = role[i]] \in Calls
      BY DEF Calls, TypeOK
    <3>3. [NoCall EXCEPT !.id = i, !.name = username[i], !.role = role[i]].id = i
      BY DEF NoCall
    <3>. QED  BY <3>1, <3>2, <3>3, StartType DEF Steps
  <2>2. CASE StampSignIn(f)
    <3>1. CASE call[f].id \in rows /\ End(f) /\ UNCHANGED <<table, history>>
               /\ me' = [me EXCEPT ![f] = [id |-> call[f].id, name |-> call[f].name, role |-> call[f].role]]
      <4>1. CallType'
        BY <3>1, EndType DEF table, TypeOK
      <4>2. me' \in [Flows -> Claims]
        BY <3>1 DEF TypeOK, Claims
      <4>. QED  BY <3>1, <4>1, <4>2, TypeParts DEF table, history, TableType, HistoryType
    <3>. QED  BY <2>2, <3>1, ThrowType DEF StampSignIn
  <2>3. CASE SignOut(f)
    BY <2>3, Nobody DEF SignOut, TypeOK, table, history
  <2>4. CASE CreateUser(f)
    <3>1. PICK n \in Names, p \in Secrets, r \in Roles :
            Start(f, [NoCall EXCEPT !.name = n, !.role = r, !.new = p], "create")
      BY <2>4 DEF CreateUser
    <3>2. [NoCall EXCEPT !.name = n, !.role = r, !.new = p] \in Calls
      BY DEF Calls
    <3>. QED  BY <3>1, <3>2, StartType DEF Steps
  <2>5. CASE InsertUser(f)
    <3>1. CASE /\ Insert(call[f].name, call[f].role, call[f].new)
               /\ End(f)
               /\ UNCHANGED <<flagged, me, history>>
      <4>1. TableType' /\ nextId < nextId' /\ rows \subseteq rows'
        <5>1. flagged' \subseteq flagged \cup {nextId} /\ flagged' \subseteq rows'
          BY <3>1 DEF Insert, TypeOK
        <5>. QED  BY <3>1, <5>1, InsertType, TypeParts
      <4>2. CallType'
        BY <3>1, <4>1, EndType, TypeParts DEF TableType
      <4>. QED  BY <3>1, <4>1, <4>2, TypeParts DEF history, HistoryType
    <3>. QED  BY <2>5, <3>1, ThrowType DEF InsertUser
  <2>6. CASE ChangePassword(f)
    <3>1. PICK p \in Secrets :
            Start(f, [NoCall EXCEPT !.id = me[f].id, !.new = p], "change")
      BY <2>6 DEF ChangePassword
    <3>2. me[f].id \in rows
      BY <2>6 DEF ChangePassword
    <3>3. [NoCall EXCEPT !.id = me[f].id, !.new = p] \in Calls
      BY <3>2 DEF Calls
    <3>4. [NoCall EXCEPT !.id = me[f].id, !.new = p].id = me[f].id
      BY DEF NoCall
    <3>. QED  BY <3>1, <3>2, <3>3, <3>4, StartType DEF Steps
  <2>7. ASSUME SetPassword(f), flagged' \subseteq flagged \cup {call[f].id},
               imposed' \subseteq imposed \cup {call[f].id},
               overtaken' \subseteq Flows
        PROVE  TypeOK'
    <3>1. CallType'
      BY <2>7, EndType DEF SetPassword, TypeOK
    <3>2. secret' \in [Ids -> Secrets]
      BY <2>7 DEF SetPassword, TypeOK
    <3>3. TableType' /\ HistoryType'
      BY <2>7, <3>2 DEF SetPassword, TypeOK, TableType, HistoryType
    <3>. QED  BY <2>7, <3>1, <3>3, TypeParts DEF SetPassword
  <2>8. CASE SaveOwnPassword(f)
    BY <2>7, <2>8, ThrowType DEF SaveOwnPassword, Overtakes, TypeOK
  <2>9. CASE ResetPassword(f)
    <3>1. PICK i \in rows, p \in Secrets : Start(f, [NoCall EXCEPT !.id = i, !.new = p], "reset")
      BY <2>9 DEF ResetPassword
    <3>2. [NoCall EXCEPT !.id = i, !.new = p] \in Calls
      BY DEF Calls
    <3>3. [NoCall EXCEPT !.id = i, !.new = p].id = i
      BY DEF NoCall
    <3>. QED  BY <3>1, <3>2, <3>3, StartType DEF Steps
  <2>10. CASE SaveReset(f)
    BY <2>7, <2>10, ThrowType DEF SaveReset, Overtakes, TypeOK
  <2>11. CASE SetRole(f)
    <3>1. PICK i \in Others(f) \cap rows, r \in Roles :
            Start(f, [NoCall EXCEPT !.id = i, !.role = r],
                     IF IsAdministrator(i) THEN "count" ELSE "setRole")
      BY <2>11 DEF SetRole
    <3>2. [NoCall EXCEPT !.id = i, !.role = r] \in Calls
      BY DEF Calls
    <3>3. [NoCall EXCEPT !.id = i, !.role = r].id = i
      BY DEF NoCall
    <3>. QED  BY <3>1, <3>2, <3>3, StartType DEF Steps
  <2>12. CASE DeleteUser(f)
    <3>1. PICK i \in Others(f) \cap rows :
            Start(f, [NoCall EXCEPT !.id = i],
                     IF IsAdministrator(i) THEN "countDelete" ELSE "delete")
      BY <2>12 DEF DeleteUser
    <3>2. [NoCall EXCEPT !.id = i] \in Calls
      BY DEF Calls
    <3>3. [NoCall EXCEPT !.id = i].id = i
      BY DEF NoCall
    <3>. QED  BY <3>1, <3>2, <3>3, StartType DEF Steps
  <2>13. CASE CountAdministrators(f)
    <3>1. CASE ~Throw(f)
      BY <2>13, <3>1 DEF CountAdministrators, TypeOK, table, Steps
    <3>. QED  BY <3>1, ThrowType
  <2>14. CASE SaveRole(f)
    <3>1. CASE /\ call[f].id \in rows
               /\ role' = [role EXCEPT ![call[f].id] = call[f].role]
               /\ End(f)
               /\ UNCHANGED <<rows, username, secret, flagged, nextId, me, history>>
      <4>1. CallType'
        BY <3>1, EndType DEF TypeOK
      <4>2. TableType'
        BY <3>1 DEF TypeOK, TableType
      <4>. QED  BY <3>1, <4>1, <4>2, TypeParts DEF history, HistoryType
    <3>. QED  BY <2>14, <3>1, ThrowType DEF SaveRole
  <2>15. CASE RemoveUser(f)
    <3>1. CASE /\ rows' = rows \ {call[f].id}
               /\ flagged' = flagged \ {call[f].id}
               /\ imposed' = imposed \ {call[f].id}
               /\ End(f)
               /\ UNCHANGED <<username, role, secret, nextId, me, overlaps, overtaken, crossed>>
      <4>1. CallType'
        BY <3>1, EndType DEF TypeOK
      <4>2. TableType' /\ HistoryType'
        BY <3>1 DEF TypeOK, TableType, HistoryType
      <4>. QED  BY <3>1, <4>1, <4>2, TypeParts
    <3>. QED  BY <2>15, <3>1, ThrowType DEF RemoveUser
  <2>. QED
    BY <1>2, <2>1, <2>2, <2>3, <2>4, <2>5, <2>6, <2>8, <2>9, <2>10, <2>11, <2>12, <2>13, <2>14, <2>15
    DEF Call
<1>3. CASE UNCHANGED vars
  BY <1>3 DEF vars, table, browser, history, TypeOK
<1>. QED  BY <1>1, <1>2, <1>3 DEF Next

\* The table, the cookies and the calls have their types in every state.
THEOREM TypeCorrect == Spec => []TypeOK
BY TypeInit, TypeStep, PTL DEF Spec

(***************************************************************************)
(* Names.  The Ids of cookies and sign-ins are below nextId, so a row      *)
(* inserted later is never taken for theirs.                               *)
(***************************************************************************)
\* A step removes rows, or inserts one of a name no row has; nothing else
\* changes which account an Id is.
RowsStep ==
    \/ rows' \subseteq rows /\ UNCHANGED <<username, nextId>>
    \/ \E n \in Names, r \in Roles, p \in Secrets : ~Taken(n) /\ Insert(n, r, p)

\* How a step can change the table.
LEMMA RowsCases == ASSUME TypeOK, [Next]_vars PROVE RowsStep
<1>1. CASE UNCHANGED <<rows, username, nextId>>
  BY <1>1 DEF RowsStep
<1>2. CASE Initialize
  <2>1. CASE UNCHANGED table
    BY <1>1, <2>1 DEF table
  <2>2. CASE rows = {} /\ Insert(DefaultAdminUsername, "Administrator", DefaultAdminPassword)
    <3>1. ~Taken(DefaultAdminUsername)
      BY <2>2 DEF Taken
    <3>. QED  BY <2>2, <3>1, NameAssumption DEF RowsStep, Roles, Secrets
  <2>. QED  BY <1>2, <2>1, <2>2 DEF Initialize
<1>3. ASSUME NEW f \in Flows, InsertUser(f) PROVE RowsStep
  <2>1. call[f] \in Calls
    BY DEF TypeOK
  <2>2. call[f].name \in Names /\ call[f].role \in Roles /\ call[f].new \in Secrets
    BY <2>1 DEF Calls
  <2>3. CASE Throw(f)
    BY <1>1, <2>3 DEF Throw, table
  <2>4. CASE UniqueIndexAllows(call[f].name) /\ Insert(call[f].name, call[f].role, call[f].new)
    BY <2>2, <2>4 DEF UniqueIndexAllows, RowsStep
  <2>. QED  BY <1>3, <2>3, <2>4 DEF InsertUser
<1>4. ASSUME NEW f \in Flows, RemoveUser(f) PROVE RowsStep
  BY <1>4 DEF RemoveUser, Throw, table, RowsStep
<1>5. ASSUME NEW f \in Flows, Call(f), ~InsertUser(f), ~RemoveUser(f)
      PROVE  UNCHANGED <<rows, username, nextId>>
  BY <1>5 DEF Call, ValidateCredentials, StampSignIn, SignOut, CreateUser, ChangePassword,
     SaveOwnPassword, ResetPassword, SaveReset, SetRole, DeleteUser, CountAdministrators,
     SaveRole, Start, Throw, SetPassword, table
<1>6. CASE UNCHANGED vars
  BY <1>1, <1>6 DEF vars, table
<1>. QED  BY <1>1, <1>2, <1>3, <1>4, <1>5, <1>6 DEF Next

\* The first tables hold each name once.
LEMMA NamesInit == Init => UniqueNames
BY AccountsAssumption DEF Init, UniqueNames, Ids

\* The unique index keeps it so, whatever was looked up before.
LEMMA NamesStep == TypeOK /\ UniqueNames /\ [Next]_vars => UniqueNames'
<1>. SUFFICES ASSUME TypeOK, UniqueNames, [Next]_vars PROVE UniqueNames'
  OBVIOUS
<1>1. CASE rows' \subseteq rows /\ UNCHANGED <<username, nextId>>
  BY <1>1 DEF UniqueNames
<1>2. ASSUME NEW n \in Names, NEW r \in Roles, NEW p \in Secrets, ~Taken(n), Insert(n, r, p)
      PROVE  UniqueNames'
  <2>1. \A i \in rows : username[i] # n /\ username'[i] = username[i] /\ i # nextId
    BY <1>2 DEF Taken, Insert, InsertedId, TypeOK
  <2>2. username'[nextId] = n /\ rows' = rows \cup {nextId}
    BY <1>2 DEF Insert, InsertedId, TypeOK
  <2>. QED  BY <2>1, <2>2 DEF UniqueNames
<1>. QED  BY <1>1, <1>2, RowsCases DEF RowsStep

\* No two accounts share a username, in any order of the calls that add them.
THEOREM NamesAreUnique == Spec => []UniqueNames
BY NamesInit, NamesStep, TypeCorrect, PTL DEF Spec

\* The account somebody is signed in with, or signs in with, by Id and name.
Remembered(id, name) == id < nextId /\ (id \in rows => username[id] = name)

ClaimsInv ==
    \A f \in Flows :
       /\ Remembered(me[f].id, me[f].name)
       /\ pc[f] = "signIn" => Remembered(call[f].id, call[f].name)

\* Nobody is signed in at first.
LEMMA ClaimsInit == Init => ClaimsInv
<1>. SUFFICES ASSUME Init PROVE ClaimsInv
  OBVIOUS
<1>1. nextId \in {2, 3} /\ 0 \notin rows
  BY DEF Init
<1>2. \A f \in Flows : me[f].id = 0 /\ pc[f] = "idle"
  BY DEF Init, NoOne
<1>3. 0 < nextId
  BY <1>1
<1>4. \A f \in Flows : me[f].id < nextId /\ me[f].id \notin rows /\ pc[f] # "signIn"
  BY <1>1, <1>2, <1>3
<1>. QED  BY <1>4 DEF ClaimsInv, Remembered

\* What is remembered of an Id stays true: Ids are not used twice.
LEMMA RememberedStep ==
    ASSUME TypeOK, RowsStep, NEW id \in {0} \cup Ids, NEW name, Remembered(id, name)
    PROVE  Remembered(id, name)'
<1>1. CASE rows' \subseteq rows /\ UNCHANGED <<username, nextId>>
  BY <1>1 DEF Remembered
<1>2. ASSUME NEW n \in Names, NEW r \in Roles, NEW p \in Secrets, Insert(n, r, p)
      PROVE  Remembered(id, name)'
  BY <1>2, AccountsAssumption DEF Remembered, Insert, InsertedId, TypeOK, Ids
<1>. QED  BY <1>1, <1>2 DEF RowsStep

\* A cookie changes when its sign-in ends, and a sign-in reads a row.
LEMMA ClaimsCases ==
    ASSUME TypeOK, [Next]_vars, NEW f \in Flows
    PROVE  /\ \/ me'[f] = me[f]
              \/ me'[f] = NoOne
              \/ pc[f] = "signIn" /\ me'[f].id = call[f].id /\ me'[f].name = call[f].name
           /\ \/ pc'[f] # "signIn"
              \/ pc[f] = "signIn" /\ call'[f] = call[f]
              \/ /\ UNCHANGED table
                 /\ call'[f].id \in rows /\ call'[f].name = username[call'[f].id]
<1>1. CASE Initialize
  BY <1>1 DEF Initialize
<1>2. CASE UNCHANGED vars
  BY <1>2 DEF vars, browser
<1>3. ASSUME NEW g \in Flows, Call(g), ~ValidateCredentials(g), ~StampSignIn(g), ~SignOut(g)
      PROVE  /\ me' = me
             /\ pc'[f] # "signIn" \/ (pc[f] = "signIn" /\ call'[f] = call[f])
  <2>3. CASE CreateUser(g) \/ ChangePassword(g) \/ ResetPassword(g) \/ SetRole(g) \/ DeleteUser(g)
    <3>1. ASSUME NEW c, NEW step, step # "signIn", Start(g, c, step)
          PROVE  /\ me' = me
                 /\ pc'[f] # "signIn" \/ (pc[f] = "signIn" /\ call'[f] = call[f])
      <4>1. CASE f = g
        <5>1. pc' = [pc EXCEPT ![f] = step] /\ me' = me
          BY <3>1, <4>1 DEF Start
        <5>2. pc'[f] = step
          BY <5>1 DEF TypeOK
        <5>. QED  BY <3>1, <5>1, <5>2
      <4>2. CASE f # g
        BY <3>1, <4>2 DEF Start, TypeOK
      <4>. QED  BY <3>1, <4>1, <4>2 DEF Start
    <3>2. CASE CreateUser(g)
      BY <3>1, <3>2 DEF CreateUser
    <3>3. CASE ChangePassword(g)
      BY <3>1, <3>3 DEF ChangePassword
    <3>4. CASE ResetPassword(g)
      BY <3>1, <3>4 DEF ResetPassword
    <3>5. CASE SetRole(g)
      BY <3>1, <3>5 DEF SetRole
    <3>6. CASE DeleteUser(g)
      BY <3>1, <3>6 DEF DeleteUser
    <3>. QED  BY <2>3, <3>2, <3>3, <3>4, <3>5, <3>6
  <2>4. CASE InsertUser(g) \/ SaveOwnPassword(g) \/ SaveReset(g) \/ SaveRole(g) \/ RemoveUser(g)
    BY <2>4 DEF InsertUser, SaveOwnPassword, SaveReset, SaveRole, RemoveUser, SetPassword, Throw, End, TypeOK
  <2>5. CASE CountAdministrators(g)
    BY <2>5 DEF CountAdministrators, Throw, End, TypeOK
  <2>. QED  BY <1>3, <2>3, <2>4, <2>5 DEF Call
<1>4. ASSUME NEW g \in Flows, ValidateCredentials(g)
      PROVE  /\ me' = me
             /\ \/ pc'[f] # "signIn"
                \/ pc[f] = "signIn" /\ call'[f] = call[f]
                \/ /\ UNCHANGED table
                   /\ call'[f].id \in rows /\ call'[f].name = username[call'[f].id]
  <2>1. PICK i \in rows : Start(g, [NoCall EXCEPT !.id = i, !.name = username[i], !.role = role[i]], "signIn")
    BY <1>4 DEF ValidateCredentials
  <2>2. CASE f = g
    BY <2>1, <2>2 DEF Start, TypeOK, NoCall
  <2>3. CASE f # g
    BY <2>1, <2>3 DEF Start, TypeOK
  <2>. QED  BY <2>1, <2>2, <2>3 DEF Start
<1>5. ASSUME NEW g \in Flows, StampSignIn(g) \/ SignOut(g)
      PROVE  /\ \/ me'[f] = me[f]
                \/ me'[f] = NoOne
                \/ pc[f] = "signIn" /\ me'[f].id = call[f].id /\ me'[f].name = call[f].name
             /\ pc'[f] # "signIn" \/ (pc[f] = "signIn" /\ call'[f] = call[f])
  BY <1>5 DEF StampSignIn, SignOut, Throw, End, TypeOK
<1>. QED  BY <1>1, <1>2, <1>3, <1>4, <1>5 DEF Next

\* Every step keeps what cookies and sign-ins remember.
LEMMA ClaimsStep == TypeOK /\ ClaimsInv /\ [Next]_vars => ClaimsInv'
<1>. SUFFICES ASSUME TypeOK, ClaimsInv, [Next]_vars, NEW f \in Flows
     PROVE  /\ Remembered(me[f].id, me[f].name)'
            /\ pc'[f] = "signIn" => Remembered(call[f].id, call[f].name)'
  BY DEF ClaimsInv
<1>1. RowsStep
  BY RowsCases
<1>2. me[f] \in Claims /\ call[f] \in Calls /\ nextId \in Nat /\ rows \subseteq Ids
  BY DEF TypeOK
<1>3. me[f].id \in {0} \cup Ids /\ call[f].id \in {0} \cup Ids
  BY <1>2 DEF Claims, Calls
<1>4. Remembered(0, NoOne.name)'
  <2>1. me[f].id < nextId
    BY DEF ClaimsInv, Remembered
  <2>2. Remembered(0, NoOne.name)
    BY <1>2, <1>3, <2>1, AccountsAssumption DEF Remembered, Ids
  <2>. QED  BY <1>1, <2>2, RememberedStep
<1>5. Remembered(me[f].id, me[f].name)'
  <2>1. CASE me'[f] = me[f]
    <3>1. \A id \in {0} \cup Ids, name \in Names : Remembered(id, name) => Remembered(id, name)'
      BY <1>1, RememberedStep
    <3>2. me[f].name \in Names
      BY <1>2 DEF Claims
    <3>3. Remembered(me[f].id, me[f].name)
      BY DEF ClaimsInv
    <3>. QED  BY <1>3, <2>1, <3>1, <3>2, <3>3 DEF Remembered
  <2>2. CASE me'[f] = NoOne
    BY <1>4, <2>2 DEF NoOne, Remembered
  <2>3. CASE pc[f] = "signIn" /\ me'[f].id = call[f].id /\ me'[f].name = call[f].name
    <3>1. Remembered(call[f].id, call[f].name)
      BY <2>3 DEF ClaimsInv
    <3>2. \A id \in {0} \cup Ids, name \in Names : Remembered(id, name) => Remembered(id, name)'
      BY <1>1, RememberedStep
    <3>3. call[f].name \in Names
      BY <1>2 DEF Calls
    <3>. QED  BY <1>3, <2>3, <3>1, <3>2, <3>3 DEF Remembered
  <2>. QED  BY <2>1, <2>2, <2>3, ClaimsCases
<1>6. ASSUME pc'[f] = "signIn" PROVE Remembered(call[f].id, call[f].name)'
  <2>1. CASE pc[f] = "signIn" /\ call'[f] = call[f]
    <3>1. Remembered(call[f].id, call[f].name)
      BY <2>1 DEF ClaimsInv
    <3>2. \A id \in {0} \cup Ids, name \in Names : Remembered(id, name) => Remembered(id, name)'
      BY <1>1, RememberedStep
    <3>3. call[f].name \in Names
      BY <1>2 DEF Calls
    <3>. QED  BY <1>3, <2>1, <3>1, <3>2, <3>3 DEF Remembered
  <2>2. CASE /\ UNCHANGED table
             /\ call'[f].id \in rows /\ call'[f].name = username[call'[f].id]
    BY <2>2 DEF table, Remembered, TypeOK
  <2>. QED  BY <1>6, <2>1, <2>2, ClaimsCases
<1>. QED  BY <1>5, <1>6

\* A cookie never names another account than the one signed in with.
THEOREM ClaimsHold == Spec => []ClaimsNameTheAccount
<1>1. ClaimsInv => ClaimsNameTheAccount
  BY DEF ClaimsInv, Remembered, ClaimsNameTheAccount
<1>. QED  BY <1>1, ClaimsInit, ClaimsStep, TypeCorrect, PTL DEF Spec

\* A name in the table and an Id in a cookie each stand for one account.
THEOREM IdentityHolds == Spec => []IdentityIsKept
BY NamesAreUnique, ClaimsHold, PTL DEF IdentityIsKept

(***************************************************************************)
(* The last administrator.  As long as no count overlapped a removal, some *)
(* administrator is the target of no call past its own count: a count      *)
(* names another administrator before its call may remove one.             *)
(***************************************************************************)
Safe(i) == IsAdministrator(i) /\ \A f \in Flows : ~Removes(f, i)

AdministratorInv == overlaps = {} => \E i \in Ids : Safe(i)

\* The first administrator is safe at first.
LEMMA AdministratorInit == Init => AdministratorInv
<1>. SUFFICES ASSUME Init PROVE Safe(1)
  BY AccountsAssumption DEF AdministratorInv, Ids
<1>1. 1 \in Ids
  BY AccountsAssumption DEF Ids
<1>2. 1 \in rows /\ role[1] = "Administrator"
  BY <1>1 DEF Init
<1>3. \A f \in Flows : ~Removes(f, 1)
  BY DEF Init, Removes
<1>. QED  BY <1>2, <1>3 DEF Safe, IsAdministrator

\* An account stays safe as long as it stays an administrator's and no call
\* begins to threaten it.
LEMMA SafeFrame ==
    ASSUME NEW i, Safe(i), i \in rows', role'[i] = role[i],
           \A g \in Flows : Removes(g, i)' => Removes(g, i)
    PROVE  Safe(i)'
BY DEF Safe, IsAdministrator

\* A browser that begins or ends a call threatens nobody new, unless the call
\* is the deletion of that account.
LEMMA StartThreatens ==
    ASSUME TypeOK, NEW f \in Flows, NEW c \in Calls, NEW step \in Steps, Start(f, c, step),
           NEW i \in Ids,
           c.id # i \/ ~(step = "delete" \/ (step = "setRole" /\ c.role = "User"))
    PROVE  \A g \in Flows : Removes(g, i)' => Removes(g, i)
<1>1. ASSUME NEW g \in Flows, g # f PROVE pc'[g] = pc[g] /\ call'[g] = call[g]
  BY <1>1 DEF Start, TypeOK
<1>2. pc'[f] = step /\ call'[f] = c
  BY DEF Start, TypeOK
<1>3. ~Removes(f, i)'
  BY <1>2 DEF Removes
<1>4. ASSUME NEW g \in Flows, g # f, Removes(g, i)' PROVE Removes(g, i)
  BY <1>1, <1>4 DEF Removes
<1>. QED  BY <1>3, <1>4

\* A call that ends threatens nobody any more.
LEMMA EndThreatens ==
    ASSUME TypeOK, NEW f \in Flows, End(f), NEW i \in Ids
    PROVE  \A g \in Flows : Removes(g, i)' => Removes(g, i)
<1>1. ASSUME NEW g \in Flows, g # f PROVE pc'[g] = pc[g] /\ call'[g] = call[g]
  BY <1>1 DEF End, TypeOK
<1>2. pc'[f] = "idle"
  BY DEF End, TypeOK
<1>3. ~Removes(f, i)'
  BY <1>2 DEF Removes
<1>4. ASSUME NEW g \in Flows, g # f, Removes(g, i)' PROVE Removes(g, i)
  BY <1>1, <1>4 DEF Removes
<1>. QED  BY <1>3, <1>4

\* A refused save leaves the safe account safe.
LEMMA ThrowSafe == ASSUME TypeOK, NEW f \in Flows, Throw(f), NEW i \in Ids, Safe(i) PROVE Safe(i)'
BY EndThreatens, SafeFrame DEF Throw, table, Safe, IsAdministrator

\* Before a call's count, some account other than its target is safe.
LEMMA StartSafe ==
    ASSUME TypeOK, NEW f \in Flows, NEW c \in Calls, NEW step \in Steps, Start(f, c, step),
           NEW i \in Ids, Safe(i),
           step = "delete" => ~IsAdministrator(c.id),
           step = "setRole" => c.role = "Administrator"
    PROVE  Safe(i)'
<1>1. c.id # i \/ ~(step = "delete" \/ (step = "setRole" /\ c.role = "User"))
  BY DEF Safe
<1>. QED  BY <1>1, StartThreatens, SafeFrame DEF Start, table, Safe, IsAdministrator

\* A count that overlaps no other removal finds another administrator, who is
\* then threatened by nobody.
LEMMA CountSafe ==
    ASSUME TypeOK, NEW f \in Flows, CountAdministrators(f), ~Throw(f), overlaps' = {}
    PROVE  \E i \in Ids : Safe(i)'
<1>1. /\ ~IsLastAdministrator(call[f].id)
      /\ pc' = [pc EXCEPT ![f] = IF pc[f] = "count" THEN "setRole" ELSE "delete"]
      /\ UNCHANGED <<table, call>>
      /\ \A g \in Flows, i \in Ids \ {call[f].id} : ~Removes(g, i)
  <2>1. /\ ~IsLastAdministrator(call[f].id)
        /\ pc' = [pc EXCEPT ![f] = IF pc[f] = "count" THEN "setRole" ELSE "delete"]
        /\ UNCHANGED <<table, call>>
    BY DEF CountAdministrators
  <2>2. overlaps' = IF \E g \in Flows, i \in Ids \ {call[f].id} : Removes(g, i)
                    THEN overlaps \cup {f} ELSE overlaps
    BY DEF CountAdministrators
  <2>. QED  BY <2>1, <2>2
<1>2. PICK i \in Ids \ {call[f].id} : IsAdministrator(i)
  BY <1>1 DEF IsLastAdministrator
<1>3. \A g \in Flows : ~Removes(g, i)'
  <2>1. ~Removes(f, i)'
    BY <1>1, <1>2 DEF Removes
  <2>2. ASSUME NEW g \in Flows, g # f PROVE ~Removes(g, i)'
    BY <1>1, <1>2, <2>2 DEF Removes, TypeOK
  <2>. QED  BY <2>1, <2>2
<1>. QED  BY <1>1, <1>2, <1>3 DEF Safe, IsAdministrator, table

\* Every step keeps some administrator safe, unless counts overlap.
LEMMA AdministratorStep == TypeOK /\ AdministratorInv /\ [Next]_vars => AdministratorInv'
<1>. SUFFICES ASSUME TypeOK, AdministratorInv, [Next]_vars, overlaps' = {}
     PROVE  \E i \in Ids : Safe(i)'
  BY DEF AdministratorInv
<1>1. overlaps = {}
  <2>1. ASSUME NEW f \in Flows, CountAdministrators(f) PROVE overlaps \subseteq overlaps'
    BY <2>1 DEF CountAdministrators, Throw, history
  <2>2. ASSUME NEW f \in Flows, Call(f), ~CountAdministrators(f) PROVE overlaps' = overlaps
    BY <2>2 DEF Call, ValidateCredentials, StampSignIn, SignOut, CreateUser, InsertUser,
       ChangePassword, SaveOwnPassword, ResetPassword, SaveReset, SetRole, DeleteUser,
       SaveRole, RemoveUser, Start, Throw, SetPassword, history
  <2>3. Initialize \/ UNCHANGED vars => overlaps' = overlaps
    BY DEF Initialize, history, vars
  <2>. QED  BY <2>1, <2>2, <2>3 DEF Next
<1>2. PICK i \in Ids : Safe(i)
  BY <1>1 DEF AdministratorInv
<1>3. i \in rows /\ role[i] = "Administrator" /\ \A g \in Flows : ~Removes(g, i)
  BY <1>2 DEF Safe, IsAdministrator
<1>4. ASSUME i \in rows', role'[i] = role[i], \A g \in Flows : Removes(g, i)' => Removes(g, i)
      PROVE  Safe(i)'
  BY <1>2, <1>4, SafeFrame
<1>5. CASE Initialize
  <2>1. UNCHANGED table
    BY <1>3, <1>5 DEF Initialize
  <2>2. \A g \in Flows : ~Removes(g, i)'
    BY <1>5 DEF Initialize, Removes
  <2>3. Safe(i)'
    BY <1>4, <1>3, <2>1, <2>2 DEF table
  <2>. QED  BY <2>3
<1>6. CASE UNCHANGED vars
  BY <1>3, <1>4, <1>6 DEF vars, table, browser, Removes
<1>7. ASSUME NEW f \in Flows, Call(f) PROVE \E j \in Ids : Safe(j)'
  <2>. call[f] \in Calls
    BY DEF TypeOK
  <2>. NoCall \in Calls /\ rows \subseteq Ids
    BY Nobody DEF TypeOK
  <2>1. CASE Throw(f)
    BY <1>2, <2>1, ThrowSafe
  <2>2. ASSUME End(f), i \in rows', role'[i] = role[i] PROVE Safe(i)'
    BY <1>4, <2>2, EndThreatens
  <2>3. ASSUME NEW c \in Calls, NEW step \in Steps, Start(f, c, step),
               step \notin {"delete", "setRole"}
        PROVE  Safe(i)'
    BY <1>2, <2>3, StartSafe
  <2>4. CASE ValidateCredentials(f)
    <3>1. PICK j \in rows : Start(f, [NoCall EXCEPT !.id = j, !.name = username[j], !.role = role[j]], "signIn")
      BY <2>4 DEF ValidateCredentials
    <3>2. [NoCall EXCEPT !.id = j, !.name = username[j], !.role = role[j]] \in Calls
      BY DEF Calls, TypeOK
    <3>. QED  BY <3>1, <3>2, <2>3 DEF Steps
  <2>5. CASE StampSignIn(f) /\ ~Throw(f)
    BY <1>3, <2>2, <2>5 DEF StampSignIn, table
  <2>6. CASE SignOut(f)
    BY <1>3, <1>4, <2>6 DEF SignOut, table, Removes
  <2>7. CASE CreateUser(f)
    <3>1. PICK n \in Names, p \in Secrets, r \in Roles :
            Start(f, [NoCall EXCEPT !.name = n, !.role = r, !.new = p], "create")
      BY <2>7 DEF CreateUser
    <3>2. [NoCall EXCEPT !.name = n, !.role = r, !.new = p] \in Calls
      BY DEF Calls
    <3>. QED  BY <3>1, <3>2, <2>3 DEF Steps
  <2>8. CASE InsertUser(f) /\ ~Throw(f)
    <3>1. End(f) /\ Insert(call[f].name, call[f].role, call[f].new)
      BY <2>8 DEF InsertUser
    <3>2. i \in rows' /\ role'[i] = role[i]
      BY <1>3, <3>1 DEF Insert, InsertedId, TypeOK
    <3>. QED  BY <2>2, <3>1, <3>2
  <2>9. CASE ChangePassword(f)
    <3>1. PICK p \in Secrets : Start(f, [NoCall EXCEPT !.id = me[f].id, !.new = p], "change")
      BY <2>9 DEF ChangePassword
    <3>2. [NoCall EXCEPT !.id = me[f].id, !.new = p] \in Calls
      BY <2>9 DEF ChangePassword, Calls
    <3>. QED  BY <3>1, <3>2, <2>3 DEF Steps
  <2>10. CASE (SaveOwnPassword(f) \/ SaveReset(f)) /\ ~Throw(f)
    <3>1. SetPassword(f)
      BY <2>10 DEF SaveOwnPassword, SaveReset
    <3>. QED  BY <1>3, <2>2, <3>1 DEF SetPassword
  <2>11. CASE ResetPassword(f)
    <3>1. PICK j \in rows, p \in Secrets : Start(f, [NoCall EXCEPT !.id = j, !.new = p], "reset")
      BY <2>11 DEF ResetPassword
    <3>2. [NoCall EXCEPT !.id = j, !.new = p] \in Calls
      BY DEF Calls
    <3>. QED  BY <3>1, <3>2, <2>3 DEF Steps
  <2>12. CASE SetRole(f)
    <3>1. PICK j \in Others(f) \cap rows, r \in Roles :
            /\ role[j] # r
            /\ Start(f, [NoCall EXCEPT !.id = j, !.role = r],
                     IF IsAdministrator(j) THEN "count" ELSE "setRole")
      BY <2>12 DEF SetRole
    <3>2. [NoCall EXCEPT !.id = j, !.role = r] \in Calls
      BY DEF Calls
    <3>3. CASE IsAdministrator(j)
      BY <3>1, <3>2, <3>3, <2>3 DEF Steps
    <3>4. CASE ~IsAdministrator(j)
      <4>1. r = "Administrator"
        BY <3>1, <3>4 DEF IsAdministrator, Roles, TypeOK
      <4>2. [NoCall EXCEPT !.id = j, !.role = r].role = r
        BY DEF NoCall
      <4>. QED  BY <1>2, <3>1, <3>2, <3>4, <4>1, <4>2, StartSafe DEF Steps
    <3>. QED  BY <3>3, <3>4
  <2>13. CASE DeleteUser(f)
    <3>1. PICK j \in Others(f) \cap rows :
            Start(f, [NoCall EXCEPT !.id = j],
                     IF IsAdministrator(j) THEN "countDelete" ELSE "delete")
      BY <2>13 DEF DeleteUser
    <3>2. [NoCall EXCEPT !.id = j] \in Calls /\ [NoCall EXCEPT !.id = j].id = j
      BY DEF Calls, NoCall
    <3>3. CASE IsAdministrator(j)
      BY <3>1, <3>2, <3>3, <2>3 DEF Steps
    <3>4. CASE ~IsAdministrator(j)
      BY <1>2, <3>1, <3>2, <3>4, StartSafe DEF Steps
    <3>. QED  BY <3>3, <3>4
  <2>14. CASE CountAdministrators(f) /\ ~Throw(f)
    BY <2>14, CountSafe
  <2>15. CASE SaveRole(f) /\ ~Throw(f)
    <3>1. /\ pc[f] = "setRole" /\ End(f) /\ UNCHANGED rows
          /\ role' = [role EXCEPT ![call[f].id] = call[f].role]
      BY <2>15 DEF SaveRole
    <3>2. call[f].id # i \/ call[f].role # "User"
      BY <1>3, <3>1 DEF Removes
    <3>3. role'[i] = "Administrator"
      BY <1>3, <3>1, <3>2 DEF TypeOK, Calls, Roles
    <3>. QED  BY <1>3, <2>2, <3>1, <3>3
  <2>16. CASE RemoveUser(f) /\ ~Throw(f)
    <3>1. pc[f] = "delete" /\ End(f) /\ UNCHANGED role /\ rows' = rows \ {call[f].id}
      BY <2>16 DEF RemoveUser
    <3>2. call[f].id # i
      BY <1>3, <3>1 DEF Removes
    <3>. QED  BY <1>3, <2>2, <3>1, <3>2
  <2>. QED
    BY <1>7, <2>1, <2>4, <2>5, <2>6, <2>7, <2>8, <2>9, <2>10, <2>11, <2>12, <2>13, <2>14, <2>15, <2>16
    DEF Call
<1>. QED  BY <1>5, <1>6, <1>7 DEF Next

\* There is an administrator at all times, as long as removals do not overlap.
THEOREM AdministratorStays == Spec => []AdministratorRemainsUnlessOverlapping
<1>1. AdministratorInv => AdministratorRemainsUnlessOverlapping
  BY DEF AdministratorInv, Safe, AdministratorRemainsUnlessOverlapping
<1>. QED  BY <1>1, AdministratorInit, AdministratorStep, TypeCorrect, PTL DEF Spec

(***************************************************************************)
(* Flags.  A password on its way to a row is never the seeded one.         *)
(***************************************************************************)
Valid(f) == pc[f] \in {"create", "change", "reset"} => call[f].new \in Passwords

SeededInv == SeededPasswordIsFlagged /\ \A f \in Flows : Valid(f)

\* The seeded row is flagged, the rows of an earlier run have other passwords.
LEMMA SeededInit == Init => SeededInv
<1>. SUFFICES ASSUME Init PROVE SeededInv
  OBVIOUS
<1>1. PICK p \in Secrets :
          /\ secret = [i \in Ids |-> p]
          /\ \/ rows = {1} /\ flagged = {1}
             \/ p # DefaultAdminPassword /\ rows = {1, 2}
  BY DEF Init
<1>2. rows \subseteq Ids
  BY TypeInit DEF TypeOK
<1>. QED  BY <1>1, <1>2 DEF Init, SeededInv, SeededPasswordIsFlagged, Valid

\* A call's new password is validated before the call begins, and kept.
LEMMA ValidStep ==
    ASSUME TypeOK, [Next]_vars, NEW f \in Flows, Valid(f) PROVE Valid(f)'
<1>1. CASE Initialize
  BY <1>1 DEF Initialize, Valid
<1>2. CASE UNCHANGED vars
  BY <1>2 DEF vars, browser, Valid
<1>3. ASSUME NEW g \in Flows, Call(g) PROVE Valid(f)'
  <2>1. CASE pc'[f] = pc[f] /\ call'[f] = call[f]
    BY <2>1 DEF Valid
  <2>2. CASE pc'[f] \notin {"create", "change", "reset"}
    BY <2>2 DEF Valid
  <2>3. ASSUME NEW c \in Calls, NEW step, Start(g, c, step),
               step \in {"create", "change", "reset"} => c.new \in Passwords
        PROVE  Valid(f)'
    <3>1. CASE f # g
      BY <2>1, <2>3, <3>1 DEF Start, TypeOK
    <3>2. CASE f = g
      <4>1. pc'[f] = step /\ call'[f] = c
        BY <2>3, <3>2 DEF Start, TypeOK
      <4>. QED  BY <2>3, <4>1 DEF Valid
    <3>. QED  BY <3>1, <3>2
  <2>4. CASE End(g)
    BY <2>1, <2>2, <2>4 DEF End, TypeOK
  <2>5. CASE CountAdministrators(g) \/ SignOut(g)
    BY <2>1, <2>2, <2>4, <2>5 DEF CountAdministrators, SignOut, Throw, TypeOK
  <2>. \A c : c \in Calls => c.id \in {0} \cup Ids /\ c.name \in Names /\ c.role \in Roles /\ c.new \in Secrets
    BY DEF Calls
  <2>. NoCall \in Calls /\ rows \subseteq Ids
    BY Nobody DEF TypeOK
  <2>6. CASE ValidateCredentials(g)
    <3>1. PICK i \in rows : Start(g, [NoCall EXCEPT !.id = i, !.name = username[i], !.role = role[i]], "signIn")
      BY <2>6 DEF ValidateCredentials
    <3>2. [NoCall EXCEPT !.id = i, !.name = username[i], !.role = role[i]] \in Calls
      BY DEF Calls, TypeOK
    <3>. QED  BY <3>1, <3>2, <2>3
  <2>7. CASE CreateUser(g)
    <3>1. PICK n \in Names, p \in Passwords, r \in Roles :
            Start(g, [NoCall EXCEPT !.name = n, !.role = r, !.new = p], "create")
      BY <2>7 DEF CreateUser, ValidPassword
    <3>2. /\ [NoCall EXCEPT !.name = n, !.role = r, !.new = p] \in Calls
          /\ [NoCall EXCEPT !.name = n, !.role = r, !.new = p].new = p
      BY DEF Calls, Secrets, NoCall
    <3>. QED  BY <3>1, <3>2, <2>3
  <2>8. CASE ChangePassword(g)
    <3>1. PICK p \in Passwords : Start(g, [NoCall EXCEPT !.id = me[g].id, !.new = p], "change")
      BY <2>8 DEF ChangePassword, ValidPassword
    <3>2. /\ [NoCall EXCEPT !.id = me[g].id, !.new = p] \in Calls
          /\ [NoCall EXCEPT !.id = me[g].id, !.new = p].new = p
      BY <2>8 DEF ChangePassword, Calls, Secrets, NoCall
    <3>. QED  BY <3>1, <3>2, <2>3
  <2>9. CASE ResetPassword(g)
    <3>1. PICK i \in rows, p \in Passwords : Start(g, [NoCall EXCEPT !.id = i, !.new = p], "reset")
      BY <2>9 DEF ResetPassword, ValidPassword
    <3>2. /\ [NoCall EXCEPT !.id = i, !.new = p] \in Calls
          /\ [NoCall EXCEPT !.id = i, !.new = p].new = p
      BY DEF Calls, Secrets, NoCall
    <3>. QED  BY <3>1, <3>2, <2>3
  <2>10. CASE SetRole(g)
    <3>1. PICK i \in rows, r \in Roles, step \in {"count", "setRole"} :
            Start(g, [NoCall EXCEPT !.id = i, !.role = r], step)
      BY <2>10 DEF SetRole
    <3>2. [NoCall EXCEPT !.id = i, !.role = r] \in Calls
      BY DEF Calls
    <3>. QED  BY <3>1, <3>2, <2>3
  <2>11. CASE DeleteUser(g)
    <3>1. PICK i \in rows, step \in {"countDelete", "delete"} : Start(g, [NoCall EXCEPT !.id = i], step)
      BY <2>11 DEF DeleteUser
    <3>2. [NoCall EXCEPT !.id = i] \in Calls
      BY DEF Calls
    <3>. QED  BY <3>1, <3>2, <2>3
  <2>12. CASE StampSignIn(g) \/ InsertUser(g) \/ SaveOwnPassword(g) \/ SaveReset(g) \/ SaveRole(g) \/ RemoveUser(g)
    BY <2>4, <2>12 DEF StampSignIn, InsertUser, SaveOwnPassword, SaveReset, SaveRole, RemoveUser, Throw, SetPassword
  <2>. QED
    BY <1>3, <2>5, <2>6, <2>7, <2>8, <2>9, <2>10, <2>11, <2>12 DEF Call
<1>. QED  BY <1>1, <1>2, <1>3 DEF Next

\* Only a save of a password, an insertion or a removal changes what the flags
\* are about.
LEMMA SeededStep == TypeOK /\ SeededInv /\ [Next]_vars => SeededInv'
<1>. SUFFICES ASSUME TypeOK, SeededInv, [Next]_vars PROVE SeededPasswordIsFlagged'
  BY ValidStep DEF SeededInv
<1>. rows \subseteq Ids /\ secret \in [Ids -> Secrets]
  BY DEF TypeOK
<1>1. \A i \in rows : secret[i] = DefaultAdminPassword => i \in flagged
  BY DEF SeededInv, SeededPasswordIsFlagged
<1>2. CASE UNCHANGED <<rows, secret, flagged>>
  BY <1>1, <1>2 DEF SeededPasswordIsFlagged
<1>3. CASE Initialize
  <2>1. CASE UNCHANGED table
    BY <1>2, <2>1 DEF table
  <2>2. CASE rows = {} /\ Insert(DefaultAdminUsername, "Administrator", DefaultAdminPassword)
             /\ flagged' = flagged \cup {InsertedId}
    BY <2>2 DEF SeededPasswordIsFlagged, Insert
  <2>. QED  BY <1>3, <2>1, <2>2 DEF Initialize
<1>4. ASSUME NEW f \in Flows, Call(f) PROVE SeededPasswordIsFlagged'
  <2>1. CASE Throw(f)
    BY <1>2, <2>1 DEF Throw, table
  <2>2. CASE InsertUser(f) /\ ~Throw(f)
    <3>1. Insert(call[f].name, call[f].role, call[f].new) /\ flagged' = flagged
      BY <2>2 DEF InsertUser
    <3>2. call[f].new # DefaultAdminPassword
      BY <2>2, PasswordAssumption DEF InsertUser, SeededInv, Valid
    <3>. QED  BY <1>1, <3>1, <3>2 DEF SeededPasswordIsFlagged, Insert
  <2>3. CASE (SaveOwnPassword(f) \/ SaveReset(f)) /\ ~Throw(f)
    <3>1. /\ secret' = [secret EXCEPT ![call[f].id] = call[f].new] /\ rows' = rows
          /\ flagged \ {call[f].id} \subseteq flagged'
      BY <2>3 DEF SaveOwnPassword, SaveReset, SetPassword
    <3>2. call[f].new # DefaultAdminPassword
      BY <2>3, PasswordAssumption DEF SaveOwnPassword, SaveReset, SeededInv, Valid
    <3>. QED  BY <1>1, <3>1, <3>2 DEF SeededPasswordIsFlagged
  <2>4. CASE RemoveUser(f) /\ ~Throw(f)
    BY <1>1, <2>4 DEF RemoveUser, SeededPasswordIsFlagged
  <2>5. CASE /\ ~InsertUser(f) /\ ~SaveOwnPassword(f) /\ ~SaveReset(f) /\ ~RemoveUser(f)
    <3>1. UNCHANGED <<rows, secret, flagged>>
      BY <1>4, <2>5 DEF Call, ValidateCredentials, StampSignIn, SignOut, CreateUser, ChangePassword,
         ResetPassword, SetRole, DeleteUser, CountAdministrators, SaveRole, Start, Throw, table
    <3>. QED  BY <1>2, <3>1
  <2>. QED  BY <2>1, <2>2, <2>3, <2>4, <2>5
<1>5. CASE UNCHANGED vars
  BY <1>2, <1>5 DEF vars, table
<1>. QED  BY <1>3, <1>4, <1>5 DEF Next

\* An account that still opens with the seeded password is flagged.
THEOREM SeededIsFlagged == Spec => []SeededPasswordIsFlagged
<1>1. SeededInv => SeededPasswordIsFlagged
  BY DEF SeededInv
<1>. QED  BY <1>1, SeededInit, SeededStep, TypeCorrect, PTL DEF Spec

(***************************************************************************)
(* Who chose the password.  A call that no call of the other kind has      *)
(* overtaken still knows the flag: an owner's change that read it down     *)
(* finds it down, a reset that read it up finds it up.                     *)
(***************************************************************************)
KnowsFlag(f) ==
    f \notin overtaken =>
       /\ pc[f] = "change" /\ f \notin readFlag => call[f].id \notin flagged
       /\ pc[f] = "reset" /\ f \in readFlag /\ call[f].id \in rows => call[f].id \in flagged

FlagsInv == FlagTellsWhoChose /\ \A f \in Flows : KnowsFlag(f)

\* The actions that leave rows, flags and their history alone.
PlainStep(f) ==
    \/ ValidateCredentials(f) \/ StampSignIn(f) \/ SignOut(f) \/ CreateUser(f)
    \/ ChangePassword(f) \/ ResetPassword(f) \/ SetRole(f) \/ DeleteUser(f)
    \/ CountAdministrators(f) \/ SaveRole(f)

\* They start a call, or leave the calls past their read where they are.
LEMMA PlainSteps ==
    ASSUME TypeOK, NEW f \in Flows, PlainStep(f)
    PROVE  /\ UNCHANGED <<rows, flagged, imposed, crossed>>
           /\ \/ \E c, step : Start(f, c, step)
              \/ /\ UNCHANGED <<call, readFlag, overtaken>>
                 /\ \A g \in Flows : pc'[g] = pc[g] \/ pc'[g] \in {"idle", "setRole", "delete"}
<1>1. CASE \E c, step : Start(f, c, step)
  BY <1>1 DEF Start, table
<1>2. CASE StampSignIn(f) \/ SignOut(f) \/ CountAdministrators(f) \/ SaveRole(f)
  BY <1>2 DEF StampSignIn, SignOut, CountAdministrators, SaveRole, Throw, End, table, history, TypeOK
<1>. QED
  BY <1>1, <1>2 DEF PlainStep, ValidateCredentials, CreateUser, ChangePassword, ResetPassword,
     SetRole, DeleteUser

\* A flag goes up or down under a call only when it is overtaken or its row gone.
LEMMA KnowsStep ==
    ASSUME TypeOK, [Next]_vars, NEW f \in Flows, KnowsFlag(f) PROVE KnowsFlag(f)'
<1>1. CASE Initialize
  BY <1>1 DEF Initialize, KnowsFlag
<1>2. CASE UNCHANGED vars
  BY <1>2 DEF vars, table, browser, history, KnowsFlag
<1>3. ASSUME NEW g \in Flows, Call(g) PROVE KnowsFlag(f)'
  <2>1. CASE PlainStep(g)
    <3>1. UNCHANGED <<rows, flagged>>
      BY <2>1, PlainSteps
    <3>2. ASSUME NEW c, NEW step, Start(g, c, step) PROVE KnowsFlag(f)'
      BY <3>1, <3>2 DEF Start, KnowsFlag, TypeOK
    <3>3. CASE /\ UNCHANGED <<call, readFlag, overtaken>>
               /\ \A h \in Flows : pc'[h] = pc[h] \/ pc'[h] \in {"idle", "setRole", "delete"}
      BY <3>1, <3>3 DEF KnowsFlag
    <3>. QED  BY <2>1, <3>2, <3>3, PlainSteps
  <2>2. ASSUME End(g), f = g PROVE KnowsFlag(f)'
    BY <2>2 DEF End, KnowsFlag, TypeOK
  <2>3. CASE Throw(g)
    BY <2>2, <2>3 DEF Throw, End, table, history, KnowsFlag, TypeOK
  <2>4. ASSUME End(g), f # g PROVE pc'[f] = pc[f] /\ UNCHANGED <<call, readFlag>>
    BY <2>4 DEF End, TypeOK
  <2>5. CASE InsertUser(g) /\ ~Throw(g)
    <3>1. End(g) /\ UNCHANGED <<flagged, overtaken>> /\ rows' = rows \cup {nextId}
      BY <2>5 DEF InsertUser, Insert, InsertedId, history
    <3>2. pc[f] = "reset" => call[f].id # nextId
      BY DEF TypeOK, Ids
    <3>. QED  BY <2>2, <2>4, <3>1, <3>2 DEF KnowsFlag
  <2>6. CASE SaveOwnPassword(g) /\ ~Throw(g)
    <3>1. /\ End(g) /\ rows' = rows
          /\ flagged' \subseteq flagged /\ flagged \ {call[g].id} \subseteq flagged'
          /\ overtaken' = overtaken \cup Overtakes(g, "reset")
      BY <2>6 DEF SaveOwnPassword, SetPassword
    <3>. QED  BY <2>2, <2>4, <3>1 DEF KnowsFlag, Overtakes
  <2>7. CASE SaveReset(g) /\ ~Throw(g)
    <3>1. /\ End(g) /\ rows' = rows
          /\ flagged \subseteq flagged' /\ flagged' \subseteq flagged \cup {call[g].id}
          /\ overtaken' = overtaken \cup Overtakes(g, "change")
      BY <2>7 DEF SaveReset, SetPassword
    <3>. QED  BY <2>2, <2>4, <3>1 DEF KnowsFlag, Overtakes
  <2>8. CASE RemoveUser(g) /\ ~Throw(g)
    <3>1. /\ End(g) /\ rows' = rows \ {call[g].id}
          /\ flagged' = flagged \ {call[g].id} /\ overtaken' = overtaken
      BY <2>8 DEF RemoveUser
    <3>. QED  BY <2>2, <2>4, <3>1 DEF KnowsFlag
  <2>. QED
    BY <1>3, <2>1, <2>3, <2>5, <2>6, <2>7, <2>8 DEF Call, PlainStep
<1>. QED  BY <1>1, <1>2, <1>3 DEF Next

\* A save by a call that was not overtaken sets the flag of its row right.
LEMMA FlagStep ==
    ASSUME TypeOK, FlagsInv, [Next]_vars PROVE FlagTellsWhoChose'
<1>. /\ \A i \in rows \ crossed : i \in flagged <=> i \in imposed
     /\ \A f \in Flows : KnowsFlag(f)
  BY DEF FlagsInv, FlagTellsWhoChose
<1>1. CASE UNCHANGED <<rows, flagged, imposed, crossed>>
  BY <1>1 DEF FlagTellsWhoChose
<1>2. CASE Initialize
  <2>1. CASE UNCHANGED <<table, imposed>>
    BY <1>1, <1>2, <2>1 DEF Initialize, table
  <2>2. CASE /\ rows' = rows \cup {InsertedId}
             /\ flagged' = flagged \cup {InsertedId}
             /\ imposed' = imposed \cup {InsertedId}
    BY <1>2, <2>2 DEF Initialize, FlagTellsWhoChose
  <2>. QED  BY <1>2, <2>1, <2>2 DEF Initialize, Insert
<1>3. ASSUME NEW f \in Flows, Call(f) PROVE FlagTellsWhoChose'
  <2>1. CASE PlainStep(f)
    BY <1>1, <2>1, PlainSteps
  <2>2. CASE Throw(f)
    BY <1>1, <2>2 DEF Throw, table, history
  <2>3. CASE InsertUser(f) /\ ~Throw(f)
    <3>1. rows' = rows \cup {nextId} /\ UNCHANGED <<flagged, imposed, crossed>>
      BY <2>3 DEF InsertUser, Insert, InsertedId, history
    <3>2. nextId \notin flagged /\ nextId \notin imposed
      BY DEF TypeOK
    <3>. QED  BY <3>1, <3>2 DEF FlagTellsWhoChose
  <2>4. CASE (SaveOwnPassword(f) \/ SaveReset(f)) /\ ~Throw(f)
    <3>1. /\ rows' = rows /\ call[f].id \in rows
          /\ crossed' = IF f \in overtaken THEN crossed \cup {call[f].id} ELSE crossed \ {call[f].id}
      BY <2>4 DEF SaveOwnPassword, SaveReset, SetPassword
    <3>2. f \notin overtaken => (call[f].id \in flagged' <=> call[f].id \in imposed')
      BY <2>4, <3>1 DEF SaveOwnPassword, SaveReset, KnowsFlag
    <3>3. ASSUME NEW i, i # call[f].id
          PROVE  (i \in flagged' <=> i \in flagged) /\ (i \in imposed' <=> i \in imposed)
      BY <2>4, <3>3 DEF SaveOwnPassword, SaveReset
    <3>. QED  BY <3>1, <3>2, <3>3 DEF FlagTellsWhoChose
  <2>5. CASE RemoveUser(f) /\ ~Throw(f)
    BY <2>5 DEF RemoveUser, FlagTellsWhoChose
  <2>. QED  BY <1>3, <2>1, <2>2, <2>3, <2>4, <2>5 DEF Call, PlainStep
<1>4. CASE UNCHANGED vars
  BY <1>1, <1>4 DEF vars, table, history
<1>. QED  BY <1>2, <1>3, <1>4 DEF Next

\* The flag is up for a password that was seeded or reset and down for one its
\* owner chose, but for accounts with a reset and an owner's change that
\* overlapped, until the next call on them that overlaps none.
THEOREM FlagsTell == Spec => []FlagTellsWhoChose
<1>1. Init => FlagsInv
  BY DEF Init, FlagsInv, FlagTellsWhoChose, KnowsFlag
<1>2. TypeOK /\ FlagsInv /\ [Next]_vars => FlagsInv'
  BY FlagStep, KnowsStep DEF FlagsInv
<1>3. FlagsInv => FlagTellsWhoChose
  BY DEF FlagsInv
<1>. QED  BY <1>1, <1>2, <1>3, TypeCorrect, PTL DEF Spec

\* Whoever opens an account with the seeded password or one from a reset is
\* asked for a new one, nobody else is, but for calls that overlapped.
THEOREM FlagsHold == Spec => []FlagsAreKept
BY SeededIsFlagged, FlagsTell, PTL DEF FlagsAreKept
=============================================================================
