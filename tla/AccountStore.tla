---------------------------- MODULE AccountStore ----------------------------
(***************************************************************************)
(* UserService (Web/src/Services/UserService.cs): every read and write of  *)
(* the account table, used by the sign-in, Account and Users pages, and    *)
(* DbInitializer, which seeds the first administrator at startup.          *)
(*                                                                         *)
(* Each call opens a DbContext of its own and holds no transaction across  *)
(* its queries: it reads a row, decides, perhaps counts administrators,    *)
(* and saves.  Each query is a step, so calls from different browsers      *)
(* interleave between them (hashing a password, 210000 rounds, falls       *)
(* between the read and the save).  SaveChanges writes the columns whose   *)
(* value differs from the one READ: a hash always differs (new salt), a    *)
(* flag only when the call changed it; it throws, and writes nothing, when *)
(* the row is gone or the unique index refuses the name.                   *)
(*                                                                         *)
(* Abstracted: a password hash is the password it verifies, a username is  *)
(* in its normalized form and valid, times are left out.                   *)
(***************************************************************************)
EXTENDS Integers

CONSTANTS Flows,        \* browsers: each has a sign-in cookie and makes one call at a time
          Names,        \* usernames people pick, normalized
          Passwords,    \* passwords of at least MinimumPasswordLength characters
          DefaultAdminUsername,
          DefaultAdminPassword, \* shorter than MinimumPasswordLength
          MaxAccounts,  \* bound: rows ever inserted
          MaxOps        \* bound: calls made in one behaviour

ASSUME PasswordAssumption == DefaultAdminPassword \notin Passwords
ASSUME NameAssumption == DefaultAdminUsername \in Names
ASSUME AccountsAssumption == MaxAccounts \in Nat \ {0, 1} /\ MaxOps \in Nat

VARIABLES
    \* the Users table; AUTOINCREMENT never hands out an Id twice
    rows,      \* Ids of the rows it holds
    username, role, secret, \* columns
    flagged,   \* Ids of the rows whose MustChangePassword is true
    nextId,
    \* each browser: its cookie, and the call it makes
    me,        \* the claims of its cookie
    pc,        \* the query its call is at
    call,      \* the call's arguments, and the columns it read
    readFlag,  \* browsers whose call read MustChangePassword as true
    ops,       \* calls made so far
    \* history, read by properties only
    overlaps,  \* browsers whose "last administrator" check passed while another removal was under way
    imposed,   \* Ids whose password was last set by the seed or by a reset
    overtaken, \* browsers: since its change read the row a reset was saved, or the other way round
    crossed    \* Ids whose password was last saved by an overtaken call

table == <<rows, username, role, secret, flagged, nextId>>
browser == <<me, pc, call, readFlag, ops>>
history == <<overlaps, imposed, overtaken, crossed>>
vars == <<table, browser, history>>

Ids == 1..MaxAccounts
Roles == {"User", "Administrator"}
Secrets == Passwords \cup {DefaultAdminPassword}
Steps == {"idle", "signIn", "create", "change", "reset", "count", "countDelete", "setRole", "delete"}

NoOne == [id |-> 0, name |-> DefaultAdminUsername, role |-> "User"]
NoCall == [id |-> 0, name |-> DefaultAdminUsername, role |-> "User", new |-> DefaultAdminPassword]

ValidPassword(p) == p \in Passwords
IsAdministrator(i) == i \in rows /\ role[i] = "Administrator"

\* Mutant: the count does not leave the account itself out.
NoAdministrator(i) == \A j \in Ids \cup {i} : ~IsAdministrator(j)

IsLastAdministrator(i) == \A j \in Ids \ {i} : ~IsAdministrator(j)
Taken(n) == \E i \in rows : username[i] = n

\* The calls about to take account i's administrator role away, or i itself.
Removes(f, i) ==
    /\ call[f].id = i
    /\ \/ pc[f] = "delete"
       \/ pc[f] = "setRole" /\ call[f].role = "User"

(***************************************************************************)
(* Startup.                                                                *)
(***************************************************************************)
\* Mutant: a rowid without AUTOINCREMENT, one above the largest in the table.
ReusedId == CHOOSE i \in 1..nextId : (\A j \in rows : j < i) /\ (i = 1 \/ i - 1 \in rows)

\* AUTOINCREMENT: the next Id, whatever has been deleted since.
InsertedId == nextId

Insert(n, r, p) ==
    /\ InsertedId \in Ids
    /\ rows' = rows \cup {InsertedId}
    /\ username' = [username EXCEPT ![InsertedId] = n]
    /\ role' = [role EXCEPT ![InsertedId] = r]
    /\ secret' = [secret EXCEPT ![InsertedId] = p]
    /\ nextId' = InsertedId + 1

\* A new database file with the seeded account, or the table an earlier run
\* left: the first administrator has picked a password and added another.
Init ==
    /\ \E p \in Secrets, n \in Names \ {DefaultAdminUsername} :
          /\ username = [i \in Ids |-> IF i = 2 THEN n ELSE DefaultAdminUsername]
          /\ role = [i \in Ids |-> "Administrator"]
          /\ secret = [i \in Ids |-> p]
          /\ IF p = DefaultAdminPassword
             THEN rows = {1} /\ flagged = {1} /\ nextId = 2
             ELSE rows = {1, 2} /\ flagged = {} /\ nextId = 3
    /\ imposed = flagged
    /\ me = [f \in Flows |-> NoOne]
    /\ pc = [f \in Flows |-> "idle"]
    /\ call = [f \in Flows |-> NoCall]
    /\ readFlag = {}
    /\ ops = 0
    /\ overlaps = {}
    /\ overtaken = {}
    /\ crossed = {}

\* The process ends, with every call in it, and starts again; cookies stay.
Initialize ==
    /\ pc' = [f \in Flows |-> "idle"]
    /\ call' = [f \in Flows |-> NoCall]
    /\ readFlag' = {}
    /\ \/ /\ rows # {}
          /\ UNCHANGED <<table, imposed>>
       \/ /\ rows = {}
          /\ Insert(DefaultAdminUsername, "Administrator", DefaultAdminPassword)
          /\ flagged' = flagged \cup {InsertedId}
          /\ imposed' = imposed \cup {InsertedId}
    /\ ops < MaxOps
    /\ ops' = ops + 1
    /\ overtaken' = {}
    /\ UNCHANGED <<me, overlaps, crossed>>

(***************************************************************************)
(* One call.                                                               *)
(***************************************************************************)
Start(f, c, step) ==
    /\ pc[f] = "idle"
    /\ ops < MaxOps
    /\ ops' = ops + 1
    /\ pc' = [pc EXCEPT ![f] = step]
    /\ call' = [call EXCEPT ![f] = c]
    /\ readFlag' = IF c.id \in flagged THEN readFlag \cup {f} ELSE readFlag \ {f}
    /\ overtaken' = overtaken \ {f}
    /\ UNCHANGED <<table, me, overlaps, imposed, crossed>>

End(f) ==
    /\ pc' = [pc EXCEPT ![f] = "idle"]
    /\ UNCHANGED <<call, readFlag, ops>>

\* SaveChanges refuses: nothing is written and the call throws.
Throw(f) == End(f) /\ UNCHANGED <<table, me, history>>

ValidateCredentials(f) ==
    \E i \in rows : Start(f, [NoCall EXCEPT !.id = i, !.name = username[i], !.role = role[i]], "signIn")

StampSignIn(f) ==
    /\ pc[f] = "signIn"
    /\ \/ /\ call[f].id \in rows
          /\ me' = [me EXCEPT ![f] = [id |-> call[f].id, name |-> call[f].name, role |-> call[f].role]]
          /\ End(f)
          /\ UNCHANGED <<table, history>>
       \/ call[f].id \notin rows /\ Throw(f)

SignOut(f) ==
    /\ pc[f] = "idle"
    /\ me[f] # NoOne
    /\ me' = [me EXCEPT ![f] = NoOne]
    /\ UNCHANGED <<table, pc, call, readFlag, ops, history>>

\* The Users page: an administrator by the cookie; the rows it was rendered
\* with, deleted ones included, except (for level and delete) the own.
OnUsersPage(f) == me[f].role = "Administrator"
Others(f) == (1..(nextId - 1)) \ {me[f].id}

CreateUser(f) ==
    /\ OnUsersPage(f)
    /\ \E n \in Names, p \in Secrets, r \in Roles :
          /\ ValidPassword(p)
          /\ ~Taken(n)
          /\ Start(f, [NoCall EXCEPT !.name = n, !.role = r, !.new = p], "create")

\* The unique index on Username.
UniqueIndexAllows(n) == ~Taken(n)

InsertUser(f) ==
    /\ pc[f] = "create"
    /\ \/ /\ UniqueIndexAllows(call[f].name)
          /\ Insert(call[f].name, call[f].role, call[f].new)
          /\ End(f)
          /\ UNCHANGED <<flagged, me, history>>
       \/ ~UniqueIndexAllows(call[f].name) /\ Throw(f)

\* The Account page: the own row, by the Id in the cookie.
ChangePassword(f) ==
    /\ me[f].id \in rows
    /\ \E p \in Secrets :
          /\ ValidPassword(p)
          /\ p # secret[me[f].id]
          /\ Start(f, [NoCall EXCEPT !.id = me[f].id, !.new = p], "change")

SetPassword(f) ==
    /\ call[f].id \in rows
    /\ secret' = [secret EXCEPT ![call[f].id] = call[f].new]
    /\ crossed' = IF f \in overtaken THEN crossed \cup {call[f].id} ELSE crossed \ {call[f].id}
    /\ End(f)
    /\ UNCHANGED <<rows, username, role, nextId, me, overlaps>>

\* The calls that have read the row whose password call f saves.
Overtakes(f, step) == {g \in Flows : pc[g] = step /\ call[g].id = call[f].id}

\* Mutant: the change forgets to take the request back.
SaveOwnPasswordFlagged(f) ==
    /\ pc[f] = "change"
    /\ SetPassword(f)
    /\ imposed' = imposed \ {call[f].id}
    /\ overtaken' = overtaken \cup Overtakes(f, "reset")
    /\ UNCHANGED flagged

SaveOwnPassword(f) ==
    /\ pc[f] = "change"
    /\ \/ /\ SetPassword(f)
          /\ flagged' = IF f \in readFlag THEN flagged \ {call[f].id} ELSE flagged
          /\ imposed' = imposed \ {call[f].id}
          /\ overtaken' = overtaken \cup Overtakes(f, "reset")
       \/ call[f].id \notin rows /\ Throw(f)

ResetPassword(f) ==
    /\ OnUsersPage(f)
    /\ \E i \in rows, p \in Secrets :
          /\ ValidPassword(p)
          /\ Start(f, [NoCall EXCEPT !.id = i, !.new = p], "reset")

\* Mutant: the row is written back even if it was deleted since.
SaveResetAnyway(f) ==
    /\ pc[f] = "reset"
    /\ secret' = [secret EXCEPT ![call[f].id] = call[f].new]
    /\ flagged' = flagged \cup {call[f].id}
    /\ imposed' = imposed \cup {call[f].id}
    /\ End(f)
    /\ UNCHANGED <<rows, username, role, nextId, me, overlaps, overtaken, crossed>>

\* A flag that was already true when read is not written again.
SaveReset(f) ==
    /\ pc[f] = "reset"
    /\ \/ /\ SetPassword(f)
          /\ flagged' = IF f \in readFlag THEN flagged ELSE flagged \cup {call[f].id}
          /\ imposed' = imposed \cup {call[f].id}
          /\ overtaken' = overtaken \cup Overtakes(f, "change")
       \/ call[f].id \notin rows /\ Throw(f)

\* An administrator's row is counted around first; a missing row, and the level
\* it already has, need no save.
SetRole(f) ==
    /\ OnUsersPage(f)
    /\ \E i \in Others(f) \cap rows, r \in Roles :
          /\ role[i] # r
          /\ Start(f, [NoCall EXCEPT !.id = i, !.role = r],
                   IF IsAdministrator(i) THEN "count" ELSE "setRole")

DeleteUser(f) ==
    /\ OnUsersPage(f)
    /\ \E i \in Others(f) \cap rows :
          Start(f, [NoCall EXCEPT !.id = i],
                IF IsAdministrator(i) THEN "countDelete" ELSE "delete")

\* IsLastAdministratorAsync: one CountAsync.
CountAdministrators(f) ==
    /\ pc[f] \in {"count", "countDelete"}
    /\ \/ IsLastAdministrator(call[f].id) /\ Throw(f)
       \/ /\ ~IsLastAdministrator(call[f].id)
          /\ pc' = [pc EXCEPT ![f] = IF pc[f] = "count" THEN "setRole" ELSE "delete"]
          /\ overlaps' = IF \E g \in Flows, i \in Ids \ {call[f].id} : Removes(g, i)
                         THEN overlaps \cup {f} ELSE overlaps
          /\ UNCHANGED <<table, me, call, readFlag, ops, imposed, overtaken, crossed>>

SaveRole(f) ==
    /\ pc[f] = "setRole"
    /\ \/ /\ call[f].id \in rows
          /\ role' = [role EXCEPT ![call[f].id] = call[f].role]
          /\ End(f)
          /\ UNCHANGED <<rows, username, secret, flagged, nextId, me, history>>
       \/ call[f].id \notin rows /\ Throw(f)

RemoveUser(f) ==
    /\ pc[f] = "delete"
    /\ \/ /\ call[f].id \in rows
          /\ rows' = rows \ {call[f].id}
          /\ flagged' = flagged \ {call[f].id}
          /\ imposed' = imposed \ {call[f].id}
          /\ End(f)
          /\ UNCHANGED <<username, role, secret, nextId, me, overlaps, overtaken, crossed>>
       \/ call[f].id \notin rows /\ Throw(f)

Call(f) ==
    \/ ValidateCredentials(f) \/ StampSignIn(f) \/ SignOut(f)
    \/ CreateUser(f) \/ InsertUser(f)
    \/ ChangePassword(f) \/ SaveOwnPassword(f)
    \/ ResetPassword(f) \/ SaveReset(f)
    \/ SetRole(f) \/ DeleteUser(f) \/ CountAdministrators(f)
    \/ SaveRole(f) \/ RemoveUser(f)

Next == Initialize \/ \E f \in Flows : Call(f)

Spec == Init /\ [][Next]_vars

(***************************************************************************)
(* Properties.                                                             *)
(***************************************************************************)
Claims == [id : {0} \cup Ids, name : Names, role : Roles]
Calls == [id : {0} \cup Ids, name : Names, role : Roles, new : Secrets]

\* Every variable has its type, a step past its read names a row that was
\* inserted, and only rows carry a flag: what every query finds in the table.
TypeOK ==
    /\ rows \subseteq Ids /\ flagged \subseteq rows
    /\ username \in [Ids -> Names]
    /\ role \in [Ids -> Roles]
    /\ secret \in [Ids -> Secrets]
    /\ nextId \in Nat /\ \A i \in rows : i < nextId
    /\ me \in [Flows -> Claims]
    /\ pc \in [Flows -> Steps]
    /\ call \in [Flows -> Calls]
    /\ \A f \in Flows : pc[f] \notin {"idle", "create"} => call[f].id \in Ids /\ call[f].id < nextId
    /\ readFlag \subseteq Flows
    /\ ops \in 0..MaxOps
    /\ overlaps \subseteq Flows
    /\ imposed \subseteq rows /\ overtaken \subseteq Flows /\ crossed \subseteq Ids

\* No two rows share a username, although CreateUserAsync looks the name up in
\* one query and inserts it in another: "Steve" and "steve" are one account.
UniqueNames == \A i, j \in rows : username[i] = username[j] => i = j

\* The cookie carries the Id and the name of the account signed in with.  As
\* long as a row of that Id exists it is that account: deleting it and adding
\* another never lets the old cookie change somebody else's password.
ClaimsNameTheAccount ==
    \A f \in Flows : me[f].id \in rows => username[me[f].id] = me[f].name

\* A name and a cookie each stand for one account, whoever creates and deletes
\* accounts meanwhile.
IdentityIsKept == UniqueNames /\ ClaimsNameTheAccount

\* The last administrator is never demoted or deleted, in any order of calls,
\* as long as no count was taken while another removal was past its own.
AdministratorRemainsUnlessOverlapping ==
    overlaps = {} => \E i \in Ids : IsAdministrator(i)

\* "The seeded account is flagged so the UI nags until the password is
\* changed": an account that opens with the seeded password is flagged, since
\* no call sets it again and every call that clears the flag replaces it.
SeededPasswordIsFlagged ==
    \A i \in rows : secret[i] = DefaultAdminPassword => i \in flagged

\* The flag says who chose the password: it is up when that was the seed or a
\* reset and down when it was the owner, although a call decides on the flag it
\* read and not on the one it saves over.  A reset and an owner's change that
\* overlap may leave either password with either flag; the next call that does
\* not overlap another sets it right, whatever it was before.
FlagTellsWhoChose == \A i \in rows \ crossed : i \in flagged <=> i \in imposed

\* Who is asked for a new password: the seeded account and those that were
\* reset, and nobody who has picked one since.  Accounts an administrator adds
\* are not ("Share it with them, they can change it later", Users.razor:134).
FlagsAreKept == SeededPasswordIsFlagged /\ FlagTellsWhoChose
=============================================================================
