--------------------------- MODULE WhitelistProofs ---------------------------
(***************************************************************************)
(* Theorems about Whitelist, for every set of pages and accounts.          *)
(***************************************************************************)
EXTENDS Whitelist, TLAPS

(***************************************************************************)
(* Lemmas about lists.                                                     *)
(***************************************************************************)
\* The empty list is a list, and lists stay lists.
LEMMA EmptyIsContents == Empty \in Contents
BY DEF Empty, Contents

\* A list with one entry more, or less, is a list.
LEMMA ChangedContents ==
    ASSUME NEW c \in Contents, NEW n \in Names, NEW f \in Forms
    PROVE  Put(c, <<n, f>>) \in Contents /\ TakeOff(c, <<n, f>>) \in Contents
<1>. DEFINE e == <<n, f>>
<1>1. e \in Entries /\ c[e] \in Nat
  BY DEF Entries, Contents
<1>. QED  BY <1>1 DEF Put, TakeOff, Contents

\* What Mojang answers makes an entry.
LEMMA MojangContents ==
    ASSUME NEW c \in Contents, NEW n \in Names
    PROVE  Put(c, MojangPlayer(n)) \in Contents /\ TakeOff(c, MojangPlayer(n)) \in Contents
BY ChangedContents DEF MojangPlayer, Forms

\* What a file holds is a list.
LEMMA StoredIsContents ==
    ASSUME NEW f \in Contents \cup {NoFile, Nothing, Garbled}
    PROVE  Stored(f) \in Contents
BY EmptyIsContents DEF Stored

\* The values that are not lists are not.
LEMMA NotContents ==
    /\ NoFile \notin Contents /\ Nothing \notin Contents /\ Garbled \notin Contents
    /\ NoFile # Nothing /\ NoFile # Garbled /\ Nothing # Garbled
BY ContentsAssumption

Steps == Saving \cup Loading \cup {"closed", "ready"}

(***************************************************************************)
(* Type correctness, in parts that different actions disturb.              *)
(***************************************************************************)
StoreType ==
    /\ file \in Contents \cup {NoFile, Nothing, Garbled}
    /\ list \in Contents \cup {Nothing}
    /\ alias # {} => list \in Contents
ViewType == pc \in [Pages -> Steps] /\ shown \in [Pages -> Contents] /\ alias \subseteq Pages
StagedType ==
    /\ additions \in [Pages -> SUBSET Names] /\ removals \in [Pages -> SUBSET Names]
    /\ looking \in [Pages -> SUBSET Names]
LocalsType ==
    /\ adding \in [Pages -> SUBSET Names] /\ removing \in [Pages -> SUBSET Names]
    /\ now \in [Pages -> Names \cup {NoName}]
    /\ text \in [Pages -> Contents \cup {NoFile, Nothing}]
NamesToWrite == \A p \in Pages : pc[p] \in Changing => now[p] \in adding[p] \cup removing[p]
CountersType == typed \in 0..MaxTyped /\ saves \in 0..MaxSaves /\ stops \in 0..MaxStops
HistoryType ==
    /\ expected \in Contents
    /\ harm \subseteq {"overlap", "failure", "stale"}
    /\ late \subseteq Pages
    /\ removed \subseteq Names
SeenType == unseen \in BOOLEAN

\* The parts are all of it.
LEMMA TypeParts ==
    /\ TypeOK <=> /\ StoreType /\ ViewType /\ StagedType /\ LocalsType
                  /\ NamesToWrite /\ CountersType /\ HistoryType /\ SeenType
    /\ TypeOK' <=> /\ StoreType' /\ ViewType' /\ StagedType' /\ LocalsType'
                   /\ NamesToWrite' /\ CountersType' /\ HistoryType' /\ SeenType'
BY DEF TypeOK, StoreType, ViewType, StagedType, LocalsType, NamesToWrite, CountersType, HistoryType, SeenType, Steps

\* The first states are well typed.
LEMMA TypeInit == Init => TypeOK
<1>. SUFFICES ASSUME Init PROVE TypeOK
  OBVIOUS
<1>1. file \in Contents \cup {NoFile}
  BY DEF Init, Contents
<1>2. StoreType
  BY <1>1, EmptyIsContents DEF Init, StoreType
<1>3. ViewType /\ NamesToWrite
  BY EmptyIsContents DEF Init, ViewType, Steps, NamesToWrite, Changing
<1>4. StagedType /\ LocalsType
  BY DEF Init, StagedType, LocalsType
<1>5. CountersType
  BY BoundsAssumption DEF Init, CountersType
<1>6. HistoryType
  BY <1>1, StoredIsContents DEF Init, HistoryType
<1>7. SeenType
  BY DEF Init, SeenType
<1>. QED  BY <1>2, <1>3, <1>4, <1>5, <1>6, <1>7, TypeParts

\* The staging actions.
LEMMA StagingType ==
    ASSUME TypeOK, NEW p \in Pages,
           \/ OpenPage(p) \/ ClosePage(p) \/ AddAsync(p) \/ LookupAnswers(p) \/ Remove(p)
           \/ CancelAdd(p) \/ CancelRemove(p) \/ DiscardAll(p) \/ SaveAsync(p)
    PROVE  TypeOK'
<1>. USE TypeParts
<1>. /\ StoreType /\ ViewType /\ StagedType /\ LocalsType
     /\ NamesToWrite /\ CountersType /\ HistoryType /\ SeenType
  OBVIOUS
<1>1. StoreType' /\ HistoryType' /\ SeenType'
  <2>. file' = file /\ list' = list /\ alias' \subseteq alias /\ UNCHANGED history
    BY DEF OpenPage, ClosePage, AddAsync, LookupAnswers, Remove, CancelAdd, CancelRemove, DiscardAll, SaveAsync, view
  <2>. QED  BY DEF StoreType, HistoryType, SeenType, history
<1>2. ViewType'
  BY EmptyIsContents DEF OpenPage, ClosePage, AddAsync, LookupAnswers, Remove, CancelAdd, CancelRemove, DiscardAll, SaveAsync,
     view, ViewType, Goto, Steps, Saving, Loading
<1>3. StagedType'
  BY DEF OpenPage, ClosePage, AddAsync, LookupAnswers, Remove, CancelAdd, CancelRemove, DiscardAll, SaveAsync, staged, StagedType
<1>4. LocalsType'
  BY DEF OpenPage, ClosePage, AddAsync, LookupAnswers, Remove, CancelAdd, CancelRemove, DiscardAll, SaveAsync, locals, LocalsType, StagedType
<1>5. NamesToWrite'
  BY DEF OpenPage, ClosePage, AddAsync, LookupAnswers, Remove, CancelAdd, CancelRemove, DiscardAll, SaveAsync,
     locals, Goto, NamesToWrite, ViewType, LocalsType, Changing
<1>6. CountersType'
  <2>1. \/ UNCHANGED counters
        \/ typed < MaxTyped /\ typed' = typed + 1 /\ saves' = saves /\ stops' = stops
        \/ saves < MaxSaves /\ saves' = saves + 1 /\ typed' = typed /\ stops' = stops
    BY DEF OpenPage, ClosePage, AddAsync, LookupAnswers, Remove, CancelAdd, CancelRemove, DiscardAll, SaveAsync, counters
  <2>2. CASE UNCHANGED counters
    BY <2>2 DEF counters, CountersType
  <2>3. CASE typed < MaxTyped /\ typed' = typed + 1 /\ saves' = saves /\ stops' = stops
    BY <2>3, BoundsAssumption DEF CountersType
  <2>4. CASE saves < MaxSaves /\ saves' = saves + 1 /\ typed' = typed /\ stops' = stops
    BY <2>4, BoundsAssumption DEF CountersType
  <2>. QED  BY <2>1, <2>2, <2>3, <2>4
<1>. QED  BY <1>1, <1>2, <1>3, <1>4, <1>5, <1>6

\* The actions that change the list.
LEMMA ListType ==
    ASSUME TypeOK, NEW p \in Pages, AddToList(p) \/ RemoveFromList(p)
    PROVE  TypeOK'
<1>. USE TypeParts
<1>. /\ StoreType /\ ViewType /\ StagedType /\ LocalsType
     /\ NamesToWrite /\ CountersType /\ HistoryType /\ SeenType
  OBVIOUS
<1>1. PICK n \in adding[p] \cup removing[p] :
         /\ list # Nothing
         /\ list' = Put(list, MojangPlayer(n)) \/ list' = TakeOff(list, MojangPlayer(n))
         /\ expected' = Put(expected, MojangPlayer(n)) \/ expected' = TakeOff(expected, MojangPlayer(n))
         /\ now' = [now EXCEPT ![p] = n]
         /\ removed' \subseteq removed
  BY DEF AddToList, RemoveFromList
<1>2. n \in Names
  BY DEF LocalsType
<1>3. StoreType'
  <2>. file' = file /\ alias' = alias
    BY DEF AddToList, RemoveFromList, view
  <2>. QED  BY <1>1, <1>2, MojangContents DEF StoreType
<1>4. ViewType' /\ StagedType' /\ CountersType'
  BY DEF AddToList, RemoveFromList, view, staged, counters, ViewType, StagedType, CountersType, Goto, Steps, Saving, Changing
<1>5. LocalsType' /\ NamesToWrite'
  BY <1>1, <1>2 DEF AddToList, RemoveFromList, Goto, LocalsType, NamesToWrite, ViewType
<1>6. HistoryType'
  <2>1. harm' \subseteq {"overlap", "failure", "stale"} /\ unseen' = unseen /\ late' = late
    BY DEF AddToList, RemoveFromList, HarmOfChange, Overlap, HistoryType
  <2>2. expected' \in Contents
    BY <1>1, <1>2, MojangContents DEF HistoryType
  <2>. QED  BY <1>1, <1>2, <2>1, <2>2 DEF HistoryType
<1>7. SeenType'
  BY DEF AddToList, RemoveFromList, SeenType
<1>. QED  BY <1>3, <1>4, <1>5, <1>6, <1>7

\* Two threads in the list at once.
LEMMA CollisionType ==
    ASSUME TypeOK, NEW p \in Pages, NEW q \in Pages, AddsCollide(p, q)
    PROVE  TypeOK'
<1>. USE TypeParts
<1>. /\ StoreType /\ ViewType /\ StagedType /\ LocalsType
     /\ NamesToWrite /\ CountersType /\ HistoryType /\ SeenType
  OBVIOUS
<1>1. PICK m \in adding[p], n \in adding[q] :
         /\ list # Nothing
         /\ list' = Put(list, MojangPlayer(m))
         /\ expected' = Put(Put(expected, MojangPlayer(m)), MojangPlayer(n))
         /\ now' = [now EXCEPT ![p] = m, ![q] = n]
         /\ removed' = removed \ {m, n}
  BY DEF AddsCollide
<1>2. m \in Names /\ n \in Names /\ p # q
  BY DEF LocalsType, AddsCollide
<1>3. StoreType'
  BY <1>1, <1>2, MojangContents DEF AddsCollide, StoreType, view
<1>4. ViewType' /\ StagedType' /\ CountersType'
  BY DEF AddsCollide, view, staged, counters, ViewType, StagedType, CountersType, Steps, Saving, Changing
<1>5. LocalsType' /\ NamesToWrite'
  BY <1>1, <1>2 DEF AddsCollide, LocalsType, NamesToWrite, ViewType
<1>6. HistoryType'
  <2>1. expected' \in Contents
    BY <1>1, <1>2, MojangContents DEF HistoryType
  <2>. QED  BY <1>1, <1>2, <2>1 DEF AddsCollide, HistoryType
<1>7. SeenType'
  BY DEF AddsCollide, SeenType
<1>. QED  BY <1>3, <1>4, <1>5, <1>6, <1>7

\* The rest of a save.
LEMMA SavingType ==
    ASSUME TypeOK, NEW p \in Pages,
           StartRemovals(p) \/ OpenFile(p) \/ WriteFile(p) \/ EndSave(p) \/ SaveFails(p)
    PROVE  TypeOK'
<1>. USE TypeParts
<1>. /\ StoreType /\ ViewType /\ StagedType /\ LocalsType
     /\ NamesToWrite /\ CountersType /\ HistoryType /\ SeenType
  OBVIOUS
<1>1. StoreType'
  BY DEF StartRemovals, OpenFile, WriteFile, EndSave, SaveFails, view, StoreType, Written, LocalsType
<1>2. ViewType' /\ StagedType' /\ CountersType'
  <2>1. UNCHANGED <<view, staged, counters>> /\ \E step \in Steps : Goto(p, step)
    BY DEF StartRemovals, OpenFile, WriteFile, EndSave, SaveFails, Steps, Saving, Loading, Changing
  <2>. QED  BY <2>1 DEF view, staged, counters, ViewType, StagedType, CountersType, Goto
<1>3. LocalsType'
  BY DEF StartRemovals, OpenFile, WriteFile, EndSave, SaveFails, locals, LocalsType, StagedType, StoreType
<1>4. NamesToWrite'
  BY DEF StartRemovals, OpenFile, WriteFile, EndSave, SaveFails, locals, Goto, LocalsType, NamesToWrite, ViewType, Changing
<1>5. HistoryType'
  <2>1. removed' \subseteq Names
    BY DEF StartRemovals, OpenFile, WriteFile, EndSave, SaveFails, history, HistoryType, NamesToWrite, LocalsType, Changing
  <2>2. expected' = expected /\ unseen' = unseen
    BY DEF StartRemovals, OpenFile, WriteFile, EndSave, SaveFails, history
  <2>3. late' \subseteq Pages /\ harm' \subseteq {"overlap", "failure", "stale"}
    BY DEF StartRemovals, OpenFile, WriteFile, EndSave, SaveFails, history, HistoryType
  <2>. QED  BY <2>1, <2>2, <2>3 DEF HistoryType
<1>6. SeenType'
  BY DEF StartRemovals, OpenFile, WriteFile, EndSave, SaveFails, history, SeenType
<1>. QED  BY <1>1, <1>2, <1>3, <1>4, <1>5, <1>6

\* A load.
LEMMA LoadingType ==
    ASSUME TypeOK, NEW p \in Pages,
           ReadFile(p) \/ TakeList(p) \/ FindNoFile(p) \/ TakeNothing(p) \/ LoadFails(p)
    PROVE  TypeOK'
<1>. USE TypeParts
<1>. /\ StoreType /\ ViewType /\ StagedType /\ LocalsType
     /\ NamesToWrite /\ CountersType /\ HistoryType /\ SeenType
  OBVIOUS
<1>1. StoreType'
  <2>1. CASE ReadFile(p) \/ FindNoFile(p) \/ LoadFails(p)
    BY <2>1 DEF ReadFile, FindNoFile, LoadFails, view, StoreType
  <2>2. CASE TakeList(p)
    BY <2>2 DEF TakeList, StoreType, LocalsType
  <2>3. CASE TakeNothing(p)
    BY <2>3 DEF TakeNothing, StoreType
  <2>. QED  BY <2>1, <2>2, <2>3
<1>2. ViewType'
  <2>1. CASE ReadFile(p) \/ FindNoFile(p) \/ LoadFails(p)
    BY <2>1, EmptyIsContents DEF ReadFile, FindNoFile, LoadFails, view, ViewType, Goto, Steps, Loading
  <2>2. CASE TakeList(p) \/ TakeNothing(p)
    <3>1. shown' \in [Pages -> Contents]
      BY <2>2 DEF TakeList, TakeNothing, Detach, ViewType, StoreType
    <3>. QED  BY <2>2, <3>1 DEF TakeList, TakeNothing, ViewType, Goto, Steps
  <2>. QED  BY <2>1, <2>2
<1>3. StagedType' /\ CountersType'
  BY DEF ReadFile, TakeList, FindNoFile, TakeNothing, LoadFails, staged, counters, Unstage, StagedType, CountersType
<1>4. LocalsType' /\ NamesToWrite'
  <2>1. LocalsType'
    BY DEF ReadFile, TakeList, FindNoFile, TakeNothing, LoadFails, locals, LocalsType, StoreType
  <2>2. /\ adding' = adding /\ removing' = removing /\ now' = now
        /\ \E step \in Steps \ Changing : Goto(p, step)
    BY DEF ReadFile, TakeList, FindNoFile, TakeNothing, LoadFails, locals, Steps, Loading, Changing
  <2>. QED  BY <2>1, <2>2 DEF Goto, NamesToWrite, ViewType
<1>5. HistoryType'
  BY DEF ReadFile, TakeList, FindNoFile, TakeNothing, LoadFails, Overlap, HistoryType, history
<1>6. SeenType'
  <2>1. CASE ReadFile(p) \/ LoadFails(p) \/ TakeNothing(p)
    BY <2>1 DEF ReadFile, LoadFails, TakeNothing, SeenType, history
  <2>2. CASE TakeList(p) \/ FindNoFile(p)
    <3>1. (p \in late) \in BOOLEAN
      OBVIOUS
    <3>2. unseen' = (p \in late)
      BY <2>2 DEF TakeList, FindNoFile
    <3>. QED  BY <3>1, <3>2 DEF SeenType
  <2>. QED  BY <2>1, <2>2
<1>. QED  BY <1>1, <1>2, <1>3, <1>4, <1>5, <1>6

\* What the Minecraft server makes of the file.
LEMMA ServerType == TypeOK /\ ServerWrites => TypeOK'
<1>. USE TypeParts
<1>. SUFFICES ASSUME /\ StoreType /\ ViewType /\ StagedType /\ LocalsType
                     /\ NamesToWrite /\ CountersType /\ HistoryType /\ SeenType, ServerWrites
              PROVE  TypeOK'
  OBVIOUS
<1>1. PICK n \in Names :
          \/ /\ file' = Put(Stored(file), <<n, "dashed">>)
             /\ expected' = Put(expected, <<n, "dashed">>)
             /\ removed' = removed \ {n}
          \/ /\ file' = [e \in Entries |-> IF e[1] = n THEN 0 ELSE Stored(file)[e]]
             /\ expected' = [e \in Entries |-> IF e[1] = n THEN 0 ELSE expected[e]]
             /\ UNCHANGED removed
  BY DEF ServerWrites
<1>2. file' \in Contents /\ expected' \in Contents
  <2>1. Stored(file) \in Contents /\ expected \in Contents
    BY StoredIsContents DEF StoreType, HistoryType
  <2>2. CASE file' = Put(Stored(file), <<n, "dashed">>) /\ expected' = Put(expected, <<n, "dashed">>)
    BY <2>1, <2>2, ChangedContents DEF Forms
  <2>3. CASE /\ file' = [e \in Entries |-> IF e[1] = n THEN 0 ELSE Stored(file)[e]]
             /\ expected' = [e \in Entries |-> IF e[1] = n THEN 0 ELSE expected[e]]
    BY <2>1, <2>3 DEF Contents
  <2>. QED  BY <1>1, <2>2, <2>3
<1>3. StoreType'
  BY <1>2 DEF ServerWrites, view, StoreType
<1>4. ViewType' /\ StagedType' /\ LocalsType' /\ NamesToWrite'
  BY DEF ServerWrites, view, staged, locals, ViewType, StagedType, LocalsType, NamesToWrite
<1>5. CountersType'
  BY BoundsAssumption DEF ServerWrites, CountersType
<1>6. HistoryType'
  BY <1>1, <1>2 DEF ServerWrites, HistoryType
<1>7. SeenType'
  BY DEF ServerWrites, SeenType
<1>. QED  BY <1>3, <1>4, <1>5, <1>6, <1>7

\* A restart leaves a store as in the beginning.
LEMMA RestartType == TypeOK /\ Restart => TypeOK'
<1>. USE TypeParts
<1>. SUFFICES ASSUME StoreType, CountersType, HistoryType, SeenType, Restart PROVE TypeOK'
  OBVIOUS
<1>1. StoreType' /\ ViewType'
  BY EmptyIsContents DEF Restart, StoreType, ViewType, Steps
<1>2. StagedType' /\ LocalsType' /\ NamesToWrite'
  BY DEF Restart, StagedType, LocalsType, NamesToWrite, Changing
<1>3. CountersType'
  BY BoundsAssumption DEF Restart, CountersType
<1>4. HistoryType' /\ SeenType'
  BY DEF Restart, HistoryType, SeenType
<1>. QED  BY <1>1, <1>2, <1>3, <1>4

\* Every step keeps the types.
LEMMA TypeStep == TypeOK /\ [Next]_vars => TypeOK'
<1>. SUFFICES ASSUME TypeOK, [Next]_vars PROVE TypeOK'
  OBVIOUS
<1>1. ASSUME NEW p \in Pages, Step(p) PROVE TypeOK'
  BY <1>1, StagingType, ListType, SavingType, LoadingType DEF Step
<1>2. ASSUME NEW p \in Pages, NEW q \in Pages, AddsCollide(p, q) PROVE TypeOK'
  BY <1>2, CollisionType
<1>3. CASE ServerWrites \/ Restart
  BY <1>3, ServerType, RestartType
<1>4. CASE UNCHANGED vars
  BY <1>4 DEF vars, view, staged, locals, counters, history, TypeOK
<1>. QED  BY <1>1, <1>2, <1>3, <1>4 DEF Next

\* Every variable keeps its type.
THEOREM TypeCorrect == Spec => []TypeOK
BY TypeInit, TypeStep, PTL DEF Spec

(***************************************************************************)
(* The list is never null and the file readable, by induction on: without  *)
(* harm to writes there is one change at a time, the file is empty only in *)
(* its write, and nobody has read it then.                                 *)
(***************************************************************************)
Unharmed == harm \cap {"overlap", "failure"} = {}
OneChange == \A p, q \in Pages : pc[p] \in Changing /\ pc[q] \in Changing => p = q
WritesAList == \A p \in Pages : pc[p] = "write" => file = Nothing /\ text[p] \in Contents
ReadsAFile == \A p \in Pages : pc[p] = "take" => text[p] # Nothing
Legible == (\A p \in Pages : pc[p] # "write") => file \notin {Nothing, Garbled}
Usable == list # Nothing /\ OneChange /\ WritesAList /\ ReadsAFile /\ Legible
UsableInv == TypeOK /\ (Unharmed => Usable)

\* Harm is for ever.
LEMMA HarmStays == ASSUME Next PROVE harm \subseteq harm'
BY DEF Next, Step, AddsCollide, ServerWrites, Restart, OpenPage, ClosePage, AddAsync, LookupAnswers, Remove,
   CancelAdd, CancelRemove, DiscardAll, SaveAsync, AddToList, StartRemovals, RemoveFromList, OpenFile,
   WriteFile, EndSave, SaveFails, ReadFile, TakeList, FindNoFile, TakeNothing, LoadFails, history

\* A step that does no harm keeps the store usable.
LEMMA UsableStep == UsableInv /\ [Next]_vars => UsableInv'
<1>. SUFFICES ASSUME UsableInv, [Next]_vars, Unharmed', TypeOK' PROVE Usable'
  BY TypeStep DEF UsableInv
<1>. USE DEF Changing
<1>0. CASE UNCHANGED vars
  BY <1>0 DEF vars, view, staged, locals, counters, history, UsableInv, Unharmed, Usable, OneChange, WritesAList, ReadsAFile, Legible
<1>1. CASE Next
  <2>1. Usable /\ TypeOK
    BY <1>1, HarmStays DEF UsableInv, Unharmed
  <2>2. pc \in [Pages -> Steps] /\ text \in [Pages -> Contents \cup {NoFile, Nothing}] /\ list \in Contents
    BY <2>1 DEF TypeOK, Steps, Usable
  <2>3. ASSUME NEW p \in Pages,
               \/ AddAsync(p) \/ LookupAnswers(p) \/ Remove(p)
               \/ CancelAdd(p) \/ CancelRemove(p) \/ DiscardAll(p)
        PROVE  Usable'
    <3>1. UNCHANGED <<file, list, pc, text>>
      BY <2>3 DEF AddAsync, LookupAnswers, Remove, CancelAdd, CancelRemove, DiscardAll, locals
    <3>. QED  BY <2>1, <3>1 DEF Usable, OneChange, WritesAList, ReadsAFile, Legible
  <2>4. ASSUME NEW p \in Pages,
               \/ OpenPage(p) \/ ClosePage(p) \/ SaveAsync(p) \/ StartRemovals(p)
               \/ EndSave(p) \/ FindNoFile(p) \/ LoadFails(p)
        PROVE  Usable'
    <3>1. /\ UNCHANGED <<file, list>>
          /\ \A q \in Pages : pc'[q] \in Changing \cup {"take"} <=> pc[q] \in Changing \cup {"take"} /\ ~(pc[p] = "take" /\ q = p)
          /\ \A q \in Pages : pc'[q] \in Changing \cup {"take"} => pc'[q] = pc[q] /\ text'[q] = text[q]
          /\ pc[p] # "write"
      BY <2>2, <2>4 DEF OpenPage, ClosePage, SaveAsync, StartRemovals, EndSave, FindNoFile, LoadFails, locals, Goto
    <3>2. \A q \in Pages : pc[q] = "write" => pc'[q] = "write"
      BY <3>1
    <3>. QED  BY <2>1, <3>1, <3>2 DEF Usable, OneChange, WritesAList, ReadsAFile, Legible
  <2>5. ASSUME NEW p \in Pages, AddToList(p) \/ RemoveFromList(p) PROVE Usable'
    <3>1. ~Interrupted(p)
      BY <2>5 DEF AddToList, RemoveFromList, HarmOfChange, Overlap, Unharmed
    <3>2. file' = file /\ text' = text /\ pc' = [pc EXCEPT ![p] = "open"] /\ pc[p] \notin Changing
      BY <2>5 DEF AddToList, RemoveFromList, Goto
    <3>3. list' # Nothing
      <4>1. PICK n \in Names : list' = Put(list, MojangPlayer(n)) \/ list' = TakeOff(list, MojangPlayer(n))
        BY <2>1, <2>5 DEF AddToList, RemoveFromList, TypeOK
      <4>. QED  BY <4>1, <2>2, MojangContents, NotContents
    <3>. QED  BY <2>1, <2>2, <3>1, <3>2, <3>3 DEF Usable, OneChange, WritesAList, ReadsAFile, Legible, Interrupted
  <2>6. ASSUME NEW p \in Pages, OpenFile(p) PROVE Usable'
    <3>1. list' = list /\ file' = Nothing /\ pc[p] = "open"
          /\ text' = [text EXCEPT ![p] = list] /\ pc' = [pc EXCEPT ![p] = "write"]
      BY <2>6 DEF OpenFile, Goto
    <3>. QED  BY <2>1, <2>2, <3>1 DEF Usable, OneChange, WritesAList, ReadsAFile, Legible
  <2>7. ASSUME NEW p \in Pages, WriteFile(p) PROVE Usable'
    <3>1. /\ list' = list /\ file' \in Written(p) /\ pc[p] = "write"
          /\ text' = [text EXCEPT ![p] = Nothing] /\ \E step \in Saving \ Changing : Goto(p, step)
      BY <2>7 DEF WriteFile, Saving
    <3>2. file' = text[p] /\ text[p] \in Contents
      BY <2>1, <3>1 DEF Usable, WritesAList, Written
    <3>3. /\ pc'[p] \in Saving \ Changing
          /\ \A q \in Pages \ {p} : pc'[q] = pc[q] /\ text'[q] = text[q] /\ pc[q] # "write"
      BY <2>1, <2>2, <3>1 DEF Goto, Usable, OneChange
    <3>. QED  BY <2>1, <3>1, <3>2, <3>3, NotContents DEF Usable, OneChange, WritesAList, ReadsAFile, Legible, Saving
  <2>8. ASSUME NEW p \in Pages, SaveFails(p) PROVE Usable'
    <3>1. pc[p] \notin Changing
      BY <2>8 DEF SaveFails, Unharmed
    <3>2. file' = file /\ list' = list /\ text' = [text EXCEPT ![p] = Nothing] /\ pc' = [pc EXCEPT ![p] = "ready"]
      BY <2>8, <3>1 DEF SaveFails, Goto
    <3>. QED  BY <2>1, <2>2, <3>1, <3>2 DEF Usable, OneChange, WritesAList, ReadsAFile, Legible
  <2>9. ASSUME NEW p \in Pages, ReadFile(p) PROVE Usable'
    <3>1. ~Interrupted(p)
      BY <2>9 DEF ReadFile, Overlap, Unharmed
    <3>2. /\ UNCHANGED <<file, list>> /\ pc[p] = "load"
          /\ pc' = [pc EXCEPT ![p] = "take"] /\ text' = [text EXCEPT ![p] = file]
      BY <2>9 DEF ReadFile, Goto
    <3>3. file # Nothing
      BY <2>1, <3>1, <3>2 DEF Usable, Legible, Interrupted
    <3>. QED  BY <2>1, <2>2, <3>1, <3>2, <3>3 DEF Usable, OneChange, WritesAList, ReadsAFile, Legible, Interrupted
  <2>10. ASSUME NEW p \in Pages, TakeList(p) PROVE Usable'
    <3>1. /\ file' = file /\ list' = text[p] /\ text[p] # Nothing /\ pc[p] = "take"
          /\ text' = [text EXCEPT ![p] = Nothing] /\ pc' = [pc EXCEPT ![p] = "ready"]
      BY <2>10 DEF TakeList, Goto
    <3>. QED  BY <2>1, <2>2, <3>1 DEF Usable, OneChange, WritesAList, ReadsAFile, Legible
  <2>11. ASSUME NEW p \in Pages, TakeNothing(p) PROVE Usable'
    BY <2>1, <2>11 DEF TakeNothing, Usable, ReadsAFile
  <2>12. ASSUME NEW p \in Pages, NEW q \in Pages, AddsCollide(p, q) PROVE Usable'
    BY <2>12 DEF AddsCollide, Unharmed
  <2>13. CASE ServerWrites
    <3>1. \A p \in Pages : pc[p] \notin Changing
      BY <2>13 DEF ServerWrites, Unharmed
    <3>2. file' \in Contents
      <4>1. Stored(file) \in Contents
        BY <2>1, StoredIsContents DEF TypeOK
      <4>2. \A n \in Names : Put(Stored(file), <<n, "dashed">>) \in Contents
        BY <4>1, ChangedContents DEF Forms
      <4>3. \A n \in Names : [e \in Entries |-> IF e[1] = n THEN 0 ELSE Stored(file)[e]] \in Contents
        BY <4>1 DEF Contents
      <4>. QED  BY <2>13, <4>2, <4>3 DEF ServerWrites
    <3>3. UNCHANGED <<list, pc, text>>
      BY <2>13 DEF ServerWrites, locals
    <3>. QED  BY <2>1, <3>1, <3>2, <3>3, NotContents DEF Usable, OneChange, WritesAList, ReadsAFile, Legible
  <2>14. CASE Restart
    <3>1. \A p \in Pages : pc[p] \notin Changing
      BY <2>14 DEF Restart, Unharmed
    <3>2. file' = file /\ list' = Empty /\ pc' = [p \in Pages |-> "closed"]
      BY <2>14 DEF Restart
    <3>. QED  BY <2>1, <3>1, <3>2, EmptyIsContents, NotContents DEF Usable, OneChange, WritesAList, ReadsAFile, Legible
  <2>. QED  BY <1>1, <2>3, <2>4, <2>5, <2>6, <2>7, <2>8, <2>9, <2>10, <2>11, <2>12, <2>13, <2>14 DEF Next, Step
<1>. QED  BY <1>0, <1>1

\* The static list is never null, and the file readable between writes, unless
\* a write met another page's load or write, or was cut short.
THEOREM ListStaysUsable == Spec => []ListIsUsable
<1>1. Init => UsableInv
  <2>. SUFFICES ASSUME Init PROVE Usable
    BY TypeInit DEF UsableInv
  <2>1. file \in Contents \cup {NoFile} /\ list = Empty /\ \A p \in Pages : pc[p] = "closed"
    BY DEF Init, Contents
  <2>. QED  BY <2>1, EmptyIsContents, NotContents DEF Usable, OneChange, WritesAList, ReadsAFile, Legible, Changing
<1>2. UsableInv => ListIsUsable
  BY DEF UsableInv, ListIsUsable, Unharmed, Usable, Legible, AtRest, Changing
<1>. QED  BY <1>1, UsableStep, <1>2, PTL DEF Spec

(***************************************************************************)
(* What the saves have made of the list is what is stored.  Inductive with *)
(* what a change in progress, and a load in progress, hold; and a store    *)
(* without a file has an empty list.                                       *)
(***************************************************************************)
FileIsExpected == AtRest => Stored(file) = expected
ListIsExpected == AtRest /\ ~unseen => list = expected
ChangeIsExpected == \A p \in Pages :
    /\ pc[p] \in Changing => list = expected
    /\ pc[p] = "write" => text[p] = expected
LoadIsFresh == AtRest => \A p \in Pages \ late : pc[p] = "take" => text[p] = file
NoFileNoList ==
    file = NoFile => /\ AtRest => list = Empty
                     /\ \A p \in Pages : pc[p] = "take" => text[p] = NoFile
Serial == FileIsExpected /\ ListIsExpected /\ ChangeIsExpected /\ LoadIsFresh /\ NoFileNoList
SerialInv == UsableInv /\ (Harmless => Serial)

\* A step keeps what was stored, or does it harm.
LEMMA SerialStep == SerialInv /\ [Next]_vars => SerialInv'
<1>. SUFFICES ASSUME SerialInv, [Next]_vars, Harmless', TypeOK' PROVE Serial'
  BY UsableStep, TypeStep DEF SerialInv, UsableInv
<1>. USE DEF Changing
<1>0. CASE UNCHANGED vars
  BY <1>0 DEF vars, view, staged, locals, counters, history, SerialInv, Harmless, Serial, AtRest,
     FileIsExpected, ListIsExpected, ChangeIsExpected, LoadIsFresh, NoFileNoList
<1>1. CASE Next
  <2>1. Serial /\ Usable /\ TypeOK
    BY <1>1, HarmStays DEF SerialInv, UsableInv, Harmless, Unharmed
  <2>2. /\ pc \in [Pages -> Steps] /\ text \in [Pages -> Contents \cup {NoFile, Nothing}]
        /\ list \in Contents /\ expected \in Contents
        /\ file \in Contents \cup {NoFile, Nothing, Garbled}
    BY <2>1 DEF TypeOK, Steps, Usable
  <2>3. ASSUME NEW p \in Pages,
               \/ AddAsync(p) \/ LookupAnswers(p) \/ Remove(p)
               \/ CancelAdd(p) \/ CancelRemove(p) \/ DiscardAll(p)
        PROVE  Serial'
    <3>1. UNCHANGED <<file, list, pc, text, expected, unseen, late>>
      BY <2>3 DEF AddAsync, LookupAnswers, Remove, CancelAdd, CancelRemove, DiscardAll, locals, history
    <3>. QED  BY <2>1, <3>1 DEF Serial, AtRest, FileIsExpected, ListIsExpected, ChangeIsExpected, LoadIsFresh, NoFileNoList
  <2>4. ASSUME NEW p \in Pages,
               \/ OpenPage(p) \/ ClosePage(p) \/ SaveAsync(p) \/ StartRemovals(p)
               \/ EndSave(p) \/ LoadFails(p) \/ SaveFails(p)
        PROVE  Serial'
    <3>1. pc[p] \notin Changing
      BY <2>4 DEF OpenPage, ClosePage, SaveAsync, StartRemovals, EndSave, LoadFails, SaveFails, Harmless
    <3>2. UNCHANGED <<file, list, expected, unseen, late>> /\ pc[p] # "take"
      BY <2>4, <3>1 DEF OpenPage, ClosePage, SaveAsync, StartRemovals, EndSave, LoadFails, SaveFails, history
    <3>3. /\ \A q \in Pages : pc'[q] \in Changing \cup {"take"} => pc'[q] = pc[q] /\ text'[q] = text[q]
          /\ \A q \in Pages : pc[q] \in Changing => pc'[q] = pc[q]
      BY <2>2, <2>4, <3>1 DEF OpenPage, ClosePage, SaveAsync, StartRemovals, EndSave, LoadFails, SaveFails, locals, Goto
    <3>4. AtRest' <=> AtRest
      BY <3>3 DEF AtRest
    <3>. QED  BY <2>1, <3>2, <3>3, <3>4 DEF Serial, FileIsExpected, ListIsExpected, ChangeIsExpected, LoadIsFresh, NoFileNoList
  <2>5. ASSUME NEW p \in Pages, AddToList(p) \/ RemoveFromList(p) PROVE Serial'
    <3>1. ~Interrupted(p) /\ ~unseen /\ pc[p] \notin Changing /\ pc[p] # "take"
      BY <2>5 DEF AddToList, RemoveFromList, HarmOfChange, Overlap, Harmless
    <3>2. AtRest /\ list = expected
      BY <2>1, <3>1 DEF AtRest, Interrupted, Serial, ListIsExpected
    <3>3. list' = expected'
      BY <2>5, <3>2 DEF AddToList, RemoveFromList
    <3>4. file' = file /\ text' = text /\ pc' = [pc EXCEPT ![p] = "open"]
      BY <2>5 DEF AddToList, RemoveFromList, Goto
    <3>5. ~AtRest'
      BY <2>2, <3>4 DEF AtRest
    <3>. QED  BY <2>1, <2>2, <3>1, <3>2, <3>3, <3>4, <3>5
              DEF Serial, AtRest, FileIsExpected, ListIsExpected, ChangeIsExpected, LoadIsFresh, NoFileNoList
  <2>6. ASSUME NEW p \in Pages, OpenFile(p) PROVE Serial'
    <3>1. /\ list' = list /\ expected' = expected /\ file' = Nothing /\ pc[p] = "open"
          /\ text' = [text EXCEPT ![p] = list] /\ pc' = [pc EXCEPT ![p] = "write"]
      BY <2>6 DEF OpenFile, Goto, history
    <3>2. ~AtRest'
      BY <2>2, <3>1 DEF AtRest
    <3>. QED  BY <2>1, <2>2, <3>1, <3>2, NotContents
              DEF Serial, FileIsExpected, ListIsExpected, ChangeIsExpected, LoadIsFresh, NoFileNoList
  <2>7. ASSUME NEW p \in Pages, WriteFile(p) PROVE Serial'
    <3>1. /\ list' = list /\ expected' = expected /\ file' \in Written(p) /\ pc[p] = "write"
          /\ text' = [text EXCEPT ![p] = Nothing] /\ \E step \in Saving \ Changing : Goto(p, step)
          /\ late' = late \cup {q \in Pages \ {p} : pc[q] = "take"}
      BY <2>7 DEF WriteFile, Saving
    <3>2. file' = expected /\ list = expected
      BY <2>1, <3>1 DEF Usable, WritesAList, Written, Serial, ChangeIsExpected
    <3>3. /\ pc'[p] \in Saving \ Changing
          /\ \A q \in Pages \ {p} : pc'[q] = pc[q] /\ text'[q] = text[q] /\ pc[q] \notin Changing
      BY <2>1, <2>2, <3>1 DEF Goto, Usable, OneChange
    <3>4. FileIsExpected' /\ ListIsExpected' /\ NoFileNoList'
      BY <2>2, <3>1, <3>2, NotContents DEF FileIsExpected, ListIsExpected, NoFileNoList, Stored
    <3>5. ChangeIsExpected' /\ LoadIsFresh'
      BY <3>1, <3>3 DEF ChangeIsExpected, LoadIsFresh, Saving
    <3>. QED  BY <3>4, <3>5 DEF Serial
  <2>8. ASSUME NEW p \in Pages, ReadFile(p) PROVE Serial'
    <3>1. ~Interrupted(p)
      BY <2>8 DEF ReadFile, Overlap, Harmless
    <3>2. /\ UNCHANGED <<file, list, expected, unseen>> /\ pc[p] = "load" /\ late' = late \ {p}
          /\ pc' = [pc EXCEPT ![p] = "take"] /\ text' = [text EXCEPT ![p] = file]
      BY <2>8 DEF ReadFile, Goto
    <3>3. AtRest /\ AtRest'
      BY <2>2, <3>1, <3>2 DEF AtRest, Interrupted
    <3>4. file # Garbled /\ file # Nothing
      BY <2>1, <3>3 DEF Usable, Legible, AtRest
    <3>5. LoadIsFresh'
      BY <2>1, <2>2, <3>2, <3>3, <3>4 DEF Serial, LoadIsFresh
    <3>6. NoFileNoList' /\ ChangeIsExpected'
      BY <2>1, <2>2, <3>2, <3>3, <3>4 DEF Serial, NoFileNoList, ChangeIsExpected, AtRest
    <3>. QED  BY <2>1, <3>2, <3>3, <3>5, <3>6 DEF Serial, FileIsExpected, ListIsExpected
  <2>9. ASSUME NEW p \in Pages, TakeList(p) PROVE Serial'
    <3>1. ~Interrupted(p)
      BY <2>9 DEF TakeList, Overlap, Harmless
    <3>2. /\ UNCHANGED <<file, expected>> /\ list' = text[p] /\ pc[p] = "take"
          /\ text[p] \notin {NoFile, Nothing} /\ late' = late \ {p}
          /\ text' = [text EXCEPT ![p] = Nothing] /\ pc' = [pc EXCEPT ![p] = "ready"]
      BY <2>9 DEF TakeList, Goto
    <3>3. AtRest /\ AtRest'
      BY <2>2, <3>1, <3>2 DEF AtRest, Interrupted
    <3>4. file # NoFile
      BY <2>1, <3>2 DEF Serial, NoFileNoList
    <3>5. ListIsExpected'
      <4>1. CASE p \in late
        BY <2>9, <4>1 DEF TakeList, ListIsExpected
      <4>2. CASE p \notin late
        <5>1. text[p] = file
          BY <2>1, <3>2, <3>3, <4>2 DEF Serial, LoadIsFresh
        <5>2. file \in Contents
          BY <2>2, <3>2, <5>1
        <5>. QED  BY <2>1, <3>2, <3>3, <5>1, <5>2, NotContents DEF Serial, FileIsExpected, ListIsExpected, Stored
      <4>. QED  BY <4>1, <4>2
    <3>6. LoadIsFresh' /\ ChangeIsExpected' /\ NoFileNoList'
      BY <2>1, <2>2, <3>2, <3>3, <3>4 DEF Serial, LoadIsFresh, ChangeIsExpected, NoFileNoList, AtRest
    <3>. QED  BY <2>1, <3>2, <3>3, <3>5, <3>6 DEF Serial, FileIsExpected
  <2>10. ASSUME NEW p \in Pages, FindNoFile(p) PROVE Serial'
    <3>1. /\ UNCHANGED <<file, expected, list>> /\ pc[p] = "take"
          /\ text[p] = NoFile /\ late' = late \ {p}
          /\ text' = [text EXCEPT ![p] = Nothing] /\ pc' = [pc EXCEPT ![p] = "ready"]
      BY <2>10 DEF FindNoFile, Goto
    <3>2. AtRest' <=> AtRest
      BY <2>2, <3>1 DEF AtRest
    <3>3. ListIsExpected'
      <4>1. CASE p \in late
        BY <2>10, <4>1 DEF FindNoFile, ListIsExpected
      <4>2. CASE p \notin late /\ AtRest
        <5>1. file = NoFile
          BY <2>1, <3>1, <4>2 DEF Serial, LoadIsFresh
        <5>. QED  BY <2>1, <3>1, <4>2, <5>1 DEF Serial, FileIsExpected, NoFileNoList, ListIsExpected, Stored
      <4>. QED  BY <3>2, <4>1, <4>2 DEF ListIsExpected
    <3>4. LoadIsFresh' /\ ChangeIsExpected' /\ NoFileNoList'
      BY <2>1, <2>2, <3>1, <3>2 DEF Serial, LoadIsFresh, ChangeIsExpected, NoFileNoList
    <3>. QED  BY <2>1, <3>1, <3>2, <3>3, <3>4 DEF Serial, FileIsExpected
  <2>11. ASSUME NEW p \in Pages, TakeNothing(p) PROVE Serial'
    BY <2>1, <2>11 DEF TakeNothing, Usable, ReadsAFile
  <2>12. ASSUME NEW p \in Pages, NEW q \in Pages, AddsCollide(p, q) PROVE Serial'
    BY <2>12 DEF AddsCollide, Harmless
  <2>13. CASE ServerWrites
    <3>1. AtRest
      BY <2>13 DEF ServerWrites, Harmless, AtRest
    <3>2. Stored(file) = expected
      BY <2>1, <3>1 DEF Serial, FileIsExpected
    <3>3. UNCHANGED <<list, pc, text>> /\ late' = late \cup {p \in Pages : pc[p] = "take"}
      BY <2>13 DEF ServerWrites, locals
    <3>4. file' = expected'
      BY <2>13, <3>2 DEF ServerWrites
    <3>5. file' \in Contents
      BY <3>4 DEF TypeOK
    <3>6. Stored(file)' = expected'
      BY <3>4, <3>5, NotContents DEF Stored
    <3>. QED  BY <2>13, <3>1, <3>3, <3>5, <3>6, NotContents
              DEF ServerWrites, Serial, AtRest, FileIsExpected, ListIsExpected, ChangeIsExpected, LoadIsFresh, NoFileNoList
  <2>14. CASE Restart
    <3>1. AtRest
      BY <2>14 DEF Restart, Harmless, AtRest
    <3>2. UNCHANGED <<file, expected>> /\ list' = Empty /\ pc' = [p \in Pages |-> "closed"] /\ unseen' = TRUE
      BY <2>14 DEF Restart
    <3>. QED  BY <2>1, <3>1, <3>2 DEF Serial, AtRest, FileIsExpected, ListIsExpected, ChangeIsExpected, LoadIsFresh, NoFileNoList
  <2>. QED  BY <1>1, <2>3, <2>4, <2>5, <2>6, <2>7, <2>8, <2>9, <2>10, <2>11, <2>12, <2>13, <2>14 DEF Next, Step
<1>. QED  BY <1>0, <1>1

\* Between writes the file is what all saves and the Minecraft server have made
\* of it, unless two met, a write failed, or the list was older than the file.
THEOREM StoredAsSaved == Spec => []SavesAreStored
<1>1. Init => SerialInv
  <2>. SUFFICES ASSUME Init PROVE UsableInv /\ Serial
    BY DEF SerialInv
  <2>1. UsableInv
    <3>1. file \in Contents \cup {NoFile} /\ list = Empty /\ \A p \in Pages : pc[p] = "closed"
      BY DEF Init, Contents
    <3>. QED  BY <3>1, TypeInit, EmptyIsContents, NotContents
              DEF UsableInv, Usable, OneChange, WritesAList, ReadsAFile, Legible, Changing
  <2>2. expected = Stored(file) /\ list = Empty /\ unseen /\ \A p \in Pages : pc[p] = "closed"
    BY DEF Init
  <2>. QED  BY <2>1, <2>2 DEF Serial, AtRest, Changing, FileIsExpected, ListIsExpected, ChangeIsExpected, LoadIsFresh, NoFileNoList
<1>2. SerialInv => SavesAreStored
  BY DEF SerialInv, SavesAreStored, Serial, FileIsExpected
<1>. QED  BY <1>1, SerialStep, <1>2, PTL DEF Spec

(***************************************************************************)
(* Why somebody who was removed may still be on the list (RemovedIsGone).  *)
(***************************************************************************)
\* All changes, one after the other, have left account n on the list at most once,
\* and only as Mojang writes it.
OnceAndPlain(n) == expected[<<n, "dashed">>] = 0 /\ expected[<<n, "plain">>] <= 1

StaysOff(n) == Harmless /\ AtRest /\ n \in removed => ~Has(Stored(file), n)

\* Whom a page has taken off, or is writing without, is not on the list there should be.
OffInv(n) == Harmless =>
    /\ n \in removed => ~Has(expected, n)
    /\ \A p \in Pages : pc[p] \in Changing /\ now[p] = n /\ n \notin adding[p] => ~Has(expected, n)

\* A step keeps n off the list once n was taken off, if n was on it once.
LEMMA OffStep ==
    ASSUME NEW n \in Names, TypeOK, OffInv(n), OnceAndPlain(n), [Next]_vars, Harmless'
    PROVE  OffInv(n)'
<1>. USE DEF Changing
<1>0. CASE UNCHANGED vars
  BY <1>0 DEF vars, locals, history, OffInv, Harmless
<1>1. CASE Next
  <2>1. Harmless
    BY <1>1, HarmStays DEF Harmless
  <2>2. /\ n \in removed => ~Has(expected, n)
        /\ \A p \in Pages : pc[p] \in Changing /\ now[p] = n /\ n \notin adding[p] => ~Has(expected, n)
    BY <2>1 DEF OffInv
  <2>3. /\ pc \in [Pages -> Steps] /\ now \in [Pages -> Names \cup {NoName}]
        /\ adding \in [Pages -> SUBSET Names] /\ expected \in Contents
    BY DEF TypeOK, Steps
  <2>4. \A m \in Names \ {n}, f \in Forms :
           Has(Put(expected, <<m, f>>), n) <=> Has(expected, n)
    BY <2>3 DEF Put, Has, Contents, Entries
  <2>5. \A m \in Names \ {n}, f \in Forms :
           Has(TakeOff(expected, <<m, f>>), n) <=> Has(expected, n)
    BY <2>3 DEF TakeOff, Has, Contents, Entries
  <2>6. ASSUME NEW p \in Pages,
               \/ OpenPage(p) \/ ClosePage(p) \/ AddAsync(p) \/ LookupAnswers(p) \/ Remove(p)
               \/ CancelAdd(p) \/ CancelRemove(p) \/ DiscardAll(p)
               \/ SaveAsync(p) \/ StartRemovals(p) \/ EndSave(p) \/ SaveFails(p)
               \/ ReadFile(p) \/ TakeList(p) \/ FindNoFile(p) \/ TakeNothing(p) \/ LoadFails(p)
        PROVE  OffInv(n)'
    <3>1. UNCHANGED <<expected, removed>>
      BY <2>6 DEF OpenPage, ClosePage, AddAsync, LookupAnswers, Remove, CancelAdd, CancelRemove,
         DiscardAll, SaveAsync, StartRemovals, EndSave, SaveFails, ReadFile, TakeList, FindNoFile,
         TakeNothing, LoadFails, history
    <3>2. \A q \in Pages : pc'[q] \in Changing =>
             pc[q] = pc'[q] /\ now'[q] = now[q] /\ adding'[q] = adding[q]
      <4>1. CASE OpenPage(p) \/ ClosePage(p) \/ SaveAsync(p) \/ StartRemovals(p) \/ EndSave(p) \/ SaveFails(p)
        BY <2>3, <4>1 DEF OpenPage, ClosePage, SaveAsync, StartRemovals, EndSave, SaveFails, locals, Goto
      <4>2. CASE \/ AddAsync(p) \/ LookupAnswers(p) \/ Remove(p)
                 \/ CancelAdd(p) \/ CancelRemove(p) \/ DiscardAll(p)
        BY <4>2 DEF AddAsync, LookupAnswers, Remove, CancelAdd, CancelRemove, DiscardAll, locals
      <4>3. CASE ReadFile(p) \/ TakeList(p) \/ FindNoFile(p) \/ TakeNothing(p) \/ LoadFails(p)
        BY <2>3, <4>3 DEF ReadFile, TakeList, FindNoFile, TakeNothing, LoadFails, locals, Goto
      <4>. QED  BY <2>6, <4>1, <4>2, <4>3
    <3>. QED  BY <2>2, <3>1, <3>2 DEF OffInv, Has
  <2>7. ASSUME NEW p \in Pages, OpenFile(p) PROVE OffInv(n)'
    <3>1. UNCHANGED <<expected, removed, now, adding>> /\ pc[p] = "open" /\ pc' = [pc EXCEPT ![p] = "write"]
      BY <2>7 DEF OpenFile, Goto, history
    <3>. QED  BY <2>2, <2>3, <3>1 DEF OffInv, Has
  <2>8. ASSUME NEW p \in Pages, WriteFile(p) PROVE OffInv(n)'
    <3>1. /\ pc[p] \in Changing /\ pc'[p] \notin Changing /\ expected' = expected
          /\ \A q \in Pages \ {p} : pc'[q] = pc[q] /\ now'[q] = now[q] /\ adding'[q] = adding[q]
          /\ n \in removed' => n \in removed \/ (now[p] = n /\ n \notin adding[p])
      BY <2>3, <2>8 DEF WriteFile, Goto
    <3>. QED  BY <2>2, <3>1 DEF OffInv, Has
  <2>9. ASSUME NEW p \in Pages, AddToList(p) PROVE OffInv(n)'
    <3>1. PICK m \in adding[p] : /\ expected' = Put(expected, MojangPlayer(m))
                                 /\ now' = [now EXCEPT ![p] = m]
                                 /\ removed' = removed \ {m}
      BY <2>9 DEF AddToList
    <3>2. adding' = adding /\ pc' = [pc EXCEPT ![p] = "open"]
      BY <2>9 DEF AddToList, Goto
    <3>3. \A q \in Pages \ {p} : pc[q] \notin Changing
      BY <2>9 DEF AddToList, HarmOfChange, Overlap, Interrupted, Harmless
    <3>4. \A q \in Pages : ~(pc'[q] \in Changing /\ now'[q] = n /\ n \notin adding'[q])
      BY <2>3, <3>1, <3>2, <3>3
    <3>5. n \in removed' => ~Has(expected', n)
      BY <2>2, <2>3, <2>4, <3>1 DEF MojangPlayer, Forms
    <3>. QED  BY <3>4, <3>5 DEF OffInv, Has
  <2>10. ASSUME NEW p \in Pages, RemoveFromList(p) PROVE OffInv(n)'
    <3>1. PICK m \in removing[p] : /\ expected' = TakeOff(expected, MojangPlayer(m))
                                   /\ now' = [now EXCEPT ![p] = m]
      BY <2>10 DEF RemoveFromList
    <3>2. adding' = adding /\ removed' = removed /\ pc' = [pc EXCEPT ![p] = "open"] /\ m \in Names
      BY <2>10 DEF RemoveFromList, Goto, TypeOK
    <3>3. \A q \in Pages \ {p} : pc[q] \notin Changing
      BY <2>10 DEF RemoveFromList, HarmOfChange, Overlap, Interrupted, Harmless
    <3>4. CASE m = n
      <4>1. ~Has(expected', n)
        BY <2>3, <3>1, <3>4 DEF OnceAndPlain, TakeOff, MojangPlayer, Has, Contents, Entries, Forms
      <4>. QED  BY <4>1 DEF OffInv, Has
    <3>5. CASE m # n
      <4>1. \A q \in Pages : ~(pc'[q] \in Changing /\ now'[q] = n /\ n \notin adding'[q])
        BY <2>3, <3>1, <3>2, <3>3, <3>5
      <4>2. n \in removed' => ~Has(expected', n)
        BY <2>2, <2>5, <3>1, <3>2, <3>5 DEF MojangPlayer, Forms
      <4>. QED  BY <4>1, <4>2 DEF OffInv, Has
    <3>. QED  BY <3>4, <3>5
  <2>11. ASSUME NEW p \in Pages, NEW q \in Pages, AddsCollide(p, q) PROVE OffInv(n)'
    BY <2>11 DEF AddsCollide, Harmless
  <2>12. CASE ServerWrites
    <3>1. AtRest /\ pc' = pc
      BY <2>12 DEF ServerWrites, Harmless, AtRest
    <3>2. PICK m \in Names :
             \/ expected' = Put(expected, <<m, "dashed">>) /\ removed' = removed \ {m}
             \/ /\ expected' = [e \in Entries |-> IF e[1] = m THEN 0 ELSE expected[e]]
                /\ removed' = removed
      BY <2>12 DEF ServerWrites
    <3>3. n \in removed' => ~Has(expected', n)
      <4>1. CASE expected' = Put(expected, <<m, "dashed">>) /\ removed' = removed \ {m}
        BY <2>2, <2>4, <4>1 DEF Forms
      <4>2. CASE /\ expected' = [e \in Entries |-> IF e[1] = m THEN 0 ELSE expected[e]]
                 /\ removed' = removed
        <5>1. \A f \in Forms : <<n, f>> \in Entries /\ <<n, f>>[1] = n
          BY DEF Entries
        <5>2. \A f \in Forms : expected'[<<n, f>>] = IF n = m THEN 0 ELSE expected[<<n, f>>]
          BY <4>2, <5>1
        <5>. QED  BY <2>2, <4>2, <5>2 DEF Has
      <4>. QED  BY <3>2, <4>1, <4>2
    <3>. QED  BY <3>1, <3>3 DEF AtRest, OffInv, Has
  <2>13. CASE Restart
    BY <2>2, <2>13 DEF Restart, OffInv, Has
  <2>. QED  BY <1>1, <2>6, <2>7, <2>8, <2>9, <2>10, <2>11, <2>12, <2>13 DEF Next, Step
<1>. QED  BY <1>0, <1>1

\* RemoveAsync does what it says ("Takes one player off the whitelist",
\* IServerWhitelist.cs:14) for an account that was only ever on the list once, in
\* Mojang's form: dashes and a second entry are the only reasons why somebody
\* who was reported as removed is still there.
THEOREM RemovedStayOff ==
    ASSUME NEW n \in Names
    PROVE  Spec /\ []OnceAndPlain(n) => []StaysOff(n)
<1>1. Init => OffInv(n)
  BY DEF Init, OffInv, Changing
<1>2. TypeOK /\ OffInv(n) /\ OnceAndPlain(n) /\ [Next]_vars => OffInv(n)'
  <2>1. CASE Harmless'
    BY <2>1, OffStep
  <2>2. CASE ~Harmless'
    BY <2>2 DEF OffInv
  <2>. QED  BY <2>1, <2>2
<1>3. SavesAreStored /\ OffInv(n) => StaysOff(n)
  BY DEF SavesAreStored, OffInv, StaysOff
<1>. QED  BY <1>1, <1>2, <1>3, TypeCorrect, StoredAsSaved, PTL DEF Spec
=============================================================================
