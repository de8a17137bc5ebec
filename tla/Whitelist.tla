----------------------------- MODULE Whitelist -----------------------------
(***************************************************************************)
(* The whitelist page (Web/src/Components/Pages/Whitelist.razor) and its   *)
(* store (Web/src/Services/Factories/ServerWhitelistStore.cs), which keeps *)
(* whitelist.json in a static list.  A load replaces the list; a save puts *)
(* its players into it, or takes them out, one at a time, and writes all   *)
(* of it after each.  A page shows the very list it was given: what other  *)
(* pages put in is in its table too, until a load replaces the list.       *)
(*                                                                         *)
(* Mojang answers a name with an id without dashes, the Minecraft server   *)
(* writes ids with dashes; the list compares ids as they are written.      *)
(*                                                                         *)
(* Abstracted: the order of the entries (a list is how often it has each   *)
(* entry); spelling of names (one account, one name); text that is shown.  *)
(***************************************************************************)
EXTENDS Integers, FiniteSets

CONSTANTS Pages,    \* browsers at the whitelist page
          Names,    \* accounts
          NoFile,   \* there is no whitelist.json
          Nothing,  \* an empty file, and what it is read as: null
          Garbled,  \* a file that is not JSON
          NoName,   \* no account; also: who put an account in, if not a page
          MaxTyped, \* bound: names typed and buttons pressed to stage a change
          MaxSaves, \* bound: saves begun
          MaxStops  \* bound: ends of this process, and writes of the Minecraft server

Forms == {"plain", "dashed"}
Entries == Names \X Forms
Contents == [Entries -> Nat]

ASSUME NamesAssumption == NoName \notin Names \cup Pages
ASSUME ContentsAssumption ==
    /\ {NoFile, Nothing, Garbled} \cap Contents = {}
    /\ NoFile # Nothing /\ NoFile # Garbled /\ Nothing # Garbled
ASSUME BoundsAssumption == MaxTyped \in Nat /\ MaxSaves \in Nat /\ MaxStops \in Nat

VARIABLES
    file,      \* whitelist.json
    list,      \* the static list
    \* each page
    pc,        \* the await it is at
    shown,     \* the list it shows, once that is no longer the static one
    alias,     \* pages that show the static list
    additions, removals,
    looking,   \* names being looked up
    adding, removing, \* what its save still has to do
    now,       \* the player being saved or removed
    text,      \* what it has read, or is about to write
    typed, saves, stops,
    \* history, read by properties only
    expected,  \* the list if every change so far had been made to the file at once
    harm,      \* what has happened to changes: "overlap", "failure", "stale"
    unseen,    \* the file was written by others since the list was read from it
    late,      \* pages that have read a file that was written since
    removed    \* accounts last taken off by a page

staged == <<additions, removals, looking>>
locals == <<adding, removing, now, text>>
view == <<shown, alias>>
counters == <<typed, saves, stops>>
history == <<expected, harm, unseen, late, removed>>
vars == <<file, list, pc, view, staged, locals, counters, history>>

Empty == [e \in Entries |-> 0]
Put(c, e) == [c EXCEPT ![e] = @ + 1]
\* List.Remove: the first entry that is equal, if there is one.
TakeOff(c, e) == [c EXCEPT ![e] = IF @ = 0 THEN 0 ELSE @ - 1]
Has(c, n) == \E f \in Forms : c[<<n, f>>] > 0
MojangPlayer(n) == <<n, "plain">>

\* The entries of a file.
Stored(f) == IF f \in {NoFile, Nothing, Garbled} THEN Empty ELSE f
Table(p) == IF p \in alias THEN list ELSE shown[p]
IsListed(p, n) == Has(Table(p), n) \/ n \in additions[p]
Changing == {"open", "write"}
Loading == {"load", "take"}
Saving == {"adding", "removing"} \cup Changing

Init ==
    /\ file \in {NoFile} \cup {c \in [Entries -> 0..1] : \A n \in Names : c[<<n, "plain">>] = 0}
    /\ list = Empty
    /\ pc = [p \in Pages |-> "closed"]
    /\ shown = [p \in Pages |-> Empty]
    /\ alias = {}
    /\ additions = [p \in Pages |-> {}]
    /\ removals = [p \in Pages |-> {}]
    /\ looking = [p \in Pages |-> {}]
    /\ adding = [p \in Pages |-> {}]
    /\ removing = [p \in Pages |-> {}]
    /\ now = [p \in Pages |-> NoName]
    /\ text = [p \in Pages |-> Nothing]
    /\ typed = 0
    /\ saves = 0
    /\ stops = 0
    /\ expected = Stored(file)
    /\ harm = {}
    /\ unseen = TRUE
    /\ late = {}
    /\ removed = {}

Goto(p, step) == pc' = [pc EXCEPT ![p] = step]
Interrupted(p) == \E q \in Pages \ {p} : pc[q] \in Changing
Overlap(p) == IF Interrupted(p) THEN {"overlap"} ELSE {}

(***************************************************************************)
(* Staging.  A name is entered at any time, even in a save; what is staged *)
(* when a load ends is dropped.                                            *)
(***************************************************************************)
OpenPage(p) ==
    /\ pc[p] = "closed"
    /\ Goto(p, "load")
    /\ UNCHANGED <<file, list, view, staged, locals, counters, history>>

ClosePage(p) ==
    /\ pc[p] = "ready"
    /\ Goto(p, "closed")
    /\ additions' = [additions EXCEPT ![p] = {}]
    /\ removals' = [removals EXCEPT ![p] = {}]
    /\ looking' = [looking EXCEPT ![p] = {}]
    /\ shown' = [shown EXCEPT ![p] = Empty]
    /\ alias' = alias \ {p}
    /\ UNCHANGED <<file, list, locals, counters, history>>

\* Adding back someone staged for removal only cancels the removal.
AddAsync(p) ==
    /\ pc[p] # "closed"
    /\ typed < MaxTyped
    /\ typed' = typed + 1
    /\ \E n \in Names :
          \/ /\ n \in removals[p]
             /\ removals' = [removals EXCEPT ![p] = @ \ {n}]
             /\ UNCHANGED looking
          \/ /\ n \notin removals[p] /\ ~IsListed(p, n)
             /\ looking' = [looking EXCEPT ![p] = @ \cup {n}]
             /\ UNCHANGED removals
    /\ UNCHANGED <<file, list, pc, view, additions, locals, saves, stops, history>>

\* GetPlayer answers or throws; who was listed in the meantime is not added.
LookupAnswers(p) ==
    /\ \E n \in looking[p] :
          /\ looking' = [looking EXCEPT ![p] = @ \ {n}]
          /\ \/ UNCHANGED additions
             \/ ~IsListed(p, n) /\ additions' = [additions EXCEPT ![p] = @ \cup {n}]
    /\ UNCHANGED <<file, list, pc, view, removals, locals, counters, history>>

Remove(p) ==
    /\ pc[p] = "ready"
    /\ typed < MaxTyped
    /\ typed' = typed + 1
    /\ \E n \in Names \ removals[p] :
          /\ Has(Table(p), n)
          /\ removals' = [removals EXCEPT ![p] = @ \cup {n}]
    /\ UNCHANGED <<file, list, pc, view, additions, looking, locals, saves, stops, history>>

\* The links that undo one staged change work in a save, too.
CancelAdd(p) ==
    /\ pc[p] \in Saving \cup {"ready"}
    /\ \E n \in additions[p] : additions' = [additions EXCEPT ![p] = @ \ {n}]
    /\ UNCHANGED <<file, list, pc, view, removals, looking, locals, counters, history>>

CancelRemove(p) ==
    /\ pc[p] \in Saving \cup {"ready"}
    /\ \E n \in removals[p] :
          /\ Has(Table(p), n)
          /\ removals' = [removals EXCEPT ![p] = @ \ {n}]
    /\ UNCHANGED <<file, list, pc, view, additions, looking, locals, counters, history>>

DiscardAll(p) ==
    /\ pc[p] = "ready"
    /\ additions[p] \cup removals[p] # {}
    /\ additions' = [additions EXCEPT ![p] = {}]
    /\ removals' = [removals EXCEPT ![p] = {}]
    /\ UNCHANGED <<file, list, pc, view, looking, locals, counters, history>>

(***************************************************************************)
(* A save: the additions staged when it begins, then the removals staged   *)
(* when those are written, then a load.                                    *)
(***************************************************************************)
SaveAsync(p) ==
    /\ pc[p] = "ready"
    /\ additions[p] \cup removals[p] # {}
    /\ saves < MaxSaves
    /\ saves' = saves + 1
    /\ adding' = [adding EXCEPT ![p] = additions[p]]
    /\ Goto(p, "adding")
    /\ UNCHANGED <<file, list, view, staged, removing, now, text, typed, stops, history>>

\* What a change of the list may do harm to, or suffer from.
HarmOfChange(p) == Overlap(p) \cup (IF unseen THEN {"stale"} ELSE {})

\* The store's SaveAsync up to the write.
AddToList(p) ==
    /\ pc[p] = "adding"
    /\ list # Nothing
    /\ \E n \in adding[p] :
          /\ list' = Put(list, MojangPlayer(n))
          /\ expected' = Put(expected, MojangPlayer(n))
          /\ now' = [now EXCEPT ![p] = n]
          /\ removed' = removed \ {n}
    /\ harm' = harm \cup HarmOfChange(p)
    /\ Goto(p, "open")
    /\ UNCHANGED <<file, view, staged, adding, removing, text, counters, unseen, late>>

\* Two threads in List.Add at once: one of the players is lost.
AddsCollide(p, q) ==
    /\ p # q
    /\ pc[p] = "adding" /\ pc[q] = "adding"
    /\ list # Nothing
    /\ \E m \in adding[p], n \in adding[q] :
          /\ list' = Put(list, MojangPlayer(m))
          /\ expected' = Put(Put(expected, MojangPlayer(m)), MojangPlayer(n))
          /\ now' = [now EXCEPT ![p] = m, ![q] = n]
          /\ removed' = removed \ {m, n}
    /\ harm' = harm \cup {"overlap"}
    /\ pc' = [pc EXCEPT ![p] = "open", ![q] = "open"]
    /\ UNCHANGED <<file, view, staged, adding, removing, text, counters, unseen, late>>

StartRemovals(p) ==
    /\ pc[p] = "adding"
    /\ adding[p] = {}
    /\ removing' = [removing EXCEPT ![p] = removals[p]]
    /\ Goto(p, "removing")
    /\ UNCHANGED <<file, list, view, staged, adding, now, text, counters, history>>

\* Mutant: the removals are not copied when the save comes to them.
RemoveFromListLive(p) ==
    /\ pc[p] = "removing"
    /\ list # Nothing
    /\ \E n \in removals[p] :
          /\ list' = TakeOff(list, MojangPlayer(n))
          /\ expected' = TakeOff(expected, MojangPlayer(n))
          /\ now' = [now EXCEPT ![p] = n]
    /\ harm' = harm \cup HarmOfChange(p)
    /\ Goto(p, "open")
    /\ UNCHANGED <<file, view, staged, adding, removing, text, counters, unseen, late, removed>>

\* The store's RemoveAsync: Mojang has answered, the list is changed.
RemoveFromList(p) ==
    /\ pc[p] = "removing"
    /\ list # Nothing
    /\ \E n \in removing[p] :
          /\ list' = TakeOff(list, MojangPlayer(n))
          /\ expected' = TakeOff(expected, MojangPlayer(n))
          /\ now' = [now EXCEPT ![p] = n]
    /\ harm' = harm \cup HarmOfChange(p)
    /\ Goto(p, "open")
    /\ UNCHANGED <<file, view, staged, adding, removing, text, counters, unseen, late, removed>>

\* Mutant: the page's own list is written.
OpenFileOfPage(p) ==
    /\ pc[p] = "open"
    /\ text' = [text EXCEPT ![p] = Table(p)]
    /\ file' = Nothing
    /\ Goto(p, "write")
    /\ UNCHANGED <<list, view, staged, adding, removing, now, counters, history>>

\* Mutant: the file is not truncated.
OpenFileAsItIs(p) ==
    /\ pc[p] = "open"
    /\ text' = [text EXCEPT ![p] = list]
    /\ Goto(p, "write")
    /\ UNCHANGED <<file, list, view, staged, adding, removing, now, counters, history>>

\* The list is serialised and the file truncated.
OpenFile(p) ==
    /\ pc[p] = "open"
    /\ text' = [text EXCEPT ![p] = list]
    /\ file' = Nothing
    /\ Goto(p, "write")
    /\ UNCHANGED <<list, view, staged, adding, removing, now, counters, history>>

\* The text goes to the beginning of the file; what another write has put there
\* since it was truncated may be longer.
Written(p) == IF file = Nothing THEN {text[p]} ELSE {text[p], Garbled}

WriteFile(p) ==
    /\ pc[p] = "write"
    /\ file' \in Written(p)
    /\ Goto(p, IF now[p] \in adding[p] THEN "adding" ELSE "removing")
    /\ removed' = IF now[p] \in adding[p] THEN removed ELSE removed \cup {now[p]}
    /\ adding' = [adding EXCEPT ![p] = @ \ {now[p]}]
    /\ removing' = [removing EXCEPT ![p] = @ \ {now[p]}]
    /\ now' = [now EXCEPT ![p] = NoName]
    /\ text' = [text EXCEPT ![p] = Nothing]
    /\ late' = late \cup {q \in Pages \ {p} : pc[q] = "take"}
    /\ UNCHANGED <<list, view, staged, counters, expected, harm, unseen>>

EndSave(p) ==
    /\ pc[p] = "removing"
    /\ removing[p] = {}
    /\ Goto(p, "load")
    /\ UNCHANGED <<file, list, view, staged, locals, counters, history>>

\* A lookup or a write fails, or there is no list; the page keeps what is staged.
SaveFails(p) ==
    /\ \/ pc[p] = "adding" /\ adding[p] # {} /\ list = Nothing
       \/ pc[p] = "removing" /\ removing[p] # {}
       \/ pc[p] \in Changing
    /\ harm' = harm \cup (IF pc[p] \in Changing THEN {"failure"} ELSE {})
    /\ \/ UNCHANGED file
       \/ pc[p] = "write" /\ file' = Garbled
    /\ adding' = [adding EXCEPT ![p] = {}]
    /\ removing' = [removing EXCEPT ![p] = {}]
    /\ now' = [now EXCEPT ![p] = NoName]
    /\ text' = [text EXCEPT ![p] = Nothing]
    /\ Goto(p, "ready")
    /\ UNCHANGED <<list, view, staged, counters, expected, unseen, late, removed>>

(***************************************************************************)
(* GetWhitelistAsync, on opening a page and at the end of a save.          *)
(***************************************************************************)
ReadFile(p) ==
    /\ pc[p] = "load"
    /\ file # Garbled
    /\ text' = [text EXCEPT ![p] = file]
    /\ harm' = harm \cup Overlap(p)
    /\ late' = late \ {p}
    /\ Goto(p, "take")
    /\ UNCHANGED <<file, list, view, staged, adding, removing, now, counters, expected, unseen, removed>>

\* What is staged goes, whatever the load brings.
Unstage(p) ==
    /\ additions' = [additions EXCEPT ![p] = {}]
    /\ removals' = [removals EXCEPT ![p] = {}]

\* The pages that show the list keep it.
Detach(pages) == shown' = [q \in Pages |-> IF q \in pages THEN list ELSE shown[q]]

TakeList(p) ==
    /\ pc[p] = "take" /\ text[p] \notin {NoFile, Nothing}
    /\ list' = text[p]
    /\ Detach(alias)
    /\ alias' = {p}
    /\ Goto(p, "ready")
    /\ Unstage(p)
    /\ text' = [text EXCEPT ![p] = Nothing]
    /\ harm' = harm \cup Overlap(p)
    /\ unseen' = (p \in late)
    /\ late' = late \ {p}
    /\ UNCHANGED <<file, looking, adding, removing, now, counters, expected, removed>>

\* Without a file the page gets a list of its own; the static one stays.
FindNoFile(p) ==
    /\ pc[p] = "take" /\ text[p] = NoFile
    /\ shown' = [shown EXCEPT ![p] = Empty]
    /\ alias' = alias \ {p}
    /\ Goto(p, "ready")
    /\ Unstage(p)
    /\ text' = [text EXCEPT ![p] = Nothing]
    /\ unseen' = (p \in late)
    /\ late' = late \ {p}
    /\ UNCHANGED <<file, list, looking, adding, removing, now, counters, expected, harm, removed>>

\* An empty file is read as null, and the page that renders it breaks.
TakeNothing(p) ==
    /\ pc[p] = "take" /\ text[p] = Nothing
    /\ list' = Nothing
    /\ Detach(alias \ {p})
    /\ alias' = {}
    /\ Goto(p, "closed")
    /\ Unstage(p)
    /\ looking' = [looking EXCEPT ![p] = {}]
    /\ unseen' = TRUE
    /\ late' = late \ {p}
    /\ UNCHANGED <<file, adding, removing, now, text, counters, expected, harm, removed>>

\* The page shows an empty table; the static list stays.
LoadFails(p) ==
    /\ pc[p] = "load"
    /\ shown' = [shown EXCEPT ![p] = Empty]
    /\ alias' = alias \ {p}
    /\ Goto(p, "ready")
    /\ Unstage(p)
    /\ UNCHANGED <<file, list, looking, locals, counters, history>>

(***************************************************************************)
(* Outside the page.                                                       *)
(***************************************************************************)
\* The Minecraft server puts a player on its list, or takes one off.
ServerWrites ==
    /\ stops < MaxStops
    /\ stops' = stops + 1
    /\ \E n \in Names :
          \/ /\ ~Has(Stored(file), n)
             /\ file' = Put(Stored(file), <<n, "dashed">>)
             /\ expected' = Put(expected, <<n, "dashed">>)
             /\ removed' = removed \ {n}
          \/ /\ Has(Stored(file), n)
             /\ file' = [e \in Entries |-> IF e[1] = n THEN 0 ELSE Stored(file)[e]]
             /\ expected' = [e \in Entries |-> IF e[1] = n THEN 0 ELSE expected[e]]
             /\ UNCHANGED removed
    /\ harm' = harm \cup (IF \E p \in Pages : pc[p] \in Changing THEN {"overlap"} ELSE {})
    /\ unseen' = TRUE
    /\ late' = late \cup {p \in Pages : pc[p] = "take"}
    /\ UNCHANGED <<list, pc, view, staged, locals, typed, saves>>

\* This process ends, in the middle of whatever it does, and starts again.
Restart ==
    /\ stops < MaxStops
    /\ stops' = stops + 1
    /\ list' = Empty
    /\ pc' = [p \in Pages |-> "closed"]
    /\ shown' = [p \in Pages |-> Empty]
    /\ alias' = {}
    /\ additions' = [p \in Pages |-> {}]
    /\ removals' = [p \in Pages |-> {}]
    /\ looking' = [p \in Pages |-> {}]
    /\ adding' = [p \in Pages |-> {}]
    /\ removing' = [p \in Pages |-> {}]
    /\ now' = [p \in Pages |-> NoName]
    /\ text' = [p \in Pages |-> Nothing]
    /\ harm' = harm \cup (IF \E p \in Pages : pc[p] \in Changing THEN {"failure"} ELSE {})
    /\ unseen' = TRUE
    /\ late' = {}
    /\ UNCHANGED <<file, typed, saves, expected, removed>>

Step(p) ==
    \/ OpenPage(p) \/ ClosePage(p)
    \/ AddAsync(p) \/ LookupAnswers(p) \/ Remove(p)
    \/ CancelAdd(p) \/ CancelRemove(p) \/ DiscardAll(p)
    \/ SaveAsync(p) \/ AddToList(p) \/ StartRemovals(p) \/ RemoveFromList(p)
    \/ OpenFile(p) \/ WriteFile(p) \/ EndSave(p) \/ SaveFails(p)
    \/ ReadFile(p) \/ TakeList(p) \/ FindNoFile(p) \/ TakeNothing(p) \/ LoadFails(p)

Next ==
    \/ \E p \in Pages : Step(p)
    \/ \E p, q \in Pages : AddsCollide(p, q)
    \/ ServerWrites \/ Restart

Spec == Init /\ [][Next]_vars

(***************************************************************************)
(* Properties.                                                             *)
(***************************************************************************)
\* Every variable has its type; a page at a write has an account to write; the
\* pages that show the static list have one to show.
TypeOK ==
    /\ file \in Contents \cup {NoFile, Nothing, Garbled}
    /\ list \in Contents \cup {Nothing}
    /\ pc \in [Pages -> Saving \cup Loading \cup {"closed", "ready"}]
    /\ shown \in [Pages -> Contents]
    /\ alias \subseteq Pages
    /\ alias # {} => list \in Contents
    /\ additions \in [Pages -> SUBSET Names] /\ removals \in [Pages -> SUBSET Names]
    /\ looking \in [Pages -> SUBSET Names]
    /\ adding \in [Pages -> SUBSET Names] /\ removing \in [Pages -> SUBSET Names]
    /\ now \in [Pages -> Names \cup {NoName}]
    /\ text \in [Pages -> Contents \cup {NoFile, Nothing}]
    /\ \A p \in Pages : pc[p] \in Changing => now[p] \in adding[p] \cup removing[p]
    /\ typed \in 0..MaxTyped /\ saves \in 0..MaxSaves /\ stops \in 0..MaxStops
    /\ expected \in Contents
    /\ harm \subseteq {"overlap", "failure", "stale"}
    /\ unseen \in BOOLEAN /\ late \subseteq Pages
    /\ removed \subseteq Names

AtRest == \A p \in Pages : pc[p] \notin Changing
Harmless == harm = {}

\* Between writes the file is what all saves and the Minecraft server have made
\* of it, one after the other, as long as no page changed or read it in another's
\* change, no write failed, and no page changed a list older than the file.  A
\* save that gave up half way loses nothing of its first half.
SavesAreStored == Harmless /\ AtRest => Stored(file) = expected

\* The static list is never null, and the file never unreadable between writes,
\* unless one write met another page's load or write, or was cut short.
ListIsUsable ==
    harm \cap {"overlap", "failure"} = {} =>
        list # Nothing /\ (AtRest => file \notin {Nothing, Garbled})

\* Who was taken off is not on the list, until somebody puts them there again
\* ("Takes one player off the whitelist", IServerWhitelist.cs:14).
RemovedIsGone ==
    Harmless /\ AtRest => \A n \in removed : ~Has(Stored(file), n)
=============================================================================
