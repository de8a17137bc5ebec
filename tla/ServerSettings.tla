--------------------------- MODULE ServerSettings ---------------------------
(***************************************************************************)
(* The settings page (Web/src/Components/Pages/ServerSettings.razor) and   *)
(* its store (Web/src/Services/Factories/ServerSettingsStore.cs), which    *)
(* reads and writes server.properties.  The store is a singleton with no   *)
(* lock, and its array of settings is static: a load on behalf of one page *)
(* replaces the array's records under all pages, and so does the console   *)
(* page, whose poll reads motd, port and slots through the same            *)
(* GetSettingsAsync (RconServerController.GetSnapshotAsync).  No page is   *)
(* told: each shows the records of its own last render, and compares with  *)
(* them what is typed, until an event of its own renders it again.         *)
(*                                                                         *)
(* A save writes one key at a time: read all lines, change one, write all  *)
(* lines back.  WriteAllLinesAsync truncates the file when it opens it and *)
(* writes later; nothing keeps others from reading in between, so opening  *)
(* and writing are two steps and a read between them finds no lines.       *)
(*                                                                         *)
(* Abstracted: the file is the value each known key has, or NoLine (other  *)
(* lines are copied through); a file half written reads as an empty one;   *)
(* values are trimmed; the file exists (without it the page has no rows).  *)
(***************************************************************************)
EXTENDS Integers

CONSTANTS Pages,    \* browsers: the settings page, or before it the console
          Keys,     \* keys of server.properties
          Values,   \* their values
          Default,  \* what the Minecraft server writes for a key it misses
          NoLine,   \* no line for the key; also: no edit of it, no value shown
          MaxEdits, \* bound: values typed
          MaxSaves, \* bound: saves begun
          MaxStops  \* bound: ends of this process, and starts of the Minecraft server

ASSUME ValuesAssumption == Default \in Values /\ NoLine \notin Values \cup Keys
ASSUME BoundsAssumption == MaxEdits \in Nat /\ MaxSaves \in Nat /\ MaxStops \in Nat

VARIABLES
    file,      \* server.properties
    settings,  \* the static array
    \* each page
    pc,        \* the await it is at
    shown,     \* pages that have rows
    rows,      \* the values of its last render, which its handlers hold
    edits,     \* its pending edits
    changes,   \* the copy its save still has to write
    key,       \* the key being written
    lines,     \* the lines its last read returned, one of them changed in a save
    typed, saves, stops,
    \* history, read by properties only
    expected,  \* the file if every write so far had been one step
    harm,      \* what has happened to writes: "overlap", "torn", "failure", "server"
    late,      \* pages whose lines are older than the file
    stale,     \* pages for which somebody else has left the array older than the file
    behind,    \* pages that rendered such an array, or somebody else has written since
    failed     \* pages whose last load or save failed

page == <<pc, shown, rows, edits, changes, key, lines>>
counters == <<typed, saves, stops>>
freshness == <<stale, behind, failed>>
history == <<expected, harm, late, freshness>>
vars == <<file, settings, page, counters, history>>

Lines == Values \cup {NoLine}
Contents == [Keys -> Lines]
Empty == [k \in Keys |-> NoLine]
Busy == {"read", "open", "write", "load", "show", "poll", "fill"}
Loaded == {"show", "fill"}

\* ModifySettingsFile: the line of the key, if there is one.
ModifyLine(content, k, v) ==
    [content EXCEPT ![k] = IF content[k] = NoLine THEN NoLine ELSE v]

Init ==
    /\ file \in Contents
    /\ settings = Empty
    /\ pc = [p \in Pages |-> "closed"]
    /\ shown = {}
    /\ rows = [p \in Pages |-> Empty]
    /\ edits = [p \in Pages |-> Empty]
    /\ changes = [p \in Pages |-> Empty]
    /\ key = [p \in Pages |-> NoLine]
    /\ lines = [p \in Pages |-> Empty]
    /\ typed = 0
    /\ saves = 0
    /\ stops = 0
    /\ expected = file
    /\ harm = {}
    /\ late = {}
    /\ stale = Pages
    /\ behind = {}
    /\ failed = {}

Goto(p, step) == pc' = [pc EXCEPT ![p] = step]

\* The locals of a finished call.
Forget(p) == key' = [key EXCEPT ![p] = NoLine] /\ lines' = [lines EXCEPT ![p] = Empty]

\* A page with rows renders the array as it is.
Render(p) ==
    /\ rows' = [rows EXCEPT ![p] = settings']
    /\ behind' = IF p \in stale' THEN behind \cup {p} ELSE behind \ {p}

(***************************************************************************)
(* The page: opening it, and the edits, which a running save does not      *)
(* prevent.  Each event ends in a render.                                  *)
(***************************************************************************)
OpenPage(p) ==
    /\ pc[p] = "closed"
    /\ Goto(p, "load")
    /\ UNCHANGED <<file, settings, shown, rows, edits, changes, key, lines, counters, history>>

\* What an event of a page with rows leaves alone.
Event(p) ==
    /\ p \in shown
    /\ UNCHANGED <<file, settings, shown, key, lines, stops, expected, harm, late, stale, failed>>
    /\ Render(p)

Value(p, k) == IF edits[p][k] = NoLine THEN rows[p][k] ELSE edits[p][k]

\* Editing a value back to what the page has rendered is not a change.
Set(p) ==
    /\ Event(p)
    /\ typed < MaxEdits
    /\ typed' = typed + 1
    /\ \E k \in Keys, v \in Values :
          /\ v # Value(p, k)
          /\ edits' = [edits EXCEPT ![p][k] = IF v = rows[p][k] THEN NoLine ELSE v]
    /\ UNCHANGED <<pc, changes, saves>>

Revert(p) ==
    /\ Event(p)
    /\ \E k \in Keys :
          /\ edits[p][k] # NoLine
          /\ edits' = [edits EXCEPT ![p][k] = NoLine]
    /\ UNCHANGED <<pc, changes, typed, saves>>

DiscardAll(p) ==
    /\ Event(p)
    /\ pc[p] = "ready"
    /\ edits[p] # Empty
    /\ edits' = [edits EXCEPT ![p] = Empty]
    /\ UNCHANGED <<pc, changes, typed, saves>>

\* A keystroke in the filter.
Filter(p) ==
    /\ Event(p)
    /\ UNCHANGED <<pc, edits, changes, typed, saves>>

(***************************************************************************)
(* A save: the edits are copied, then written key by key.                  *)
(***************************************************************************)
SaveAsync(p) ==
    /\ Event(p)
    /\ pc[p] = "ready"
    /\ edits[p] # Empty
    /\ saves < MaxSaves
    /\ saves' = saves + 1
    /\ changes' = [changes EXCEPT ![p] = edits[p]]
    /\ Goto(p, "read")
    /\ UNCHANGED <<edits, typed>>

\* Other pages between their read and the end of their write.
Reading(p) == {q \in Pages \ {p} : pc[q] = "open"}
Writing(p) == {q \in Pages \ {p} : pc[q] = "write"}

\* A read on the way to a write, and what it may do harm to.
ReadOneKey(p, k) ==
    /\ pc[p] = "read"
    /\ key' = [key EXCEPT ![p] = k]
    /\ harm' = harm \cup (IF Reading(p) # {} THEN {"overlap"} ELSE {})
                    \cup (IF Writing(p) # {} THEN {"torn"} ELSE {})
    /\ Goto(p, "open")
    /\ UNCHANGED <<file, settings, shown, rows, edits, changes, counters, expected, late, freshness>>

\* Mutant: keys that were not edited are written too.
ReadLinesOfAnyKey(p) ==
    \E k \in Keys :
       /\ ReadOneKey(p, k)
       /\ lines' = [lines EXCEPT ![p] = ModifyLine(file, k, changes[p][k])]

\* Mutant: the values of the array are written, not those in the file.
ReadLinesOfPage(p) ==
    \E k \in Keys :
       /\ changes[p][k] # NoLine
       /\ ReadOneKey(p, k)
       /\ lines' = [lines EXCEPT ![p] = ModifyLine(settings, k, changes[p][k])]

\* Mutant: only the line of the key is written back.
ReadOnlyLine(p) ==
    \E k \in Keys :
       /\ changes[p][k] # NoLine
       /\ ReadOneKey(p, k)
       /\ lines' = [lines EXCEPT ![p] = ModifyLine([Empty EXCEPT ![k] = file[k]], k, changes[p][k])]

ReadLines(p) ==
    \E k \in Keys :
       /\ changes[p][k] # NoLine
       /\ ReadOneKey(p, k)
       /\ lines' = [lines EXCEPT ![p] = ModifyLine(file, k, changes[p][k])]

TruncateFile(p) ==
    /\ pc[p] = "open"
    /\ file' = Empty
    /\ Goto(p, "write")
    /\ UNCHANGED <<settings, shown, rows, edits, changes, key, lines, counters, history>>

\* The lines go into the truncated file.
WriteKey(p) ==
    /\ pc[p] = "write"
    /\ file' = lines[p]
    /\ changes' = [changes EXCEPT ![p][key[p]] = NoLine]
    /\ expected' = ModifyLine(expected, key[p], changes[p][key[p]])
    /\ late' = late \cup {q \in Pages \ {p} : pc[q] \in Loaded}
    /\ stale' = stale \cup (Pages \ {p})
    /\ Forget(p)
    /\ UNCHANGED <<settings, shown, edits, counters, harm, failed>>

\* Mutant: the page does not load again after a save.
WriteLinesWithoutLoad(p) ==
    /\ WriteKey(p)
    /\ \/ changes'[p] = Empty /\ Goto(p, "ready") /\ Render(p)
       \/ changes'[p] # Empty /\ Goto(p, "read") /\ UNCHANGED <<rows, behind>>

WriteLines(p) ==
    /\ WriteKey(p)
    /\ Goto(p, IF changes'[p] = Empty THEN "load" ELSE "read")
    /\ behind' = behind \cup (Pages \ {p})
    /\ UNCHANGED rows

\* An IOException ends the save; the page shows it and keeps its edits.  A page
\* that fails to open is gone; the console goes on without the values.
IOFails(p) ==
    /\ pc[p] \in {"read", "open", "write", "load", "poll"}
    /\ UNCHANGED <<file, settings, shown, edits, counters, expected, late, stale>>
    /\ \/ p \in shown /\ Goto(p, "ready") /\ Render(p)
       \/ p \notin shown /\ Goto(p, "closed") /\ UNCHANGED <<rows, behind>>
    /\ harm' = IF pc[p] = "write" THEN harm \cup {"failure"} ELSE harm
    /\ failed' = failed \cup {p}
    /\ changes' = [changes EXCEPT ![p] = Empty]
    /\ Forget(p)

(***************************************************************************)
(* GetSettingsAsync, on opening a page, at the end of a save, and for the  *)
(* snapshot of a console page.                                             *)
(***************************************************************************)
PollConsole(p) ==
    /\ pc[p] = "closed"
    /\ Goto(p, "poll")
    /\ UNCHANGED <<file, settings, shown, rows, edits, changes, key, lines, counters, history>>

ReadForPage(p) ==
    /\ pc[p] \in {"load", "poll"}
    /\ lines' = [lines EXCEPT ![p] = file]
    /\ Goto(p, IF pc[p] = "load" THEN "show" ELSE "fill")
    /\ UNCHANGED <<file, settings, shown, rows, edits, changes, key, counters, history>>

\* A key the file does not have keeps the value it had.
FillSettings(p) ==
    /\ settings' = [k \in Keys |-> IF lines[p][k] = NoLine THEN settings[k] ELSE lines[p][k]]
    /\ stale' = IF p \in late THEN Pages ELSE {}
    /\ late' = late \ {p}
    /\ Forget(p)
    /\ UNCHANGED <<file, changes, counters, expected, harm>>

\* The page renders the array; its edits go.
ShowSettings(p) ==
    /\ pc[p] = "show"
    /\ FillSettings(p)
    /\ Render(p)
    /\ edits' = [edits EXCEPT ![p] = Empty]
    /\ shown' = shown \cup {p}
    /\ failed' = failed \ {p}
    /\ Goto(p, "ready")

\* The console takes what it needs; the edits of the settings pages stay.
PollEnds(p) ==
    /\ pc[p] = "fill"
    /\ FillSettings(p)
    /\ Goto(p, "closed")
    /\ UNCHANGED <<shown, rows, edits, behind, failed>>

(***************************************************************************)
(* Outside the page.                                                       *)
(***************************************************************************)
\* The Minecraft server starts: it writes the file back with every key.
ServerStarts ==
    /\ stops < MaxStops
    /\ stops' = stops + 1
    /\ file' = [k \in Keys |-> IF file[k] = NoLine THEN Default ELSE file[k]]
    /\ expected' = [k \in Keys |-> IF expected[k] = NoLine THEN Default ELSE expected[k]]
    /\ harm' = harm \cup (IF \E p \in Pages : pc[p] \in {"open", "write"} THEN {"server"} ELSE {})
    /\ late' = late \cup {p \in Pages : pc[p] \in Loaded}
    /\ stale' = Pages
    /\ behind' = Pages
    /\ UNCHANGED <<settings, page, typed, saves, failed>>

\* This process ends, in the middle of whatever it does, and starts again.
Restart ==
    /\ stops < MaxStops
    /\ stops' = stops + 1
    /\ pc' = [p \in Pages |-> "closed"]
    /\ shown' = {}
    /\ rows' = [p \in Pages |-> Empty]
    /\ edits' = [p \in Pages |-> Empty]
    /\ changes' = [p \in Pages |-> Empty]
    /\ settings' = Empty
    /\ harm' = harm \cup (IF \E p \in Pages : pc[p] = "write" THEN {"failure"} ELSE {})
    /\ stale' = Pages
    /\ behind' = {}
    /\ failed' = {}
    /\ key' = [p \in Pages |-> NoLine]
    /\ lines' = [p \in Pages |-> Empty]
    /\ late' = {}
    /\ UNCHANGED <<file, typed, saves, expected>>

Step(p) ==
    \/ OpenPage(p) \/ Set(p) \/ Revert(p) \/ DiscardAll(p) \/ Filter(p)
    \/ SaveAsync(p) \/ ReadLines(p) \/ TruncateFile(p) \/ WriteLines(p) \/ IOFails(p)
    \/ ReadForPage(p) \/ ShowSettings(p) \/ PollConsole(p) \/ PollEnds(p)

Next == (\E p \in Pages : Step(p)) \/ ServerStarts \/ Restart

Spec == Init /\ [][Next]_vars

(***************************************************************************)
(* Properties.                                                             *)
(***************************************************************************)
\* Every variable has its type; a page at a write has a key to write; only a
\* page with rows has edits.
TypeOK ==
    /\ file \in Contents /\ settings \in Contents
    /\ pc \in [Pages -> Busy \cup {"closed", "ready"}]
    /\ shown \subseteq Pages /\ rows \in [Pages -> Contents]
    /\ edits \in [Pages -> Contents] /\ changes \in [Pages -> Contents]
    /\ key \in [Pages -> Keys \cup {NoLine}] /\ lines \in [Pages -> Contents]
    /\ \A p \in Pages : pc[p] \in {"open", "write"} =>
          key[p] \in Keys /\ changes[p][key[p]] # NoLine
    /\ \A p \in Pages : edits[p] # Empty => p \in shown
    /\ typed \in 0..MaxEdits /\ saves \in 0..MaxSaves /\ stops \in 0..MaxStops
    /\ expected \in Contents
    /\ harm \subseteq {"overlap", "torn", "failure", "server"}
    /\ late \subseteq Pages /\ stale \subseteq Pages
    /\ behind \subseteq Pages /\ failed \subseteq Pages

\* Between writes, the file is what the saves so far make of it one after the
\* other: no key loses its line, no saved value is undone by another key's
\* save, as long as no read fell into another page's read-to-write span, no
\* write failed half way and the Minecraft server did not start in one.
SavesAreSerial ==
    harm = {} /\ (\A p \in Pages : pc[p] # "write") => file = expected

\* Two saves that read before either writes lose a value, never a line: lines
\* are lost only when a save reads what another has truncated, when a write is
\* cut short, or when the server adds lines a save in progress has not read.
LinesSurvive ==
    harm \subseteq {"overlap"} /\ (\A p \in Pages : pc[p] # "write") =>
        \A k \in Keys : expected[k] # NoLine => file[k] # NoLine

\* A page at rest shows what is stored, its own saves included, although the
\* array is everybody's: until another page's save or the Minecraft server
\* writes the file, which no page is told of, and again once the page has
\* rendered an array that was loaded since.  A load that began before another
\* page's save and ends after it leaves an old array until the next load; after
\* a failure of its own a page shows old values until its next save.
ShownIsStored ==
    \A p \in shown \ (behind \cup failed) : pc[p] = "ready" =>
        \A k \in Keys : file[k] # NoLine => rows[p][k] = file[k]
=============================================================================
