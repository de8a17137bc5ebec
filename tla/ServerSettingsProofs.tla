------------------------ MODULE ServerSettingsProofs ------------------------
(***************************************************************************)
(* Theorems about ServerSettings, for every set of pages, keys and values. *)
(***************************************************************************)
EXTENDS ServerSettings, TLAPS

(***************************************************************************)
(* Lemmas about lines.                                                     *)
(***************************************************************************)
\* A file with one line changed is a file, and has the lines it had.
LEMMA ModifyLineFacts ==
    ASSUME NEW content \in Contents, NEW k \in Keys, NEW v \in Lines
    PROVE  /\ ModifyLine(content, k, v) \in Contents
           /\ v # NoLine => \A j \in Keys : ModifyLine(content, k, v)[j] = NoLine <=> content[j] = NoLine
BY DEF ModifyLine, Contents, Lines

\* The empty file is a file.
LEMMA EmptyIsContents == Empty \in Contents
BY DEF Empty, Contents, Lines

Steps == Busy \cup {"closed", "ready"}

(***************************************************************************)
(* Type correctness, which is inductive as it stands.  The parts of TypeOK *)
(* that one action or another disturbs:                                    *)
(***************************************************************************)
InSpan(p) == pc[p] \in {"open", "write"}
KeysToWrite == \A p \in Pages : pc[p] \in {"open", "write"} => key[p] \in Keys /\ changes[p][key[p]] # NoLine
EditsAreShown == \A p \in Pages : edits[p] # Empty => p \in shown

\* The first states are well typed.
LEMMA TypeInit == Init => TypeOK
<1>. SUFFICES ASSUME Init PROVE TypeOK
  OBVIOUS
<1>1. /\ file \in Contents /\ settings \in Contents /\ expected \in Contents
      /\ edits \in [Pages -> Contents] /\ changes \in [Pages -> Contents]
      /\ lines \in [Pages -> Contents] /\ rows \in [Pages -> Contents]
  BY EmptyIsContents DEF Init
<1>2. /\ pc \in [Pages -> Busy \cup {"closed", "ready"}] /\ shown \subseteq Pages
      /\ key \in [Pages -> Keys \cup {NoLine}]
      /\ \A p \in Pages : pc[p] = "closed" /\ edits[p] = Empty
  BY DEF Init
<1>3. typed \in 0..MaxEdits /\ saves \in 0..MaxSaves /\ stops \in 0..MaxStops
  BY BoundsAssumption DEF Init
<1>4. /\ harm \subseteq {"overlap", "torn", "failure", "server"} /\ late \subseteq Pages
      /\ stale \subseteq Pages /\ behind \subseteq Pages /\ failed \subseteq Pages
  BY DEF Init
<1>. QED  BY <1>1, <1>2, <1>3, <1>4 DEF TypeOK

\* A page forgets its locals, or moves on.
LEMMA Moves ==
    ASSUME TypeOK, NEW p \in Pages, NEW step \in Steps, Goto(p, step)
    PROVE  /\ pc' \in [Pages -> Steps]
           /\ pc'[p] = step
           /\ \A q \in Pages \ {p} : pc'[q] = pc[q]
BY DEF TypeOK, Goto, Steps

\* The locals of the other pages are theirs.
LEMMA Forgets ==
    ASSUME TypeOK, NEW p \in Pages, Forget(p)
    PROVE  /\ key' \in [Pages -> Keys \cup {NoLine}]
           /\ lines' \in [Pages -> Contents]
           /\ \A q \in Pages \ {p} : key'[q] = key[q] /\ lines'[q] = lines[q]
BY EmptyIsContents DEF TypeOK, Forget

\* A render leaves the other pages as they are.
LEMMA Renders ==
    ASSUME TypeOK, NEW p \in Pages, Render(p), settings' \in Contents
    PROVE  /\ rows' \in [Pages -> Contents] /\ behind' \subseteq Pages
           /\ rows'[p] = settings'
           /\ \A q \in Pages \ {p} : rows'[q] = rows[q] /\ (q \in behind' <=> q \in behind)
BY DEF TypeOK, Render

\* What the other pages have to write stays theirs.
LEMMA OthersKeep ==
    ASSUME TypeOK, NEW p \in Pages,
           \A q \in Pages \ {p} : pc'[q] = pc[q] /\ key'[q] = key[q] /\ changes'[q] = changes[q],
           pc'[p] \in {"open", "write"} => key'[p] \in Keys /\ changes'[p][key'[p]] # NoLine
    PROVE  KeysToWrite'
BY DEF TypeOK, KeysToWrite

\* One step of a page.
LEMMA PageType == ASSUME TypeOK, NEW p \in Pages, Step(p) PROVE TypeOK'
<1>. USE DEF Steps
<1>0. pc \in [Pages -> Steps]
  BY DEF TypeOK
<1>1. ASSUME OpenPage(p) \/ PollConsole(p) PROVE TypeOK'
  <2>1. /\ pc' \in [Pages -> Steps]
        /\ \A q \in Pages : pc'[q] \in {"open", "write"} => pc'[q] = pc[q]
    BY <1>1, <1>0 DEF OpenPage, PollConsole, Goto, Busy
  <2>2. UNCHANGED <<file, settings, shown, rows, edits, changes, key, lines, counters, history>>
    BY <1>1 DEF OpenPage, PollConsole
  <2>. QED  BY <2>1, <2>2 DEF TypeOK, counters, history, freshness
<1>2. ASSUME Event(p), typed' \in 0..MaxEdits, saves' \in 0..MaxSaves,
             edits' \in [Pages -> Contents], \A q \in Pages \ {p} : edits'[q] = edits[q],
             pc' \in [Pages -> Steps], changes' \in [Pages -> Contents],
             \A q \in Pages : InSpan(q)' => InSpan(q) /\ changes'[q] = changes[q]
      PROVE  TypeOK'
  <2>1. p \in shown /\ UNCHANGED <<file, settings, shown, key, lines, stops, expected, harm, late, stale, failed>>
    BY <1>2 DEF Event
  <2>2. rows' \in [Pages -> Contents] /\ behind' \subseteq Pages
    BY <1>2, <2>1, Renders DEF Event, TypeOK
  <2>3. KeysToWrite'
    BY <1>2, <2>1 DEF TypeOK, KeysToWrite, InSpan
  <2>. QED  BY <1>2, <2>1, <2>2, <2>3 DEF TypeOK, KeysToWrite
<1>3. ASSUME Set(p) \/ Revert(p) \/ DiscardAll(p) \/ Filter(p) \/ SaveAsync(p) PROVE TypeOK'
  <2>1. CASE Set(p)
    <3>1. PICK k \in Keys, v \in Values :
            edits' = [edits EXCEPT ![p][k] = IF v = rows[p][k] THEN NoLine ELSE v]
      BY <2>1 DEF Set
    <3>2. edits' \in [Pages -> Contents] /\ \A q \in Pages \ {p} : edits'[q] = edits[q]
      BY <3>1 DEF TypeOK, Contents, Lines
    <3>3. typed' \in 0..MaxEdits
      BY <2>1, BoundsAssumption DEF Set, TypeOK
    <3>4. Event(p) /\ UNCHANGED <<pc, changes, saves>>
      BY <2>1 DEF Set
    <3>. QED  BY <1>2, <3>2, <3>3, <3>4 DEF TypeOK, InSpan
  <2>2. CASE Revert(p)
    <3>1. PICK k \in Keys : edits' = [edits EXCEPT ![p][k] = NoLine]
      BY <2>2 DEF Revert
    <3>2. edits' \in [Pages -> Contents] /\ \A q \in Pages \ {p} : edits'[q] = edits[q]
      BY <3>1 DEF TypeOK, Contents, Lines
    <3>3. Event(p) /\ UNCHANGED <<pc, changes, typed, saves>>
      BY <2>2 DEF Revert
    <3>. QED  BY <1>2, <3>2, <3>3 DEF TypeOK, InSpan
  <2>3. CASE DiscardAll(p) \/ Filter(p)
    <3>1. Event(p) /\ UNCHANGED <<pc, changes, typed, saves>>
      BY <2>3 DEF DiscardAll, Filter
    <3>2. edits' \in [Pages -> Contents] /\ \A q \in Pages \ {p} : edits'[q] = edits[q]
      BY <2>3, EmptyIsContents DEF DiscardAll, Filter, TypeOK
    <3>. QED  BY <1>2, <3>1, <3>2 DEF TypeOK, InSpan
  <2>4. CASE SaveAsync(p)
    <3>1. pc' \in [Pages -> Steps] /\ pc'[p] = "read" /\ \A q \in Pages \ {p} : pc'[q] = pc[q]
      BY <2>4, Moves DEF SaveAsync, Busy
    <3>2. changes' \in [Pages -> Contents] /\ \A q \in Pages \ {p} : changes'[q] = changes[q]
      BY <2>4 DEF SaveAsync, TypeOK
    <3>3. saves' \in 0..MaxSaves
      BY <2>4, BoundsAssumption DEF SaveAsync, TypeOK
    <3>4. Event(p) /\ UNCHANGED <<edits, typed>>
      BY <2>4 DEF SaveAsync
    <3>. QED  BY <1>2, <3>1, <3>2, <3>3, <3>4 DEF TypeOK, InSpan
  <2>. QED  BY <1>3, <2>1, <2>2, <2>3, <2>4
<1>4. ASSUME ReadLines(p) PROVE TypeOK'
  <2>1. PICK k \in Keys : /\ changes[p][k] # NoLine
                          /\ ReadOneKey(p, k)
                          /\ lines' = [lines EXCEPT ![p] = ModifyLine(file, k, changes[p][k])]
    BY <1>4 DEF ReadLines
  <2>2. pc' \in [Pages -> Steps] /\ pc'[p] = "open" /\ \A q \in Pages \ {p} : pc'[q] = pc[q]
    BY <2>1, Moves DEF ReadOneKey, Busy
  <2>3. /\ key' \in [Pages -> Keys \cup {NoLine}] /\ key'[p] = k
        /\ \A q \in Pages \ {p} : key'[q] = key[q]
    BY <2>1 DEF ReadOneKey, TypeOK
  <2>4. lines' \in [Pages -> Contents]
    <3>1. changes[p][k] \in Lines
      BY DEF TypeOK, Contents
    <3>. QED  BY <2>1, <3>1, ModifyLineFacts DEF TypeOK
  <2>5. UNCHANGED <<file, settings, shown, rows, edits, changes, counters, expected, late, freshness>>
    BY <2>1 DEF ReadOneKey
  <2>6. KeysToWrite'
    BY <2>1, <2>2, <2>3, <2>5, OthersKeep
  <2>7. harm' \subseteq {"overlap", "torn", "failure", "server"}
    BY <2>1 DEF ReadOneKey, TypeOK
  <2>. QED  BY <2>2, <2>3, <2>4, <2>5, <2>6, <2>7 DEF TypeOK, KeysToWrite, counters, freshness
<1>5. ASSUME TruncateFile(p) PROVE TypeOK'
  <2>1. pc[p] = "open" /\ pc' \in [Pages -> Steps] /\ \A q \in Pages \ {p} : pc'[q] = pc[q]
    BY <1>5, Moves DEF TruncateFile, Busy
  <2>2. KeysToWrite'
    BY <1>5, <2>1, OthersKeep DEF TruncateFile, TypeOK
  <2>. QED  BY <1>5, <2>1, <2>2, EmptyIsContents DEF TruncateFile, TypeOK, KeysToWrite, counters, history, freshness
<1>6. ASSUME WriteLines(p) PROVE TypeOK'
  <2>1. pc[p] = "write" /\ key[p] \in Keys /\ WriteKey(p)
    BY <1>6 DEF WriteLines, WriteKey, TypeOK
  <2>2. /\ pc' \in [Pages -> Steps] /\ pc'[p] \notin {"open", "write"}
        /\ \A q \in Pages \ {p} : pc'[q] = pc[q]
    <3>1. PICK step \in {"load", "read"} : Goto(p, step)
      BY <1>6 DEF WriteLines
    <3>. QED  BY <3>1, Moves DEF Busy
  <2>3. changes' \in [Pages -> Contents] /\ \A q \in Pages \ {p} : changes'[q] = changes[q]
    BY <2>1 DEF WriteKey, TypeOK, Contents, Lines
  <2>4. changes[p][key[p]] \in Lines
    BY <2>1 DEF TypeOK, Contents
  <2>5. expected' \in Contents
    BY <2>1, <2>4, ModifyLineFacts DEF WriteKey, TypeOK
  <2>6. /\ key' \in [Pages -> Keys \cup {NoLine}] /\ lines' \in [Pages -> Contents]
        /\ \A q \in Pages \ {p} : key'[q] = key[q]
    BY <2>1, Forgets DEF WriteKey
  <2>7. KeysToWrite'
    BY <2>2, <2>3, <2>6, OthersKeep
  <2>8. file' \in Contents /\ late' \subseteq Pages /\ stale' \subseteq Pages /\ behind' \subseteq Pages
    BY <1>6 DEF WriteLines, WriteKey, TypeOK
  <2>9. UNCHANGED <<settings, shown, rows, edits, counters, harm, failed>>
    BY <1>6 DEF WriteLines, WriteKey
  <2>. QED  BY <2>2, <2>3, <2>5, <2>6, <2>7, <2>8, <2>9 DEF TypeOK, KeysToWrite, counters
<1>7. ASSUME IOFails(p) PROVE TypeOK'
  <2>1. /\ pc' \in [Pages -> Steps] /\ pc'[p] \notin {"open", "write"}
        /\ \A q \in Pages \ {p} : pc'[q] = pc[q]
    <3>1. PICK step \in {"ready", "closed"} : Goto(p, step)
      BY <1>7 DEF IOFails
    <3>. QED  BY <3>1, Moves
  <2>2. changes' \in [Pages -> Contents] /\ \A q \in Pages \ {p} : changes'[q] = changes[q]
    BY <1>7, EmptyIsContents DEF IOFails, TypeOK
  <2>3. /\ key' \in [Pages -> Keys \cup {NoLine}] /\ lines' \in [Pages -> Contents]
        /\ \A q \in Pages \ {p} : key'[q] = key[q]
    BY <1>7, Forgets DEF IOFails
  <2>4. KeysToWrite'
    BY <2>1, <2>2, <2>3, OthersKeep
  <2>5. harm' \subseteq {"overlap", "torn", "failure", "server"} /\ failed' \subseteq Pages
    BY <1>7 DEF IOFails, TypeOK
  <2>6. UNCHANGED <<file, settings, shown, edits, counters, expected, late, stale>>
    BY <1>7 DEF IOFails
  <2>7. rows' \in [Pages -> Contents] /\ behind' \subseteq Pages
    BY <1>7, <2>6, Renders DEF IOFails, TypeOK
  <2>. QED  BY <2>1, <2>2, <2>3, <2>4, <2>5, <2>6, <2>7 DEF TypeOK, KeysToWrite, counters
<1>8. ASSUME ReadForPage(p) PROVE TypeOK'
  <2>1. /\ pc' \in [Pages -> Steps] /\ pc'[p] \notin {"open", "write"}
        /\ \A q \in Pages \ {p} : pc'[q] = pc[q]
    <3>1. PICK step \in {"show", "fill"} : Goto(p, step)
      BY <1>8 DEF ReadForPage
    <3>. QED  BY <3>1, Moves DEF Busy
  <2>2. lines' \in [Pages -> Contents]
    BY <1>8 DEF ReadForPage, TypeOK
  <2>3. KeysToWrite'
    BY <1>8, <2>1, OthersKeep DEF ReadForPage
  <2>. QED  BY <1>8, <2>1, <2>2, <2>3 DEF ReadForPage, TypeOK, KeysToWrite, counters, history, freshness
<1>9. ASSUME ShowSettings(p) \/ PollEnds(p) PROVE TypeOK'
  <2>0. FillSettings(p)
    BY <1>9 DEF ShowSettings, PollEnds
  <2>1. /\ pc' \in [Pages -> Steps] /\ pc'[p] \notin {"open", "write"}
        /\ \A q \in Pages \ {p} : pc'[q] = pc[q]
    <3>1. PICK step \in {"ready", "closed"} : Goto(p, step)
      BY <1>9 DEF ShowSettings, PollEnds
    <3>. QED  BY <3>1, Moves
  <2>2. /\ key' \in [Pages -> Keys \cup {NoLine}] /\ lines' \in [Pages -> Contents]
        /\ \A q \in Pages \ {p} : key'[q] = key[q]
    BY <2>0, Forgets DEF FillSettings
  <2>3. KeysToWrite'
    BY <2>0, <2>1, <2>2, OthersKeep DEF FillSettings
  <2>4. settings' \in Contents
    BY <2>0 DEF FillSettings, TypeOK, Contents
  <2>5. edits' \in [Pages -> Contents] /\ shown' \subseteq Pages /\ EditsAreShown'
    BY <1>9, EmptyIsContents DEF ShowSettings, PollEnds, TypeOK, EditsAreShown
  <2>6. late' \subseteq Pages /\ stale' \subseteq Pages /\ failed' \subseteq Pages
    BY <1>9, <2>0 DEF ShowSettings, PollEnds, FillSettings, TypeOK
  <2>7. UNCHANGED <<file, changes, counters, expected, harm>>
    BY <2>0 DEF FillSettings
  <2>8. rows' \in [Pages -> Contents] /\ behind' \subseteq Pages
    BY <1>9, <2>4, Renders DEF ShowSettings, PollEnds, TypeOK
  <2>. QED  BY <2>1, <2>2, <2>3, <2>4, <2>5, <2>6, <2>7, <2>8 DEF TypeOK, KeysToWrite, EditsAreShown, counters
<1>. QED  BY <1>1, <1>3, <1>4, <1>5, <1>6, <1>7, <1>8, <1>9 DEF Step

\* The Minecraft server starts, or this process does.
LEMMA OutsideType == ASSUME TypeOK, ServerStarts \/ Restart PROVE TypeOK'
<1>1. ASSUME ServerStarts PROVE TypeOK'
  <2>1. file' \in Contents /\ expected' \in Contents
    BY <1>1, ValuesAssumption DEF ServerStarts, TypeOK, Contents, Lines
  <2>2. stops' \in 0..MaxStops
    BY <1>1, BoundsAssumption DEF ServerStarts, TypeOK
  <2>3. /\ harm' \subseteq {"overlap", "torn", "failure", "server"} /\ late' \subseteq Pages
        /\ stale' \subseteq Pages /\ behind' \subseteq Pages
    BY <1>1 DEF ServerStarts, TypeOK
  <2>. QED  BY <1>1, <2>1, <2>2, <2>3 DEF ServerStarts, TypeOK, page
<1>2. ASSUME Restart PROVE TypeOK'
  <2>1. stops' \in 0..MaxStops
    BY <1>2, BoundsAssumption DEF Restart, TypeOK
  <2>2. /\ settings' \in Contents
        /\ edits' \in [Pages -> Contents] /\ changes' \in [Pages -> Contents]
        /\ lines' \in [Pages -> Contents] /\ rows' \in [Pages -> Contents]
    BY <1>2, EmptyIsContents DEF Restart
  <2>3. /\ pc' \in [Pages -> Steps] /\ shown' \subseteq Pages
        /\ key' \in [Pages -> Keys \cup {NoLine}]
        /\ \A p \in Pages : pc'[p] = "closed" /\ edits'[p] = Empty
    BY <1>2 DEF Restart, Steps
  <2>4. /\ harm' \subseteq {"overlap", "torn", "failure", "server"} /\ late' \subseteq Pages
        /\ stale' \subseteq Pages /\ behind' \subseteq Pages /\ failed' \subseteq Pages
    BY <1>2 DEF Restart, TypeOK
  <2>. QED  BY <1>2, <2>1, <2>2, <2>3, <2>4 DEF Restart, TypeOK, Steps
<1>. QED  BY <1>1, <1>2

\* Every step keeps the types.
LEMMA TypeStep == TypeOK /\ [Next]_vars => TypeOK'
<1>. SUFFICES ASSUME TypeOK, [Next]_vars PROVE TypeOK'
  OBVIOUS
<1>1. CASE UNCHANGED vars
  BY <1>1 DEF vars, page, counters, history, freshness, TypeOK
<1>. QED  BY <1>1, PageType, OutsideType DEF Next

\* The file, the array, the pages and their calls have their types throughout.
THEOREM TypeCorrect == Spec => []TypeOK
BY TypeInit, TypeStep, PTL DEF Spec

(***************************************************************************)
(* Saves one after the other.  A step is either quiet (it touches neither  *)
(* the file nor what pages are about to write), or one of the others.      *)
(***************************************************************************)
NobodyWrites == \A p \in Pages : pc[p] # "write"

Quiet ==
    /\ UNCHANGED <<file, expected>>
    /\ harm \subseteq harm'
    /\ \A p \in Pages : InSpan(p)' => UNCHANGED <<pc[p], key[p], changes[p], lines[p]>>
    /\ NobodyWrites' => NobodyWrites \/ "failure" \in harm'

\* The steps that are not quiet.
LEMMA StepCases ==
    ASSUME TypeOK, [Next]_vars
    PROVE  \/ Quiet \/ ServerStarts
           \/ \E p \in Pages : ReadLines(p) \/ TruncateFile(p) \/ WriteLines(p)
<1>1. CASE UNCHANGED vars
  BY <1>1 DEF vars, page, history, freshness, Quiet, InSpan, NobodyWrites
<1>2. CASE Restart
  BY <1>2 DEF Restart, Quiet, InSpan, NobodyWrites
<1>3. ASSUME NEW p \in Pages,
             \/ OpenPage(p) \/ Set(p) \/ Revert(p) \/ DiscardAll(p) \/ Filter(p) \/ SaveAsync(p)
             \/ PollConsole(p) \/ ReadForPage(p) \/ ShowSettings(p) \/ PollEnds(p)
      PROVE  Quiet
  <2>1. /\ UNCHANGED <<file, expected, harm>>
        /\ (pc' # pc => pc[p] # "write" /\ pc'[p] \notin {"open", "write"})
        /\ \A q \in Pages \ {p} : UNCHANGED <<pc[q], key[q], changes[q], lines[q]>>
        /\ (pc' = pc => UNCHANGED <<key, changes, lines>>)
    <3>1. CASE OpenPage(p) \/ PollConsole(p)
      BY <3>1 DEF OpenPage, PollConsole, Goto, TypeOK, history
    <3>2. CASE Set(p) \/ Revert(p) \/ DiscardAll(p) \/ Filter(p)
      BY <3>2 DEF Set, Revert, DiscardAll, Filter, Event
    <3>3. CASE SaveAsync(p)
      BY <3>3 DEF SaveAsync, Event, Goto, TypeOK
    <3>4. CASE ReadForPage(p)
      BY <3>4 DEF ReadForPage, Goto, TypeOK, history
    <3>5. CASE ShowSettings(p) \/ PollEnds(p)
      BY <3>5 DEF ShowSettings, PollEnds, FillSettings, Goto, Forget, TypeOK
    <3>. QED  BY <1>3, <3>1, <3>2, <3>3, <3>4, <3>5
  <2>. QED  BY <2>1 DEF Quiet, InSpan, NobodyWrites
<1>4. ASSUME NEW p \in Pages, IOFails(p) PROVE Quiet
  <2>1. /\ UNCHANGED <<file, expected>> /\ harm \subseteq harm'
        /\ pc'[p] \notin {"open", "write"}
        /\ \A q \in Pages \ {p} : UNCHANGED <<pc[q], key[q], changes[q], lines[q]>>
        /\ (pc[p] = "write" => "failure" \in harm')
    BY <1>4 DEF IOFails, Goto, Forget, TypeOK
  <2>. QED  BY <2>1 DEF Quiet, InSpan, NobodyWrites
<1>. QED  BY <1>1, <1>2, <1>3, <1>4 DEF Next, Step

SerialInv ==
    harm = {} =>
       /\ \A p \in Pages : InSpan(p) => lines[p] = ModifyLine(expected, key[p], changes[p][key[p]])
       /\ \A p, q \in Pages : InSpan(p) /\ InSpan(q) => p = q
       /\ NobodyWrites => file = expected

\* At first nobody writes.
LEMMA SerialInit == Init => SerialInv
BY DEF Init, SerialInv, InSpan, NobodyWrites

\* Every step keeps it, unless it does harm.
LEMMA SerialStep == TypeOK /\ SerialInv /\ [Next]_vars => SerialInv'
<1>. SUFFICES ASSUME TypeOK, SerialInv, [Next]_vars, harm' = {}
     PROVE  /\ \A p \in Pages : InSpan(p)' => lines'[p] = ModifyLine(expected', key'[p], changes'[p][key'[p]])
            /\ \A p, q \in Pages : InSpan(p)' /\ InSpan(q)' => p = q
            /\ NobodyWrites' => file' = expected'
  BY DEF SerialInv
<1>1. CASE Quiet
  <2>1. harm = {}
    BY <1>1 DEF Quiet
  <2>2. \A p \in Pages : InSpan(p)' => InSpan(p) /\ UNCHANGED <<key[p], changes[p], lines[p]>>
    BY <1>1 DEF Quiet, InSpan
  <2>3. \A p \in Pages : InSpan(p) => lines[p] = ModifyLine(expected, key[p], changes[p][key[p]])
    BY <2>1 DEF SerialInv
  <2>4. \A p \in Pages : InSpan(p)' => lines'[p] = ModifyLine(expected', key'[p], changes'[p][key'[p]])
    BY <1>1, <2>2, <2>3 DEF Quiet
  <2>5. \A p, q \in Pages : InSpan(p)' /\ InSpan(q)' => p = q
    BY <2>1, <2>2 DEF SerialInv
  <2>6. NobodyWrites' => file' = expected'
    BY <1>1, <2>1 DEF Quiet, SerialInv
  <2>. QED  BY <2>4, <2>5, <2>6
<1>2. CASE ServerStarts
  <2>1. /\ harm = {} /\ \A p \in Pages : ~InSpan(p)
        /\ UNCHANGED <<pc, key, changes, lines>>
    BY <1>2 DEF ServerStarts, InSpan, page
  <2>2. NobodyWrites
    BY <2>1 DEF NobodyWrites, InSpan
  <2>3. file = expected
    BY <2>1, <2>2 DEF SerialInv
  <2>4. file' = expected'
    BY <1>2, <2>3 DEF ServerStarts
  <2>. QED  BY <2>1, <2>4 DEF InSpan
<1>3. ASSUME NEW p \in Pages, NEW k \in Keys, ReadOneKey(p, k), changes[p][k] # NoLine,
             lines' = [lines EXCEPT ![p] = ModifyLine(file, k, changes[p][k])]
      PROVE  /\ \A q \in Pages : InSpan(q)' => lines'[q] = ModifyLine(expected', key'[q], changes'[q][key'[q]])
             /\ \A q, r \in Pages : InSpan(q)' /\ InSpan(r)' => q = r
             /\ NobodyWrites' => file' = expected'
  <2>1. harm = {} /\ \A q \in Pages \ {p} : ~InSpan(q)
    BY <1>3 DEF ReadOneKey, Reading, Writing, InSpan
  <2>2. pc[p] = "read" /\ pc' = [pc EXCEPT ![p] = "open"] /\ key' = [key EXCEPT ![p] = k]
        /\ UNCHANGED <<file, changes, expected>>
    BY <1>3 DEF ReadOneKey, Goto
  <2>3. NobodyWrites
    BY <2>1, <2>2 DEF NobodyWrites, InSpan
  <2>4. file = expected
    BY <2>1, <2>3 DEF SerialInv
  <2>5. \A q \in Pages \ {p} : ~InSpan(q)'
    BY <2>1, <2>2 DEF InSpan, TypeOK
  <2>6. lines'[p] = ModifyLine(expected', key'[p], changes'[p][key'[p]])
    BY <1>3, <2>2, <2>4 DEF TypeOK
  <2>. QED  BY <2>2, <2>4, <2>5, <2>6
<1>4. ASSUME NEW p \in Pages, TruncateFile(p)
      PROVE  /\ \A q \in Pages : InSpan(q)' => lines'[q] = ModifyLine(expected', key'[q], changes'[q][key'[q]])
             /\ \A q, r \in Pages : InSpan(q)' /\ InSpan(r)' => q = r
             /\ NobodyWrites' => file' = expected'
  <2>1. pc[p] = "open" /\ pc' = [pc EXCEPT ![p] = "write"] /\ UNCHANGED <<key, changes, lines, expected, harm>>
    BY <1>4 DEF TruncateFile, Goto, history
  <2>2. harm = {} /\ (\A q \in Pages : InSpan(q)' => InSpan(q)) /\ pc'[p] = "write"
    BY <2>1 DEF InSpan, TypeOK
  <2>3. \A q \in Pages : InSpan(q) => lines[q] = ModifyLine(expected, key[q], changes[q][key[q]])
    BY <2>2 DEF SerialInv
  <2>4. \A q, r \in Pages : InSpan(q) /\ InSpan(r) => q = r
    BY <2>2 DEF SerialInv
  <2>5. ~NobodyWrites'
    BY <2>2 DEF NobodyWrites
  <2>. QED  BY <2>1, <2>2, <2>3, <2>4, <2>5
<1>5. ASSUME NEW p \in Pages, WriteLines(p)
      PROVE  /\ \A q \in Pages : InSpan(q)' => lines'[q] = ModifyLine(expected', key'[q], changes'[q][key'[q]])
             /\ \A q, r \in Pages : InSpan(q)' /\ InSpan(r)' => q = r
             /\ NobodyWrites' => file' = expected'
  <2>1. pc[p] = "write" /\ harm = {} /\ file' = lines[p]
        /\ expected' = ModifyLine(expected, key[p], changes[p][key[p]])
    BY <1>5 DEF WriteLines, WriteKey
  <2>2. PICK step \in {"load", "read"} : pc' = [pc EXCEPT ![p] = step]
    BY <1>5 DEF WriteLines, Goto
  <2>3. \A q \in Pages : ~InSpan(q)'
    BY <2>1, <2>2 DEF SerialInv, InSpan, TypeOK
  <2>4. lines[p] = ModifyLine(expected, key[p], changes[p][key[p]])
    BY <2>1 DEF SerialInv, InSpan
  <2>. QED  BY <2>1, <2>3, <2>4
<1>. QED  BY <1>1, <1>2, <1>3, <1>4, <1>5, StepCases DEF ReadLines

\* Saves that harm nothing amount to saves made one after the other.
THEOREM SavesSerialize == Spec => []SavesAreSerial
<1>1. SerialInv => SavesAreSerial
  BY DEF SerialInv, SavesAreSerial, NobodyWrites
<1>. QED  BY <1>1, SerialInit, SerialStep, TypeCorrect, PTL DEF Spec

(***************************************************************************)
(* No line is lost.                                                        *)
(***************************************************************************)
Has(content) == \A k \in Keys : expected[k] # NoLine => content[k] # NoLine

LinesInv ==
    harm \subseteq {"overlap"} =>
       /\ \A p \in Pages : InSpan(p) => Has(lines[p])
       /\ NobodyWrites => Has(file)

\* At first the file is whole.
LEMMA LinesInit == Init => LinesInv
BY DEF Init, LinesInv, InSpan, Has

\* A save that reads a whole file writes a whole file.
LEMMA LinesStep == TypeOK /\ LinesInv /\ [Next]_vars => LinesInv'
<1>. SUFFICES ASSUME TypeOK, LinesInv, [Next]_vars, harm' \subseteq {"overlap"}
     PROVE  /\ \A p \in Pages : InSpan(p)' => Has(lines[p])'
            /\ NobodyWrites' => Has(file)'
  BY DEF LinesInv
<1>0. ASSUME harm \subseteq {"overlap"}
      PROVE  /\ \A p \in Pages : InSpan(p) => Has(lines[p])
             /\ NobodyWrites => Has(file)
  BY <1>0 DEF LinesInv
<1>1. CASE Quiet
  <2>1. harm \subseteq {"overlap"} /\ UNCHANGED <<file, expected>>
        /\ (NobodyWrites' => NobodyWrites)
    BY <1>1 DEF Quiet
  <2>2. \A p \in Pages : InSpan(p)' => InSpan(p) /\ lines'[p] = lines[p]
    BY <1>1 DEF Quiet, InSpan
  <2>. QED  BY <1>0, <2>1, <2>2 DEF Has
<1>2. CASE ServerStarts
  <2>1. /\ harm \subseteq {"overlap"} /\ \A p \in Pages : ~InSpan(p)
        /\ UNCHANGED pc
    BY <1>2 DEF ServerStarts, InSpan, page
  <2>2. NobodyWrites /\ \A p \in Pages : ~InSpan(p)'
    BY <2>1 DEF NobodyWrites, InSpan
  <2>3. Has(file)
    BY <1>0, <2>1, <2>2
  <2>4. Has(file)'
    BY <1>2, <2>3, ValuesAssumption DEF ServerStarts, Has
  <2>. QED  BY <2>2, <2>4
<1>3. ASSUME NEW p \in Pages, NEW k \in Keys, ReadOneKey(p, k), changes[p][k] # NoLine,
             lines' = [lines EXCEPT ![p] = ModifyLine(file, k, changes[p][k])]
      PROVE  /\ \A q \in Pages : InSpan(q)' => Has(lines[q])'
             /\ NobodyWrites' => Has(file)'
  <2>1. harm \subseteq {"overlap"} /\ \A q \in Pages \ {p} : pc[q] # "write"
    BY <1>3 DEF ReadOneKey, Writing
  <2>2. pc[p] = "read" /\ pc' = [pc EXCEPT ![p] = "open"] /\ UNCHANGED <<file, expected>>
    BY <1>3 DEF ReadOneKey, Goto
  <2>3. Has(file)
    BY <1>0, <2>1, <2>2 DEF NobodyWrites
  <2>4. \A j \in Keys : ModifyLine(file, k, changes[p][k])[j] = NoLine <=> file[j] = NoLine
    <3>1. file \in Contents /\ changes[p][k] \in Lines
      BY DEF TypeOK, Contents
    <3>. QED  BY <1>3, <3>1, ModifyLineFacts
  <2>5. Has(lines[p])'
    BY <1>3, <2>2, <2>3, <2>4 DEF Has, TypeOK
  <2>6. ASSUME NEW q \in Pages \ {p}, InSpan(q)' PROVE Has(lines[q])'
    <3>1. InSpan(q) /\ lines'[q] = lines[q]
      BY <1>3, <2>2, <2>6 DEF InSpan, TypeOK
    <3>. QED  BY <1>0, <2>1, <2>2, <3>1 DEF Has
  <2>. QED  BY <2>2, <2>3, <2>5, <2>6 DEF Has
<1>4. ASSUME NEW p \in Pages, TruncateFile(p)
      PROVE  /\ \A q \in Pages : InSpan(q)' => Has(lines[q])'
             /\ NobodyWrites' => Has(file)'
  <2>1. pc[p] = "open" /\ pc' = [pc EXCEPT ![p] = "write"] /\ UNCHANGED <<lines, expected, harm>>
    BY <1>4 DEF TruncateFile, Goto, history
  <2>2. (\A q \in Pages : InSpan(q)' => InSpan(q)) /\ pc'[p] = "write"
    BY <2>1 DEF InSpan, TypeOK
  <2>. QED  BY <1>0, <2>1, <2>2 DEF NobodyWrites, Has
<1>5. ASSUME NEW p \in Pages, WriteLines(p)
      PROVE  /\ \A q \in Pages : InSpan(q)' => Has(lines[q])'
             /\ NobodyWrites' => Has(file)'
  <2>1. pc[p] = "write" /\ harm' = harm /\ file' = lines[p] /\ Forget(p)
        /\ expected' = ModifyLine(expected, key[p], changes[p][key[p]])
    BY <1>5 DEF WriteLines, WriteKey
  <2>2. PICK step \in {"load", "read"} : pc' = [pc EXCEPT ![p] = step]
    BY <1>5 DEF WriteLines, Goto
  <2>3. \A k \in Keys : expected'[k] = NoLine <=> expected[k] = NoLine
    <3>1. key[p] \in Keys /\ changes[p][key[p]] # NoLine
      BY <2>1 DEF TypeOK
    <3>2. changes[p][key[p]] \in Lines
      BY <3>1 DEF TypeOK, Contents
    <3>. QED  BY <2>1, <3>1, <3>2, ModifyLineFacts DEF TypeOK
  <2>4. Has(lines[p])
    BY <1>0, <2>1 DEF InSpan
  <2>5. Has(file)'
    BY <2>1, <2>3, <2>4 DEF Has
  <2>6. ASSUME NEW q \in Pages, InSpan(q)' PROVE Has(lines[q])'
    <3>1. q # p /\ InSpan(q) /\ lines'[q] = lines[q]
      BY <2>1, <2>2, <2>6 DEF InSpan, Forget, TypeOK
    <3>2. Has(lines[q])
      BY <1>0, <2>1, <3>1
    <3>. QED  BY <2>3, <3>1, <3>2 DEF Has
  <2>. QED  BY <2>5, <2>6
<1>. QED  BY <1>1, <1>2, <1>3, <1>4, <1>5, StepCases DEF ReadLines

\* Saves that overlap lose values at most, never a line of the file.
THEOREM LinesAreKept == Spec => []LinesSurvive
<1>1. LinesInv => LinesSurvive
  BY DEF LinesInv, LinesSurvive, NobodyWrites, Has
<1>. QED  BY <1>1, LinesInit, LinesStep, TypeCorrect, PTL DEF Spec

(***************************************************************************)
(* What is shown.  Agree is about the keys the file has: the others keep   *)
(* whatever value the page showed.  A page in a save, or in the load after *)
(* it, will render the file when it is done: until then its rows may be    *)
(* anything.  The array agrees with the file for every other page that no  *)
(* write has left behind, and so do the rows such a page renders from it.  *)
(***************************************************************************)
Agree(content) == \A k \in Keys : file[k] # NoLine => content[k] = file[k]

Settled(p) == pc[p] \notin {"read", "open", "write", "load", "show"}

LoadsAgree == \A p \in Pages : pc[p] \in Loaded /\ p \notin late => Agree(lines[p])
ArrayAgrees == \A p \in Pages : Settled(p) /\ p \notin stale \cup failed => Agree(settings)
RowsAgree == \A p \in shown : Settled(p) /\ p \notin behind \cup failed => Agree(rows[p])

ShownInv == LoadsAgree /\ ArrayAgrees /\ RowsAgree

\* Nothing is shown at first.
LEMMA ShownInit == Init => ShownInv
<1>. SUFFICES ASSUME Init PROVE ShownInv
  OBVIOUS
<1>1. stale = Pages /\ shown = {} /\ \A p \in Pages : pc[p] = "closed"
  BY DEF Init
<1>. QED  BY <1>1 DEF ShownInv, LoadsAgree, ArrayAgrees, RowsAgree, Loaded

\* Steps of the pages that touch neither the file nor the array, and settle no
\* page: what they render is the array.
LEMMA ShownFrame ==
    ASSUME TypeOK, ShownInv, UNCHANGED <<file, settings, shown, late, stale>>, failed \subseteq failed',
           \A p \in Pages : pc'[p] \in Loaded => pc[p] = pc'[p] /\ lines'[p] = lines[p],
           \A p \in Pages : Settled(p)' /\ p \notin failed' => Settled(p),
           \A p \in Pages : \/ rows'[p] = rows[p] /\ (p \in behind => p \in behind')
                            \/ rows'[p] = settings /\ (p \in stale => p \in behind')
    PROVE  ShownInv'
<1>2. LoadsAgree'
  BY DEF ShownInv, LoadsAgree, Agree
<1>3. ArrayAgrees'
  BY DEF ShownInv, ArrayAgrees, Agree
<1>4. ASSUME NEW p \in shown', Settled(p)', p \notin behind' \cup failed' PROVE Agree(rows[p])'
  <2>0. p \in Pages /\ p \in shown /\ Settled(p) /\ p \notin failed
    BY <1>4 DEF TypeOK
  <2>1. CASE rows'[p] = rows[p] /\ p \notin behind
    <3>1. Agree(rows[p])
      BY <2>0, <2>1 DEF ShownInv, RowsAgree
    <3>. QED  BY <2>1, <3>1 DEF Agree
  <2>2. CASE rows'[p] = settings /\ p \notin stale
    <3>1. Agree(settings)
      BY <2>0, <2>2 DEF ShownInv, ArrayAgrees
    <3>. QED  BY <2>2, <3>1 DEF Agree
  <2>. QED  BY <1>4, <2>0, <2>1, <2>2
<1>. QED  BY <1>2, <1>3, <1>4 DEF ShownInv, RowsAgree

\* A page that goes to work on a load or a save, or reads for its save.
LEMMA ShownWork ==
    ASSUME TypeOK, ShownInv, NEW p \in Pages,
           OpenPage(p) \/ PollConsole(p) \/ ReadLines(p)
    PROVE  ShownInv'
<1>1. PICK step \in {"load", "poll", "open"} : Goto(p, step)
  BY DEF OpenPage, PollConsole, ReadLines, ReadOneKey
<1>2. UNCHANGED <<file, settings, shown, rows, late, stale, behind, failed>>
  BY DEF OpenPage, PollConsole, ReadLines, ReadOneKey, history, freshness
<1>3. pc'[p] = step /\ \A q \in Pages \ {p} : pc'[q] = pc[q]
  BY <1>1, Moves DEF Steps, Busy
<1>4. \A q \in Pages \ {p} : lines'[q] = lines[q]
  BY DEF OpenPage, PollConsole, ReadLines, TypeOK
<1>5. Settled(p)' => Settled(p)
  BY <1>1, <1>3 DEF OpenPage, PollConsole, ReadLines, ReadOneKey, Settled, Goto, TypeOK
<1>6. pc'[p] \notin Loaded
  BY <1>3 DEF Loaded
<1>. QED  BY <1>2, <1>3, <1>4, <1>5, <1>6, ShownFrame DEF Settled

\* An event of a page renders it.
LEMMA ShownEvent ==
    ASSUME TypeOK, ShownInv, NEW p \in Pages, Event(p),
           pc' = pc \/ Goto(p, "read")
    PROVE  ShownInv'
<1>1. UNCHANGED <<file, settings, shown, lines, late, stale, failed>> /\ Render(p)
  BY DEF Event
<1>2. \A q \in Pages : pc'[q] = pc[q] \/ pc'[q] = "read"
  BY DEF Goto, TypeOK
<1>3. /\ \A q \in Pages : pc'[q] \in Loaded => pc'[q] = pc[q]
      /\ \A q \in Pages : Settled(q)' => Settled(q)
  BY <1>2 DEF Settled, Loaded
<1>4. /\ rows'[p] = settings /\ (p \in stale => p \in behind')
      /\ \A q \in Pages \ {p} : rows'[q] = rows[q] /\ (q \in behind => q \in behind')
  BY <1>1 DEF Render, TypeOK
<1>. QED  BY <1>1, <1>3, <1>4, ShownFrame

\* Every step keeps it: a load that is not late shows the file, and a change of
\* the file leaves the other pages behind and its own page at work.
LEMMA ShownStep == TypeOK /\ ShownInv /\ [Next]_vars => ShownInv'
<1>. SUFFICES ASSUME TypeOK, ShownInv, [Next]_vars PROVE ShownInv'
  OBVIOUS
<1>. USE DEF ShownInv, LoadsAgree, ArrayAgrees, RowsAgree
<1>1. CASE UNCHANGED vars
  BY <1>1 DEF vars, page, history, freshness, Agree, Settled
<1>2. CASE ServerStarts
  <2>1. /\ stale' = Pages /\ behind' = Pages /\ shown' \subseteq Pages
        /\ \A p \in Pages : pc'[p] \in Loaded => p \in late'
    BY <1>2 DEF ServerStarts, page, TypeOK
  <2>. QED  BY <2>1
<1>3. CASE Restart
  <2>1. stale' = Pages /\ shown' = {} /\ \A p \in Pages : pc'[p] = "closed"
    BY <1>3 DEF Restart
  <2>. QED  BY <2>1 DEF Loaded
<1>4. ASSUME NEW p \in Pages, OpenPage(p) \/ PollConsole(p) \/ ReadLines(p) PROVE ShownInv'
  BY <1>4, ShownWork
<1>5. ASSUME NEW p \in Pages, Set(p) \/ Revert(p) \/ DiscardAll(p) \/ Filter(p) \/ SaveAsync(p)
      PROVE  ShownInv'
  BY <1>5, ShownEvent DEF Set, Revert, DiscardAll, Filter, SaveAsync
<1>6. ASSUME NEW p \in Pages, TruncateFile(p) PROVE ShownInv'
  BY <1>6 DEF TruncateFile, Agree, Empty
<1>7. ASSUME NEW p \in Pages, WriteLines(p) PROVE ShownInv'
  <2>1. PICK step \in {"load", "read"} : Goto(p, step)
    BY <1>7 DEF WriteLines
  <2>2. pc'[p] = step /\ \A q \in Pages \ {p} : pc'[q] = pc[q]
    BY <2>1, Moves DEF Steps, Busy
  <2>3. \A q \in Pages : pc'[q] \in Loaded => q \in late'
    BY <1>7, <2>2 DEF WriteLines, WriteKey, Loaded
  <2>4. /\ ~Settled(p)' /\ shown' \subseteq Pages
        /\ \A q \in Pages \ {p} : q \in stale' /\ q \in behind'
    BY <1>7, <2>2 DEF WriteLines, WriteKey, Settled, TypeOK
  <2>. QED  BY <2>3, <2>4
<1>8. ASSUME NEW p \in Pages, IOFails(p) PROVE ShownInv'
  <2>1. /\ UNCHANGED <<file, settings, shown, late, stale>> /\ failed' = failed \cup {p}
        /\ \A q \in Pages \ {p} : rows'[q] = rows[q] /\ (q \in behind => q \in behind')
    BY <1>8 DEF IOFails, Render, TypeOK
  <2>2. PICK step \in {"ready", "closed"} : Goto(p, step)
    BY <1>8 DEF IOFails
  <2>3. pc'[p] = step /\ \A q \in Pages \ {p} : pc'[q] = pc[q] /\ lines'[q] = lines[q]
    BY <1>8, <2>2, Moves DEF IOFails, Forget, TypeOK, Steps
  <2>4. LoadsAgree'
    BY <2>1, <2>3 DEF Loaded, Agree
  <2>5. ArrayAgrees'
    BY <2>1, <2>3 DEF Settled, Agree
  <2>6. ASSUME NEW q \in shown', Settled(q)', q \notin behind' \cup failed' PROVE Agree(rows[q])'
    <3>1. q \in Pages \ {p} /\ q \in shown /\ q \notin behind \cup failed /\ Settled(q)
      BY <2>1, <2>3, <2>6 DEF Settled, TypeOK
    <3>2. Agree(rows[q])
      BY <3>1
    <3>. QED  BY <2>1, <3>1, <3>2 DEF Agree
  <2>. QED  BY <2>4, <2>5, <2>6
<1>9. ASSUME NEW p \in Pages, ReadForPage(p) PROVE ShownInv'
  <2>1. /\ UNCHANGED <<file, settings, shown, rows, late, stale, behind, failed>> /\ lines'[p] = file
        /\ \A q \in Pages \ {p} : pc'[q] = pc[q] /\ lines'[q] = lines[q]
        /\ Settled(p)' <=> Settled(p)
    BY <1>9 DEF ReadForPage, Goto, TypeOK, Settled, history, freshness
  <2>2. LoadsAgree'
    BY <2>1 DEF Agree
  <2>3. \A q \in Pages : Settled(q)' <=> Settled(q)
    BY <2>1 DEF Settled
  <2>4. ArrayAgrees'
    BY <2>1, <2>3 DEF Agree
  <2>5. RowsAgree'
    BY <2>1, <2>3 DEF Agree, TypeOK
  <2>. QED  BY <2>2, <2>4, <2>5
<1>10. ASSUME NEW p \in Pages, ShowSettings(p) \/ PollEnds(p) PROVE ShownInv'
  <2>0. FillSettings(p)
    BY <1>10 DEF ShowSettings, PollEnds
  <2>1. /\ pc[p] \in Loaded /\ UNCHANGED file /\ late' = late \ {p}
        /\ pc'[p] \in {"ready", "closed"} /\ stale' = IF p \in late THEN Pages ELSE {}
        /\ settings' = [k \in Keys |-> IF lines[p][k] = NoLine THEN settings[k] ELSE lines[p][k]]
        /\ \A q \in Pages \ {p} : pc'[q] = pc[q] /\ lines'[q] = lines[q]
    <3>1. PICK step \in {"ready", "closed"} : Goto(p, step)
      BY <1>10 DEF ShowSettings, PollEnds
    <3>. QED  BY <1>10, <2>0, <3>1 DEF ShowSettings, PollEnds, FillSettings, Loaded, Goto, Forget, TypeOK
  <2>2. LoadsAgree'
    BY <2>1 DEF Agree, Loaded
  <2>3. ASSUME p \notin late PROVE Agree(settings)'
    <3>1. Agree(lines[p])
      BY <2>1, <2>3
    <3>. QED  BY <2>1, <3>1 DEF Agree
  <2>4. ArrayAgrees'
    BY <2>1, <2>3
  <2>5. \A q \in Pages \ {p} : rows'[q] = rows[q] /\ (q \in behind => q \in behind')
                               /\ (q \in shown' => q \in shown) /\ (q \in failed => q \in failed')
                               /\ (Settled(q)' <=> Settled(q))
    BY <1>10, <2>1 DEF ShowSettings, PollEnds, Render, TypeOK, Settled
  <2>6. ASSUME NEW q \in shown', q # p, Settled(q)', q \notin behind' \cup failed' PROVE Agree(rows[q])'
    <3>1. q \in Pages
      BY <1>10, <2>6 DEF ShowSettings, PollEnds, TypeOK
    <3>2. Agree(rows[q])
      BY <2>5, <2>6, <3>1
    <3>. QED  BY <2>1, <2>5, <2>6, <3>1, <3>2 DEF Agree
  <2>7. ASSUME p \in shown', p \notin behind' \cup failed' PROVE Agree(rows[p])'
    <3>1. CASE ShowSettings(p)
      <4>1. rows'[p] = settings' /\ (p \in stale' => p \in behind')
        BY <3>1 DEF ShowSettings, Render, TypeOK
      <4>. QED  BY <2>1, <2>3, <2>7, <4>1
    <3>2. CASE PollEnds(p)
      <4>1. p \in shown /\ pc[p] = "fill" /\ p \notin behind \cup failed /\ rows' = rows
        BY <2>7, <3>2 DEF PollEnds
      <4>2. Agree(rows[p])
        BY <4>1 DEF Settled
      <4>. QED  BY <2>1, <4>1, <4>2 DEF Agree
    <3>. QED  BY <1>10, <3>1, <3>2
  <2>. QED  BY <2>2, <2>4, <2>6, <2>7
<1>. QED  BY <1>1, <1>2, <1>3, <1>4, <1>5, <1>6, <1>7, <1>8, <1>9, <1>10 DEF Next, Step

\* A page at rest shows the file, unless somebody else's write, a late load or
\* a failure has left it behind.
THEOREM ShownStored == Spec => []ShownIsStored
<1>1. ShownInv => ShownIsStored
  BY DEF ShownInv, RowsAgree, ShownIsStored, Settled, Agree
<1>. QED  BY <1>1, ShownInit, ShownStep, TypeCorrect, PTL DEF Spec
=============================================================================
