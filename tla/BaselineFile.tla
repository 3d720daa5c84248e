---------------------------- MODULE BaselineFile ----------------------------
(***************************************************************************)
(* The baseline of UnwiredGate as the lines of its file: what ReadBaseline *)
(* and readReasons scan and what WriteBaseline composes                    *)
(* (unwired/baseline.go).  A line is a sequence of tokens: a baseline key, *)
(* a TAB, a `#`, a word.  Spaces are not modelled: both readers trim them. *)
(*                                                                         *)
(* The steps of a run that do not touch the file are those of UnwiredGate. *)
(* GateRefined says that the scanners and the composer agree with each     *)
(* other: whatever lines a developer leaves in the file, a rewrite and the *)
(* read after it are the rewrite and the read of the gate.                 *)
(***************************************************************************)
EXTENDS Integers, SequencesExt

CONSTANTS
  Procs, Decls, KeyOf,
  KeyOrder,   \* the baseline keys in the order sort.Strings gives them
  Words,      \* what a developer writes in a comment
  Generated,  \* what the generated header says
  Tab, Hash,  \* the two bytes a line is cut at
  Coord,      \* a file:line coordinate
  MaxLines,   \* bound on the lines of a file a developer leaves
  MaxEdits,   \* bound on the developer's edits of the file
  MaxRuns,    \* bound on the runs of the command
  Absent, Missing, NotRead

Keys == ToSet(KeyOrder)
ASSUME KeyOrderAssumption ==
  KeyOrder \in Seq(Keys) /\ IsInjective(KeyOrder) /\ KeyOf \in [Decls -> Keys]
ASSUME TokensAssumption == Tab # Hash /\ Keys \cap {Tab, Hash} = {} /\ IsFiniteSet(Decls)
ASSUME BoundsAssumption == MaxLines \in Nat /\ MaxEdits \in Nat /\ MaxRuns \in Nat

\* The lines of a file, as developers and rewrites leave them.
CommentLines == {<<Hash, w>> : w \in Words \cup {Generated}}
EntryLines == {<<k>> : k \in Keys} \cup {<<k, Tab, Hash, Coord>> : k \in Keys}
FileLines == {<<>>} \cup CommentLines \cup EntryLines

VARIABLES
  lines,      \* the file: a sequence of lines, or Missing
  edits,      \* how often the developer has edited the file
  runs,       \* how many runs have started
  file,       \* what the two readers make of the lines, always Parsed(lines)
  unread, mode, pc, found, view, code, decided, atRisk  \* as in UnwiredGate

vars == <<lines, edits, runs, file, unread, mode, pc, found, view, code, decided, atRisk>>

-----------------------------------------------------------------------------
(* The readers *)

CutAt(line, token) ==
  SubSeq(line, 1, Min({Len(line)} \cup {j - 1 : j \in {i \in DOMAIN line : line[i] = token}}))

\* Mutant of KeyText: the coordinate after the TAB stays part of the key.
KeyTextUncut(line) == IF line # <<>> /\ line[1] = Hash THEN <<>> ELSE line

KeyText(line) == CutAt(CutAt(line, Tab), Hash)

IsBlank(line) == line = <<>>
IsComment(line) == ~IsBlank(line) /\ Head(line) = Hash
IsEntry(line) == ~IsBlank(line) /\ ~IsComment(line)

ReadBaseline(f) == {KeyText(f[i]) : i \in DOMAIN f} \ {<<>>}

\* An entry with comments above it takes them, whatever an earlier entry of its key had.
Recorded(s, line) ==
  IF s.pending = <<>> THEN s.out
  ELSE [t \in DOMAIN s.out \cup {KeyText(line)} |-> IF t = KeyText(line) THEN s.pending ELSE s.out[t]]

\* Mutant of ScanLine: a blank line does not end the comments before it.
ScanLineOverBlanks(s, line) ==
  CASE IsBlank(line) -> [s EXCEPT !.inHeader = FALSE]
    [] IsComment(line) -> IF s.inHeader THEN s ELSE [s EXCEPT !.pending = Append(@, line)]
    [] OTHER -> [inHeader |-> FALSE, pending |-> <<>>, out |-> Recorded(s, line)]

\* Mutant of ScanLine: a comment is kept without its `#`.
ScanLineStripped(s, line) ==
  CASE IsBlank(line) -> [s EXCEPT !.inHeader = FALSE, !.pending = <<>>]
    [] IsComment(line) -> IF s.inHeader THEN s ELSE [s EXCEPT !.pending = Append(@, Tail(line))]
    [] OTHER -> [inHeader |-> FALSE, pending |-> <<>>, out |-> Recorded(s, line)]

\* One line of the scan of readReasons.
ScanLine(s, line) ==
  CASE IsBlank(line) -> [s EXCEPT !.inHeader = FALSE, !.pending = <<>>]
    [] IsComment(line) -> IF s.inHeader THEN s ELSE [s EXCEPT !.pending = Append(@, line)]
    [] OTHER -> [inHeader |-> FALSE, pending |-> <<>>, out |-> Recorded(s, line)]

BeforeFirst == [inHeader |-> TRUE, pending |-> <<>>, out |-> <<>>]

Scan(f) ==
  LET scan[i \in 0..Len(f)] == IF i = 0 THEN BeforeFirst ELSE ScanLine(scan[i - 1], f[i])
  IN scan[Len(f)]

\* The reasons of a file: a function on the key texts that have one.
ReasonsIn(f) == Scan(f).out

-----------------------------------------------------------------------------
(* The writer *)

Header == << <<Hash, Generated>> >>

\* One line per declaration, not per key: declarations that share a key repeat it.
SortedKeys(F) ==
  FlattenSeq([i \in DOMAIN KeyOrder |->
    [j \in 1..Cardinality({d \in F : KeyOf[d] = KeyOrder[i]}) |-> KeyOrder[i]]])

\* Mutant of EntryBlock: the reason goes below its entry.
EntryBlockBelow(k, note) == << <<k, Tab, Hash, Coord>> >> \o note

EntryBlock(k, note) == note \o << <<k, Tab, Hash, Coord>> >>

\* c is what readReasons found: an entry's note, empty if there was none.
Compose(F, c) ==
  LET keys == SortedKeys(F)
      note(k) == IF c[k] = Absent THEN <<>> ELSE c[k]
  IN Header \o << <<>> >> \o FlattenSeq([i \in DOMAIN keys |-> EntryBlock(keys[i], note(keys[i]))])

-----------------------------------------------------------------------------
(* The gate that the lines implement *)

Parsed(f) ==
  IF f = Missing THEN f
  ELSE LET entries == ReadBaseline(f)
           reasons == ReasonsIn(f)
       IN [k \in Keys |-> IF <<k>> \notin entries THEN Absent
                          ELSE IF <<k>> \in DOMAIN reasons THEN reasons[<<k>>] ELSE <<>>]

Gate == INSTANCE UnwiredGate WITH Reasons <- Seq(CommentLines) \ {<<>>}, NoReason <- <<>>

ASSUME MarkersAssumption ==
  /\ Absent \notin Seq(CommentLines) /\ Missing \notin Seq(FileLines)
  /\ Missing \notin Gate!Contents /\ NotRead \notin Gate!Contents /\ Missing # NotRead

TypeOK ==
  /\ Gate!TypeOK
  /\ lines \in {Missing} \cup Seq(FileLines)
  /\ edits \in 0..MaxEdits /\ runs \in 0..MaxRuns

DeveloperLines == {<<>>} \cup {<<Hash, w>> : w \in Words} \cup {<<k>> : k \in Keys}

Init ==
  /\ lines \in BoundedSeq(DeveloperLines, MaxLines) \cup {Missing}
  /\ edits = 0
  /\ runs = 0
  /\ unread \in SUBSET Decls
  /\ mode = [p \in Procs |-> "list"]
  /\ pc = [p \in Procs |-> "idle"]
  /\ found = [p \in Procs |-> {}]
  /\ view = [p \in Procs |-> NotRead]
  /\ code = [p \in Procs |-> Gate!NoCode]
  /\ file = Parsed(lines)
  /\ decided = Gate!Text(file)
  /\ atRisk = {}

Start(p, m) ==
  /\ runs < MaxRuns
  /\ runs' = runs + 1
  /\ UNCHANGED <<lines, edits>>
  /\ Gate!Start(p, m)

\* Steps that neither read nor write the file.
Elsewhere(p) ==
  /\ UNCHANGED <<lines, edits, runs>>
  /\ Gate!Scan(p) \/ Gate!ScanFails(p) \/ Gate!List(p) \/ Gate!IOFails(p)

Check(p) ==
  /\ pc[p] = "loaded" /\ mode[p] = "check"
  /\ view' = [view EXCEPT ![p] = file]
  /\ Gate!Exit(p, IF lines = Missing THEN 2
                  ELSE IF \E d \in found[p] : <<KeyOf[d]>> \notin ReadBaseline(lines) THEN 1
                  ELSE 0)
  /\ UNCHANGED <<lines, file, edits, runs, unread, mode, found, decided, atRisk>>

ReadReasons(p) ==
  /\ pc[p] = "loaded" /\ mode[p] = "write"
  /\ view' = [view EXCEPT ![p] = Gate!Text(file)]
  /\ pc' = [pc EXCEPT ![p] = "read"]
  /\ UNCHANGED <<lines, file, edits, runs, unread, mode, found, code, decided, atRisk>>

Truncate(p) ==
  /\ pc[p] = "read"
  /\ lines' = <<>>
  /\ file' = Parsed(lines')
  /\ pc' = [pc EXCEPT ![p] = "truncated"]
  /\ UNCHANGED <<edits, runs, unread, mode, found, view, code, decided, atRisk>>

WriteBody(p) ==
  /\ pc[p] = "truncated"
  /\ lines' = Compose(found[p], view[p])
  /\ file' = Parsed(lines')
  /\ Gate!Exit(p, 0)
  /\ decided' = Gate!AfterRewrite(found[p])
  /\ atRisk' = atRisk \cap Gate!KeysOf(found[p])
  /\ UNCHANGED <<edits, runs, unread, mode, found, view>>

\* A write that fails or is killed leaves the first lines of the text.
StopShort(p, c) ==
  LET text == Compose(found[p], view[p]) IN
  /\ pc[p] = "truncated"
  /\ \E n \in 0..Len(text) : lines' = SubSeq(text, 1, n)
  /\ file' = Parsed(lines')
  /\ Gate!Exit(p, c)
  /\ found' = [found EXCEPT ![p] = {}]
  /\ view' = [view EXCEPT ![p] = NotRead]
  /\ atRisk' = Keys
  /\ UNCHANGED <<edits, runs, unread, mode, decided>>

WriteFails(p) == StopShort(p, 2)

Killed(p) ==
  \/ UNCHANGED <<lines, edits, runs>> /\ Gate!KilledBefore(p)
  \/ StopShort(p, Gate!KilledCode)

\* The developer inserts a line, deletes one, or deletes the file.
EditLines ==
  LET now == IF lines = Missing THEN <<>> ELSE lines IN
  /\ edits < MaxEdits
  /\ edits' = edits + 1
  /\ UNCHANGED runs
  /\ \/ /\ Len(now) < MaxLines
        /\ \E i \in 1..Len(now) + 1, l \in DeveloperLines : lines' = InsertAt(now, i, l)
        /\ Gate!EditFile(Parsed(lines'))
     \/ /\ \E i \in DOMAIN now : lines' = RemoveAt(now, i)
        /\ Gate!EditFile(Parsed(lines'))
     \/ lines' = Missing /\ Gate!DeleteFile

EditTree ==
  /\ UNCHANGED <<lines, edits, runs>>
  /\ Gate!EditTree

Step(p) ==
  Elsewhere(p) \/ Check(p) \/ ReadReasons(p) \/ Truncate(p) \/ WriteBody(p) \/ WriteFails(p)

Next ==
  \/ \E p \in Procs : Step(p) \/ Killed(p) \/ \E m \in Gate!Modes : Start(p, m)
  \/ EditLines
  \/ EditTree

\* The fairness of the gate: a started process is scheduled until it exits.
Spec == Init /\ [][Next]_vars /\ \A p \in Procs : WF_vars(Step(p))

-----------------------------------------------------------------------------

\* The file of lines implements the gate's file of entries and reasons: what a
\* rewrite composes is read back as exactly the entries and reasons it meant, also
\* when it is cut short (the round trip of baseline.go:36-39 and 65-69).
GateRefined == Gate!Init /\ [][Gate!Next]_(Gate!vars)

\* Rewriting a file just written, from the same scan, changes no line of it, so
\* that regenerating a baseline shows only what was resolved or added.
RewriteIsStable ==
  [][\A p \in Procs :
       pc[p] = "truncated" /\ code'[p] = 0 => Compose(found[p], file') = lines']_vars

\* Every run that starts comes to an exit code, whatever lines it reads and writes.
RunsExit == Gate!RunsExit

\* The comment lines directly above line i, as far up as they go.
DirectlyAbove(f, i) ==
  SubSeq(f, 1 + Max({0} \cup {j \in 1..i-1 : ~IsComment(f[j])}), i - 1)

\* The reason of entry i in the words of the doc comment (baseline.go:109-112): the
\* lines directly above it, unless they are the header.
ReasonAt(f, i) == IF \A j \in 1..i-1 : IsComment(f[j]) THEN <<>> ELSE DirectlyAbove(f, i)

\* The one-pass scan finds, for each key, the block above the last of its entries
\* that has one, and nothing else.
ScanFindsBlocks ==
  lines # Missing =>
    LET having == {i \in DOMAIN lines : IsEntry(lines[i]) /\ ReasonAt(lines, i) # <<>>}
        last(t) == Max({i \in having : KeyText(lines[i]) = t})
    IN ReasonsIn(lines) = [t \in {KeyText(lines[i]) : i \in having} |-> ReasonAt(lines, last(t))]
=============================================================================
