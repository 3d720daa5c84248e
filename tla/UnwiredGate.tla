---------------------------- MODULE UnwiredGate ----------------------------
(***************************************************************************)
(* The gate of cmd/unwired: runs of the command against one module tree    *)
(* and one committed baseline file.  A run scans the tree for declarations *)
(* that nothing reads and then lists them, compares them with the baseline *)
(* (a check run), or rewrites the baseline from them (a -write run).  Runs *)
(* are processes: they overlap each other and the developer, who edits the *)
(* tree and the baseline at any time, and they can fail or be killed at    *)
(* each step.                                                              *)
(*                                                                         *)
(* The file is modelled by what its two readers make of it: the entries    *)
(* and, for each entry, the reason written above it.  BaselineFile refines *)
(* it to the lines of the file.                                            *)
(***************************************************************************)
EXTENDS Integers, FiniteSets

CONSTANTS
  Procs,      \* runs of the command
  Decls,      \* the declarations of the module, as analysed
  Keys,       \* baseline keys
  KeyOf,      \* the ContentKey of a declaration
  Reasons,    \* reasons a developer writes above an entry
  NoReason,   \* an entry with no `#` line above it
  Absent,     \* no entry
  Missing,    \* there is no baseline file
  NotRead     \* this run has not read the baseline

Notes == Reasons \cup {NoReason}
Contents == [Keys -> Notes \cup {Absent}]
Empty == [k \in Keys |-> Absent]

ASSUME KeyOfAssumption == KeyOf \in [Decls -> Keys]
ASSUME AbsentAssumption == Absent \notin Notes /\ NoReason \notin Reasons
ASSUME FileAssumption == Missing \notin Contents /\ NotRead \notin Contents /\ Missing # NotRead

NoCode == -1      \* not started, or running
KilledCode == 137 \* what a shell reports of a killed process

VARIABLES
  unread,     \* the declarations a scan of the tree would report now
  file,       \* the baseline file
  mode,       \* what each run was asked to do
  pc,         \* where each run is
  found,      \* the unread set each run's scan returned
  view,       \* what each run made of the baseline it read
  code,       \* the exit code of each finished run
  \* History of what the file should say; the program has no such state.
  decided,    \* the file as atomic rewrites and the developer's edits leave it
  atRisk      \* keys whose line a torn rewrite, or one an edit raced, may have lost

runVars == <<mode, pc, found, view, code>>
history == <<decided, atRisk>>
vars == <<unread, file, runVars, history>>

Modes == {"list", "check", "write"}
Phases == {"idle", "scan", "loaded", "read", "truncated"}
Codes == {0, 1, 2, KilledCode, NoCode}

KeysOf(F) == {KeyOf[d] : d \in F}
Entries(c) == {k \in Keys : c[k] # Absent}
Text(f) == IF f = Missing THEN Empty ELSE f

\* Declarations the baseline does not tolerate, and entries that are resolved.
Added(F, f) == {d \in F : KeyOf[d] \notin Entries(f)}
Fixed(F, f) == Entries(f) \ KeysOf(F)

\* The file WriteBaseline composes from a scan and the reasons it read.
Rewritten(F, c) ==
  LET keys == KeysOf(F) IN
  [k \in Keys |-> IF k \notin keys THEN Absent
                  ELSE IF c[k] = Absent THEN NoReason ELSE c[k]]

\* A file cut short: an entry and the reason above it are kept or lost together.
Torn(F, c) ==
  LET text == Rewritten(F, c) IN
  {[k \in Keys |-> IF k \in kept THEN text[k] ELSE Absent] : kept \in SUBSET KeysOf(F)}

\* Mutants of Verdict: growth counted instead of matched by key; resolved entries
\* that fail the gate; the exit code as a count.
VerdictByCount(F, f) ==
  IF f = Missing THEN 2
  ELSE IF Cardinality(Added(F, f)) > Cardinality(Fixed(F, f)) THEN 1 ELSE 0
VerdictOnAnyChange(F, f) ==
  IF f = Missing THEN 2 ELSE IF Added(F, f) \cup Fixed(F, f) # {} THEN 1 ELSE 0
VerdictCounts(F, f) ==
  IF f = Missing THEN 2 ELSE IF Added(F, f) # {} THEN 1 + Cardinality(Added(F, f)) ELSE 0

Verdict(F, f) ==
  IF f = Missing THEN 2 ELSE IF Added(F, f) # {} THEN 1 ELSE 0

\* What a rewrite owes the record: entries still unread keep their reason, newly
\* unread ones start without, and the rest go.
AfterRewrite(F) ==
  [k \in Keys |-> IF k \in KeysOf(F) /\ decided[k] # Absent THEN decided[k]
                  ELSE IF k \in KeysOf(F) THEN NoReason ELSE Absent]

Rewriting == \E p \in Procs : pc[p] \in {"read", "truncated"}
BeingWritten == \E p \in Procs : pc[p] = "truncated"

TypeOK ==
  /\ unread \subseteq Decls
  /\ file \in Contents \cup {Missing}
  /\ mode \in [Procs -> Modes]
  /\ pc \in [Procs -> Phases]
  /\ found \in [Procs -> SUBSET Decls]
  /\ view \in [Procs -> Contents \cup {Missing, NotRead}]
  /\ code \in [Procs -> Codes]
  /\ decided \in Contents
  /\ atRisk \subseteq Keys

Init ==
  /\ unread \in SUBSET Decls
  /\ file \in Contents \cup {Missing}
  /\ mode = [p \in Procs |-> "list"]
  /\ pc = [p \in Procs |-> "idle"]
  /\ found = [p \in Procs |-> {}]
  /\ view = [p \in Procs |-> NotRead]
  /\ code = [p \in Procs |-> NoCode]
  /\ decided = Text(file)
  /\ atRisk = {}

-----------------------------------------------------------------------------
(* The command *)

\* Environment assumption: two -write runs of one checkout do not overlap.
OneWriter(p, m) ==
  m = "write" => \A q \in Procs \ {p} : mode[q] # "write" \/ pc[q] = "idle"

Start(p, m) ==
  /\ pc[p] = "idle"
  /\ OneWriter(p, m)
  /\ mode' = [mode EXCEPT ![p] = m]
  /\ pc' = [pc EXCEPT ![p] = "scan"]
  /\ found' = [found EXCEPT ![p] = {}]
  /\ view' = [view EXCEPT ![p] = NotRead]
  /\ code' = [code EXCEPT ![p] = NoCode]
  /\ UNCHANGED <<unread, file, history>>

Exit(p, c) ==
  /\ pc' = [pc EXCEPT ![p] = "idle"]
  /\ code' = [code EXCEPT ![p] = c]

\* What a run knew goes with it; it is kept only of the runs that came to an
\* answer, for the properties that compare them.
Forget(p) ==
  /\ found' = [found EXCEPT ![p] = {}]
  /\ view' = [view EXCEPT ![p] = NotRead]

Scan(p) ==
  /\ pc[p] = "scan"
  /\ pc' = [pc EXCEPT ![p] = "loaded"]
  /\ found' = [found EXCEPT ![p] = unread]
  /\ UNCHANGED <<unread, file, mode, view, code, history>>

\* Mutant of ScanFails: the code cmd/crdfields gives to every error.
ScanFailsAsVerdict(p) ==
  /\ pc[p] = "scan"
  /\ Exit(p, 1)
  /\ Forget(p)
  /\ UNCHANGED <<unread, file, mode, history>>

\* Analyze refuses: no package, a load error, an unreadable consumer.
ScanFails(p) ==
  /\ pc[p] = "scan"
  /\ Exit(p, 2)
  /\ Forget(p)
  /\ UNCHANGED <<unread, file, mode, history>>

List(p) ==
  /\ pc[p] = "loaded" /\ mode[p] = "list"
  /\ Exit(p, 0)
  /\ Forget(p)
  /\ UNCHANGED <<unread, file, mode, history>>

Check(p) ==
  /\ pc[p] = "loaded" /\ mode[p] = "check"
  /\ view' = [view EXCEPT ![p] = file]
  /\ Exit(p, Verdict(found[p], file))
  /\ UNCHANGED <<unread, file, mode, found, history>>

\* Mutant of ReadReasons: the reasons of the old file are not read.
ReadNoReasons(p) ==
  /\ pc[p] = "loaded" /\ mode[p] = "write"
  /\ view' = [view EXCEPT ![p] = Empty]
  /\ pc' = [pc EXCEPT ![p] = "read"]
  /\ UNCHANGED <<unread, file, mode, found, code, history>>

ReadReasons(p) ==
  /\ pc[p] = "loaded" /\ mode[p] = "write"
  /\ view' = [view EXCEPT ![p] = Text(file)]
  /\ pc' = [pc EXCEPT ![p] = "read"]
  /\ UNCHANGED <<unread, file, mode, found, code, history>>

\* os.WriteFile opens with O_TRUNC, then writes.
Truncate(p) ==
  /\ pc[p] = "read"
  /\ file' = Empty
  /\ pc' = [pc EXCEPT ![p] = "truncated"]
  /\ UNCHANGED <<unread, mode, found, view, code, history>>

WriteBody(p) ==
  /\ pc[p] = "truncated"
  /\ file' = Rewritten(found[p], view[p])
  /\ Exit(p, 0)
  /\ decided' = AfterRewrite(found[p])
  /\ atRisk' = atRisk \cap KeysOf(found[p])
  /\ UNCHANGED <<unread, mode, found, view>>

\* Mutant of IOFails: the run starts over, for as long as the file cannot be opened.
IOFailsAgain(p) ==
  /\ pc[p] = "read" \/ (pc[p] = "loaded" /\ mode[p] # "list")
  /\ pc' = [pc EXCEPT ![p] = "scan"]
  /\ Forget(p)
  /\ UNCHANGED <<unread, file, mode, code, history>>

\* The file cannot be opened, read or created: nothing was changed yet.
IOFails(p) ==
  /\ pc[p] = "read" \/ (pc[p] = "loaded" /\ mode[p] # "list")
  /\ Exit(p, 2)
  /\ Forget(p)
  /\ UNCHANGED <<unread, file, mode, history>>

\* The write stops part way: the error, or the kill, leaves a prefix.
StopShort(p, c) ==
  /\ pc[p] = "truncated"
  /\ file' \in Torn(found[p], view[p])
  /\ Exit(p, c)
  /\ atRisk' = Keys
  /\ Forget(p)
  /\ UNCHANGED <<unread, mode, decided>>

WriteFails(p) == StopShort(p, 2)

KilledBefore(p) ==
  /\ pc[p] \notin {"idle", "truncated"}
  /\ Exit(p, KilledCode)
  /\ Forget(p)
  /\ UNCHANGED <<unread, file, mode, history>>

Killed(p) == KilledBefore(p) \/ StopShort(p, KilledCode)

-----------------------------------------------------------------------------
(* The developer *)

EditTree ==
  /\ unread' \in SUBSET Decls
  /\ UNCHANGED <<file, runVars, history>>

\* Environment assumption: the developer does not save the file between the
\* truncation and the write of one os.WriteFile call.  An edit between the
\* writer's read and its truncation is allowed, and is what atRisk records.
EditFile(c) ==
  LET changed == {k \in Keys : c[k] # Text(file)[k]} IN
  /\ ~BeingWritten
  /\ file' = c
  /\ decided' = [k \in Keys |-> IF k \in changed THEN c[k] ELSE decided[k]]
  /\ atRisk' = IF Rewriting THEN atRisk \cup changed ELSE atRisk \ changed
  /\ UNCHANGED <<unread, runVars>>

DeleteFile ==
  /\ ~BeingWritten
  /\ file' = Missing
  /\ decided' = Empty
  /\ atRisk' = IF Rewriting THEN Keys ELSE {}
  /\ UNCHANGED <<unread, runVars>>

-----------------------------------------------------------------------------

Step(p) ==
  \/ Scan(p) \/ ScanFails(p) \/ List(p) \/ Check(p)
  \/ ReadReasons(p) \/ Truncate(p) \/ WriteBody(p)
  \/ IOFails(p) \/ WriteFails(p)

Developer ==
  \/ EditTree
  \/ file' \in Contents /\ EditFile(file')
  \/ DeleteFile

Next ==
  \/ \E p \in Procs : Step(p) \/ Killed(p) \/ \E m \in Modes : Start(p, m)
  \/ Developer

\* A started process is scheduled until it exits.  Nothing makes anyone start a
\* run or edit a file, and nothing kills a run for certain.
Spec == Init /\ [][Next]_vars /\ \A p \in Procs : WF_vars(Step(p))

-----------------------------------------------------------------------------
(* What the gate promises *)

\* Outside a rewrite the file says, key by key, what the developer's edits and
\* whole rewrites made it say: a rewrite keeps the reason of every entry that is
\* still unread and drops the entries that are not (baseline.go:65-69), however
\* its steps interleave with checks and edits.  The exceptions are the keys of
\* a rewrite cut short and of an edit that a rewrite overran.
ReasonsSurvive ==
  ~BeingWritten => \A k \in Keys \ atRisk : Text(file)[k] = decided[k]

\* A check passes only on declarations whose key was decided on, and fails only
\* when some key was not (main.go:140-174): its verdict is about the decisions on
\* record, unless it reads a file that is being rewritten or may have lost lines.
VerdictMatchesDecisions ==
  [][\A p \in Procs :
       /\ pc[p] = "loaded" /\ mode[p] = "check" /\ code'[p] \in {0, 1}
       /\ ~BeingWritten /\ KeysOf(found[p]) \cap atRisk = {}
       => (code'[p] = 0 <=> \A d \in found[p] : decided[KeyOf[d]] # Absent)]_vars

\* Of two checks, one that sees fewer unread declarations and a baseline with no
\* fewer entries passes if the other does (main.go:24, "or smaller"): resolving
\* declarations, or leaving their entries behind, never breaks the gate.
SmallerAlsoPasses ==
  \A p, q \in Procs :
    /\ mode[p] = "check" /\ mode[q] = "check"
    /\ code[p] = 0 /\ code[q] \in {0, 1}
    /\ found[q] \subseteq found[p]
    /\ Entries(view[p]) \subseteq Entries(view[q])
    => code[q] = 0

\* A check that passes against the very baseline some -write run left saw no
\* declaration that run had not seen: the unread set did not grow
\* (main.go:4-6).  True when no two declarations share a key.
NoUnseenDecl ==
  \A w, p \in Procs :
    /\ mode[w] = "write" /\ code[w] = 0
    /\ mode[p] = "check" /\ code[p] = 0
    /\ view[p] = Rewritten(found[w], view[w])
    => found[p] \subseteq found[w]

\* Exit 1 is a verdict about the code (main.go:46-48): a failed scan, read or write
\* never exits 1, and a check that does found a declaration its baseline does not
\* tolerate.  A check without a baseline is left out here: on it the comments
\* disagree, and MissingBaselineExitsOne says what the usage comment says.
OnlyGrowthExitsOne ==
  \A p \in Procs :
    code[p] = 1 => /\ mode[p] = "check"
                   /\ view[p] = Missing \/ (view[p] \in Contents /\ Added(found[p], view[p]) # {})

\* The usage comment, "1  it grew, or the baseline is missing" (main.go:25): a check
\* that finds no baseline exits 1.  The code exits 2, since the error of os.Open is
\* no grewError (main.go:50-60, 135-138).
MissingBaselineExitsOne ==
  \A p \in Procs : mode[p] = "check" /\ view[p] = Missing => code[p] = 1

\* Every run that starts comes to an exit code (main.go:39-44).
RunsExit == \A p \in Procs : pc[p] = "scan" ~> code[p] # NoCode
=============================================================================
