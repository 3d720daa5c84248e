-------------------------- MODULE UnwiredGateProofs --------------------------
(***************************************************************************)
(* Proofs about UnwiredGate for any number of runs, declarations, keys and *)
(* reasons.  Inv is the inductive invariant: what a rewrite in progress    *)
(* read still agrees with the record, and each finished check's exit code  *)
(* is the verdict on what it scanned and read.                             *)
(***************************************************************************)
EXTENDS UnwiredGate, TLAPS

Busy(p) == mode[p] = "write" /\ pc[p] # "idle"

\* At most one run is rewriting the baseline.
WritersExclude == \A p, q \in Procs : Busy(p) /\ Busy(q) => p = q

\* Only a -write run reaches the rewriting phases, and no running process has
\* an exit code.
PhasesMatch ==
  \A p \in Procs : /\ pc[p] \in {"read", "truncated"} => mode[p] = "write"
                   /\ pc[p] # "idle" => code[p] = NoCode

\* A rewrite has read contents, never the absence of a file.
ViewsRead == \A p \in Procs : pc[p] \in {"read", "truncated"} => view[p] \in Contents

\* What a rewrite read is what the record says, but for the keys at risk.
ViewsCurrent ==
  \A p \in Procs : pc[p] \in {"read", "truncated"} =>
    \A k \in Keys \ atRisk : view[p][k] = decided[k]

\* A finished check gave the verdict on what it scanned and read.
VerdictsKept ==
  \A p \in Procs :
    /\ mode[p] = "check" /\ code[p] \in {0, 1} =>
         view[p] \in Contents /\ code[p] = Verdict(found[p], view[p])
    /\ code[p] = 1 => mode[p] = "check"

Control == WritersExclude /\ PhasesMatch /\ VerdictsKept
Record == ViewsCurrent /\ ReasonsSurvive
Inv == TypeOK /\ ViewsRead /\ Control /\ Record

-----------------------------------------------------------------------------
(* The contents the actions build *)

\* The file a truncation leaves is file contents.
LEMMA EmptyContents == Empty \in Contents
BY DEF Empty, Contents

\* What a reader makes of any file, or of none, is file contents.
LEMMA TextContents ==
  ASSUME NEW f \in Contents \cup {Missing}
  PROVE  Text(f) \in Contents
BY EmptyContents DEF Text

\* Rewriting gives every found key a note and every other key none.
LEMMA RewrittenContents ==
  ASSUME NEW F \in SUBSET Decls, NEW c \in Contents
  PROVE  /\ Rewritten(F, c) \in Contents
         /\ Entries(Rewritten(F, c)) = KeysOf(F)
<1>1. \A k \in Keys : c[k] \in Notes \cup {Absent} BY DEF Contents
<1>2. NoReason \in Notes BY DEF Notes
<1>3. Rewritten(F, c) \in Contents BY <1>1, <1>2 DEF Rewritten, Contents
<1>4. KeysOf(F) \subseteq Keys BY KeyOfAssumption DEF KeysOf
<1>5. \A k \in Keys : Rewritten(F, c)[k] # Absent <=> k \in KeysOf(F)
  BY <1>1, <1>2, AbsentAssumption DEF Rewritten
<1> QED BY <1>3, <1>4, <1>5 DEF Entries

\* The record of a rewrite is file contents.
LEMMA AfterRewriteContents ==
  ASSUME NEW F \in SUBSET Decls, decided \in Contents
  PROVE  AfterRewrite(F) \in Contents
<1>1. \A k \in Keys : decided[k] \in Notes \cup {Absent} BY DEF Contents
<1>2. NoReason \in Notes BY DEF Notes
<1> QED BY <1>1, <1>2 DEF AfterRewrite, Contents

\* Every file that a write cut short can leave is file contents.
LEMMA TornContents ==
  ASSUME NEW F \in SUBSET Decls, NEW c \in Contents, NEW t \in Torn(F, c)
  PROVE  t \in Contents
<1>1. PICK kept \in SUBSET KeysOf(F) :
        t = [k \in Keys |-> IF k \in kept THEN Rewritten(F, c)[k] ELSE Absent]
  BY DEF Torn
<1>2. \A k \in Keys : Rewritten(F, c)[k] \in Notes \cup {Absent}
  BY RewrittenContents DEF Contents
<1> QED BY <1>1, <1>2 DEF Contents

-----------------------------------------------------------------------------
(* Type correctness: TypeOK with ViewsRead is inductive *)

TypeInv == TypeOK /\ ViewsRead

\* The initial states are well typed.
LEMMA TypeInit == Init => TypeInv
<1> SUFFICES ASSUME Init PROVE TypeInv OBVIOUS
<1>1. NoCode \in Codes /\ "list" \in Modes /\ "idle" \in Phases
  BY DEF Codes, Modes, Phases
<1>2. TypeOK BY <1>1, TextContents DEF Init, TypeOK
<1>3. ViewsRead BY DEF Init, ViewsRead
<1> QED BY <1>2, <1>3 DEF TypeInv

\* A write that stops part way keeps the types.
LEMMA StopShortType ==
  ASSUME TypeInv, NEW p \in Procs, NEW c \in {2, KilledCode}, StopShort(p, c)
  PROVE  TypeInv'
<1>1. view[p] \in Contents BY DEF TypeInv, ViewsRead, StopShort
<1>2. file' \in Contents BY <1>1, TornContents DEF StopShort, TypeInv, TypeOK
<1>3. c \in Codes /\ "idle" \in Phases BY DEF Codes, Phases
<1>4. TypeOK' BY <1>2, <1>3 DEF StopShort, Exit, Forget, TypeInv, TypeOK
<1>5. ViewsRead' BY DEF StopShort, Exit, Forget, TypeInv, TypeOK, ViewsRead
<1> QED BY <1>4, <1>5 DEF TypeInv

\* Each step keeps the types; the file's is the one that needs an argument.
LEMMA TypeStep == TypeInv /\ [Next]_vars => TypeInv'
<1> SUFFICES ASSUME TypeInv, [Next]_vars PROVE TypeInv' OBVIOUS
<1> USE DEF TypeInv, TypeOK, ViewsRead, history
<1>0. \A c \in {0, 1, 2, KilledCode, NoCode} : c \in Codes BY DEF Codes
<1>1. ASSUME NEW p \in Procs, NEW m \in Modes, Start(p, m) PROVE TypeInv'
  BY <1>0, <1>1 DEF Start, Phases
<1>2. ASSUME NEW p \in Procs, Scan(p) PROVE TypeInv'
  BY <1>2 DEF Scan, Phases
<1>3. ASSUME NEW p \in Procs, ScanFails(p) PROVE TypeInv'
  BY <1>0, <1>3 DEF ScanFails, Exit, Forget, Phases
<1>4. ASSUME NEW p \in Procs, List(p) PROVE TypeInv'
  BY <1>0, <1>4 DEF List, Exit, Forget, Phases
<1>5. ASSUME NEW p \in Procs, Check(p) PROVE TypeInv'
  <2>1. Verdict(found[p], file) \in Codes BY <1>0 DEF Verdict
  <2> QED BY <1>5, <2>1 DEF Check, Exit, Phases
<1>6. ASSUME NEW p \in Procs, ReadReasons(p) PROVE TypeInv'
  <2>1. Text(file) \in Contents BY TextContents
  <2> QED BY <1>6, <2>1 DEF ReadReasons, Phases
<1>7. ASSUME NEW p \in Procs, Truncate(p) PROVE TypeInv'
  BY <1>7, EmptyContents DEF Truncate, Phases
<1>8. ASSUME NEW p \in Procs, WriteBody(p) PROVE TypeInv'
  <2>1. view[p] \in Contents BY <1>8 DEF WriteBody
  <2>2. file' \in Contents BY <1>8, <2>1, RewrittenContents DEF WriteBody
  <2>3. decided' \in Contents BY <1>8, AfterRewriteContents DEF WriteBody
  <2> QED BY <1>0, <1>8, <2>2, <2>3 DEF WriteBody, Exit, Phases
<1>9. ASSUME NEW p \in Procs, IOFails(p) PROVE TypeInv'
  BY <1>0, <1>9 DEF IOFails, Exit, Forget, Phases
<1>10. ASSUME NEW p \in Procs, WriteFails(p) PROVE TypeInv'
  BY <1>10, StopShortType DEF WriteFails
<1>11. ASSUME NEW p \in Procs, Killed(p) PROVE TypeInv'
  <2>1. CASE StopShort(p, KilledCode) BY <2>1, StopShortType
  <2>2. CASE ~StopShort(p, KilledCode)
    BY <1>0, <1>11, <2>2 DEF Killed, KilledBefore, Exit, Forget, Phases
  <2> QED BY <2>1, <2>2
<1>12. ASSUME EditTree PROVE TypeInv'
  BY <1>12 DEF EditTree, runVars
<1>13. ASSUME NEW c \in Contents, EditFile(c) PROVE TypeInv'
  BY <1>13 DEF EditFile, runVars, Contents
<1>14. ASSUME DeleteFile PROVE TypeInv'
  BY <1>14, EmptyContents DEF DeleteFile, runVars
<1>15. CASE UNCHANGED vars
  BY <1>15 DEF vars, runVars
<1> QED
  BY <1>1, <1>2, <1>3, <1>4, <1>5, <1>6, <1>7, <1>8, <1>9, <1>10, <1>11, <1>12,
     <1>13, <1>14, <1>15 DEF Next, Step, Developer

-----------------------------------------------------------------------------
(* Control: one writer, phases and modes agree, verdicts stay what they were *)

\* No run is on its way in an initial state.
LEMMA ControlInit == Init => Control
BY DEF Init, Control, WritersExclude, Busy, PhasesMatch, VerdictsKept, NoCode

\* A step that only ends run p, or moves it on, without an answer.
LEMMA ControlQuiet ==
  ASSUME TypeInv, Control, NEW p \in Procs, NEW q \in Phases, NEW c \in Codes,
         mode' = mode, pc[p] # "idle",
         pc' = [pc EXCEPT ![p] = q], code' = [code EXCEPT ![p] = c],
         \A r \in Procs \ {p} : found'[r] = found[r] /\ view'[r] = view[r],
         q # "idle" => c = NoCode,
         q \in {"read", "truncated"} => mode[p] = "write",
         mode[p] = "check" => c # 0, c # 1
  PROVE  Control'
<1> USE DEF TypeInv, TypeOK, Control
<1>1. WritersExclude' BY DEF WritersExclude, Busy
<1>2. PhasesMatch' BY DEF PhasesMatch
<1>3. VerdictsKept'
  <2>1. \A r \in Procs : code'[r] = 1 => code[r] = 1 /\ r # p OBVIOUS
  <2>2. ASSUME NEW r \in Procs, mode'[r] = "check", code'[r] \in {0, 1}
        PROVE  view'[r] \in Contents /\ code'[r] = Verdict(found'[r], view'[r])
    <3>1. r # p BY <2>2
    <3> QED BY <2>2, <3>1 DEF VerdictsKept
  <2> QED BY <2>1, <2>2 DEF VerdictsKept
<1> QED BY <1>1, <1>2, <1>3

\* Each step keeps the runs in order: one writer, phases that fit the mode, and
\* codes that are the verdict on what was read.
LEMMA ControlStep == TypeInv /\ Control /\ [Next]_vars => Control'
<1> SUFFICES ASSUME TypeInv, Control, [Next]_vars PROVE Control' OBVIOUS
<1> USE DEF TypeInv, TypeOK, history
<1>0. /\ \A c \in {0, 1, 2, KilledCode, NoCode} : c \in Codes
      /\ \A p \in Procs : pc[p] # "idle" => code[p] = NoCode
      /\ \A p \in Procs : code = [code EXCEPT ![p] = code[p]]
      /\ 2 \notin {0, 1} /\ KilledCode \notin {0, 1} /\ NoCode \notin {0, 1}
  BY DEF Codes, Control, PhasesMatch, KilledCode, NoCode
<1>1. ASSUME NEW p \in Procs, NEW m \in Modes, Start(p, m) PROVE Control'
  <2> USE <1>1 DEF Start
  <2>1. WritersExclude' BY DEF Control, WritersExclude, Busy, OneWriter
  <2>2. PhasesMatch' BY DEF Control, PhasesMatch
  <2>3. VerdictsKept' BY <1>0 DEF Control, VerdictsKept
  <2> QED BY <2>1, <2>2, <2>3 DEF Control
<1>2. ASSUME NEW p \in Procs, Scan(p) PROVE Control'
  BY <1>0, <1>2, ControlQuiet DEF Scan, Phases
<1>3. ASSUME NEW p \in Procs, ScanFails(p) PROVE Control'
  BY <1>0, <1>3, ControlQuiet DEF ScanFails, Exit, Forget, Phases
<1>4. ASSUME NEW p \in Procs, List(p) PROVE Control'
  BY <1>0, <1>4, ControlQuiet DEF List, Exit, Forget, Phases
<1>5. ASSUME NEW p \in Procs, Check(p) PROVE Control'
  <2> USE <1>5 DEF Check, Exit
  <2>1. WritersExclude' BY DEF Control, WritersExclude, Busy
  <2>2. PhasesMatch' BY DEF Control, PhasesMatch
  <2>3. Verdict(found[p], file) \in {0, 1} => file \in Contents BY DEF Verdict
  <2>4. VerdictsKept' BY <2>3 DEF Control, VerdictsKept
  <2> QED BY <2>1, <2>2, <2>4 DEF Control
<1>6. ASSUME NEW p \in Procs, ReadReasons(p) PROVE Control'
  BY <1>0, <1>6, ControlQuiet DEF ReadReasons, Phases
<1>7. ASSUME NEW p \in Procs, Truncate(p) PROVE Control'
  <2>1. mode[p] = "write" BY <1>7 DEF Truncate, Control, PhasesMatch
  <2> QED BY <1>0, <1>7, <2>1, ControlQuiet DEF Truncate, Phases
<1>8. ASSUME NEW p \in Procs, WriteBody(p) PROVE Control'
  <2>1. mode[p] = "write" BY <1>8 DEF WriteBody, Control, PhasesMatch
  <2> QED BY <1>0, <1>8, <2>1, ControlQuiet DEF WriteBody, Exit, Phases
<1>9. ASSUME NEW p \in Procs, IOFails(p) PROVE Control'
  BY <1>0, <1>9, ControlQuiet DEF IOFails, Exit, Forget, Phases
<1>10. ASSUME NEW p \in Procs, NEW c \in {2, KilledCode}, StopShort(p, c) PROVE Control'
  BY <1>0, <1>10, ControlQuiet DEF StopShort, Exit, Forget, Phases
<1>11. ASSUME NEW p \in Procs, Killed(p) PROVE Control'
  <2>1. CASE StopShort(p, KilledCode) BY <2>1, <1>10
  <2>2. CASE ~StopShort(p, KilledCode)
    BY <1>0, <1>11, <2>2, ControlQuiet DEF Killed, KilledBefore, Exit, Forget, Phases
  <2> QED BY <2>1, <2>2
<1>12. ASSUME UNCHANGED runVars PROVE Control'
  BY <1>12 DEF runVars, Control, WritersExclude, Busy, PhasesMatch, VerdictsKept
<1> QED
  BY <1>1, <1>2, <1>3, <1>4, <1>5, <1>6, <1>7, <1>8, <1>9, <1>10, <1>11, <1>12
  DEF Next, Step, WriteFails, Developer, EditTree, EditFile, DeleteFile, vars

-----------------------------------------------------------------------------
(* Record: the file, and what a rewrite holds, agree with the record *)

\* The record starts as what the file says.
LEMMA RecordInit == Init => Record
BY DEF Init, Record, ViewsCurrent, ReasonsSurvive, Text, Empty

\* The rewrite of p is the only one, so nothing is being written once it ends.
LEMMA WriterAlone ==
  ASSUME TypeInv, Control, NEW p \in Procs, pc[p] \in {"read", "truncated"}
  PROVE  \A q \in Procs \ {p} : pc[q] \notin {"read", "truncated"}
BY DEF Control, WritersExclude, PhasesMatch, Busy

\* Rewriting what was read and rewriting the record give the same file, where
\* the two agreed and on every key that is no longer unread.
LEMMA RewriteAgrees ==
  ASSUME NEW F \in SUBSET Decls, NEW c \in Contents, decided \in Contents,
         NEW k \in Keys, c[k] = decided[k] \/ k \notin KeysOf(F)
  PROVE  Rewritten(F, c)[k] = AfterRewrite(F)[k]
BY DEF Rewritten, AfterRewrite

\* Each step keeps the record in agreement with the file and with what a rewrite
\* has read, outside the keys at risk.
LEMMA RecordStep == TypeInv /\ Control /\ Record /\ [Next]_vars => Record'
<1> SUFFICES ASSUME TypeInv, Control, Record, [Next]_vars PROVE Record' OBVIOUS
<1> USE DEF history
<1>0. TypeOK BY DEF TypeInv
<1>1. ASSUME pc' = pc, UNCHANGED <<file, view, history>> PROVE Record'
  BY <1>1 DEF Record, ViewsCurrent, ReasonsSurvive, Text, BeingWritten
<1>2. ASSUME NEW p \in Procs, NEW q \in {"idle", "scan", "loaded"},
             pc' = [pc EXCEPT ![p] = q], pc[p] # "truncated",
             \A r \in Procs \ {p} : view'[r] = view[r],
             UNCHANGED <<file, history>>
      PROVE  Record'
  <2>1. BeingWritten' => BeingWritten BY <1>0, <1>2 DEF BeingWritten, TypeOK
  <2>2. BeingWritten => BeingWritten' BY <1>0, <1>2 DEF BeingWritten, TypeOK
  <2>3. ReasonsSurvive' BY <1>2, <2>2 DEF Record, ReasonsSurvive, Text
  <2>4. ViewsCurrent' BY <1>0, <1>2 DEF Record, ViewsCurrent, TypeOK
  <2> QED BY <2>3, <2>4 DEF Record
<1>3. ASSUME NEW p \in Procs, NEW m \in Modes, Start(p, m) PROVE Record'
  BY <1>0, <1>3, <1>2 DEF Start, TypeOK
<1>4. ASSUME NEW p \in Procs, Scan(p) PROVE Record'
  BY <1>0, <1>4, <1>2 DEF Scan, TypeOK
<1>5. ASSUME NEW p \in Procs, ScanFails(p) PROVE Record'
  BY <1>0, <1>5, <1>2 DEF ScanFails, Exit, Forget, TypeOK
<1>6. ASSUME NEW p \in Procs, List(p) PROVE Record'
  BY <1>0, <1>6, <1>2 DEF List, Exit, Forget, TypeOK
<1>7. ASSUME NEW p \in Procs, Check(p) PROVE Record'
  BY <1>0, <1>7, <1>2 DEF Check, Exit, TypeOK
<1>8. ASSUME NEW p \in Procs, ReadReasons(p) PROVE Record'
  <2> USE <1>8 DEF ReadReasons
  <2>1. mode[p] = "write" /\ pc[p] = "loaded" OBVIOUS
  <2>2. ~BeingWritten
    BY <2>1 DEF BeingWritten, Control, WritersExclude, PhasesMatch, Busy
  <2>3. \A k \in Keys \ atRisk : Text(file)[k] = decided[k]
    BY <2>2 DEF Record, ReasonsSurvive
  <2>4. ViewsCurrent' BY <1>0, <2>3 DEF Record, ViewsCurrent, TypeOK
  <2>5. ReasonsSurvive' BY <2>3 DEF ReasonsSurvive, Text
  <2> QED BY <2>4, <2>5 DEF Record
<1>9. ASSUME NEW p \in Procs, Truncate(p) PROVE Record'
  <2>1. BeingWritten' BY <1>0, <1>9 DEF Truncate, BeingWritten, TypeOK
  <2>2. ViewsCurrent' BY <1>0, <1>9 DEF Truncate, Record, ViewsCurrent, TypeOK
  <2> QED BY <2>1, <2>2 DEF Record, ReasonsSurvive
<1>10. ASSUME NEW p \in Procs, WriteBody(p) PROVE Record'
  <2> USE <1>10 DEF WriteBody, Exit
  <2>1. view[p] \in Contents /\ found[p] \in SUBSET Decls /\ decided \in Contents
    BY <1>0 DEF TypeInv, ViewsRead, TypeOK
  <2>2. \A q \in Procs : pc'[q] \notin {"read", "truncated"}
    BY <1>0, WriterAlone DEF TypeOK
  <2>3. ASSUME NEW k \in Keys \ atRisk' PROVE file'[k] = decided'[k]
    <3>1. k \notin atRisk \/ k \notin KeysOf(found[p]) BY <2>3
    <3>2. view[p][k] = decided[k] \/ k \notin KeysOf(found[p])
      BY <2>3, <3>1 DEF Record, ViewsCurrent
    <3> QED BY <2>1, <2>3, <3>2, RewriteAgrees
  <2>4. file' # Missing BY <2>1, RewrittenContents, FileAssumption
  <2>5. ReasonsSurvive' BY <2>3, <2>4 DEF ReasonsSurvive, Text
  <2>6. ViewsCurrent' BY <2>2 DEF ViewsCurrent
  <2> QED BY <2>5, <2>6 DEF Record
<1>11. ASSUME NEW p \in Procs, IOFails(p) PROVE Record'
  BY <1>0, <1>11, <1>2 DEF IOFails, Exit, Forget, TypeOK
<1>12. ASSUME NEW p \in Procs, NEW c \in {2, KilledCode}, StopShort(p, c) PROVE Record'
  BY <1>12 DEF StopShort, Record, ViewsCurrent, ReasonsSurvive
<1>13. ASSUME NEW p \in Procs, Killed(p) PROVE Record'
  <2>1. CASE StopShort(p, KilledCode) BY <2>1, <1>12
  <2>2. CASE ~StopShort(p, KilledCode)
    BY <1>0, <1>13, <2>2, <1>2 DEF Killed, KilledBefore, Exit, Forget, TypeOK
  <2> QED BY <2>1, <2>2
<1>14. ASSUME EditTree PROVE Record'
  BY <1>14, <1>1 DEF EditTree, runVars
<1>15. ASSUME NEW c \in Contents, EditFile(c) PROVE Record'
  <2> USE <1>15 DEF EditFile, runVars
  <2> DEFINE changed == {k \in Keys : c[k] # Text(file)[k]}
  <2>1. file' # Missing BY FileAssumption
  <2>2. \A k \in Keys : decided'[k] = IF k \in changed THEN c[k] ELSE decided[k]
    BY <1>0 DEF TypeOK, Contents
  <2>3. \A k \in Keys \ atRisk' : k \in changed \/ k \notin atRisk OBVIOUS
  <2>4. ReasonsSurvive'
    BY <2>1, <2>2, <2>3 DEF Record, ReasonsSurvive, Text
  <2>5. ViewsCurrent' BY <2>2 DEF Record, ViewsCurrent, Rewriting
  <2> QED BY <2>4, <2>5 DEF Record
<1>16. ASSUME DeleteFile PROVE Record'
  <2>1. ReasonsSurvive' BY <1>16 DEF DeleteFile, ReasonsSurvive, Text
  <2>2. ViewsCurrent' BY <1>16 DEF DeleteFile, runVars, ViewsCurrent, Rewriting
  <2> QED BY <2>1, <2>2 DEF Record
<1>17. CASE UNCHANGED vars BY <1>17, <1>1 DEF vars, runVars
<1> QED
  BY <1>3, <1>4, <1>5, <1>6, <1>7, <1>8, <1>9, <1>10, <1>11, <1>12, <1>13, <1>14,
     <1>15, <1>16, <1>17 DEF Next, Step, WriteFails, Developer

-----------------------------------------------------------------------------
(* The theorems *)

\* Inv is an invariant of every behaviour of the gate: the record agrees with the
\* file and with what each rewrite holds, one run rewrites at a time, and each
\* finished check's code is its verdict.
THEOREM Invariance == Spec => []Inv
<1>1. Init => Inv
  BY TypeInit, ControlInit, RecordInit DEF Inv, TypeInv
<1>2. Inv /\ [Next]_vars => Inv'
  BY TypeStep, ControlStep, RecordStep DEF Inv, TypeInv
<1> QED BY <1>1, <1>2, PTL DEF Spec

\* Every reachable state is well typed, so that a rewrite only ever works on file
\* contents, never on the absence of a file.
THEOREM TypeCorrect == Spec => []TypeOK
<1>1. Inv => TypeOK BY DEF Inv
<1> QED BY <1>1, Invariance, PTL

\* Outside a rewrite the baseline says what the record says, whatever steps of
\* other runs, edits, failures and kills fell between its read and its write.
THEOREM ReasonsAlwaysSurvive == Spec => []ReasonsSurvive
<1>1. Inv => ReasonsSurvive BY DEF Inv, Record
<1> QED BY <1>1, Invariance, PTL

\* Codes that are verdicts order as what they are verdicts on.
LEMMA SmallerPass == Inv => SmallerAlsoPasses
<1> SUFFICES ASSUME Inv, NEW p \in Procs, NEW q \in Procs,
                    mode[p] = "check", mode[q] = "check",
                    code[p] = 0, code[q] \in {0, 1},
                    found[q] \subseteq found[p],
                    Entries(view[p]) \subseteq Entries(view[q])
             PROVE  code[q] = 0
  BY DEF SmallerAlsoPasses
<1>1. /\ view[p] \in Contents /\ code[p] = Verdict(found[p], view[p])
      /\ view[q] \in Contents /\ code[q] = Verdict(found[q], view[q])
  BY DEF Inv, Control, VerdictsKept
<1>2. Added(found[p], view[p]) = {} BY <1>1 DEF Verdict
<1>3. Added(found[q], view[q]) = {} BY <1>2 DEF Added
<1> QED BY <1>1, <1>3, FileAssumption DEF Verdict

\* A check that finds no more than a passing one, against no fewer entries, passes.
THEOREM SmallerAlwaysPasses == Spec => []SmallerAlsoPasses
BY SmallerPass, Invariance, PTL

\* Exit code 1 is a verdict on a baseline that was read.
LEMMA GrowthExitsOne ==
  ASSUME Inv, NEW p \in Procs, code[p] = 1
  PROVE  mode[p] = "check" /\ view[p] \in Contents /\ Added(found[p], view[p]) # {}
<1>1. mode[p] = "check" BY DEF Inv, Control, VerdictsKept
<1> QED BY <1>1 DEF Inv, Control, VerdictsKept, Verdict

\* Exit code 1 comes from a successful scan compared with a baseline that was read
\* and does not tolerate some declaration.  No failure of a run gives it, and as the
\* code is, neither does a missing baseline.
THEOREM OnlyGrowthEverExitsOne ==
  Spec => [](/\ OnlyGrowthExitsOne
             /\ \A p \in Procs : code[p] = 1 => view[p] \in Contents)
<1>1. Inv => OnlyGrowthExitsOne BY GrowthExitsOne DEF OnlyGrowthExitsOne
<1>2. Inv => \A p \in Procs : code[p] = 1 => view[p] \in Contents BY GrowthExitsOne
<1> QED BY <1>1, <1>2, Invariance, PTL

\* A declaration a check tolerates is one the writer had under the same key.
LEMMA GrowthSeen ==
  ASSUME \A d, e \in Decls : KeyOf[d] = KeyOf[e] => d = e
  PROVE  Inv => NoUnseenDecl
<1> SUFFICES ASSUME Inv, NEW w \in Procs, NEW p \in Procs,
                    mode[p] = "check", code[p] = 0,
                    view[p] = Rewritten(found[w], view[w]),
                    NEW d \in found[p]
             PROVE  d \in found[w]
  BY DEF NoUnseenDecl
<1>1. found[p] \subseteq Decls /\ found[w] \subseteq Decls BY DEF Inv, TypeOK
<1>2. view[p] \in Contents /\ Verdict(found[p], view[p]) = 0
  BY DEF Inv, Control, VerdictsKept
<1>3. KeyOf[d] \in Entries(view[p]) BY <1>2, FileAssumption DEF Verdict, Added
<1>4. \A k \in Entries(view[p]) : k \in KeysOf(found[w])
  BY AbsentAssumption DEF Entries, Rewritten
<1>5. PICK e \in found[w] : KeyOf[d] = KeyOf[e] BY <1>3, <1>4 DEF KeysOf
<1> QED BY <1>1, <1>5

\* If no two declarations share a key, a check that passes against the baseline a
\* -write run left saw nothing that run had not seen.
THEOREM GrowthIsSeen ==
  ASSUME \A d, e \in Decls : KeyOf[d] = KeyOf[e] => d = e
  PROVE  Spec => []NoUnseenDecl
BY GrowthSeen, Invariance, PTL

Judges(p) ==
  /\ pc[p] = "loaded" /\ mode[p] = "check" /\ code'[p] \in {0, 1}
  /\ ~BeingWritten /\ KeysOf(found[p]) \cap atRisk = {}
Tolerated(p) == \A d \in found[p] : decided[KeyOf[d]] # Absent

\* A step in which a check comes to a verdict is that check's own, and its verdict
\* is on a file that agrees with the record.
LEMMA VerdictStep ==
  ASSUME Inv, Next, NEW p \in Procs, Judges(p)
  PROVE  code'[p] = 0 <=> Tolerated(p)
<1>0. /\ pc[p] = "loaded" /\ mode[p] = "check" /\ code'[p] \in {0, 1}
      /\ ~BeingWritten /\ KeysOf(found[p]) \cap atRisk = {}
  BY DEF Judges
<1>1. code[p] = NoCode BY <1>0 DEF Inv, Control, PhasesMatch
<1>2. code' \in [Procs -> Codes] BY <1>0, TypeStep DEF Inv, TypeInv, TypeOK
<1>3. code'[p] # code[p] BY <1>0, <1>1 DEF NoCode
<1>4. Check(p)
  <2> USE DEF Inv, TypeOK
  <2>1. ASSUME NEW q \in Procs, Step(q) \/ Killed(q) \/ \E m \in Modes : Start(q, m)
        PROVE  q = p
    BY <1>0, <1>3, <2>1 DEF Step, Scan, ScanFails, List, Check, ReadReasons, Truncate,
       WriteBody, IOFails, WriteFails, Killed, KilledBefore, StopShort, Start,
       Exit
  <2>2. ~Developer
    BY <1>3 DEF Developer, EditTree, EditFile, DeleteFile, runVars
  <2>3. Step(p) \/ Killed(p) \/ \E m \in Modes : Start(p, m)
    BY <1>0, <2>1, <2>2 DEF Next
  <2>4. code'[p] # 2 /\ code'[p] # KilledCode /\ code'[p] # NoCode
    BY <1>0 DEF KilledCode, NoCode
  <2>5. ~Killed(p)
    BY <1>0, <2>4 DEF Killed, KilledBefore, StopShort, Exit
  <2>6. ~ \E m \in Modes : Start(p, m) BY <1>0, <2>4 DEF Start
  <2> QED BY <1>0, <2>3, <2>4, <2>5, <2>6 DEF Step, Scan, ScanFails, List, ReadReasons, Truncate,
       WriteBody, IOFails, WriteFails, StopShort, Exit
<1>5. code'[p] = Verdict(found[p], file) BY <1>0, <1>4 DEF Check, Exit, Inv, TypeOK
<1>6. file # Missing BY <1>0, <1>5 DEF Verdict
<1>7. found[p] \subseteq Decls BY <1>0 DEF Inv, TypeOK
<1>8. \A d \in found[p] : KeyOf[d] \in Keys \ atRisk
  BY <1>0, <1>7, KeyOfAssumption DEF KeysOf
<1>9. \A k \in Keys \ atRisk : file[k] = decided[k]
  BY <1>0, <1>6 DEF Inv, Record, ReasonsSurvive, Text
<1>10. Added(found[p], file) = {} <=> Tolerated(p)
  BY <1>8, <1>9 DEF Added, Entries, Tolerated
<1> QED BY <1>5, <1>6, <1>10 DEF Verdict

\* Each verdict is about the decisions on record: outside a rewrite, and where no
\* line may have been lost, a check passes exactly on the decided declarations.
THEOREM VerdictsMatch == Spec => VerdictMatchesDecisions
<1>1. Inv /\ [Next]_vars =>
        [\A p \in Procs : Judges(p) => (code'[p] = 0 <=> Tolerated(p))]_vars
  BY VerdictStep
<1> QED BY <1>1, Invariance, PTL DEF Spec, VerdictMatchesDecisions, Judges, Tolerated

-----------------------------------------------------------------------------
(* What a scheduled run comes to *)

At(p, phase) == pc[p] = phase
Ended(p) == pc[p] = "idle" /\ code[p] # NoCode

\* A step of another run, of the developer, or of none leaves a started run where it is.
LEMMA OthersWait ==
  ASSUME Inv, [Next]_vars, NEW p \in Procs, pc[p] # "idle", ~Step(p), ~Killed(p)
  PROVE  pc'[p] = pc[p]
<1> USE DEF Inv, TypeOK
<1>1. ASSUME NEW q \in Procs, q # p, Step(q) \/ Killed(q) PROVE pc'[p] = pc[p]
  BY <1>1 DEF Step, Scan, ScanFails, List, Check, ReadReasons, Truncate, WriteBody, IOFails,
     WriteFails, Killed, KilledBefore, StopShort, Exit
<1>2. ASSUME NEW q \in Procs, NEW m \in Modes, Start(q, m) PROVE pc'[p] = pc[p]
  BY <1>2 DEF Start
<1>3. ASSUME Developer PROVE pc'[p] = pc[p]
  BY <1>3 DEF Developer, EditTree, EditFile, DeleteFile, runVars
<1>4. CASE UNCHANGED vars BY <1>4 DEF vars, runVars
<1> QED BY <1>1, <1>2, <1>3, <1>4 DEF Next

\* A run that is killed, or fails, has ended.
LEMMA ExitEnds ==
  ASSUME Inv, NEW p \in Procs, NEW c \in Codes \ {NoCode}, Exit(p, c)
  PROVE  Ended(p)'
BY DEF Inv, TypeOK, Exit, Ended

\* A step of a run takes it to a later phase, or to its end.
LEMMA StepAdvances ==
  ASSUME Inv, NEW p \in Procs, Step(p)
  PROVE  \/ Ended(p)'
         \/ At(p, "scan") /\ At(p, "loaded")'
         \/ At(p, "loaded") /\ At(p, "read")'
         \/ At(p, "read") /\ At(p, "truncated")'
<1> USE DEF Inv, TypeOK, At
<1>1. /\ \A c \in {0, 1, 2} : c \in Codes \ {NoCode}
      /\ Verdict(found[p], file) \in {0, 1, 2}
  BY DEF Codes, NoCode, Verdict
<1>2. CASE Scan(p) BY <1>2 DEF Scan
<1>3. CASE ScanFails(p) BY <1>1, <1>3, ExitEnds DEF ScanFails
<1>4. CASE List(p) BY <1>1, <1>4, ExitEnds DEF List
<1>5. CASE Check(p) BY <1>1, <1>5, ExitEnds DEF Check
<1>6. CASE ReadReasons(p) BY <1>6 DEF ReadReasons
<1>7. CASE Truncate(p) BY <1>7 DEF Truncate
<1>8. CASE WriteBody(p) BY <1>1, <1>8, ExitEnds DEF WriteBody
<1>9. CASE IOFails(p) BY <1>1, <1>9, ExitEnds DEF IOFails
<1>10. CASE WriteFails(p) BY <1>1, <1>10, ExitEnds DEF WriteFails, StopShort
<1> QED BY <1>2, <1>3, <1>4, <1>5, <1>6, <1>7, <1>8, <1>9, <1>10 DEF Step

\* No step of anyone takes a started run back: it stays, goes on, or ends.
LEMMA NothingGoesBack ==
  ASSUME Inv, [Next]_vars, NEW p \in Procs, pc[p] # "idle"
  PROVE  \/ Ended(p)'
         \/ pc'[p] = pc[p]
         \/ At(p, "scan") /\ At(p, "loaded")'
         \/ At(p, "loaded") /\ At(p, "read")'
         \/ At(p, "read") /\ At(p, "truncated")'
<1>1. CASE Step(p) BY <1>1, StepAdvances
<1>2. CASE Killed(p)
  <2>1. KilledCode \in Codes \ {NoCode} BY DEF Codes, KilledCode, NoCode
  <2>2. Exit(p, KilledCode) BY <1>2 DEF Killed, KilledBefore, StopShort
  <2> QED BY <2>1, <2>2, ExitEnds
<1> QED BY <1>1, <1>2, OthersWait

\* A run that is started comes to an exit code, among any number of others: given the
\* fairness of its own steps, and that a started run always has a step it can take.
THEOREM StartedRunsExit ==
  ASSUME NEW p \in Procs
  PROVE  /\ Init /\ [][Next]_vars /\ WF_vars(Step(p))
         /\ [](pc[p] # "idle" => ENABLED <<Step(p)>>_vars)
         => (pc[p] = "scan" ~> code[p] # NoCode)
<1>1. Init => Inv
  BY TypeInit, ControlInit, RecordInit DEF Inv, TypeInv
<1>2. Inv /\ [Next]_vars => Inv'
  BY TypeStep, ControlStep, RecordStep DEF Inv, TypeInv
<1>3. Inv /\ At(p, "scan") /\ [Next]_vars => At(p, "scan")' \/ At(p, "loaded")' \/ Ended(p)'
  BY NothingGoesBack DEF At
<1>4. Inv /\ At(p, "loaded") /\ [Next]_vars => At(p, "loaded")' \/ At(p, "read")' \/ Ended(p)'
  BY NothingGoesBack DEF At
<1>5. Inv /\ At(p, "read") /\ [Next]_vars => At(p, "read")' \/ At(p, "truncated")' \/ Ended(p)'
  BY NothingGoesBack DEF At
<1>6. Inv /\ At(p, "truncated") /\ [Next]_vars => At(p, "truncated")' \/ Ended(p)'
  BY NothingGoesBack DEF At
<1>7. Inv /\ At(p, "scan") /\ <<Step(p)>>_vars => At(p, "loaded")' \/ Ended(p)'
  BY StepAdvances DEF At
<1>8. Inv /\ At(p, "loaded") /\ <<Step(p)>>_vars => At(p, "read")' \/ Ended(p)'
  BY StepAdvances DEF At
<1>9. Inv /\ At(p, "read") /\ <<Step(p)>>_vars => At(p, "truncated")' \/ Ended(p)'
  BY StepAdvances DEF At
<1>10. Inv /\ At(p, "truncated") /\ <<Step(p)>>_vars => Ended(p)'
  BY StepAdvances DEF At
<1>11. /\ pc[p] = "scan" => At(p, "scan")
       /\ At(p, "scan") \/ At(p, "loaded") \/ At(p, "read") \/ At(p, "truncated") => pc[p] # "idle"
       /\ Ended(p) => code[p] # NoCode
  BY DEF At, Ended
<1> QED BY <1>1, <1>2, <1>3, <1>4, <1>5, <1>6, <1>7, <1>8, <1>9, <1>10, <1>11, PTL
=============================================================================
