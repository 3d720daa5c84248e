------------------------------ MODULE CrdGate ------------------------------
(***************************************************************************)
(* The gate of cmd/crdfields over the commits of one module.  A commit is  *)
(* proposed, the gate runs on it, and it may land when the run exits 0: a  *)
(* run analyzes the module (UnwiredAnalyze), reads the schema out of the   *)
(* *_types.go files, reads the recorded verdicts, and decides.             *)
(*                                                                         *)
(* A run has a checkout of its own: the commit does not change under it.   *)
(***************************************************************************)
EXTENDS Integers, SequencesExt

CONSTANTS
  Fields,       \* struct fields the analyzer reports
  KeyOf,        \* "<pkg>.<Type>.<Field>", which two directories may share
  StructOf,     \* the struct that declares a field
  DirOf,        \* the directory of that struct
  ElemOf,       \* the struct a field's type comes down to (bareType)
  JsonOf,       \* the json name of a tagged field
  Tagged,       \* fields with a json tag
  InTypesFile,  \* fields declared in a *_types.go file, not in generated code
  ListStructs,  \* structs whose name ends in List
  NoRoot,       \* no struct: a file marks none with +kubebuilder:object:root
  TypesDirs,    \* Config.TypesDirs
  MinServed,    \* Config.MinServed
  Dot, Bracket, \* tokens of a column's JSONPath; the others are names
  Commits       \* the commits that may be proposed

\* A commit: the fields it declares, those Go code reads, its print columns, each
\* with its JSONPath and the root struct its file marks, and its exemption lines.
Forms == {"verdict", "no reference", "not three columns"}
Lines == [key : {KeyOf[f] : f \in Fields}, form : Forms]
EmptyTree == [declared |-> {}, read |-> {}, columns |-> {}, lines |-> {}]

ASSUME CommitsAssumption ==
  \A t \in Commits : /\ t.declared \subseteq Fields /\ t.read \subseteq t.declared
                     /\ t.lines \subseteq Lines
\* The tokens of a path: a name begins it or follows a dot.
ASSUME PathsAssumption ==
  \A t \in Commits : \A path \in {column.path : column \in t.columns} :
    /\ path \in Seq(ToSet(path))
    /\ \A i \in DOMAIN path : path[i] \notin {Dot, Bracket} => i = 1 \/ path[i - 1] = Dot
\* Finitely many keys, so that served fields can be counted.
ASSUME FieldsAssumption == IsFiniteSet({KeyOf[f] : f \in Fields}) /\ MinServed \in Nat
\* Two fields of one key are fields of structs of one name in two directories.
ASSUME KeysAssumption ==
  \A f, g \in Fields : KeyOf[f] = KeyOf[g] =>
    StructOf[f] = StructOf[g] /\ (f # g => DirOf[f] # DirOf[g])

NoCode == -1

VARIABLES
  commit,     \* the commit under the gate
  landed,     \* the last commit that landed
  pc,         \* where the run is
  decls,      \* Result.Decls of the analysis
  displayed,  \* schema.displayed: keys of the fields a print column shows
  exempt,     \* the verdicts read
  out,        \* the Outcome
  code        \* the exit code

vars == <<commit, landed, pc, decls, displayed, exempt, out, code>>

NoOutcome == [served |-> {}, stale |-> {}, satisfied |-> {}, blocking |-> {}, belowFloor |-> FALSE]

AllKeys == {KeyOf[f] : f \in Fields}

TypeOK ==
  /\ commit \in Commits /\ landed \in Commits \cup {EmptyTree}
  /\ pc \in {"proposed", "analyzed", "schema", "exempt", "done"}
  /\ decls \subseteq [field : Fields, reads : 0..2, viaReflection : 0..1]
  /\ displayed \subseteq AllKeys /\ exempt \subseteq AllKeys
  /\ out \in [served : SUBSET AllKeys, stale : SUBSET AllKeys, satisfied : SUBSET AllKeys,
              blocking : SUBSET AllKeys, belowFloor : BOOLEAN]
  /\ code \in {NoCode, 0, 1, 2}

-----------------------------------------------------------------------------
(* The schema *)

SchemaFields(t) == {f \in t.declared : f \in InTypesFile /\ DirOf[f] \in TypesDirs}

\* Mutant of Clash: a struct name repeated across directories is accepted.
NoClash(t) == FALSE

\* A struct of one name in two of the directories.  Of one without a field no key
\* speaks: where only such a struct is repeated, the refusal is one that SchemaFails
\* has for any commit.
Clash(t) ==
  \E f, g \in SchemaFields(t) : StructOf[f] = StructOf[g] /\ DirOf[f] # DirOf[g]

\* Where strings.Split(path, ".") begins a segment; the last may be empty.
SegmentBegins(path, i) == i = 1 \/ path[i - 1] = Dot

\* The segment that begins there, up to its bracket.
SegmentAt(path, i) ==
  SubSeq(path, i, Min({Len(path)} \cup {j - 1 : j \in {j \in i..Len(path) : path[j] \in {Dot, Bracket}}}))

ColumnFields(t) == SchemaFields(t) \cap Tagged

\* A walk that no field lets go on is lost, and shows nothing.
Start(root) == [at |-> root, hops |-> {}, lost |-> FALSE]
Lost == [at |-> NoRoot, hops |-> {}, lost |-> TRUE]

\* A walk goes on to a field that a segment names in the struct it is at.
Hop(t, w, seg) ==
  LET named == {f \in ColumnFields(t) : StructOf[f] = w.at /\ <<JsonOf[f]>> = seg} IN
  IF seg = <<>> \/ w.lost THEN {w}
  ELSE IF named = {} THEN {Lost}
  ELSE {[at |-> ElemOf[f], hops |-> w.hops \cup {f}, lost |-> FALSE] : f \in named}

\* The walks a column can take through the schema, from the root of its file.  Where
\* two fields of a struct share a json name the map order picks one: each pick is a walk.
Walks(t, column) ==
  LET path == column.path
      walk[i \in 0..Len(path) + 1] ==
        IF i = 0 THEN {Start(column.root)}
        ELSE IF SegmentBegins(path, i) THEN UNION {Hop(t, w, SegmentAt(path, i)) : w \in walk[i - 1]}
        ELSE walk[i - 1]
  IN walk[Len(path) + 1]

\* What the columns can show: each takes one of its walks.
Displays(t) ==
  {UNION {{KeyOf[f] : f \in pick[column].hops} : column \in t.columns} :
     pick \in {p \in [t.columns -> UNION {Walks(t, column) : column \in t.columns}] :
                 \A column \in t.columns : p[column] \in Walks(t, column)}}

-----------------------------------------------------------------------------
(* The decision *)

\* Mutant of GoReads: the credit a json tag gives counts as a read.
AllReads(d) == d.reads

GoReads(d) == d.reads - d.viaReflection

Judged(f) == f \in InTypesFile /\ DirOf[f] \in TypesDirs /\ StructOf[f] \notin ListStructs

\* Mutant of Decide: a verdict for a field that has a consumer is let stand.
DecideNotSatisfied(D, shown, verdicts) ==
  LET judged == {d \in D : Judged(d.field)}
      served == {KeyOf[d.field] : d \in judged}
      unread == {KeyOf[d.field] : d \in {d \in judged : GoReads(d) = 0}} \ shown
  IN [served |-> served, stale |-> verdicts \ served, satisfied |-> {},
      blocking |-> unread \ verdicts, belowFloor |-> Cardinality(served) < MinServed]

Decide(D, shown, verdicts) ==
  LET judged == {d \in D : Judged(d.field)}
      served == {KeyOf[d.field] : d \in judged}
      unread == {KeyOf[d.field] : d \in {d \in judged : GoReads(d) = 0}} \ shown
  IN [served |-> served,
      stale |-> verdicts \ served,
      satisfied |-> (verdicts \cap served) \ unread,
      blocking |-> unread \ verdicts,
      belowFloor |-> Cardinality(served) < MinServed]

\* Mutant of OK: only a gap without a verdict fails.
OKUnlessBlocked(o) == o.blocking = {} /\ ~o.belowFloor

OK(o) == o.stale = {} /\ o.satisfied = {} /\ o.blocking = {} /\ ~o.belowFloor

ExitCode(o) == IF OK(o) THEN 0 ELSE 1

-----------------------------------------------------------------------------
(* The run *)

Init ==
  /\ commit \in Commits
  /\ landed = EmptyTree
  /\ pc = "proposed"
  /\ decls = {} /\ displayed = {} /\ exempt = {}
  /\ out = NoOutcome
  /\ code = NoCode

Exit(c) == pc' = "done" /\ code' = c

\* Mutant of TagCredit: a field is credited once for each key of its tag.
CreditPerKey(f) == IF f \in Tagged THEN 2 ELSE 0

\* The read by reflection that a json tag stands for.
TagCredit(f) == IF f \in Tagged THEN 1 ELSE 0

Analyze ==
  /\ pc = "proposed"
  /\ decls' = {[field |-> f, viaReflection |-> TagCredit(f),
                reads |-> TagCredit(f) + IF f \in commit.read THEN 1 ELSE 0] : f \in commit.declared}
  /\ pc' = "analyzed"
  /\ UNCHANGED <<commit, landed, displayed, exempt, out, code>>

AnalyzeFails ==
  /\ pc = "proposed"
  /\ Exit(2)
  /\ UNCHANGED <<commit, landed, decls, displayed, exempt, out>>

LoadSchema ==
  /\ pc = "analyzed"
  /\ ~Clash(commit)
  /\ \A column \in commit.columns : column.root # NoRoot
  /\ displayed' \in Displays(commit)
  /\ pc' = "schema"
  /\ UNCHANGED <<commit, landed, decls, exempt, out, code>>

\* Judge returns an error: a directory that cannot be read or a file that does
\* not parse, at any commit; a struct declared twice; columns without a root.
SchemaFails ==
  /\ pc = "analyzed"
  /\ Exit(1)
  /\ UNCHANGED <<commit, landed, decls, displayed, exempt, out>>

LoadExemptions ==
  /\ pc = "schema"
  /\ \A l \in commit.lines : l.form = "verdict"
  /\ exempt' = {l.key : l \in commit.lines}
  /\ pc' = "exempt"
  /\ UNCHANGED <<commit, landed, decls, displayed, out, code>>

\* A line that is not an entry, an entry with no reference, an unreadable file.
ExemptionsFail ==
  /\ pc = "schema"
  /\ Exit(1)
  /\ UNCHANGED <<commit, landed, decls, displayed, exempt, out>>

Judge ==
  /\ pc = "exempt"
  /\ out' = Decide(decls, displayed, exempt)
  /\ Exit(ExitCode(out'))
  /\ UNCHANGED <<commit, landed, decls, displayed, exempt>>

\* CI lets a commit land when the gate passed on it, and takes the next one.
Propose(t) ==
  /\ pc = "done"
  /\ landed' = IF code = 0 THEN commit ELSE landed
  /\ commit' = t
  /\ pc' = "proposed"
  /\ decls' = {} /\ displayed' = {} /\ exempt' = {}
  /\ out' = NoOutcome
  /\ code' = NoCode

Next ==
  \/ Analyze \/ AnalyzeFails
  \/ LoadSchema \/ SchemaFails
  \/ LoadExemptions \/ ExemptionsFail
  \/ Judge
  \/ \E t \in Commits : Propose(t)

Spec == Init /\ [][Next]_vars

-----------------------------------------------------------------------------
(* What the gate promises *)

\* The fields a commit serves, said of the commit and not of what a run read.
Serves(t) == {f \in t.declared : f \in InTypesFile /\ DirOf[f] \in TypesDirs
                                 /\ StructOf[f] \notin ListStructs}

\* The names of a path, in order.
NamesOf(path) ==
  LET names[i \in 0..Len(path)] ==
        IF i = 0 THEN <<>>
        ELSE IF path[i] \in {Dot, Bracket} THEN names[i - 1]
        ELSE Append(names[i - 1], path[i])
  IN names[Len(path)]

\* A chain of fields from a root spells names, each field declared by the struct
\* the one before leads to.
Fits(f, name, struct) == JsonOf[f] = name /\ StructOf[f] = struct
Chains(t, root, names) ==
  {c \in [DOMAIN names -> ColumnFields(t)] :
     \A i \in DOMAIN names : Fits(c[i], names[i], IF i = 1 THEN root ELSE ElemOf[c[i - 1]])}

\* A chain comes to a name that it cannot go on with.
EndOf(root, c) == IF c = <<>> THEN root ELSE ElemOf[c[Len(c)]]
DeadEnd(t, root, names) ==
  \E i \in DOMAIN names : \E c \in Chains(t, root, SubSeq(names, 1, i - 1)) :
    \A f \in ColumnFields(t) : ~Fits(f, names[i], EndOf(root, c))

\* A reading of a column shows the fields of a chain that spells it, or nothing,
\* where it comes to a dead end.
ReadingsOf(t, column) ==
  LET names == NamesOf(column.path) IN
  {Range(c) : c \in Chains(t, column.root, names)} \cup {nothing \in {{}} : DeadEnd(t, column.root, names)}

\* A reading of a commit reads each column in one way.
Readings(t) ==
  {UNION {read[column] : column \in t.columns} :
     read \in {r \in [t.columns -> UNION {ReadingsOf(t, column) : column \in t.columns}] :
                 \A column \in t.columns : r[column] \in ReadingsOf(t, column)}}

\* In each reading, the served fields that only a recorded verdict can answer for;
\* and the verdicts.
Gaps(t) == {{KeyOf[f] : f \in Serves(t) \ (t.read \cup shown)} : shown \in Readings(t)}
Verdicts(t) == {l.key : l \in {l \in t.lines : l.form = "verdict"}}

\* What a run decides on a commit whose gaps are these: it passes it if the verdicts
\* are the gaps, no more and no fewer, and enough fields are served to believe so.
DecidedOn(gaps) ==
  /\ code = 0 <=> /\ gaps = Verdicts(commit)
                  /\ Cardinality({KeyOf[f] : f \in Serves(commit)}) >= MinServed
  /\ out.blocking = gaps \ Verdicts(commit)
  /\ out.stale \cup out.satisfied = Verdicts(commit) \ gaps

\* A run that reaches a decision decides on the gaps of a reading of its commit
\* (main.go:19-20), and what it reports is about the same reading: whatever a json
\* tag, a print column or generated code adds.
VerdictIsExact == out # NoOutcome => \E gaps \in Gaps(commit) : DecidedOn(gaps)

\* A gap that opens is decided when it opens: where the last commit that landed
\* read or showed a field, or did not have it, no verdict of that commit is
\* there to hide that the next one does not (crdfields.go:195-197, 454-455). A
\* field whose struct moves to another directory is the same field to its key.
NewGapIsDecided ==
  [][landed' # landed =>
       ((UNION Gaps(landed')) \ (UNION Gaps(landed))) \cap Verdicts(landed) = {}]_vars

\* A landed verdict speaks of one field: the key cannot silence two
\* (crdfields.go:244-246).
OneVerdictOneField ==
  \A f, g \in Serves(landed) : KeyOf[f] = KeyOf[g] /\ KeyOf[f] \in Verdicts(landed) => f = g

\* The gate is one as Ratchet has it: in each reading its gaps are the fields nothing
\* consumes, its decisions the verdicts, and it is strict: a verdict without its gap
\* fails it.
View == [t \in Commits \cup {EmptyTree} |->
           [readings |-> Gaps(t), decided |-> Verdicts(t), strict |-> TRUE]]
Candidates == {View[t] : t \in Commits}

Gate == INSTANCE Ratchet WITH
  candidate <- View[commit], landed <- View[landed],
  verdict <- CASE code = NoCode -> "none" [] code = 0 -> "pass" [] OTHER -> "fail"

GateImplemented == Gate!Spec

-----------------------------------------------------------------------------
(* What the documentation says and the code does not do *)

\* Exit 1 is a verdict about the fields, exit 2 a gate that could not run
\* (main.go:20-21).
ExitOneIsAVerdict == code = 1 => out # NoOutcome

\* A segment may carry a filter, and its json name precedes the bracket
\* (crdfields.go:341-343): the fields up to the bracket are displayed.
FilteredColumnsResolve ==
  pc = "schema" =>
    \A column \in commit.columns : \A f \in SchemaFields(commit) :
      LET upTo == SelectInSeq(column.path, LAMBDA tok : tok = Bracket)
          cut == [column EXCEPT !.path = SubSeq(column.path, 1, upTo - 1)]
      IN upTo > 0 /\ (\A shown \in Readings([commit EXCEPT !.columns = {cut}]) : f \in shown)
           => KeyOf[f] \in displayed
=============================================================================
