--------------------------- MODULE UnwiredAnalyze ---------------------------
(***************************************************************************)
(* unwired.Analyze: how the scan behind the gate decides which             *)
(* declarations nothing reads.  packages.Load hands over package loads:    *)
(* with Tests set, one import path is loaded as the package, again with    *)
(* its internal tests, once more as its external test package, and as a    *)
(* generated test main.  Analyze counts the uses in every load, credits    *)
(* methods that are called through an interface, collects the declarations *)
(* and adds up.  Loads are counted and collected in any order.  With       *)
(* consumers it first writes a go.work over their modules (workspaceFor).  *)
(*                                                                         *)
(* A use is a file, a declaration and how the identifier stands there, as  *)
(* writeTargets and receiverTypePositions classify its position.  What     *)
(* go/types says of a program (which method satisfies which interface) is  *)
(* a constant relation.                                                    *)
(***************************************************************************)
EXTENDS Integers, Sequences, FiniteSets

CONSTANTS
  Loads,          \* package loads
  PathOf,         \* import path of a load
  BaseOf,         \* that path without the "_test" of an external test package
  FilesOf,        \* files of a load
  NConsumers,     \* length of Opts.Consumers, the directories of consumer modules
  GoMods,         \* what a go.mod may say: a module path and a go version
  ConsumerLoads,  \* loads of the consumer modules
  TestMains,      \* loads of generated test mains
  Files, TestFiles, GeneratedFiles,
  Decls,          \* declarations of production files, wherever they are
  PkgOf, FileOf, KindOf,  \* package path, file and kind of a declaration
  Fields, Tagged, \* struct fields, and those with a serialization tag
  Exported,
  RecvOf,         \* receiver type of each method
  Satisfies,      \* <<concrete method, method of an analysed interface>> pairs
  OutsideMethods, \* methods that match an interface whose callers are not seen
  FixedUses, PossibleUses,        \* uses in every program, uses in some
  FixedImports, PossibleImports,  \* <<file, path>>, likewise
  OptSet          \* the options analysed: testsAsReads, unexported, generated, kinds

Methods == DOMAIN RecvOf

\* What packages.Load returns: no file is of a consumer and of the module, or of a
\* generated test main and of a package.
ASSUME LoadsAssumption ==
  /\ IsFiniteSet({PathOf[l] : l \in Loads}) /\ FilesOf \in [Loads -> SUBSET Files]
  /\ ConsumerLoads \subseteq Loads /\ TestMains \subseteq Loads
  /\ DOMAIN PathOf = Loads /\ DOMAIN BaseOf = Loads
  /\ \A l, m \in Loads : FilesOf[l] \cap FilesOf[m] # {} =>
       (l \in ConsumerLoads <=> m \in ConsumerLoads) /\ (l \in TestMains <=> m \in TestMains)
  /\ NConsumers \in Nat /\ (NConsumers = 0 => ConsumerLoads = {})
\* A production file is loaded under the path of its package only.
ASSUME DeclsAssumption ==
  /\ FileOf \in [Decls -> Files \ TestFiles]
  /\ Tagged \subseteq Fields /\ Fields \subseteq Decls \ Methods /\ Exported \subseteq Decls
  /\ RecvOf \in [Methods -> Decls] /\ Methods \subseteq Decls
  /\ OutsideMethods \subseteq Methods
  /\ \A d \in Decls, l \in Loads : FileOf[d] \in FilesOf[l] => PathOf[l] = PkgOf[d]
ASSUME SatisfiesAssumption == Satisfies \subseteq Methods \X Decls
\* Every file that uses or imports something is loaded. A receiver names a type,
\* never a field or a method.
ASSUME UsesAssumption ==
  LET loaded == UNION {FilesOf[l] : l \in Loads} IN
  /\ IsFiniteSet(FixedUses \cup PossibleUses)
  /\ FixedUses \cup PossibleUses \subseteq
       [file : loaded, decl : Decls, how : {"read", "write", "key", "recv"}]
  /\ \A u \in FixedUses \cup PossibleUses :
       u.how = "recv" => u.decl \notin Fields \cup Methods \cup {s[2] : s \in Satisfies}
  /\ \A i \in FixedImports \cup PossibleImports : i[1] \in loaded
\* A go version is a minor and a patch, or stands for the language version 1.N or
\* for its release candidates, which the go command orders before 1.N.0.
Language == -2
Candidate == -1
ASSUME GoModsAssumption ==
  \A m \in GoMods : m.minor \in Nat /\ m.patch \in Nat \cup {Language, Candidate}

VARIABLES
  opts,                  \* the options, fixed by Init
  uses, imports,         \* the program, as it is when it is loaded
  phase,                 \* what Analyze is doing
  tempDir,               \* the temporary directory of the go.work file
  mods, goVersion,       \* what workspaceFor knows, and what go.work says
  todo,                  \* loads the current phase has not come to
  reads, writes, testReads, recvUses, via,  \* counts per declaration
  prodImports, testImports,                 \* paths imported
  seen, decls,                              \* collected paths and declarations
  pkgCount,
  report                                    \* the declarations with no read

input == <<opts, uses, imports>>
workspace == <<tempDir, mods, goVersion>>
counts == <<reads, writes, testReads, recvUses, prodImports, testImports>>
collected == <<seen, decls, pkgCount>>
vars == <<input, phase, workspace, todo, counts, via, collected, report>>

Phases == {"start", "modules", "gowork", "load", "count",
           "outside", "collect", "done", "failed"}

Zero == [d \in Decls |-> 0]
NoVersion == [path |-> "", minor |-> 0, patch |-> Language]

TypeOK ==
  /\ uses \subseteq FixedUses \cup PossibleUses
  /\ opts \in OptSet
  /\ phase \in Phases
  /\ tempDir \in {"none", "made", "removed"}
  /\ mods \in Seq(GoMods) /\ goVersion \in GoMods \cup {NoVersion}
  /\ todo \subseteq Loads
  /\ \A c \in {reads, writes, testReads, recvUses, via} : c \in [Decls -> Nat]
  /\ decls \subseteq Decls /\ report \subseteq decls
  /\ pkgCount \in 0..Cardinality({PathOf[l] : l \in Loads})

Init ==
  /\ opts \in OptSet
  /\ uses = {} /\ imports = {}
  /\ phase = "start"
  /\ tempDir = "none" /\ mods = <<>> /\ goVersion = NoVersion
  /\ todo = {}
  /\ reads = Zero /\ writes = Zero /\ testReads = Zero /\ recvUses = Zero /\ via = Zero
  /\ prodImports = {} /\ testImports = {}
  /\ seen = {} /\ decls = {}
  /\ pkgCount = 0 /\ report = {}

-----------------------------------------------------------------------------
(* Loading *)

Go(p) == phase' = p

\* Mutant of Fail: a failing step leaves the directory to its caller.
FailNoCleanup == Go("failed") /\ UNCHANGED tempDir

\* An error return after the directory was made removes it: workspaceFor itself
\* before it has returned the cleanup, the deferred cleanup from then on.
Fail ==
  /\ Go("failed")
  /\ tempDir' = IF tempDir = "made" THEN "removed" ELSE tempDir

Unloaded == UNCHANGED <<input, todo, counts, via, collected, report>>

\* Analyze refuses options without a directory, or with one it cannot resolve.
Begin ==
  /\ phase = "start"
  /\ \/ Go(IF NConsumers = 0 THEN "load" ELSE "modules") /\ UNCHANGED tempDir
     \/ Fail
  /\ UNCHANGED <<mods, goVersion>> /\ Unloaded

\* semver.Compare: 1.N is 1.N.0, and what is no semantic version, as a release
\* candidate is not, is older than what is one.
SemverPatch(m) == IF m.patch = Language THEN 0 ELSE m.patch

\* Mutant of Newer: the last module wins.
NewerOrLater(m, n) == m.patch # Candidate

Newer(m, n) ==
  /\ m.patch # Candidate
  /\ n.patch # Candidate => \/ m.minor > n.minor
                            \/ m.minor = n.minor /\ SemverPatch(m) > SemverPatch(n)

\* readModule of the scanned module, then of each consumer: a go.mod may be missing,
\* malformed or without a go line, and a consumer may be the scanned module.
ReadModule ==
  /\ phase = "modules" /\ Len(mods) <= NConsumers
  /\ \/ \E m \in GoMods :
          /\ mods # <<>> => m.path # mods[1].path
          /\ mods' = Append(mods, m)
          /\ goVersion' = IF mods = <<>> \/ Newer(m, goVersion) THEN m ELSE goVersion
          /\ UNCHANGED <<phase, tempDir>>
     \/ Fail /\ UNCHANGED <<mods, goVersion>>
  /\ Unloaded

MakeTempDir ==
  /\ phase = "modules" /\ Len(mods) = NConsumers + 1
  /\ (Go("gowork") /\ tempDir' = "made") \/ Fail
  /\ UNCHANGED <<mods, goVersion>> /\ Unloaded

WriteGoWork ==
  /\ phase = "gowork"
  /\ (Go("load") /\ UNCHANGED tempDir) \/ Fail
  /\ UNCHANGED <<mods, goVersion>> /\ Unloaded

\* Analyze refuses a failed load, no packages, and any package with an error. The
\* go command has read go.work then, and nothing reads it again.
Load ==
  /\ phase = "load"
  /\ mods' = <<>> /\ goVersion' = NoVersion
  /\ \/ /\ Go("count") /\ todo' = Loads /\ UNCHANGED tempDir
        /\ \E extra \in SUBSET PossibleUses : uses' = FixedUses \cup extra
        /\ \E extra \in SUBSET PossibleImports : imports' = FixedImports \cup extra
     \/ Fail /\ UNCHANGED <<todo, uses, imports>>
  /\ UNCHANGED <<opts, counts, via, collected, report>>

-----------------------------------------------------------------------------
(* Counting *)

Skipped(f) == f \in GeneratedFiles /\ ~opts.generated

\* The files of a load whose uses count as reads and writes.
Counted(l) ==
  {f \in FilesOf[l] : ~Skipped(f) /\ (f \in TestFiles => opts.testsAsReads /\ l \notin ConsumerLoads)}

\* Mutant of IsWrite: a literal that sets a field by its name reads it.
IsWriteNotKey(u) == u.how = "write"
IsWrite(u) == u.how = "write" \/ (u.how = "key" /\ u.decl \in Fields)

IsTestUse(l, u) == u.file \in FilesOf[l] \cap TestFiles /\ ~Skipped(u.file)
\* Mutant of TestUse: the tests of a package are consumers of it.
AnyTestUse(l, u) == IsTestUse(l, u)
TestUse(l, u) == IsTestUse(l, u) /\ PkgOf[u.decl] # BaseOf[l]

Imported(fs) == {i[2] : i \in {j \in imports : j[1] \in fs}}

CountPackage(l) ==
  LET here == {u \in uses : u.file \in Counted(l)}
      tally(c, S) == [d \in Decls |-> c[d] + Cardinality({u \in S : u.decl = d})]
      importing == IF l \in TestMains THEN {} ELSE FilesOf[l]
  IN
  /\ phase = "count" /\ l \in todo
  /\ todo' = todo \ {l}
  /\ prodImports' = prodImports \cup Imported(importing \ TestFiles)
  /\ testImports' = testImports \cup Imported(importing \cap TestFiles)
  /\ testReads' = tally(testReads, {u \in uses : TestUse(l, u)})
  /\ writes' = tally(writes, {u \in here : IsWrite(u)})
  /\ reads' = tally(reads, {u \in here : ~IsWrite(u)})
  /\ recvUses' = tally(recvUses, {u \in here : u.how = "recv"})
  /\ UNCHANGED <<input, phase, workspace, via, collected, report>>

\* A method takes the highest count of the interface methods it satisfies. What
\* matters of a credit is whether there is one: via is 1 for any.
CreditInterfaceMethods ==
  /\ phase = "count" /\ todo = {}
  /\ via' = [d \in Decls |-> IF \E s \in Satisfies : s[1] = d /\ reads[s[2]] > 0 THEN 1 ELSE 0]
  /\ Go("outside")
  /\ UNCHANGED <<input, workspace, todo, counts, collected, report>>

\* A type is alive if production code names it other than as a receiver.
Alive(t) == reads[t] - recvUses[t] > 0

CreditOutsideInterfaces ==
  /\ phase = "outside"
  /\ via' = [d \in Decls |->
       IF d \in OutsideMethods /\ Alive(RecvOf[d]) /\ reads[d] = 0 /\ via[d] = 0
       THEN 1 ELSE via[d]]
  /\ Go("collect")
  /\ todo' = Loads
  /\ UNCHANGED <<input, workspace, counts, collected, report>>

-----------------------------------------------------------------------------
(* Collecting *)

\* Declarations of production files; main and init are not in Decls.
Collectable(l) ==
  {d \in Decls : FileOf[d] \in FilesOf[l] /\ ~Skipped(FileOf[d])
                 /\ (d \in Exported \/ opts.unexported)
                 /\ (opts.kinds = {} \/ KindOf[d] \in opts.kinds)}

\* Mutant of NewPath: every load of a package counts as a package.
EveryLoad(l) == TRUE
NewPath(l) == PathOf[l] \notin seen

CollectPackage(l) ==
  /\ phase = "collect" /\ l \in todo
  /\ todo' = todo \ {l}
  /\ IF l \in ConsumerLoads THEN UNCHANGED collected
     ELSE /\ seen' = seen \cup {PathOf[l]}
          /\ pkgCount' = pkgCount + (IF NewPath(l) THEN 1 ELSE 0)
          /\ decls' = decls \cup Collectable(l)
  /\ UNCHANGED <<input, phase, workspace, counts, via, report>>

TestSupport == {p \in seen : p \in testImports /\ p \notin prodImports}

\* The read by reflection that a serialization tag stands for.
ReadsViaReflection(d) == IF d \in Tagged THEN 1 ELSE 0

TotalReads(d) ==
  reads[d] + via[d] + ReadsViaReflection(d)
    + (IF PkgOf[d] \in TestSupport THEN testReads[d] ELSE 0)

Report ==
  /\ phase = "collect" /\ todo = {}
  /\ Go("done")
  /\ tempDir' = IF tempDir = "made" THEN "removed" ELSE tempDir
  /\ UNCHANGED <<mods, goVersion>>
  /\ report' = {d \in decls : TotalReads(d) = 0}
  /\ UNCHANGED <<input, todo, counts, via, collected>>

Next ==
  \/ Begin \/ ReadModule \/ MakeTempDir \/ WriteGoWork \/ Load
  \/ \E l \in Loads : CountPackage(l) \/ CollectPackage(l)
  \/ CreditInterfaceMethods \/ CreditOutsideInterfaces \/ Report

Spec == Init /\ [][Next]_vars

-----------------------------------------------------------------------------
(* What it means that nothing reads a declaration, said of the program and *)
(* not of loads or counts *)

ConsumerFiles == UNION {FilesOf[l] : l \in ConsumerLoads}

ReadFile(f) ==
  /\ f \in GeneratedFiles => opts.generated
  /\ f \in TestFiles => opts.testsAsReads /\ f \notin ConsumerFiles

\* Code whose reads count names d, other than as the field a literal or an
\* assignment sets, and other than as the receiver type of a method: "a type that
\* only names itself in its own methods' receivers does not look alive"
\* (unwired.go:45-46).
Named(d) ==
  \E u \in uses : u.decl = d /\ ReadFile(u.file) /\ u.how \in {"read", "key"}
                  /\ (u.how = "key" => d \notin Fields)

\* d is a type with methods in files whose reads count.
NamedByReceivers(d) == \E u \in uses : u.decl = d /\ ReadFile(u.file) /\ u.how = "recv"

CalledThroughInterface(d) == \E s \in Satisfies : s[1] = d /\ Named(s[2])

CalledFromOutside(d) == d \in OutsideMethods /\ Named(RecvOf[d])

\* d is in a package that only tests import, and a test of another package uses it.
UsedByOtherTests(d) ==
  LET importers == {i[1] : i \in {j \in imports : j[2] = PkgOf[d]}}
                     \ UNION {FilesOf[l] : l \in TestMains}
  IN /\ importers # {} /\ importers \subseteq TestFiles
     /\ \E u \in uses, l \in Loads :
          /\ u.decl = d /\ u.file \in FilesOf[l] \cap TestFiles
          /\ u.file \in GeneratedFiles => opts.generated
          /\ BaseOf[l] # PkgOf[d]

Used(d) ==
  Named(d) \/ CalledThroughInterface(d) \/ CalledFromOutside(d) \/ d \in Tagged \/ UsedByOtherTests(d)

InScope(d) ==
  /\ \E l \in Loads \ ConsumerLoads : FileOf[d] \in FilesOf[l]
  /\ FileOf[d] \in GeneratedFiles => opts.generated
  /\ d \in Exported \/ opts.unexported
  /\ opts.kinds = {} \/ KindOf[d] \in opts.kinds

-----------------------------------------------------------------------------

\* The report names exactly the declarations in scope that nothing uses, whatever
\* the order in which the loads are counted and collected and however often a file
\* is loaded (unwired.go:315-345), but for types that have methods.  Those it never
\* names, used or not: against unwired.go:45-46, countPackage counts the receivers
\* of a type among its reads (count.go:85-88), and recvUses is asked only when
\* methods are credited (count.go:649).
ReportIsExact ==
  phase = "done" => report = {d \in Decls : InScope(d) /\ ~Used(d) /\ ~NamedByReceivers(d)}

\* What cmd/crdfields takes for the Go code that reads a field is exactly that: of each
\* field in scope, tagged or not, what is left of the count without the credit for the
\* tag is zero where no code names it but to set it, and nothing else keeps it up
\* (crdfields.go:181-186). It is what CrdGate takes an analysis to find.
FieldReadsAreExact ==
  phase = "done" => \A d \in Fields :
    /\ d \in decls <=> InScope(d)
    /\ d \in decls => (TotalReads(d) = ReadsViaReflection(d) <=> ~Named(d) /\ ~UsedByOtherTests(d))

\* However a scan ends, it leaves no temporary workspace behind
\* (workspace.go:46-61, unwired.go:263-267).
WorkspaceRemoved == phase \in {"done", "failed"} => tempDir # "made"

\* What the go command asks of a go.work, and refuses the load without: every
\* module is in it, once it is written, and none asks for a newer go. So it is
\* where every module asks for a release (workspace.go:22-44); a candidate is read
\* as older than any release, and 1.N as no older than 1.N.0.
GoWorkServes ==
  phase = "load" /\ NConsumers > 0 =>
    /\ Len(mods) = NConsumers + 1
    /\ (\A i \in DOMAIN mods : mods[i].patch \notin {Language, Candidate}) =>
         \A i \in DOMAIN mods :
           \/ mods[i].minor < goVersion.minor
           \/ mods[i].minor = goVersion.minor /\ mods[i].patch <= goVersion.patch
=============================================================================
