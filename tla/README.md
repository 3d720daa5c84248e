# A verification of ast-checks in TLA+

ast-checks is a set of guards that other repositories run in their CI: a walker
that finds forbidden code patterns, a counter of declarations nothing reads, and
a gate on the fields of Kubernetes CRDs. Each guard compares what it finds in
the code with a list of *decisions* a developer has committed (an allowlist, a
baseline, a file of verdicts). This project models the guards as they run over
time: overlapping each other and the developer, failing half way, and followed
by the next commit. The question common to all of them is whether a pass means
what the documentation says it means, for this commit and for the ones after it.

`PROJECT.json` lists components, runs, mutants, findings, hazards and theorems,
and maps each definition to the lines it models.

## 1. The system

| Part | State it keeps | Operations | What is hard about it |
|---|---|---|---|
| `cmd/unwired` | none of its own; the exit code | list (`-all`, no baseline), check, `-write` | runs overlap; a scan is a snapshot; each step can fail |
| `unwired/baseline.go` | the baseline file, which developers edit too | `ReadBaseline`, `readReasons`, `WriteBaseline` | read, truncate and write are three steps; two scanners must agree with one composer |
| `unwired/unwired.go`, `count.go` | the maps of one `analysis` | count, credit (two kinds), collect, add up | a file is in several package loads; who counts as a consumer; the order of the phases |
| `unwired/workspace.go` | a temporary directory | `workspaceFor`, cleanup | an error at each step must remove it; one go version for many modules |
| `crdfields`, `cmd/crdfields` | schema, verdicts and outcome of one run | `loadSchema`, `loadExemptions`, `Judge`, exit | a verdict outlives the gap it was given for; column paths; error against verdict |
| `walk.go`, `finding.go`, `allowlist.go` | findings and used keys of one walk | `WalkReport`, `analyzeFile` | a scope that is not scanned, or scanned twice; an entry that outlives its guard |
| `matcher.go` | none | `NilGuard`, `ForbiddenCallsite`, `ImportBoundary` | what a name means is guessed from one file, without types |
| `fixture.go` | none | `AssertNoStaleAllowlist`, `FormatAllowlistLog` | the caller must call it |
| scripts, Makefile, workflows | clones of consumers | shell around external tools | not modelled |

How they interact: `cmd/unwired` and `cmd/crdfields` both call `unwired.Analyze`;
the first passes the result to the baseline, the second to `crdfields.Judge`.
The walker shows every node of every file to the matchers; it is called from a
test in the consumer's repository, which calls `AssertNoStaleAllowlist` on its
report. The file of decisions is the one state that outlives a run, and the
developer is the other process that writes it.

What makes each part correct:

- *unwired gate*: exit 1 exactly on growth past the decisions; no failure looks
  like growth; a rewrite loses no reason; every run ends.
- *baseline file*: what is written is read back, torn or whole; a rewrite of a
  rewrite changes nothing.
- *analysis*: the report is exactly the declarations nothing uses, whatever the
  order and number of the loads; `go.work` serves every module it names; nothing
  temporary is left.
- *crdfields gate, walker gate*: a commit passes exactly when the recorded
  decisions are the gaps it has, so that no old decision hides a new gap.
- *matchers*: a node is reported exactly when the program means what the rule
  forbids, by Go's scoping and by what a condition does.

## 2. The modules

| Module | Models | Checked by | Proved in |
|---|---|---|---|
| `UnwiredGate` | `cmd/unwired` and the baseline as entries with reasons | `UnwiredVerdicts`, `UnwiredMissing`, `UnwiredSharedKey` | `UnwiredGateProofs` |
| `BaselineFile` | the same file as lines; implements `UnwiredGate` | `BaselineLines` | `BaselineFileProofs` |
| `UnwiredAnalyze` | `unwired.Analyze` with the workspace | `UnwiredAnalyze` | `UnwiredAnalyzeProofs` |
| `CrdGate` | `cmd/crdfields` over a history of commits; implements `Ratchet` | `CrdCommits`, `CrdErrors`, `CrdFilter` | `CrdGateProofs` |
| `Matchers` | `matcher.go` as pure operators | through the next two | through the next two |
| `FileWalk` | `analyzeFile`: one walk over a file, with its matchers | `FileWalk`, `MatcherShadow` | `FileWalkProofs` |
| `WalkGate` | `WalkReport` in a gate test over a history of commits; implements `Ratchet` | `WalkCommits`, `WalkScopes` | `WalkGateProofs` |
| `Ratchet` | what a gate over decisions promises | as `GateImplemented` in `CrdCommits`, `WalkCommits` | `RatchetProofs` |
| `SequenceLemmas` | induction and facts on sequences | | itself |

Each `MC` module holds the instances of the module it is named after.

**UnwiredGate.** A run is a process in `Procs` with a pc (`idle`, `scan`,
`loaded`, `read`, `truncated`), what its scan returned (`found`), what it read
of the baseline (`view`) and its exit `code`. `Scan` is the call of `Analyze`;
`List`, `Check` and the triple `ReadReasons`, `Truncate`, `WriteBody` are the
three modes of `run`. `ScanFails`, `IOFails` and `WriteFails` are its error
returns, `Killed` ends it anywhere. A kill or error inside `os.WriteFile` leaves
a part of the text (`Torn`). The developer changes the tree (`EditTree`), the
file (`EditFile`) or removes it. Two history variables hold what the file
*should* say: `decided` is the file under atomic rewrites and edits, and
`atRisk` the keys that a torn rewrite, or an edit that a rewrite overran, may
have lost. They are written by the actions and read by no guard.

**BaselineFile.** A line is a sequence of tokens. `ReadBaseline` and `ScanLine`
are the two scanners, `Compose` the writer. `file` is always `Parsed(lines)`,
and with it every step is a step of `UnwiredGate` under
`Gate == INSTANCE UnwiredGate`; the property `GateRefined` is that instance's
`Init /\ [][Next]_vars`. `IOFails`, `Scan` and the rest, which do not touch
lines, are taken from the gate as they are. `ScanFindsBlocks` defines by position
what a reason is: the comments directly above the last entry of a key that has
any, with the comment the scan takes for the header left out.

**UnwiredAnalyze.** A program is a set of uses (file, declaration, how the
identifier stands there) and of imports, with a fixed set of package loads as
`packages.Load` returns them with `Tests: true`; `Load` picks the program, since
nothing before it looks at one. `CountPackage` and `CollectPackage` take the
loads in any order. The counts are those of the code (`reads`, `writes`,
`testReads`, `recvUses`); of a credit through an interface (`via`) only whether
there is one is kept, because nothing but a comparison with zero reads it.
`Used` says, of the program and without loads, counts or phases, what it means
that a declaration is used, where the receivers of a type are no use of it, as the
package comment has it; the code counts them, and `NamedByReceivers` tells the
types apart that it therefore never reports. `FieldReadsAreExact` says what the analysis means to
its other caller: of a field, the count without the credit for its tag is zero
exactly when no code reads it. `ReadModule` is one turn of the loop of
`workspaceFor` over the scanned module and its consumers, with the go version it
has picked so far; `GoWorkServes` is what the go command asks of the file that is
written. `Result.Files` is left out.

**CrdGate** and **WalkGate.** The gate runs on a proposed commit, and the commit
lands if it passes. Commits are taken from the constant set `Commits`, so that
any commit can follow any other. `CrdGate` has one action per step of `main` and
`Judge`. A column has its path and the root struct that the markers of its file come
to, so that a module may have any number of kinds. `Walks` is the resolution of a
print column from there: the path is split at its
dots, each segment is cut at its bracket, an empty one is passed over, and any
other one goes on to a field it names (`Hop`), or is lost where there is none;
where two fields share a json name each is a walk, as the map order of the runtime
may pick either. What a column *should* show is said without segments: a chain of
fields (`Chains`) from the root, one for each name of the path, each declared by the
struct the one before leads to, or nothing where a chain comes to a dead end. With one of them
for each column there is a reading of the commit (`Readings`), and the gate is held
to the gaps of a reading.

`WalkGate` has one action per phase of `WalkReport`, and one per scope directory
walked. A file is its head (what it imports) and its lines; scope directories
may overlap, and a finding carries the walk that found it, so that a file walked
twice has its findings twice. `Report` is the allowlist filter with its stale
keys, and a commit says whether its gate test calls `AssertNoStaleAllowlist`.
Which node a rule matches under which head is the constant `Matches`;
`MCWalkGate` computes it with the operators of `Matchers`.

**Matchers** and **FileWalk.** The matchers are pure, so `Matchers` is a module of
operators over abstract syntax: a file is its imports, the names it declares and
where, the names other files of its package declare, and the nodes a walk visits;
a condition is a disjunction of conjunctions, with a parenthesised or negated part
as one opaque leaf, which is how `matchCondition` sees it. `packageNameOfPath`,
`declaredInFile`, the rules of `importedPackageName` and the dot imports are
operators of their own. `FileWalk` visits the nodes with them. Its properties
compare what was found with a reference: `Callee` resolves a call by Go's rules
of scope and by the name in a package's own package clause, and `DecidedByNil`
asks whether a dependency's being nil can be all that decides a condition. The
matcher has no types, so `CallsAreExact` holds within two named limits on names:
`PathsShowNames`, which the code's comment states, and `OneMeaning`, which it does
not; and it says that of the calls of a forbidden symbol those by its bare name
are reported (`CalledByName`) and those in parentheses or with type arguments are
not (section 3).

**Ratchet.** A candidate has gaps, in each way it can be read, and decisions; a
gate may fail any candidate, and passes one only if its decisions cover the gaps of
a reading and, where it is strict, cover nothing else; what passes may land. `CrdGate` implements it with verdicts for
decisions, always strict, and `WalkGate` with the allowlist, strict where the gate
test asserts on stale entries. Its consequence, `GapsAreDecidedAnew`, is proved
once: no decision is older than the gap it tolerates. The baseline of
`cmd/unwired` is not strict by design (resolved entries stay until they are
rewritten), which is why it has a specification of its own.

## 3. What the runs show

The passing runs:

- **UnwiredVerdicts**: two runs, two declarations, two keys with a reason or
  without, all initial trees and files. `NoUnseenDecl`: a check that passes against the file a rewrite left
  saw nothing the rewrite had not seen. `VerdictMatchesDecisions`: exit 0 or 1 is
  right about `decided` unless the file is being rewritten or may have lost the
  line. `SmallerAlsoPasses` compares two runs: fewer unread declarations and no
  fewer entries never turn a pass into a fail. `OnlyGrowthExitsOne`: failed scans,
  reads and writes are never exit 1. `ReasonsSurvive`: a rewrite loses no reason,
  but for the keys of a rewrite cut short and of an edit that a rewrite overran. Of
  those two the code does lose lines; the property bounds the loss.
- **BaselineLines**: every file of at most four developer lines, one edit, two
  runs, two declarations that share a key and a key that only the file has. `GateRefined`,
  `ScanFindsBlocks` (the one-pass scan against the definition by position),
  `RewriteIsStable`, and `RunsExit` under weak fairness.
- **UnwiredAnalyze**: 128 programs over nine loads, two option sets (one of them
  with tests, unexported and generated code and a filter of kinds), all orders,
  two consumers and every `go.mod`. `ReportIsExact` (types that have methods apart),
  `FieldReadsAreExact`
  (what `CrdGate` takes an analysis to find, as one fact per field),
  `WorkspaceRemoved`, `GoWorkServes`.
- **CrdCommits**: `VerdictIsExact`, `NewGapIsDecided`, `OneVerdictOneField` and `GateImplemented` over pairs of commits. Columns of two
  kinds lead to one struct, and a file with columns may mark no root. Two of the
  fields have the json names of others, at the end of a column or on its way, with
  one that leads nowhere: there a run decides on one of the readings of its commit.
- **WalkCommits**: `WalkIsExact`, `SplitWalksAgree` (the caller of several walks
  over one allowlist can put together what one walk reports, as walk.go:89-91
  asks of it), `NewGuardIsDecided` and `GateImplemented` likewise, with lines that shift, guards that double, an import that changes what
  a line means, a file that two scope directories hold, scopes that are files or
  missing, invalid entries, tests that assert nothing; and `Judged`, that every
  test that is started comes to a verdict. `WalkIsExact` is about walks that come
  to their end, and sees findings by their keys: that a walk which fails lets nothing
  land is in `GateImplemented`, and that a guard walked twice is reported by both
  walks in `SplitWalksAgree`.
- **FileWalk**: every file of up to two imports and the declarations that matter,
  with every call that compiles, and every condition of up to two leaves beside
  opaque ones. `CallsAreExact`, `GuardsAreExact`, `BoundariesAreExact`.

Each property also fails under a mutant of the code that a plausible slip would
produce (`mutants`).

The runs that end in a counterexample are disagreements of the code with its own
documentation (`findings` quotes both sides):

- **UnwiredMissing**: a check without a baseline exits 2, where the usage comment
  says 1 (main.go:25). The comment of `grewError` (main.go:46-48) agrees with the code.
- **UnwiredSharedKey**: with two declarations of one key, growth passes.
- **CrdErrors**: an error of `Judge` exits 1, the code of a verdict.
- **CrdFilter**: a column with a dot in its filter resolves to nothing.
- **WalkScopes**: a scope root with a skipped name, or a link, is not scanned.
- **MatcherShadow**: in a file that imports `time`, a call on a local variable
  named `time` is reported as a call of the package.

Smaller ones have no run:

- The header of the baseline says that the file only shrinks, while `-write` adds
  entries when the unread set grew (baseline.go:90, 95-101).
- A reason at the very top of a file without a generated header is taken for the
  header (baseline.go:126, 136), in line with the comment of `readReasons` and not
  with that of `WriteBaseline`.
- A type that has methods is never reported: `countPackage` counts receivers among
  the reads of a type (count.go:85-88), and `recvUses` is asked only when methods are
  credited (count.go:649). The package comment says that a type that only names
  itself in its own methods' receivers does not look alive (unwired.go:45-46).
- `Result.Files` counts a file once per load that has it (count.go:257), where the
  comment says that repeated loads do not inflate Files (count.go:243-244).
- Interface credit can keep the methods of a type alive that nothing names
  (count.go:455-456, 538-547).
- For `go.work`, a release candidate is no semantic version and so older than any
  release, and 1.N is no older than 1.N.0 (workspace.go:39): a module that asks for
  one can be left with a go version the go command then refuses for it. That is why
  `GoWorkServes` speaks of modules that ask for releases.
- The report prints its `ok` line below the floor, with an error line after it
  (crdfields.go:476-483).
- A struct that moves to another types directory keeps its verdicts, since a key
  names the package and not the directory.
- Of `ForbiddenCallsite` (the limit `OneMeaning`): a name declared anywhere in a
  file, even as a method, hides the calls of an unaliased package whose path does
  not show its name; and a name that another file of the package declares is taken
  for such a package.
  And `(time.Now)()` or `pkg.New[T]()` is a call of a symbol of the set
  (matcher.go:132) that is never reported (matcher.go:200-201); `CalledByName` names
  this limit in `CallsAreExact`.
- Of `NilGuard`: a parenthesised or negated condition is opaque to it. A field of any
  identifier, a parameter or a package too, passes for one of the receiver of the
  method (matcher.go:50-56, 118), and `Dependency` follows the code there.
- Of `ImportBoundary`: the prefix of a module is also that of a sibling whose last
  element begins with it (`gibson`, `gibson-tools`).

### Bounds and why they are enough

`Procs` has two runs: every property relates at most two, and a writer overlapped
by a reader is the interesting case. Two keys are enough for one that grew and
one that resolved, the case that tells counting from matching, and one reason for one
that is kept or lost, since reasons are kept key by key. Runs restart without bound, so histories are
unbounded in `UnwiredGate`. `BaselineFile` bounds lines (`MaxLines` = 4: what ends the
header, a comment, a blank or second comment, an entry), edits (`MaxEdits` = 1)
and runs (`MaxRuns` = 2: a rewrite of a rewrite); rewritten files are longer than
`MaxLines` and not cut. `NConsumers` = 2 with `MCGoMods` (two releases of one
minor, another minor, a language version, a candidate) gives a newest version in
every place and ties. In `CrdGate` and `WalkGate` the properties relate a
commit to the one that landed before it, and every pair of commits of the set
occurs. A matcher looks at one node, and at the imports and declarations of its
file: two imports are enough for one that names a qualifier and one that might,
and a call in two functions for a name that is local in one of them. `SYMMETRY`
is used in `UnwiredVerdicts` only, which checks no liveness: over `Procs`, and over
the declarations together with their keys, which no action or property tells apart. The
theorems of section 4 hold without these bounds.

### Fairness

`UnwiredGate` and `BaselineFile` state `WF_vars(Step(p))` for each run, and `WalkGate`
`WF_vars(Test)` for the gate test: a started process, or a test of `go test`, is
scheduled until it ends. Nothing is assumed of the developer, of starts, of kills
or of proposals. `Step` and `Test` include the failures, so fairness says only
that a run goes on, not that it succeeds.

### Deadlock

The gates never stop: the tree can always be edited, the next commit always be
proposed. `Analyze` and the walk of one file do end, so their runs set
`CHECK_DEADLOCK FALSE`.

## 4. What is proved

Each proof is for every value of the constants under the assumptions named in the
module it is about. TLC evaluates those assumptions on the instances.

`UnwiredGateProofs`, for any sets of runs, declarations, keys and reasons:

- `TypeCorrect`, `ReasonsAlwaysSurvive`, `SmallerAlwaysPasses`,
  `OnlyGrowthEverExitsOne`, `VerdictsMatch`; and `GrowthIsSeen`, which assumes
  that no two declarations share a key, the very assumption the run
  `UnwiredSharedKey` shows to be needed.
- `StartedRunsExit`: a started run comes to an exit code, among any number of
  others, given the fairness of its own steps and that a started run always has a
  step it can take. It rests on what a step of a run may do (`StepAdvances`,
  `NothingGoesBack`): a run goes from `scan` to `loaded`, `read`, `truncated` and
  its end, and nobody else moves it. That a step can be taken is `ENABLED`, which
  the prover does not reason about: it is a hypothesis here, and TLC evaluates it
  where it checks `RunsExit` in `BaselineLines`, without such a hypothesis.

`ReasonsSurvive` is not inductive: a write restores what an earlier step read.
`Inv` therefore also says of each run where it is in which mode, that there is
at most one writer past its start, that a writer between its read and its write
holds the decided note of every key that is not at risk, and that the code of a
finished check is the `Verdict` of what it kept. The step proof has one case per
action.

`BaselineFileProofs`, for files, scans and reasons of any length:

- `ScanKnows`: the one-pass scan of a file ends with exactly what the definition by
  position says, by induction on the lines; from it `ScansFindTheBlocks`.
- `RoundTrip`: a composed text is read back as the entries and reasons it was
  composed from and, cut after any line, as one of the gate's torn files.
- `LinesRefineTheGate`, `TypeCorrect`, `RewritesAreStable`. With the refinement,
  `UnwiredGateProofs` is instantiated, and its invariant holds of the lines. So do
  the promises of the gate that follow from it: `ReasonsSurviveInLines`,
  `ExitCodesInLines`, `VerdictsMatchInLines` and, with distinct keys,
  `GrowthIsSeenInLines`.

They rest on `TokensAssumption` and `MarkersAssumption` (tokens and marker values
are distinct) and `KeyOrderAssumption` (keys are sorted in one order). The
induction theorems of the library take an operator, which no installed prover can
instantiate; `SequenceLemmas` derives `Induction` and `InductionOnSequences` over
*sets* from the well-foundedness of `<`, and with them what `FlattenSeq` computes.

`UnwiredAnalyzeProofs`, for any program, loads and order of them:

- `ReportAlwaysExact`, with the types that have methods apart. A count is positive exactly when a load counted so far has a
  use of its kind (`CountsAre`), so that after the last load it does not matter
  which loads there were; credits follow (`CreditsAre`); and what was collected is a
  matter of the collected loads (`CollectedIs`). It rests on `LoadsAssumption` (no
  file is of a consumer and of the module) and `DeclsAssumption` (a production file
  is loaded under one path).
- `FieldReadsAlwaysExact`, from the same facts about counts (`CountsAreExact`,
  `TotalIsExact`), for the fields among the declarations: no interface keeps a field
  alive, so that nothing but a read, a test of a test support package and the tag
  adds to its count.
- `TypeCorrect`, `WorkspaceAlwaysRemoved`, and `GoWorkAlwaysServes` for any number
  of consumers.

`CrdGateProofs`, for any kinds, fields and verdicts, and columns of any length:

- `DisplaysAreReadings`: what the walks of the columns show, whatever the map
  order, is what a reading of the commit shows, and every reading can be it. By
  induction on the places of the path the walks so far are those of the chains that
  spell the names so far, and the lost one where there is a dead end (`WalksHop`,
  `WalksAre`). The recursive functions exist by `RecursionExists`.
- `TypeCorrect`, `VerdictsAreExact`, `VerdictsAreOfOneField`, `NewGapsAreDecided`
  and `CrdIsARatchet`, with no hypothesis on names. Past its schema a run has
  measured its own commit in one of its readings, and as its directories do not
  clash a key stands for one field.
- `DisplaysAreDetermined`: where no struct gives one json name to two fields, names
  are spelled by one chain at most (`OneChain`), so that there is one reading, and the
  map order has no say in what the columns display.

`PathsAssumption` says how a path is written: a name begins it or follows a dot.

`FileWalkProofs`, for any files, import paths and rules: `TypeCorrect`,
`CallsAlwaysExact`, `GuardsAlwaysExact`, `BoundariesAlwaysExact`. What has been
found is what the matchers match among the nodes visited, and node by node each
matcher agrees with the reference, within the limits its property names.

`WalkGateProofs`, for any files, matchers, commits and scope directories:

- With no assumption on scope paths, `TypeCorrect` and `SplitWalksAlwaysAgree`. The
  invariant is that the findings so far are those of the scope directories before
  `next`, and that a completed walk reports them.
- `TestsGrowShorter`: each step of a started test lowers the number of steps it has
  left at most (`Left`), so that none goes on for ever.
- Under `PlainScopes` (no scope path is a link or has a skipped name), the
  assumption the run `WalkScopes` shows to be needed, `WalkAlwaysExact`,
  `NewGuardsAreDecided` and `WalkIsARatchet`: there the findings at the end are the
  forbidden guards (`WholeWalk`). The commit that landed satisfies the exactness
  itself (`LandedExact`); the action property follows from that alone.

`RatchetProofs`: `DecidedAnew`, for any gate that implements `Ratchet`.

Only model-checked, among the properties of the passing runs: the liveness
properties `RunsExit` and `Judged`. Of `RunsExit` what the prover leaves to TLC is that
a started run always has a step it can take (`ENABLED`); of `Judged` also the way from
a measure that falls to the end it comes to, an induction over temporal formulas.
Every other property of a passing run
is the property of a theorem. No module declares a `RECURSIVE` operator.

## 5. Assumptions about the environment

- Two `-write` runs of one checkout do not overlap (`OneWriter`).
- A developer does not save the baseline between the truncation and the write of
  one `os.WriteFile`; between a rewrite's read and its truncation they may, and
  `atRisk` records it.
- A scan is one atomic snapshot of the tree.
- A torn file ends after a whole line in `BaselineFile`, and in `UnwiredGate`
  keeps an entry and its reason together.
- Spaces around lines and the date in the header are not modelled.
- A run of the CRD gate or the walker has a checkout of its own.
- A struct is known by its fields. Where two types directories declare a struct of one
  name and one of them gives it none, the code refuses the commit (crdfields.go:299-305)
  and the model may (`SchemaFails`).
- The markers of a file come to the root struct its commit says. Between nested scope directories there are only
  plain directories.
- What go/types says of a program is a constant (`Satisfies`, `OutsideMethods`,
  `RecvOf`). What the go/ast parser returns is the abstract syntax of `Matchers`.
- The go command orders versions as `Language` and `Candidate` say.

## 6. Not modelled

- Rendering: the wording of findings and reports, `FormatAllowlistLog`, how a node
  becomes a snippet. That two nodes may share a snippet is in `WalkGate`.
- `Result.Files`, a number that is only printed.
- The script that checks out consumers: clones and the network; the directories it
  prints are `Opts.Consumers`.
- The Makefile's gate on dead code, a shell pipeline over an external tool, and the
  workflows, configuration of external actions.

## 7. Plan

Done, in this order: `UnwiredGate`, `BaselineFile`, `UnwiredAnalyze`, `CrdGate`,
`WalkGate` and the proofs of the two gates; then `Matchers` with `FileWalk`,
`Ratchet` and the two refinements, the options, consumers and go versions of
`UnwiredAnalyze`, and the proofs of every module; then several readings of a commit,
several kinds, walks that are split, what carries over from the gate to its lines,
the ends of runs, and what the analysis counts for a field.

Left: the analysis behind `CrdGate` as one composition with `UnwiredAnalyze`.
`FieldReadsAlwaysExact` is the fact such a composition would rest on; what is missing
is the program of a commit in place of its set of read fields, whose size is beyond
a run of the two modules together.
