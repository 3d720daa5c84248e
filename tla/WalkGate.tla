------------------------------ MODULE WalkGate ------------------------------
(***************************************************************************)
(* A consumer's gate test over the commits of its repository: WalkReport   *)
(* scans the scope directories for guards that a matcher forbids, takes    *)
(* out the findings the allowlist tolerates, and the test fails on what is *)
(* left, on an error, and, if it asserts so, on an allowlist entry that    *)
(* matched nothing.                                                        *)
(*                                                                         *)
(* A file is a head, its imports, and a sequence of lines.  A line is      *)
(* blank, or a node that some matcher may match.  Which nodes a matcher    *)
(* matches under which head is given by the constant Matches, and computed *)
(* by the operators of the module Matchers in an instance.                 *)
(***************************************************************************)
EXTENDS Naturals, Sequences, FiniteSets

CONSTANTS
  Files,        \* source files, by repo-relative path
  ScopeDirs,    \* WalkOpts.ScopeDirs, a sequence
  DirsTo,       \* the scope directories on the way to a file, outermost first
  SkippedFiles, \* tests, generated files, files under vendor or testdata
  Heads,        \* what a file imports
  Nodes,        \* nodes that a matcher may match
  Snippet,      \* how a node is rendered, which another may share
  Blank,        \* any other line
  Matchers,     \* WalkOpts.Matchers
  Matches,      \* the nodes that <<a matcher, a head>> match
  Commits       \* the commits that may be proposed

Dirs == {ScopeDirs[i] : i \in DOMAIN ScopeDirs}
Snippets == {Snippet[n] : n \in Nodes}
ContentKeys == Files \X Snippets
\* What a scope path can be on disk: a directory, or one with a name the walk
\* skips, or a symbolic link to one, or something that is no directory at all.
Kinds == {"directory", "skipped name", "symlink", "file", "missing"}

\* A commit: the head and the lines of each file, what the scope paths are, the
\* content keys of the allowlist, whether every entry of it is valid, and whether
\* the gate test asserts that none is stale.
EmptyTree == [lines |-> [f \in Files |-> <<>>],
              allow |-> {}, valid |-> TRUE, asserted |-> TRUE]

ASSUME CommitsAssumption ==
  \A t \in Commits :
    /\ t.head \in [Files -> Heads] /\ t.lines \in [Files -> Seq(Nodes \cup {Blank})]
    /\ t.kind \in [Dirs -> Kinds]
    /\ t.allow \subseteq ContentKeys /\ t.valid \in BOOLEAN /\ t.asserted \in BOOLEAN
ASSUME ScopeAssumption ==
  /\ ScopeDirs \in Seq(Dirs) /\ DirsTo \in [Files -> Seq(Dirs)]
  /\ Matches \in [Matchers \X Heads -> SUBSET Nodes] /\ Blank \notin Nodes

VARIABLES
  commit,   \* the commit under the gate
  landed,   \* the last commit that landed
  pc,       \* where WalkReport is
  next,     \* the scope directory it walks next
  all,      \* the findings so far
  report,   \* Report: findings not tolerated, and stale allowlist keys
  verdict   \* of the gate test

vars == <<commit, landed, pc, next, all, report, verdict>>

\* A file that two scope directories hold is walked twice, and its findings are
\* two: they are told apart by the walk.
Findings == [file : Files, line : Nat, snippet : Snippets, category : Matchers, walk : DOMAIN ScopeDirs]
NoReport == [findings |-> {}, stale |-> {}]

TypeOK ==
  /\ commit \in Commits /\ landed \in Commits \cup {EmptyTree}
  /\ pc \in {"start", "valid", "walking", "done"}
  /\ next \in 1..(Len(ScopeDirs) + 1)
  /\ all \subseteq Findings
  /\ report.findings \subseteq Findings /\ report.stale \subseteq ContentKeys
  /\ verdict \in {"none", "pass", "fail"}

-----------------------------------------------------------------------------
(* WalkReport *)

\* Mutant of ContentKey: the key leaves the file out.
SnippetKey(f) == <<CHOOSE g \in Files : TRUE, f.snippet>>

ContentKey(f) == <<f.file, f.snippet>>

\* Mutant of Report: no key is ever stale.
ReportNoStale(A, allow) ==
  [findings |-> {f \in A : ContentKey(f) \notin allow}, stale |-> {}]

\* The findings the allowlist does not tolerate, and its keys that none matched.
Report(A, allow) ==
  [findings |-> {f \in A : ContentKey(f) \notin allow},
   stale |-> allow \ {ContentKey(f) : f \in A}]

\* Mutant of AssertNoStaleAllowlist: it is not asked about stale keys.
AssertNothing(r) == TRUE

AssertNoStaleAllowlist(r) == r.stale = {}

\* The files in a directory and those below it, as far as filepath.Walk goes: it
\* does not follow a link and, at the root too, skips some names.
Visited(t, d) ==
  {f \in Files \ SkippedFiles :
     \E i \in DOMAIN DirsTo[f] :
       /\ DirsTo[f][i] = d
       /\ \A j \in DOMAIN DirsTo[f] : i <= j => t.kind[DirsTo[f][j]] = "directory"}

\* The findings of the n-th walk in a file.
AnalyzeFile(t, f, n) ==
  {[file |-> f, line |-> im[1], snippet |-> Snippet[t.lines[f][im[1]]], category |-> im[2], walk |-> n] :
     im \in {im \in (DOMAIN t.lines[f]) \X Matchers : t.lines[f][im[1]] \in Matches[<<im[2], t.head[f]>>]}}

Init ==
  /\ commit \in Commits
  /\ landed = EmptyTree
  /\ pc = "start"
  /\ next = 1
  /\ all = {}
  /\ report = NoReport
  /\ verdict = "none"

\* An error: WalkReport returns an empty Report with it, and the test fails.
Fail ==
  /\ pc' = "done" /\ verdict' = "fail"
  /\ report' = NoReport
  /\ UNCHANGED <<commit, landed, next, all>>

Accepted == commit.valid /\ Matchers # {} /\ ScopeDirs # <<>>

Validate ==
  /\ pc = "start"
  /\ Accepted
  /\ pc' = "valid"
  /\ UNCHANGED <<commit, landed, next, all, report, verdict>>

RefuseOptions ==
  /\ pc = "start"
  /\ ~Accepted
  /\ Fail

\* os.Stat follows links and knows no names: it tells directories from the rest.
IsDir(d) == commit.kind[d] \notin {"file", "missing"}

StatScopes ==
  /\ pc = "valid"
  /\ \A i \in DOMAIN ScopeDirs : IsDir(ScopeDirs[i])
  /\ pc' = "walking"
  /\ UNCHANGED <<commit, landed, next, all, report, verdict>>

RefuseScope ==
  /\ pc = "valid"
  /\ \E i \in DOMAIN ScopeDirs : ~IsDir(ScopeDirs[i])
  /\ Fail

\* Mutant of WalkScope: one turn more than there are scope directories.
WalkPastEnd ==
  /\ pc = "walking" /\ next <= Len(ScopeDirs) + 1
  /\ next' = next + 1
  /\ UNCHANGED <<commit, landed, pc, all, report, verdict>>

\* Mutant of WalkScope: after the last scope directory comes the first again.
WalkInCircles ==
  /\ pc = "walking" /\ next <= Len(ScopeDirs)
  /\ all' = all \cup UNION {AnalyzeFile(commit, f, next) : f \in Visited(commit, ScopeDirs[next])}
  /\ next' = (next % Len(ScopeDirs)) + 1
  /\ UNCHANGED <<commit, landed, pc, report, verdict>>

\* Mutant of WalkScope: a scope directory's findings replace those before it.
WalkAfresh ==
  /\ pc = "walking" /\ next <= Len(ScopeDirs)
  /\ all' = UNION {AnalyzeFile(commit, f, next) : f \in Visited(commit, ScopeDirs[next])}
  /\ next' = next + 1
  /\ UNCHANGED <<commit, landed, pc, report, verdict>>

WalkScope ==
  /\ pc = "walking" /\ next <= Len(ScopeDirs)
  /\ all' = all \cup UNION {AnalyzeFile(commit, f, next) : f \in Visited(commit, ScopeDirs[next])}
  /\ next' = next + 1
  /\ UNCHANGED <<commit, landed, pc, report, verdict>>

\* A file that does not parse ends the walk, and so does a file or a directory that
\* cannot be read or is gone since its scope directory was looked at.
FileFails ==
  /\ pc = "walking" /\ next <= Len(ScopeDirs)
  /\ Fail

Tolerate ==
  /\ pc = "walking" /\ next > Len(ScopeDirs)
  /\ report' = Report(all, commit.allow)
  /\ verdict' = IF report'.findings = {} /\ (commit.asserted => AssertNoStaleAllowlist(report'))
                THEN "pass" ELSE "fail"
  /\ pc' = "done"
  /\ UNCHANGED <<commit, landed, next, all>>

\* CI lets a commit land when its gate test passed, and takes the next one.
Propose(t) ==
  /\ pc = "done"
  /\ landed' = IF verdict = "pass" THEN commit ELSE landed
  /\ commit' = t
  /\ pc' = "start" /\ next' = 1 /\ all' = {} /\ report' = NoReport /\ verdict' = "none"

Test ==
  \/ Validate \/ RefuseOptions
  \/ StatScopes \/ RefuseScope
  \/ WalkScope \/ FileFails
  \/ Tolerate

Next == Test \/ \E t \in Commits : Propose(t)

\* A test goes on until it exits; nobody need propose a commit.
Spec == Init /\ [][Next]_vars /\ WF_vars(Test)

-----------------------------------------------------------------------------
(* What the gate promises *)

\* The nodes of a commit that the rules forbid, by content key.
InScope == {f \in Files \ SkippedFiles : DirsTo[f] # <<>>}
Forbidden(t) ==
  {k \in InScope \X Snippets :
     \E i \in DOMAIN t.lines[k[1]] : \E m \in Matchers :
       /\ t.lines[k[1]][i] \in Matches[<<m, t.head[k[1]]>>]
       /\ Snippet[t.lines[k[1]][i]] = k[2]}

\* A walk that comes to its end passes exactly the commits whose allowlist names
\* their forbidden guards, by file and text, or names them among others where the
\* test asserts nothing of those: one more guard, one that comes to match or one
\* that goes counts; lines that move, and a file that two walks see, do not
\* (walk.go:143-145, finding.go:64-67).
WalkIsExact ==
  pc = "done" /\ Accepted /\ next > Len(ScopeDirs)
    => (verdict = "pass" <=> /\ Forbidden(commit) \subseteq commit.allow
                             /\ commit.asserted => commit.allow = Forbidden(commit))

\* What a call for one scope directory and one rule reports, of the same allowlist.
Parts == (DOMAIN ScopeDirs) \X Matchers
PartReport(t, p) ==
  Report({f \in UNION {AnalyzeFile(t, file, p[1]) : file \in Visited(t, ScopeDirs[p[1]])} : f.category = p[2]},
         t.allow)

\* A caller that splits one allowlist over several walks can put together what one
\* walk reports: the findings of all, and of the stale entries those that every one
\* calls stale (walk.go:89-91).
SplitWalksAgree ==
  pc = "done" /\ Accepted /\ next > Len(ScopeDirs) =>
    /\ report.findings = UNION {PartReport(commit, p).findings : p \in Parts}
    /\ report.stale = {k \in commit.allow : \A p \in Parts : k \in PartReport(commit, p).stale}

\* A guard that appears is decided on when it appears, where the commit before it
\* asserted that no entry is stale: none of its entries is there to tolerate the
\* guard (walk.go:81-83).
NewGuardIsDecided ==
  [][landed' # landed /\ landed.asserted
       => (Forbidden(landed') \ Forbidden(landed)) \cap landed.allow = {}]_vars

\* The gate test is a gate as Ratchet has it: a tree has one reading, its gaps are the
\* forbidden guards, its decisions the allowlist, and it is strict where it asserts.
View == [t \in Commits \cup {EmptyTree} |->
           [readings |-> {Forbidden(t)}, decided |-> t.allow, strict |-> t.asserted]]
Candidates == {View[t] : t \in Commits}

Gate == INSTANCE Ratchet WITH candidate <- View[commit], landed <- View[landed]

GateImplemented == Gate!Spec

\* Every test that is started ends in a verdict, with an error or without.
Judged == verdict = "none" ~> verdict # "none"

-----------------------------------------------------------------------------
(* What the documentation says and the code does not do *)

\* "A guard that scans nothing can never fail" (walk.go:104-106): a walk that
\* passes has walked every scope directory it was given.
ScopesAreScanned ==
  verdict = "pass" =>
    \A f \in InScope : \A i \in DOMAIN DirsTo[f] : f \in Visited(commit, DirsTo[f][i])
=============================================================================
