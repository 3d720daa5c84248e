--------------------------- MODULE WalkGateProofs ---------------------------
(***************************************************************************)
(* Proofs about WalkGate for any files, guards, rules and allowlists.  The *)
(* argument: the findings so far are those of the scope directories walked *)
(* so far, so that at the end they are what each part of the walk finds;   *)
(* and where no scope path is a symbolic link, or has a name filepath.Walk *)
(* is told to skip (ScopesAreScanned is false of the others), they are the *)
(* forbidden guards, and Report compares exactly those with the allowlist. *)
(***************************************************************************)
EXTENDS WalkGate, TLAPS

\* No scope path is one that os.Stat and filepath.Walk disagree about.
PlainScopes ==
  \A t \in Commits : \A d \in Dirs : t.kind[d] \notin {"skipped name", "symlink"}

\* The files under a directory that a walk parses, if nothing keeps it from them.
Below(d) == {f \in Files \ SkippedFiles : \E j \in DOMAIN DirsTo[f] : DirsTo[f][j] = d}

\* The findings of the walks before the n-th.
FoundBefore(t, n) ==
  UNION {UNION {AnalyzeFile(t, f, i) : f \in Visited(t, ScopeDirs[i])} : i \in 1..(n - 1)}

\* A walk in progress has the findings of the directories it has been through,
\* and each scope path is a directory; one that came to its end reports them.
Found == /\ all = FoundBefore(commit, next)
         /\ \A i \in DOMAIN ScopeDirs : IsDir(ScopeDirs[i])
Reported ==
  /\ report = Report(all, commit.allow)
  /\ verdict = "pass" <=> report.findings = {} /\ (commit.asserted => report.stale = {})
Progress ==
  /\ next \in 1..(Len(ScopeDirs) + 1)
  /\ pc \in {"start", "valid", "walking", "done"}
  /\ pc \in {"start", "valid"} => all = {} /\ next = 1
  /\ pc \in {"valid", "walking"} => Accepted
  /\ pc = "walking" => Found
  /\ pc = "done" /\ Accepted /\ next > Len(ScopeDirs) => Found /\ Reported
  /\ verdict \in {"none", "pass", "fail"}
  /\ pc = "done" <=> verdict # "none"
  /\ verdict = "pass" => Accepted /\ next > Len(ScopeDirs)

Inv == commit \in Commits /\ landed \in Commits \cup {EmptyTree} /\ Progress

\* The last commit that landed has an exact allowlist, if its test asserted so.
LandedExact == landed.asserted => Forbidden(landed) = landed.allow

-----------------------------------------------------------------------------
(* What a walk finds *)

\* A finding in a file is at a line whose node some rule matches under its head.
LEMMA FindingsInFile ==
  ASSUME NEW t \in Commits, NEW f \in Files, NEW n \in DOMAIN ScopeDirs, NEW x \in AnalyzeFile(t, f, n)
  PROVE  /\ x \in Findings
         /\ \E i \in DOMAIN t.lines[f] : \E m \in Matchers :
              /\ t.lines[f][i] \in Matches[<<m, t.head[f]>>]
              /\ ContentKey(x) = <<f, Snippet[t.lines[f][i]]>>
              /\ Snippet[t.lines[f][i]] \in Snippets
<1>1. PICK im \in (DOMAIN t.lines[f]) \X Matchers :
        /\ t.lines[f][im[1]] \in Matches[<<im[2], t.head[f]>>]
        /\ x = [file |-> f, line |-> im[1], snippet |-> Snippet[t.lines[f][im[1]]], category |-> im[2], walk |-> n]
  BY DEF AnalyzeFile
<1>2. im[1] \in DOMAIN t.lines[f] /\ im[2] \in Matchers OBVIOUS
<1>3. t.head[f] \in Heads /\ t.lines[f] \in Seq(Nodes \cup {Blank}) BY CommitsAssumption
<1>4. im[1] \in Nat BY <1>2, <1>3
<1>5. t.lines[f][im[1]] \in Nodes
  <2>1. Matches[<<im[2], t.head[f]>>] \in SUBSET Nodes BY <1>2, <1>3, ScopeAssumption
  <2> QED BY <1>1, <2>1
<1>6. Snippet[t.lines[f][im[1]]] \in Snippets BY <1>5 DEF Snippets
<1>7. x \in Findings BY <1>1, <1>2, <1>4, <1>6 DEF Findings
<1>8. ContentKey(x) = <<f, Snippet[t.lines[f][im[1]]]>> BY <1>1 DEF ContentKey
<1> QED BY <1>1, <1>2, <1>6, <1>7, <1>8

\* The keys of the findings of a whole walk are the forbidden guards, however
\* many scope directories hold a file.
LEMMA WholeWalk ==
  ASSUME PlainScopes, NEW t \in Commits, NEW n \in Nat, n > Len(ScopeDirs), n <= Len(ScopeDirs) + 1,
         \A i \in DOMAIN ScopeDirs : t.kind[ScopeDirs[i]] \notin {"file", "missing"}
  PROVE  {ContentKey(x) : x \in FoundBefore(t, n)} = Forbidden(t)
<1>1. 1..(n - 1) = DOMAIN ScopeDirs BY ScopeAssumption
<1>a. \A i \in DOMAIN ScopeDirs : Visited(t, ScopeDirs[i]) = Below(ScopeDirs[i])
  <2>1. \A d \in Dirs : t.kind[d] = "directory"
    <3> SUFFICES ASSUME NEW d \in Dirs PROVE t.kind[d] = "directory" OBVIOUS
    <3>1. t.kind[d] \in Kinds BY CommitsAssumption
    <3>2. t.kind[d] \notin {"file", "missing"} BY DEF Dirs
    <3> QED BY <3>1, <3>2 DEF PlainScopes, Kinds
  <2>2. \A f \in Files : \A j \in DOMAIN DirsTo[f] : DirsTo[f][j] \in Dirs BY ScopeAssumption
  <2> QED BY <2>1, <2>2 DEF Visited, Below
<1>2. ASSUME NEW x \in FoundBefore(t, n) PROVE ContentKey(x) \in Forbidden(t)
  <2>1. PICK i \in DOMAIN ScopeDirs : \E f \in Below(ScopeDirs[i]) : x \in AnalyzeFile(t, f, i)
    BY <1>1, <1>a DEF FoundBefore
  <2>2. PICK f \in Below(ScopeDirs[i]) : x \in AnalyzeFile(t, f, i) BY <2>1
  <2>3. f \in Files /\ f \in InScope
    <3>1. PICK j \in DOMAIN DirsTo[f] : TRUE BY DEF Below
    <3>2. DirsTo[f] # <<>> BY <3>1
    <3> QED BY <3>2 DEF Below, InScope
  <2>4. PICK k \in DOMAIN t.lines[f] : \E m \in Matchers :
          /\ t.lines[f][k] \in Matches[<<m, t.head[f]>>]
          /\ ContentKey(x) = <<f, Snippet[t.lines[f][k]]>>
          /\ Snippet[t.lines[f][k]] \in Snippets
    BY <2>2, <2>3, FindingsInFile
  <2> QED BY <2>3, <2>4 DEF Forbidden
<1>3. ASSUME NEW k \in Forbidden(t) PROVE \E x \in FoundBefore(t, n) : ContentKey(x) = k
  <2>1. PICK f \in InScope, s \in Snippets : k = <<f, s>> BY DEF Forbidden
  <2>2. PICK l \in DOMAIN t.lines[f] : \E m \in Matchers :
          t.lines[f][l] \in Matches[<<m, t.head[f]>>] /\ Snippet[t.lines[f][l]] = s
    BY <2>1 DEF Forbidden
  <2>3. PICK m \in Matchers : t.lines[f][l] \in Matches[<<m, t.head[f]>>] /\ Snippet[t.lines[f][l]] = s BY <2>2
  <2>4. PICK i \in DOMAIN ScopeDirs : ScopeDirs[i] = DirsTo[f][1] /\ 1 \in DOMAIN DirsTo[f]
    <3>1. f \in Files /\ DirsTo[f] # <<>> BY DEF InScope
    <3>2. DirsTo[f] \in Seq(Dirs) BY <3>1, ScopeAssumption
    <3>3. 1 \in DOMAIN DirsTo[f] /\ DirsTo[f][1] \in Dirs BY <3>1, <3>2
    <3> QED BY <3>3 DEF Dirs
  <2>5. f \in Below(ScopeDirs[i]) BY <2>4 DEF Below, InScope
  <2> DEFINE x == [file |-> f, line |-> l, snippet |-> Snippet[t.lines[f][l]], category |-> m, walk |-> i]
  <2>6. x \in AnalyzeFile(t, f, i)
    <3>1. <<l, m>> \in {im \in (DOMAIN t.lines[f]) \X Matchers : t.lines[f][im[1]] \in Matches[<<im[2], t.head[f]>>]}
      BY <2>3
    <3>2. x = [file |-> f, line |-> <<l, m>>[1], snippet |-> Snippet[t.lines[f][<<l, m>>[1]]],
               category |-> <<l, m>>[2], walk |-> i]
      OBVIOUS
    <3> QED BY <3>1, <3>2 DEF AnalyzeFile
  <2>7. x \in FoundBefore(t, n) BY <1>1, <1>a, <2>5, <2>6 DEF FoundBefore
  <2>8. ContentKey(x) = k BY <2>1, <2>3 DEF ContentKey
  <2> QED BY <2>7, <2>8
<1> QED BY <1>2, <1>3

\* Walking the n-th scope directory adds the findings of its files.
LEMMA OneMoreScope ==
  ASSUME NEW t, NEW n \in DOMAIN ScopeDirs
  PROVE  FoundBefore(t, n + 1) =
           FoundBefore(t, n) \cup UNION {AnalyzeFile(t, f, n) : f \in Visited(t, ScopeDirs[n])}
<1>1. n \in Nat /\ n >= 1 BY ScopeAssumption
<1>2. 1..(n + 1 - 1) = (1..(n - 1)) \cup {n} BY <1>1
<1> QED BY <1>2 DEF FoundBefore

\* A finding of a whole walk is a finding of one of its parts, and the other way.
PartFound(t, p) ==
  {f \in UNION {AnalyzeFile(t, file, p[1]) : file \in Visited(t, ScopeDirs[p[1]])} : f.category = p[2]}
LEMMA PartsMakeTheWalk ==
  ASSUME NEW t, NEW n \in Nat, n > Len(ScopeDirs), n <= Len(ScopeDirs) + 1
  PROVE  FoundBefore(t, n) = UNION {PartFound(t, p) : p \in Parts}
<1>1. 1..(n - 1) = DOMAIN ScopeDirs BY ScopeAssumption
<1> DEFINE At(i) == UNION {AnalyzeFile(t, f, i) : f \in Visited(t, ScopeDirs[i])}
<1>2. ASSUME NEW i, NEW x \in At(i) PROVE x.category \in Matchers
  <2>1. PICK f : x \in AnalyzeFile(t, f, i) OBVIOUS
  <2>2. PICK im \in (DOMAIN t.lines[f]) \X Matchers :
          x = [file |-> f, line |-> im[1], snippet |-> Snippet[t.lines[f][im[1]]], category |-> im[2], walk |-> i]
    BY <2>1 DEF AnalyzeFile
  <2> QED BY <2>2
<1>3. FoundBefore(t, n) = UNION {At(i) : i \in DOMAIN ScopeDirs} BY <1>1 DEF FoundBefore
<1>4. \A p : PartFound(t, p) = {x \in At(p[1]) : x.category = p[2]} BY DEF PartFound
<1> HIDE DEF At
<1>5. ASSUME NEW x \in FoundBefore(t, n) PROVE \E p \in Parts : x \in PartFound(t, p)
  <2>1. PICK i \in DOMAIN ScopeDirs : x \in At(i) BY <1>3
  <2>2. <<i, x.category>> \in Parts BY <1>2, <2>1 DEF Parts
  <2>3. x \in PartFound(t, <<i, x.category>>) BY <1>4, <2>1
  <2> QED BY <2>2, <2>3
<1>6. ASSUME NEW p \in Parts, NEW x \in PartFound(t, p) PROVE x \in FoundBefore(t, n)
  <2>1. p[1] \in DOMAIN ScopeDirs BY DEF Parts
  <2> QED BY <1>3, <1>4, <2>1
<1> QED BY <1>5, <1>6

\* What is reported of all findings is what is reported of the parts they come in.
SameAsParts(whole, P, F, allow) ==
  /\ whole.findings = UNION {Report(F[p], allow).findings : p \in P}
  /\ whole.stale = {k \in allow : \A p \in P : k \in Report(F[p], allow).stale}
LEMMA ReportOfParts ==
  ASSUME NEW allow, NEW P, NEW F, NEW whole, whole = Report(UNION {F[p] : p \in P}, allow)
  PROVE  SameAsParts(whole, P, F, allow)
<1>1. \A A : /\ Report(A, allow).findings = {f \in A : ContentKey(f) \notin allow}
             /\ Report(A, allow).stale = allow \ {ContentKey(f) : f \in A}
  BY DEF Report
<1> QED BY <1>1 DEF SameAsParts

-----------------------------------------------------------------------------
(* The invariant *)

\* A tree without lines has no forbidden guard.
LEMMA NothingForbidden == Forbidden(EmptyTree) = {}
<1>1. \A f \in Files : EmptyTree.lines[f] = <<>> BY DEF EmptyTree
<1>2. ASSUME NEW k \in InScope \X Snippets, NEW i \in DOMAIN EmptyTree.lines[k[1]]
      PROVE  FALSE
  <2>1. k[1] \in Files BY DEF InScope
  <2> QED BY <1>1, <1>2, <2>1
<1> QED BY <1>2 DEF Forbidden

\* Nothing has been walked in an initial state.
LEMMA InvInit == Init => Inv
BY ScopeAssumption DEF Init, Inv, Progress

\* Each step keeps the invariant.
LEMMA InvStep == Inv /\ [Next]_vars => Inv'
<1> SUFFICES ASSUME Inv, [Next]_vars PROVE Inv' OBVIOUS
<1> USE DEF Inv
<1>0. Len(ScopeDirs) \in Nat /\ DOMAIN ScopeDirs = 1..Len(ScopeDirs) BY ScopeAssumption
<1>1. ASSUME Fail, ~Accepted \/ next <= Len(ScopeDirs) PROVE Inv'
  <2>1. Progress' BY <1>0, <1>1 DEF Fail, Progress, Accepted
  <2> QED BY <1>1, <2>1 DEF Fail
<1>2. ASSUME Validate PROVE Inv'
  <2>1. Progress' BY <1>2 DEF Validate, Progress, Accepted
  <2> QED BY <1>2, <2>1 DEF Validate
<1>3. ASSUME RefuseOptions PROVE Inv'
  BY <1>1, <1>3 DEF RefuseOptions
<1>4. ASSUME StatScopes PROVE Inv'
  <2> USE <1>4 DEF StatScopes
  <2>1. FoundBefore(commit, 1) = {} BY DEF FoundBefore
  <2>2. Found' BY <2>1 DEF Found, Progress, IsDir, FoundBefore
  <2>3. Progress' BY <1>0, <2>2 DEF Progress, Accepted
  <2> QED BY <2>3
<1>5. ASSUME RefuseScope PROVE Inv'
  <2>1. next <= Len(ScopeDirs) BY <1>0, <1>5 DEF RefuseScope, Progress
  <2> QED BY <1>1, <1>5, <2>1 DEF RefuseScope
<1>6. ASSUME WalkScope PROVE Inv'
  <2> USE <1>6 DEF WalkScope
  <2>1. next \in DOMAIN ScopeDirs BY <1>0 DEF Progress
  <2>2. all' = FoundBefore(commit, next + 1) BY <2>1, OneMoreScope DEF Progress, Found
  <2>3. Found' BY <2>2 DEF Progress, Found, IsDir
  <2>4. Progress' BY <1>0, <2>1, <2>3 DEF Progress, Accepted
  <2> QED BY <2>4
<1>7. ASSUME FileFails PROVE Inv'
  BY <1>1, <1>7 DEF FileFails
<1>8. ASSUME Tolerate PROVE Inv'
  <2> USE <1>8 DEF Tolerate
  <2>1. Found' BY DEF Progress, Found, IsDir
  <2>2. Reported' BY DEF Reported, AssertNoStaleAllowlist
  <2>3. Progress' BY <1>0, <2>1, <2>2 DEF Progress, Accepted
  <2> QED BY <2>3
<1>9. ASSUME NEW t \in Commits, Propose(t) PROVE Inv'
  <2> USE <1>9 DEF Propose
  <2>1. Progress' BY <1>0 DEF Progress
  <2> QED BY <2>1
<1>10. CASE UNCHANGED vars
  BY <1>10 DEF vars, Progress, Found, Reported, IsDir, Accepted
<1> QED
  BY <1>2, <1>3, <1>4, <1>5, <1>6, <1>7, <1>8, <1>9, <1>10 DEF Next, Test

\* Where the scope paths are plain, what a walk reports decides the allowlist.
LEMMA ExactAtTheEnd ==
  ASSUME PlainScopes, Inv
  PROVE  WalkIsExact
<1> SUFFICES ASSUME pc = "done", Accepted, next > Len(ScopeDirs)
             PROVE  verdict = "pass" <=> /\ Forbidden(commit) \subseteq commit.allow
                                         /\ commit.asserted => commit.allow = Forbidden(commit)
  BY DEF WalkIsExact
<1>1. Found /\ Reported /\ next \in Nat /\ next <= Len(ScopeDirs) + 1 BY ScopeAssumption DEF Inv, Progress
<1>2. {ContentKey(x) : x \in all} = Forbidden(commit) BY <1>1, WholeWalk DEF Inv, Found, IsDir
<1>3. /\ report.findings = {x \in all : ContentKey(x) \notin commit.allow}
      /\ report.stale = commit.allow \ {ContentKey(x) : x \in all}
  BY <1>1 DEF Reported, Report
<1>4. report.findings = {} <=> Forbidden(commit) \subseteq commit.allow BY <1>2, <1>3
<1>5. report.stale = {} <=> commit.allow \subseteq Forbidden(commit) BY <1>2, <1>3
<1> QED BY <1>1, <1>4, <1>5 DEF Reported

\* And so what has landed is exact.
LEMMA LandedInit == Init => LandedExact
<1>1. Forbidden(EmptyTree) = {} BY NothingForbidden
<1>2. EmptyTree.allow = {} BY DEF EmptyTree
<1> HIDE DEF EmptyTree
<1> QED BY <1>1, <1>2 DEF Init, LandedExact

\* No step but the landing touches it, and that lands what passed.
LEMMA LandedStep ==
  ASSUME PlainScopes
  PROVE  Inv /\ LandedExact /\ [Next]_vars => LandedExact'
<1> SUFFICES ASSUME Inv, LandedExact, [Next]_vars PROVE LandedExact' OBVIOUS
<1>1. ASSUME NEW t \in Commits, Propose(t) PROVE LandedExact'
  <2>1. WalkIsExact BY ExactAtTheEnd
  <2> QED BY <1>1, <2>1 DEF Propose, LandedExact, WalkIsExact, Inv, Progress
<1>2. landed' = landed => LandedExact' BY DEF LandedExact
<1> QED BY <1>1, <1>2
  DEF Next, Test, Validate, RefuseOptions, StatScopes, RefuseScope, WalkScope, FileFails, Tolerate, Fail, vars

-----------------------------------------------------------------------------
(* The theorems *)

\* Type correctness needs no assumption about the scope paths.
THEOREM TypeCorrect == Spec => []TypeOK
<1>1. Init => TypeOK
  BY ScopeAssumption DEF Init, TypeOK, NoReport
<1>2. ASSUME TypeOK, [Next]_vars PROVE TypeOK'
  <2> USE <1>2 DEF TypeOK
  <2>0. Len(ScopeDirs) \in Nat /\ DOMAIN ScopeDirs = 1..Len(ScopeDirs) BY ScopeAssumption
  <2>1. CASE Validate \/ StatScopes
    BY <2>1 DEF Validate, StatScopes
  <2>2. CASE RefuseOptions \/ RefuseScope \/ FileFails
    BY <2>2 DEF RefuseOptions, RefuseScope, FileFails, Fail, NoReport
  <2>3. CASE WalkScope
    <3>1. next \in DOMAIN ScopeDirs BY <2>0, <2>3 DEF WalkScope
    <3>2. \A f \in Visited(commit, ScopeDirs[next]) : f \in Files BY DEF Visited
    <3>3. \A f \in Visited(commit, ScopeDirs[next]) : AnalyzeFile(commit, f, next) \subseteq Findings
      BY <3>1, <3>2, FindingsInFile
    <3>4. all' \subseteq Findings BY <2>3, <3>3 DEF WalkScope
    <3>5. next' \in 1..(Len(ScopeDirs) + 1) BY <2>0, <2>3 DEF WalkScope
    <3> QED BY <2>3, <3>4, <3>5 DEF WalkScope
  <2>4. CASE Tolerate
    <3>1. commit.allow \subseteq ContentKeys BY CommitsAssumption
    <3>2. report'.findings \subseteq Findings /\ report'.stale \subseteq ContentKeys
      BY <2>4, <3>1 DEF Tolerate, Report
    <3> QED BY <2>4, <3>2 DEF Tolerate
  <2>5. CASE \E t \in Commits : Propose(t)
    BY <2>0, <2>5 DEF Propose, NoReport
  <2>6. CASE UNCHANGED vars BY <2>6 DEF vars
  <2> QED BY <1>2, <2>1, <2>2, <2>3, <2>4, <2>5, <2>6 DEF Next, Test
<1> QED BY <1>1, <1>2, PTL DEF Spec

\* One walk over one allowlist reports what the walks it can be split into report,
\* whatever the scope paths are.
THEOREM SplitWalksAlwaysAgree == Spec => []SplitWalksAgree
<1>1. ASSUME Inv PROVE SplitWalksAgree
  <2> SUFFICES ASSUME pc = "done", Accepted, next > Len(ScopeDirs)
               PROVE  /\ report.findings = UNION {PartReport(commit, p).findings : p \in Parts}
                      /\ report.stale = {k \in commit.allow : \A p \in Parts : k \in PartReport(commit, p).stale}
    BY DEF SplitWalksAgree
  <2>1. Found /\ Reported /\ next \in Nat /\ next <= Len(ScopeDirs) + 1 BY <1>1, ScopeAssumption DEF Inv, Progress
  <2> DEFINE F == [p \in Parts |-> PartFound(commit, p)]
  <2>2. all = UNION {F[p] : p \in Parts} BY <2>1, PartsMakeTheWalk DEF Found
  <2>3. report = Report(UNION {F[p] : p \in Parts}, commit.allow) BY <2>1, <2>2 DEF Reported
  <2>4. \A p \in Parts : PartReport(commit, p) = Report(F[p], commit.allow) BY DEF PartReport, PartFound
  <2> HIDE DEF F
  <2>5. /\ report.findings = UNION {Report(F[p], commit.allow).findings : p \in Parts}
        /\ report.stale = {k \in commit.allow : \A p \in Parts : k \in Report(F[p], commit.allow).stale}
    <3>1. SameAsParts(report, Parts, F, commit.allow) BY <2>3, ReportOfParts
    <3> QED BY <3>1 DEF SameAsParts
  <2> QED BY <2>4, <2>5
<1> QED BY <1>1, InvInit, InvStep, PTL DEF Spec

\* The steps a gate test has left at most: one per scope directory, and its phases.
Left == CASE pc = "start" -> Len(ScopeDirs) + 3
          [] pc = "valid" -> Len(ScopeDirs) + 2
          [] pc = "walking" -> Len(ScopeDirs) + 2 - next
          [] OTHER -> 0

\* Each step of a started test leaves it fewer, for any number of scope directories, so
\* that no test goes on for ever: what Judged asks, given that its steps are taken.
THEOREM TestsGrowShorter == Spec => [][(pc # "done" => Left' < Left) /\ Left \in Nat]_vars
<1>1. ASSUME Inv, [Next]_vars PROVE [(pc # "done" => Left' < Left) /\ Left \in Nat]_vars
  <2> USE DEF Left
  <2>1. /\ Len(ScopeDirs) \in Nat /\ next \in Nat /\ next <= Len(ScopeDirs) + 1
        /\ pc \in {"start", "valid", "walking", "done"}
    BY <1>1, ScopeAssumption DEF Inv, Progress
  <2>2. Left \in Nat BY <2>1
  <2>3. CASE Fail /\ pc # "done" BY <2>1, <2>3 DEF Fail
  <2>4. CASE Validate \/ StatScopes
    <3>1. pc = "valid" => next = 1 BY <1>1 DEF Inv, Progress
    <3> QED BY <2>1, <2>4, <3>1 DEF Validate, StatScopes
  <2>5. CASE WalkScope BY <2>1, <2>5 DEF WalkScope
  <2>6. CASE Tolerate BY <2>1, <2>6 DEF Tolerate
  <2>7. CASE \E t \in Commits : Propose(t) BY <2>2, <2>7 DEF Propose
  <2> QED BY <1>1, <2>2, <2>3, <2>4, <2>5, <2>6, <2>7
       DEF Next, Test, RefuseOptions, RefuseScope, FileFails
<1> QED BY <1>1, InvInit, InvStep, PTL DEF Spec

\* In a repository with plain scope paths, a walk that comes to its end passes
\* exactly the commits whose allowlist names their forbidden guards.
THEOREM WalkAlwaysExact ==
  ASSUME PlainScopes
  PROVE  Spec => []WalkIsExact
<1>1. Inv => WalkIsExact BY ExactAtTheEnd
<1> QED BY <1>1, InvInit, InvStep, PTL DEF Spec

\* In such a repository no guard lands under an allowlist entry that was there
\* before the guard was.
THEOREM NewGuardsAreDecided ==
  ASSUME PlainScopes
  PROVE  Spec => NewGuardIsDecided
<1>1. LandedExact => [landed' # landed /\ landed.asserted
        => (Forbidden(landed') \ Forbidden(landed)) \cap landed.allow = {}]_vars
  BY DEF LandedExact
<1> QED BY <1>1, InvInit, InvStep, LandedInit, LandedStep, PTL DEF Spec, NewGuardIsDecided

\* In such a repository the gate test is a gate over decisions: it starts with no
\* gap and no decision, comes to a verdict that only a kept commit passes, and
\* lands what passed.
THEOREM WalkIsARatchet ==
  ASSUME PlainScopes
  PROVE  Spec => GateImplemented
<1>1. ASSUME Init PROVE Gate!Init
  <2>1. View[commit] \in Candidates BY <1>1 DEF Init, Candidates
  <2>2. Forbidden(EmptyTree) = {} BY NothingForbidden
  <2>3. View[EmptyTree] = Gate!Nothing BY <2>2 DEF View, EmptyTree, Gate!Nothing
  <2> QED BY <1>1, <2>1, <2>3 DEF Init, Gate!Init
<1>2. ASSUME Inv, [Next]_vars PROVE [Gate!Next]_(Gate!vars)
  <2> DEFINE same == commit' = commit /\ landed' = landed
  <2>1. ASSUME same, verdict' = verdict PROVE UNCHANGED Gate!vars BY <2>1 DEF Gate!vars
  <2>2. ASSUME same, pc # "done", verdict' = "fail" PROVE Gate!Judge
    BY <1>2, <2>2 DEF Inv, Progress, Gate!Judge
  <2>3. CASE Validate \/ StatScopes \/ WalkScope
    BY <2>1, <2>3 DEF Validate, StatScopes, WalkScope
  <2>4. CASE RefuseOptions \/ RefuseScope \/ FileFails
    BY <2>2, <2>4 DEF RefuseOptions, RefuseScope, FileFails, Fail, Gate!Next
  <2>5. CASE Tolerate
    <3>0. WalkIsExact'
      <4>1. Inv' BY <1>2, InvStep
      <4> QED BY <4>1, ExactAtTheEnd, PTL
    <3>1. WalkIsExact' /\ pc' = "done" /\ same /\ verdict = "none" /\ Accepted /\ next > Len(ScopeDirs) /\ next' = next
      BY <1>2, <2>5, <3>0 DEF Inv, Tolerate, Progress
    <3>2. verdict' = "pass" => /\ Forbidden(commit) \subseteq commit.allow
                               /\ commit.asserted => commit.allow = Forbidden(commit)
      BY <3>1 DEF WalkIsExact, Accepted
    <3>3. View[commit] = [readings |-> {Forbidden(commit)}, decided |-> commit.allow, strict |-> commit.asserted]
      BY <1>2 DEF Inv, View
    <3>4. verdict' = "pass" => Gate!Kept(View[commit]) BY <3>2, <3>3 DEF Gate!Kept
    <3>5. verdict' \in {"pass", "fail"} BY <2>5 DEF Tolerate
    <3> QED BY <3>1, <3>4, <3>5 DEF Gate!Judge, Gate!Next
  <2>6. CASE \E t \in Commits : Propose(t)
    <3>1. PICK t \in Commits : Propose(t) BY <2>6
    <3>2. View[t] \in Candidates BY DEF Candidates
    <3>3. verdict # "none" BY <1>2, <3>1 DEF Inv, Progress, Propose
    <3> QED BY <3>1, <3>2, <3>3 DEF Propose, Gate!Propose, Gate!Next
  <2>7. CASE UNCHANGED vars BY <2>1, <2>7 DEF vars
  <2> QED BY <1>2, <2>3, <2>4, <2>5, <2>6, <2>7 DEF Next, Test
<1> QED BY <1>1, <1>2, InvInit, InvStep, PTL DEF Spec, GateImplemented, Gate!Spec
=============================================================================
