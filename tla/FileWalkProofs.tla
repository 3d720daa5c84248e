--------------------------- MODULE FileWalkProofs ---------------------------
(***************************************************************************)
(* Proofs about FileWalk for any files, import paths and rules: what has   *)
(* been found is what the matchers match among the nodes visited, and each *)
(* matcher agrees, node by node, with what the program says.               *)
(***************************************************************************)
EXTENDS FileWalk, TLAPS

\* The findings so far are the matches among the nodes visited so far.
FoundSoFar ==
  /\ next \in 1..(Len(Nodes(file)) + 1)
  /\ found = {nm \in (1..(next - 1)) \X Rules : Match(nm[2], file, Nodes(file)[nm[1]])}

Inv == file \in SourceFiles /\ FoundSoFar

-----------------------------------------------------------------------------
(* The nodes of a file *)

\* Elements of a sequence.
LEMMA ElementsOf ==
  ASSUME NEW S, NEW s \in Seq(S)
  PROVE  /\ \A i \in DOMAIN s : s[i] \in S
         /\ s # <<>> => \E i \in DOMAIN s : TRUE
<1>1. \A i \in DOMAIN s : s[i] \in S OBVIOUS
<1>2. ASSUME s # <<>> PROVE 1 \in DOMAIN s BY <1>2
<1> QED BY <1>1, <1>2

\* Where the elements of three sequences are in their concatenation.
LEMMA ThreeParts ==
  ASSUME NEW S, NEW s \in Seq(S), NEW t \in Seq(S), NEW u \in Seq(S)
  PROVE  LET w == s \o t \o u IN
         /\ w \in Seq(S) /\ Len(w) = Len(s) + Len(t) + Len(u)
         /\ \A i \in DOMAIN s : w[i] = s[i]
         /\ \A i \in DOMAIN t : w[Len(s) + i] = t[i]
         /\ \A i \in DOMAIN u : w[Len(s) + Len(t) + i] = u[i]
<1>1. \A a, b \in Seq(S) : /\ a \o b \in Seq(S) /\ Len(a \o b) = Len(a) + Len(b)
                           /\ \A i \in DOMAIN a : i \in DOMAIN (a \o b) /\ (a \o b)[i] = a[i]
                           /\ \A i \in DOMAIN b : Len(a) + i \in DOMAIN (a \o b) /\ (a \o b)[Len(a) + i] = b[i]
  OBVIOUS
<1>2. PICK st \in Seq(S) : st = s \o t BY <1>1
<1>3. PICK w \in Seq(S) : w = st \o u BY <1>1
<1>4. Len(st) = Len(s) + Len(t) /\ Len(w) = Len(st) + Len(u) BY <1>1, <1>2, <1>3
<1>5. \A i \in DOMAIN s : w[i] = s[i] BY <1>1, <1>2, <1>3
<1>6. \A i \in DOMAIN t : w[Len(s) + i] = t[i] BY <1>1, <1>2, <1>3
<1>7. \A i \in DOMAIN u : w[Len(s) + Len(t) + i] = u[i] BY <1>1, <1>3, <1>4
<1> QED BY <1>2, <1>3, <1>4, <1>5, <1>6, <1>7

\* Imports come first, then calls, then ifs.
LEMMA NodesOfFile ==
  ASSUME NEW f \in SourceFiles
  PROVE  /\ Len(Nodes(f)) = Len(f.imports) + Len(f.calls) + Len(f.ifs)
         /\ \A i \in DOMAIN f.imports : Nodes(f)[i] = [kind |-> "import", path |-> f.imports[i].path]
         /\ \A k \in DOMAIN f.calls : Nodes(f)[Len(f.imports) + k] = f.calls[k]
         /\ \A k \in DOMAIN f.ifs : Nodes(f)[Len(f.imports) + Len(f.calls) + k] = f.ifs[k]
<1> DEFINE Spec1(i) == [kind |-> "import", path |-> f.imports[i].path]
           Any == {Spec1(i) : i \in DOMAIN f.imports} \cup CallExprs \cup IfStmts
<1>1. f.imports \in Seq(ImportSpecs) /\ f.calls \in Seq(CallExprs) /\ f.ifs \in Seq(IfStmts)
  BY FilesAssumption
<1>2. DOMAIN f.imports = 1..Len(f.imports) /\ Len(f.imports) \in Nat BY <1>1
<1>3. [i \in DOMAIN f.imports |-> Spec1(i)] \in [1..Len(f.imports) -> Any] BY <1>2
<1>4. PICK s \in Seq(Any) : s = [i \in DOMAIN f.imports |-> Spec1(i)]
  <2>1. [i \in DOMAIN f.imports |-> Spec1(i)] \in Seq(Any) BY <1>2, <1>3
  <2> HIDE DEF Any, Spec1
  <2> QED BY <2>1
<1>5. \A i \in DOMAIN f.imports : s[i] = Spec1(i) BY <1>4
<1>6. DOMAIN s = DOMAIN f.imports /\ Len(s) = Len(f.imports)
  <2>1. DOMAIN s = DOMAIN f.imports BY <1>4
  <2> QED BY <1>2, <2>1
<1>7. PICK t \in Seq(Any), u \in Seq(Any) : t = f.calls /\ u = f.ifs
  <2>1. f.calls \in Seq(Any) /\ f.ifs \in Seq(Any) BY <1>1
  <2> HIDE DEF Any
  <2> QED BY <2>1
<1>8. Nodes(f) = s \o t \o u BY <1>4, <1>7 DEF Nodes
<1> HIDE DEF Any
<1>9. /\ Len(Nodes(f)) = Len(s) + Len(t) + Len(u)
      /\ \A i \in DOMAIN s : Nodes(f)[i] = s[i]
      /\ \A i \in DOMAIN t : Nodes(f)[Len(s) + i] = t[i]
      /\ \A i \in DOMAIN u : Nodes(f)[Len(s) + Len(t) + i] = u[i]
  BY <1>8, ThreeParts
<1> QED BY <1>5, <1>6, <1>7, <1>9

-----------------------------------------------------------------------------
(* Calls *)

\* Where a qualifier names an import in its file, it is that import alone.
LEMMA QualifierNamed ==
  ASSUME NEW f \in SourceFiles, Compiles(f), NEW q \in Identifiers, Naming(f, q) # {},
         \A i \in Naming(f, q) : packageNameOfPath(f.imports[i].path) = PackageOf[f.imports[i].path]
  PROVE  \E i \in DOMAIN f.imports :
           /\ \A j \in DOMAIN f.imports : LocalName(f.imports[j]) = q <=> j = i
           /\ importedPackageName(f, q) = {PackageOf[f.imports[i].path]}
<1>1. PICK i \in Naming(f, q) : TRUE OBVIOUS
<1>2. i \in DOMAIN f.imports BY <1>1 DEF Naming
<1>3. \A j \in Naming(f, q) : /\ j \in DOMAIN f.imports
                              /\ LocalName(f.imports[j]) = q
                              /\ f.imports[j].alias \notin {Dot, "_"}
  BY AliasAssumption DEF Naming, LocalName, Identifiers
<1>4. \A j \in DOMAIN f.imports : LocalName(f.imports[j]) = q => j = i
  BY <1>1, <1>2, <1>3 DEF Compiles
<1>5. Naming(f, q) = {i} BY <1>1, <1>3, <1>4
<1>6. i \in Nat
  <2>1. f.imports \in Seq(ImportSpecs) BY FilesAssumption
  <2> QED BY <1>2, <2>1
<1>7. importedPackageName(f, q) = {packageNameOfPath(f.imports[i].path)}
  BY <1>5, <1>6 DEF importedPackageName
<1> QED BY <1>1, <1>2, <1>3, <1>4, <1>7

\* Where it names none by alias or path, it stands for itself, in a file with an
\* import that may be a package of that name and without such a name of its own.
LEMMA QualifierUnnamed ==
  ASSUME NEW f \in SourceFiles, NEW q, Naming(f, q) = {}
  PROVE  importedPackageName(f, q) =
           IF Unaliased(f) # {} /\ ~declaredInFile(f, q) THEN {q} ELSE {}
BY DEF importedPackageName

\* A call by name through a qualifier is reported exactly when it calls a forbidden
\* symbol.
LEMMA SelectorsResolve ==
  ASSUME NEW f \in SourceFiles, Compiles(f), NEW k \in DOMAIN f.calls, NEW m \in Callsites, ~f.calls[k].wrapped,
         PathsShowNames(f, f.calls[k]), OneMeaning(f, m, f.calls[k]), f.calls[k].callee = "selector"
  PROVE  ForbiddenCallsite(m, f, f.calls[k]) <=> CallsForbidden(m, f, f.calls[k])
<1> DEFINE call == f.calls[k]
           q == call.qualifier
           Meant == {PackageOf[imp.path] : imp \in {imp \in ImportsOf(f) : LocalName(imp) = q}}
<1>0. call \in CallExprs
  <2>1. f.calls \in Seq(CallExprs) BY FilesAssumption
  <2> QED BY <2>1
<1>1. q \in Identifiers /\ call.kind = "call" BY <1>0 DEF CallExprs
<1>2. ForbiddenCallsite(m, f, call) <=> \E pkg \in importedPackageName(f, q) : <<pkg, call.name>> \in m.forbidden
  BY <1>1 DEF ForbiddenCallsite
<1>3. Callee(f, call) = IF IsLocal(f, q, call.scope) THEN {} ELSE Meant
  BY DEF Callee
<1>4. IsLocal(f, q, call.scope) => declaredInFile(f, q) \/ q \in f.elsewhere
  BY DEF IsLocal, declaredInFile
<1>5. declaredInFile(f, q) \/ q \in f.elsewhere => \A imp \in ImportsOf(f) : LocalName(imp) # q
  BY DEF OneMeaning
<1>6. CASE Naming(f, q) # {}
  <2>1. \A i \in Naming(f, q) : packageNameOfPath(f.imports[i].path) = PackageOf[f.imports[i].path]
    BY DEF PathsShowNames, Naming
  <2>2. PICK i \in DOMAIN f.imports :
          /\ \A j \in DOMAIN f.imports : LocalName(f.imports[j]) = q <=> j = i
          /\ importedPackageName(f, q) = {PackageOf[f.imports[i].path]}
    BY <1>1, <1>6, <2>1, QualifierNamed
  <2>3. ~IsLocal(f, q, call.scope) BY <1>4, <1>5, <2>2 DEF ImportsOf
  <2>4. Meant = {PackageOf[f.imports[i].path]} BY <2>2 DEF ImportsOf
  <2> QED BY <1>2, <1>3, <2>2, <2>3, <2>4 DEF CallsForbidden
<1>7. CASE Naming(f, q) = {}
  <2>1. importedPackageName(f, q) = IF Unaliased(f) # {} /\ ~declaredInFile(f, q) THEN {q} ELSE {}
    BY <1>7, QualifierUnnamed
  <2>2. CASE IsLocal(f, q, call.scope)
    <3>1. ~CallsForbidden(m, f, call) BY <1>3, <2>2 DEF CallsForbidden
    <3>2. q \in f.elsewhere /\ Unaliased(f) # {} => declaredInFile(f, q) \/ <<q, call.name>> \notin m.forbidden
      BY DEF OneMeaning
    <3> QED BY <1>2, <1>4, <2>1, <2>2, <3>1, <3>2
  <2>3. CASE ~IsLocal(f, q, call.scope)
    <3>1. \A i \in DOMAIN f.imports : LocalName(f.imports[i]) = q =>
            f.imports[i].alias = NoAlias /\ PackageOf[f.imports[i].path] = q
      BY <1>7 DEF Naming, LocalName
    <3>2. PICK i \in DOMAIN f.imports : LocalName(f.imports[i]) = q
      BY <2>3 DEF Compiles, ImportsOf
    <3>3. Meant = {q} BY <3>1, <3>2 DEF ImportsOf
    <3>4. ~declaredInFile(f, q) BY <1>5, <3>2 DEF ImportsOf
    <3>5. Unaliased(f) # {} BY <3>1, <3>2 DEF Unaliased
    <3> QED BY <1>2, <1>3, <2>1, <2>3, <3>3, <3>4, <3>5 DEF CallsForbidden
  <2> QED BY <2>2, <2>3
<1> QED BY <1>6, <1>7

\* So is any other call, and no call that is not by name.
LEMMA CallsResolve ==
  ASSUME NEW f \in SourceFiles, Compiles(f), NEW k \in DOMAIN f.calls, NEW m \in Callsites,
         PathsShowNames(f, f.calls[k]), OneMeaning(f, m, f.calls[k])
  PROVE  ForbiddenCallsite(m, f, f.calls[k]) <=> CalledByName(f.calls[k]) /\ CallsForbidden(m, f, f.calls[k])
<1> DEFINE call == f.calls[k]
<1>0. call \in CallExprs
  <2>1. f.calls \in Seq(CallExprs) BY FilesAssumption
  <2> QED BY <2>1
<1>4. CASE call.wrapped BY <1>4 DEF ForbiddenCallsite, CalledByName
<1>1. CASE ~call.wrapped /\ call.callee = "selector" BY <1>1, SelectorsResolve DEF CalledByName
<1>2. CASE ~call.wrapped /\ call.callee = "ident"
  <2> DEFINE Dots == {i \in DOMAIN f.imports : f.imports[i].alias = Dot}
  <2>1. Callee(f, call) = {PackageOf[imp.path] : imp \in {imp \in ImportsOf(f) : imp.alias = Dot /\ call.name \in Exports[imp.path]}}
    BY <1>2 DEF Callee, OneMeaning
  <2>2. dotImportedPackageNames(f) = {PackageOf[f.imports[i].path] : i \in Dots}
    BY <1>2 DEF dotImportedPackageNames, PathsShowNames
  <2>3. \A i \in Dots : <<PackageOf[f.imports[i].path], call.name>> \in m.forbidden
                          => call.name \in Exports[f.imports[i].path]
    <3>1. f.imports \in Seq(ImportSpecs) BY FilesAssumption
    <3>2. \A i \in DOMAIN f.imports : f.imports[i].path \in Paths
      <4>1. \A i \in DOMAIN f.imports : f.imports[i] \in ImportSpecs BY <3>1
      <4> QED BY <4>1 DEF ImportSpecs
    <3> QED BY <3>2, RulesAssumption
  <2>4. ForbiddenCallsite(m, f, call) <=> \E i \in Dots : <<PackageOf[f.imports[i].path], call.name>> \in m.forbidden
    BY <1>0, <1>2, <2>2 DEF ForbiddenCallsite, CallExprs
  <2> QED BY <1>2, <2>1, <2>3, <2>4 DEF CalledByName, CallsForbidden, ImportsOf
<1>3. CASE call.callee = "other"
  BY <1>3 DEF ForbiddenCallsite, CallsForbidden, Callee
<1> QED BY <1>0, <1>1, <1>2, <1>3, <1>4 DEF CallExprs

-----------------------------------------------------------------------------
(* Guards and imports *)

\* A condition that NilGuard matches is one that a nil dependency can decide: hold
\* everything joined to it by &&, and let everything else fail.
LEMMA ConditionsAreDecided ==
  ASSUME NEW m \in Guards, NEW cond \in Seq(Seq(Comparisons) \ {<<>>})
  PROVE  matchCondition(m, cond) <=> DecidedByNil(m, cond)
<1>1. \A g \in DOMAIN cond : cond[g] \in Seq(Comparisons) /\ cond[g] # <<>> OBVIOUS
<1>2. \A g \in DOMAIN cond : \A i \in DOMAIN cond[g] : cond[g][i] \in Comparisons
  <2> SUFFICES ASSUME NEW g \in DOMAIN cond, NEW i \in DOMAIN cond[g] PROVE cond[g][i] \in Comparisons
    OBVIOUS
  <2>1. cond[g] \in Seq(Comparisons) BY <1>1
  <2> QED BY <2>1
<1>3. \A leaf \in Comparisons : NilComparison(m, leaf) <=> AsksForNil(m, leaf)
  <2> SUFFICES ASSUME NEW leaf \in Comparisons PROVE NilComparison(m, leaf) <=> AsksForNil(m, leaf)
    OBVIOUS
  <2>1. \A x \in Operands : matchSubject(m, x) <=> Dependency(m, x)
    BY RulesAssumption DEF matchSubject, Dependency, Operands
  <2>2. leaf.x \in Operands /\ leaf.y \in Operands BY DEF Comparisons
  <2>3. leaf.x.form = "nil" /\ leaf.y.form = "nil" => (Dependency(m, leaf.x) <=> Dependency(m, leaf.y))
    BY <2>2 DEF Dependency, Operands
  <2> QED BY <2>1, <2>2, <2>3 DEF NilComparison, AsksForNil
<1>4. ASSUME matchCondition(m, cond) PROVE DecidedByNil(m, cond)
  <2>0. PICK g \in DOMAIN cond : \E i \in DOMAIN cond[g] : NilComparison(m, cond[g][i])
    BY <1>4 DEF matchCondition
  <2>1. PICK i \in DOMAIN cond[g] : NilComparison(m, cond[g][i]) BY <2>0
  <2> DEFINE l == <<g, i>>
             true == {<<g, j>> : j \in DOMAIN cond[g]}
  <2>2. l \in Leaves(cond) /\ true \in SUBSET Leaves(cond) BY DEF Leaves
  <2>3. Holds(cond, true \cup {l}) BY DEF Holds
  <2>4. ASSUME NEW h \in DOMAIN cond PROVE \E j \in DOMAIN cond[h] : <<h, j>> \notin true \ {l}
    <3>1. CASE h = g BY <3>1
    <3>2. CASE h # g
      <4>1. cond[h] \in Seq(Comparisons) /\ cond[h] # <<>> BY <1>1
      <4>2. PICK j \in DOMAIN cond[h] : TRUE BY <4>1, ElementsOf
      <4> QED BY <3>2
    <3> QED BY <3>1, <3>2
  <2>5. ~Holds(cond, true \ {l}) BY <2>4 DEF Holds
  <2>6. AsksForNil(m, cond[l[1]][l[2]]) BY <1>2, <1>3, <2>1
  <2> QED BY <2>2, <2>3, <2>5, <2>6 DEF DecidedByNil
<1>5. ASSUME DecidedByNil(m, cond) PROVE matchCondition(m, cond)
  <2>1. PICK l \in Leaves(cond) : AsksForNil(m, cond[l[1]][l[2]]) BY <1>5 DEF DecidedByNil
  <2>2. l[1] \in DOMAIN cond /\ l[2] \in DOMAIN cond[l[1]] BY DEF Leaves
  <2> QED BY <1>2, <1>3, <2>1, <2>2 DEF matchCondition
<1> QED BY <1>4, <1>5

\* A body is silent when it is one return without a value of its own.
LEMMA SilentBodies ==
  ASSUME NEW body \in Seq(Statements)
  PROVE  isSilentReturnBody(body) <=>
           (\E ret \in {body[i] : i \in DOMAIN body} :
             body = <<ret>> /\ ret.kind = "return" /\ \A i \in DOMAIN ret.results : ret.results[i] # "value")
<1>1. ASSUME NEW ret, body = <<ret>>, ret.kind = "return"
      PROVE  \A i \in DOMAIN ret.results : ret.results[i] \in {"nil or bool", "value"}
  <2>1. ret \in Statements
    <3>1. body[1] = ret /\ 1 \in DOMAIN body BY <1>1
    <3> QED BY <3>1
  <2>2. ret.results \in Seq({"nil or bool", "value"}) BY <1>1, <2>1 DEF Statements
  <2> QED BY <2>2, ElementsOf
<1>2. ASSUME isSilentReturnBody(body)
      PROVE  \E ret \in {body[i] : i \in DOMAIN body} :
               body = <<ret>> /\ ret.kind = "return" /\ \A i \in DOMAIN ret.results : ret.results[i] # "value"
  <2>1. Len(body) = 1 BY <1>2 DEF isSilentReturnBody
  <2>2. 1 \in DOMAIN body /\ body = <<body[1]>> BY <2>1
  <2> QED BY <1>2, <2>2 DEF isSilentReturnBody
<1>3. ASSUME NEW ret \in {body[i] : i \in DOMAIN body}, body = <<ret>>, ret.kind = "return",
             \A i \in DOMAIN ret.results : ret.results[i] # "value"
      PROVE  isSilentReturnBody(body)
  <2>1. \A i \in DOMAIN ret.results : ret.results[i] = "nil or bool" BY <1>1, <1>3
  <2>2. Len(body) = 1 /\ body[1] = ret BY <1>3
  <2> QED BY <1>3, <2>1, <2>2 DEF isSilentReturnBody
<1> QED BY <1>2, <1>3

\* A path that has a forbidden module's elements begins with its text, and the
\* other way round where no element only begins like the module's last.
LEMMA PrefixesAreModules ==
  ASSUME NEW path \in Paths, NEW p \in Seq(STRING) \ {<<>>},
         (Len(p) <= Len(path) /\ <<p[Len(p)], path[Len(p)]>> \in Begins) => p[Len(p)] = path[Len(p)]
  PROVE  HasPrefix(path, p) <=> Within(path, p)
<1> DEFINE n == Len(p)
<1>1. n \in Nat \ {0} /\ DOMAIN p = 1..n OBVIOUS
<1>2. path \in Seq(STRING) BY PathsAssumption
<1>3. n <= Len(path) => n \in DOMAIN path BY <1>1, <1>2
<1>4. \A i \in 1..n : i \in 1..(n - 1) \/ i = n
  <2> HIDE DEF n
  <2> QED BY <1>1
<1>5. \A i \in 1..(n - 1) : i \in 1..n
  <2> HIDE DEF n
  <2> QED BY <1>1
<1>6. Within(path, p) => <<p[n], path[n]>> \in Begins
  BY <1>1, <1>3, PathsAssumption DEF Within
<1> QED BY <1>1, <1>4, <1>5, <1>6 DEF HasPrefix, Within

-----------------------------------------------------------------------------
(* The walk *)

\* A finding is a match of a visited node.
LEMMA FoundIff ==
  ASSUME FoundSoFar, NEW n \in Nat \ {0}, n < next, NEW m \in Rules
  PROVE  <<n, m>> \in found <=> Match(m, file, Nodes(file)[n])
<1>1. n \in 1..(next - 1) BY DEF FoundSoFar
<1> QED BY <1>1 DEF FoundSoFar

\* It starts with no finding and no node visited.
LEMMA InvInit == Init => Inv
<1> SUFFICES ASSUME Init PROVE Inv OBVIOUS
<1>1. file \in SourceFiles /\ next = 1 /\ found = {} BY DEF Init
<1>2. Len(Nodes(file)) \in Nat
  <2>1. Len(file.imports) \in Nat /\ Len(file.calls) \in Nat /\ Len(file.ifs) \in Nat BY <1>1, FilesAssumption
  <2> QED BY <1>1, <2>1, NodesOfFile
<1> QED BY <1>1, <1>2 DEF Inv, FoundSoFar

\* A visit adds the matches of its node.
LEMMA InvStep == Inv /\ [Next]_vars => Inv'
<1> SUFFICES ASSUME Inv, [Next]_vars PROVE Inv' OBVIOUS
<1>0. /\ file \in SourceFiles /\ next \in 1..(Len(Nodes(file)) + 1)
      /\ found = {nm \in (1..(next - 1)) \X Rules : Match(nm[2], file, Nodes(file)[nm[1]])}
  BY DEF Inv, FoundSoFar
<1>1. CASE Visit
  <2> DEFINE matched == {m \in Rules : Match(m, file, Nodes(file)[next])}
  <2>1. /\ next <= Len(Nodes(file)) /\ next' = next + 1 /\ file' = file
        /\ found' = found \cup {<<next, m>> : m \in matched}
    BY <1>1 DEF Visit
  <2>2. Nodes(file)' = Nodes(file) BY <2>1 DEF Nodes
  <2>3. Len(Nodes(file)) \in Nat
    <3>1. Len(file.imports) \in Nat /\ Len(file.calls) \in Nat /\ Len(file.ifs) \in Nat BY <1>0, FilesAssumption
    <3> QED BY <1>0, <3>1, NodesOfFile
  <2>4. next' \in 1..(Len(Nodes(file)) + 1) BY <1>0, <2>1, <2>3
  <2>5. 1..(next' - 1) = (1..(next - 1)) \cup {next} BY <1>0, <2>1, <2>3
  <2>6. found' = {nm \in (1..(next' - 1)) \X Rules : Match(nm[2], file, Nodes(file)[nm[1]])}
    BY <1>0, <2>1, <2>5
  <2> QED BY <1>0, <2>1, <2>2, <2>4, <2>6 DEF Inv, FoundSoFar
<1>2. CASE UNCHANGED vars
  BY <1>0, <1>2 DEF vars, Inv, FoundSoFar, Nodes
<1> QED BY <1>1, <1>2 DEF Next

\* A walk is in every state where its findings say it is.
LEMMA InvAlways == Spec => []Inv
BY InvInit, InvStep, PTL DEF Spec

\* A walk stays within the nodes of its file and reports nodes it has visited,
\* each under a rule it was given.
THEOREM TypeCorrect == Spec => []TypeOK
<1>1. Inv => TypeOK BY DEF Inv, FoundSoFar, TypeOK
<1> QED BY <1>1, InvAlways, PTL

\* In a file that compiles, a visited call is reported exactly when it calls a
\* forbidden symbol by the bare name, wherever paths and local names allow the
\* resolution by file; one in parentheses or with type arguments is never reported.
THEOREM CallsAlwaysExact == Spec => []CallsAreExact
<1>1. ASSUME Inv PROVE CallsAreExact
  <2> SUFFICES ASSUME Compiles(file), NEW k \in DOMAIN file.calls, NEW m \in Callsites,
                      Len(file.imports) + k < next,
                      PathsShowNames(file, file.calls[k]), OneMeaning(file, m, file.calls[k])
               PROVE  <<Len(file.imports) + k, m>> \in found
                        <=> CalledByName(file.calls[k]) /\ CallsForbidden(m, file, file.calls[k])
    BY DEF CallsAreExact
  <2>1. file \in SourceFiles /\ FoundSoFar BY <1>1 DEF Inv
  <2>2. Len(file.imports) + k \in Nat \ {0}
    <3>1. file.imports \in Seq(ImportSpecs) /\ file.calls \in Seq(CallExprs) BY <2>1, FilesAssumption
    <3> QED BY <3>1
  <2>3. Nodes(file)[Len(file.imports) + k] = file.calls[k] BY <2>1, NodesOfFile
  <2>4. m \in Rules /\ m.name = "ForbiddenCallsite" BY DEF Callsites
  <2>5. <<Len(file.imports) + k, m>> \in found <=> Match(m, file, file.calls[k])
    BY <2>1, <2>2, <2>3, <2>4, FoundIff
  <2>6. Match(m, file, file.calls[k]) <=> ForbiddenCallsite(m, file, file.calls[k]) BY <2>4 DEF Match
  <2> QED BY <2>1, <2>5, <2>6, CallsResolve
<1> QED BY <1>1, InvAlways, PTL

\* A visited if is reported exactly when it returns nothing or nil where a nil
\* dependency can decide that it does.
THEOREM GuardsAlwaysExact == Spec => []GuardsAreExact
<1>1. ASSUME Inv PROVE GuardsAreExact
  <2> DEFINE Silent(body) == \E ret \in {body[i] : i \in DOMAIN body} :
               body = <<ret>> /\ ret.kind = "return" /\ \A i \in DOMAIN ret.results : ret.results[i] # "value"
             at(k) == Len(file.imports) + Len(file.calls) + k
  <2> SUFFICES ASSUME NEW k \in DOMAIN file.ifs, NEW m \in Guards, at(k) < next
               PROVE  <<at(k), m>> \in found <=> DecidedByNil(m, file.ifs[k].cond) /\ Silent(file.ifs[k].body)
    BY DEF GuardsAreExact
  <2>1. file \in SourceFiles /\ FoundSoFar BY <1>1 DEF Inv
  <2>2. file.ifs \in Seq(IfStmts) /\ Len(file.imports) \in Nat /\ Len(file.calls) \in Nat BY <2>1, FilesAssumption
  <2>3. file.ifs[k] \in IfStmts /\ at(k) \in Nat \ {0}
    <3>1. file.ifs[k] \in IfStmts /\ k \in Nat \ {0} BY <2>2
    <3>2. \A a, b, c \in Nat : c # 0 => a + b + c \in Nat \ {0} OBVIOUS
    <3> QED BY <2>2, <3>1, <3>2
  <2>4. /\ file.ifs[k].kind = "if" /\ file.ifs[k].cond \in Seq(Seq(Comparisons) \ {<<>>})
        /\ file.ifs[k].body \in Seq(Statements)
    BY <2>3 DEF IfStmts
  <2>5. Nodes(file)[at(k)] = file.ifs[k] BY <2>1, NodesOfFile
  <2>6. m \in Rules /\ m.name = "NilGuard" BY DEF Guards
  <2> HIDE DEF at, Silent
  <2>7. <<at(k), m>> \in found <=> Match(m, file, file.ifs[k]) BY <2>1, <2>3, <2>5, <2>6, FoundIff
  <2>8. Match(m, file, file.ifs[k]) <=> NilGuard(m, file.ifs[k]) BY <2>6 DEF Match
  <2>9. matchCondition(m, file.ifs[k].cond) <=> DecidedByNil(m, file.ifs[k].cond) BY <2>4, ConditionsAreDecided
  <2>10. isSilentReturnBody(file.ifs[k].body) <=> Silent(file.ifs[k].body) BY <2>4, SilentBodies DEF Silent
  <2> QED BY <2>4, <2>7, <2>8, <2>9, <2>10 DEF NilGuard
<1> QED BY <1>1, InvAlways, PTL

\* A visited import is reported exactly when its package is of a forbidden module,
\* where no other module's name only begins like that of a forbidden one.
THEOREM BoundariesAlwaysExact == Spec => []BoundariesAreExact
<1>1. ASSUME Inv PROVE BoundariesAreExact
  <2> SUFFICES ASSUME NEW i \in DOMAIN file.imports, NEW m \in Boundaries, i < next,
                      \A p \in m.prefixes :
                        Len(p) <= Len(file.imports[i].path) /\ <<p[Len(p)], file.imports[i].path[Len(p)]>> \in Begins
                          => p[Len(p)] = file.imports[i].path[Len(p)]
               PROVE  <<i, m>> \in found <=> \E p \in m.prefixes : Within(file.imports[i].path, p)
    BY DEF BoundariesAreExact
  <2>1. file \in SourceFiles /\ FoundSoFar BY <1>1 DEF Inv
  <2>2. file.imports \in Seq(ImportSpecs) BY <2>1, FilesAssumption
  <2>3. file.imports[i] \in ImportSpecs /\ i \in Nat \ {0} BY <2>2
  <2>4. PICK path \in Paths : path = file.imports[i].path BY <2>3 DEF ImportSpecs
  <2>5. Nodes(file)[i] = [kind |-> "import", path |-> path] BY <2>1, <2>4, NodesOfFile
  <2>6. m \in Rules /\ m.name = "ImportBoundary" BY DEF Boundaries
  <2>7. <<i, m>> \in found <=> Match(m, file, [kind |-> "import", path |-> path])
    BY <2>1, <2>3, <2>5, <2>6, FoundIff
  <2>8. Match(m, file, [kind |-> "import", path |-> path]) <=> \E p \in m.prefixes : HasPrefix(path, p)
    BY <2>6 DEF Match, ImportBoundary
  <2>9. \A p \in m.prefixes : p \in Seq(STRING) \ {<<>>} BY RulesAssumption
  <2>10. \A p \in m.prefixes : HasPrefix(path, p) <=> Within(path, p)
    BY <2>4, <2>9, PrefixesAreModules
  <2> QED BY <2>4, <2>7, <2>8, <2>10
<1> QED BY <1>1, InvAlways, PTL
=============================================================================
