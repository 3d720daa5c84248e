------------------------------ MODULE Matchers ------------------------------
(***************************************************************************)
(* The matchers of matcher.go: which nodes of a parsed file each of them   *)
(* reports.  A file is its imports, the names it declares and where, the   *)
(* names other files of its package declare, and the nodes a walk visits.  *)
(* Pure operators: FileWalk visits the nodes of a file with them, and an   *)
(* instance of WalkGate takes its relation Matches from them.              *)
(***************************************************************************)
EXTENDS Naturals, Sequences

CONSTANTS
  Paths,         \* import paths: sequences of path elements
  MajorVersions, \* the path elements that are "v" and digits
  Stem,          \* an element without its ".vN" suffix
  Begins,        \* <<a, b>>: the text of element b begins with that of a
  NoAlias, Dot   \* what stands before the path of an import, if no name does

Identifiers == STRING \ {NoAlias, Dot, "_"}

ImportSpecs == [path : Paths, alias : Identifiers \cup {NoAlias, Dot, "_"}]

\* A call: what its callee is, whether it is in parentheses or has type arguments,
\* and the function the call stands in.  An "other" callee names no symbol of a
\* package: a function literal, a result, an element, a method of one of these.
CallExprs == [kind : {"call"}, callee : {"selector", "ident", "other"}, wrapped : BOOLEAN,
              qualifier : Identifiers, name : Identifiers, scope : STRING]

\* An if.  Its condition is a disjunction of conjunctions, as || and && nest
\* without parentheses; a parenthesised or negated part is one opaque leaf of it.
\* An operand is nil, an identifier, a field of one, a longer chain, or another
\* expression, and may be named like an error.
Operands == {x \in [form : {"nil", "ident", "field", "chain", "other"}, errorName : BOOLEAN] :
               x.form = "nil" => ~x.errorName}
Comparisons == [op : {"==", "!=", "opaque"}, x : Operands, y : Operands]
Statements == [kind : {"return"}, results : Seq({"nil or bool", "value"})] \cup [kind : {"other"}]
IfStmts == [kind : {"if"}, cond : Seq(Seq(Comparisons) \ {<<>>}), body : Seq(Statements)]

-----------------------------------------------------------------------------
(* ForbiddenCallsite *)

\* The name most modules give the package at a path.
packageNameOfPath(path) ==
  LET n == Len(path) IN
  Stem[IF n > 1 /\ path[n] \in MajorVersions THEN path[n - 1] ELSE path[n]]

\* A file declares a name anywhere: in a function, in the package, or as the
\* name of a method, which is no name on its own.
declaredInFile(file, name) == \E d \in file.declared : d.name = name

\* The imports that name a package by alias or, without one, by their path.
Naming(file, local) ==
  {i \in DOMAIN file.imports :
     LET imp == file.imports[i] IN
     \/ imp.alias = local
     \/ imp.alias = NoAlias /\ packageNameOfPath(imp.path) = local}

Unaliased(file) == {i \in DOMAIN file.imports : file.imports[i].alias = NoAlias}

\* Mutant of importedPackageName: what the file declares is not asked.
AnyQualifier(file, local) ==
  IF Naming(file, local) # {} THEN {packageNameOfPath(file.imports[i].path) : i \in Naming(file, local)}
  ELSE {local : i \in Unaliased(file)}

\* The package name a qualifier stands for: that of the first import that names
\* it, else the qualifier itself if an import may be a package of that name.
importedPackageName(file, local) ==
  LET naming == Naming(file, local) IN
  IF naming # {}
  THEN {packageNameOfPath(file.imports[i].path) : i \in {i \in naming : \A j \in naming : i <= j}}
  ELSE {local : i \in {i \in Unaliased(file) : ~declaredInFile(file, local)}}

dotImportedPackageNames(file) ==
  {packageNameOfPath(file.imports[i].path) : i \in {i \in DOMAIN file.imports : file.imports[i].alias = Dot}}

\* A call is seen as "qualifier.name(...)" or "name(...)", and as nothing else:
\* not as "(qualifier.name)(...)", nor as "name[T](...)".
ForbiddenCallsite(m, file, node) ==
  /\ node.kind = "call"
  /\ ~node.wrapped
  /\ \/ /\ node.callee = "selector"
        /\ \E pkg \in importedPackageName(file, node.qualifier) : <<pkg, node.name>> \in m.forbidden
     \/ /\ node.callee = "ident"
        /\ \E pkg \in dotImportedPackageNames(file) : <<pkg, node.name>> \in m.forbidden

-----------------------------------------------------------------------------
(* NilGuard: "if x == nil { return nil }" *)

\* nil is an identifier too.
matchSubject(m, x) ==
  /\ ~x.errorName
  /\ x.form \in (IF m.receiverFieldOnly THEN {"field"} ELSE {"nil", "ident", "field", "chain"})

\* A comparison with nil on either side; its right side is asked first.
NilComparison(m, leaf) ==
  /\ leaf.op = "=="
  /\ \/ leaf.y.form = "nil" /\ matchSubject(m, leaf.x)
     \/ leaf.y.form # "nil" /\ leaf.x.form = "nil" /\ matchSubject(m, leaf.y)

\* Mutant of matchCondition: only the first operand of && is looked at.
FirstConjunct(m, cond) == \E g \in DOMAIN cond : NilComparison(m, cond[g][1])

matchCondition(m, cond) == \E g \in DOMAIN cond : \E i \in DOMAIN cond[g] : NilComparison(m, cond[g][i])

\* One statement, a return of nothing or of nil, true and false only.
isSilentReturnBody(body) ==
  Len(body) = 1 /\ body[1].kind = "return" /\ \A i \in DOMAIN body[1].results : body[1].results[i] = "nil or bool"

NilGuard(m, node) == node.kind = "if" /\ matchCondition(m, node.cond) /\ isSilentReturnBody(node.body)

-----------------------------------------------------------------------------
(* ImportBoundary *)

\* Mutant of HasPrefix: only the module itself, none of its packages.
SamePath(path, prefix) == path = prefix

\* strings.HasPrefix: the last element of the prefix may go on in the path.
HasPrefix(path, prefix) ==
  /\ Len(prefix) <= Len(path)
  /\ \A i \in 1..(Len(prefix) - 1) : path[i] = prefix[i]
  /\ <<prefix[Len(prefix)], path[Len(prefix)]>> \in Begins

ImportBoundary(m, node) == node.kind = "import" /\ \E prefix \in m.prefixes : HasPrefix(node.path, prefix)

-----------------------------------------------------------------------------

\* MatchInFile of a FileMatcher, Match of any other.
Match(m, file, node) ==
  \/ m.name = "NilGuard" /\ NilGuard(m, node)
  \/ m.name = "ForbiddenCallsite" /\ ForbiddenCallsite(m, file, node)
  \/ m.name = "ImportBoundary" /\ ImportBoundary(m, node)
=============================================================================
