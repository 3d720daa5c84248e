------------------------------ MODULE FileWalk ------------------------------
(***************************************************************************)
(* analyzeFile: one walk over the nodes of a file, each of them shown to   *)
(* every matcher.  What the matchers report is compared with what the      *)
(* program says, by Go's rules of scope and by what a condition does.      *)
(***************************************************************************)
EXTENDS Matchers

CONSTANTS
  PackageOf,  \* the name the package at a path really has
  Exports,    \* the symbols it exports
  Rules,      \* WalkOpts.Matchers
  SourceFiles \* the files that may be walked

Callsites == {m \in Rules : m.name = "ForbiddenCallsite"}
Guards == {m \in Rules : m.name = "NilGuard"}
Boundaries == {m \in Rules : m.name = "ImportBoundary"}

\* Rules forbid symbols that exist, under the names of their packages.
ASSUME RulesAssumption ==
  /\ \A m \in Callsites : \A pn \in m.forbidden : \A p \in Paths : PackageOf[p] = pn[1] => pn[2] \in Exports[p]
  /\ \A m \in Guards : m.receiverFieldOnly \in BOOLEAN
  /\ \A m \in Boundaries : \A prefix \in m.prefixes : prefix \in Seq(STRING) \ {<<>>}
ASSUME PathsAssumption ==
  Paths \subseteq Seq(STRING) /\ \A p \in Paths : \A i \in DOMAIN p : <<p[i], p[i]>> \in Begins
ASSUME AliasAssumption == NoAlias \notin {Dot, "_"} /\ Dot # "_"
ASSUME FilesAssumption ==
  \A f \in SourceFiles :
    f.imports \in Seq(ImportSpecs) /\ f.calls \in Seq(CallExprs) /\ f.ifs \in Seq(IfStmts)

VARIABLES
  file,   \* the file under the walk
  next,   \* the node it visits next
  found   \* <<node, matcher>> pairs reported

vars == <<file, next, found>>

\* ast.Inspect visits the import specs first.
Nodes(f) ==
  [i \in DOMAIN f.imports |-> [kind |-> "import", path |-> f.imports[i].path]] \o f.calls \o f.ifs

TypeOK ==
  /\ file \in SourceFiles
  /\ next \in 1..(Len(Nodes(file)) + 1)
  /\ found \subseteq (1..(next - 1)) \X Rules

Init == file \in SourceFiles /\ next = 1 /\ found = {}

\* Mutant of Visit: one visit more than there are nodes.
VisitPastEnd ==
  /\ next <= Len(Nodes(file)) + 1
  /\ next' = next + 1
  /\ UNCHANGED <<file, found>>

Visit ==
  /\ next <= Len(Nodes(file))
  /\ found' = found \cup {<<next, m>> : m \in {m \in Rules : Match(m, file, Nodes(file)[next])}}
  /\ next' = next + 1
  /\ UNCHANGED file

Next == Visit

Spec == Init /\ [][Next]_vars

-----------------------------------------------------------------------------
(* What the program says *)

\* A name means a variable, a type or a function where it is declared: in a
\* function, or in the package, by this file or by another.
IsLocal(f, name, scope) ==
  name \in f.elsewhere \/ \E d \in f.declared : d.name = name /\ d.scope \in {scope, "package"}

\* Elsewhere a qualifier means the import of that name, under which Go knows the
\* package: its alias, or else the name in its package clause.
LocalName(imp) == IF imp.alias = NoAlias THEN PackageOf[imp.path] ELSE imp.alias

ImportsOf(f) == {f.imports[i] : i \in DOMAIN f.imports}

\* The packages whose symbol a call calls, with or without parentheses and type
\* arguments around it.
Callee(f, call) ==
  CASE call.callee = "selector" /\ ~IsLocal(f, call.qualifier, call.scope) ->
         {PackageOf[imp.path] : imp \in {imp \in ImportsOf(f) : LocalName(imp) = call.qualifier}}
    [] call.callee = "ident" /\ ~IsLocal(f, call.name, call.scope) ->
         {PackageOf[imp.path] : imp \in {imp \in ImportsOf(f) : imp.alias = Dot /\ call.name \in Exports[imp.path]}}
    [] OTHER -> {}

CallsForbidden(m, f, call) == \E pkg \in Callee(f, call) : <<pkg, call.name>> \in m.forbidden

\* What the compiler refuses: two imports of one name, an import of a name that
\* the package declares, two dot imports of one symbol, a name that means nothing.
Compiles(f) ==
  /\ \A i, j \in DOMAIN f.imports :
       LET a == f.imports[i]
           b == f.imports[j]
       IN i # j /\ LocalName(a) = LocalName(b) =>
            /\ a.alias \in {Dot, "_"}
            /\ a.alias = Dot => Exports[a.path] \cap Exports[b.path] = {}
  /\ \A imp \in ImportsOf(f) :
       IF imp.alias = Dot THEN \A s \in Exports[imp.path] : ~IsLocal(f, s, "package")
       ELSE ~IsLocal(f, LocalName(imp), "package")
  /\ \A k \in DOMAIN f.calls :
       LET call == f.calls[k] IN
       /\ call.callee = "selector" =>
            \/ IsLocal(f, call.qualifier, call.scope)
            \/ \E imp \in ImportsOf(f) : LocalName(imp) = call.qualifier
       /\ call.callee = "ident" =>
            \/ IsLocal(f, call.name, call.scope)
            \/ \E imp \in ImportsOf(f) : imp.alias = Dot /\ call.name \in Exports[imp.path]

-----------------------------------------------------------------------------
(* Where the resolution by file is right *)

\* The limit the comment of ForbiddenCallsite names: a path shows the name of its
\* package, where an alias, a dot or the last element is all there is to go by.
PathsShowNames(f, call) ==
  \A i \in DOMAIN f.imports :
    (\/ call.callee = "selector" /\ i \in Naming(f, call.qualifier)
     \/ call.callee = "ident" /\ f.imports[i].alias = Dot)
    => packageNameOfPath(f.imports[i].path) = PackageOf[f.imports[i].path]

\* A limit it does not name: no name is a local one in one place of the file and
\* that of a package in another, or in another file of the package.
OneMeaning(f, m, call) ==
  /\ call.callee = "selector" =>
       /\ declaredInFile(f, call.qualifier) \/ call.qualifier \in f.elsewhere =>
            \A imp \in ImportsOf(f) : LocalName(imp) # call.qualifier
       /\ call.qualifier \in f.elsewhere /\ Unaliased(f) # {} =>
            declaredInFile(f, call.qualifier) \/ <<call.qualifier, call.name>> \notin m.forbidden
  /\ call.callee = "ident" => ~IsLocal(f, call.name, call.scope)

\* Another one: "a call to any symbol in the configured set" (matcher.go:132) is a
\* call by the bare name.  In "(time.Now)()" and "pkg.New[T]()" the callee is neither
\* a selector nor an identifier, and the call is missed (matcher.go:200-201).
CalledByName(call) == ~call.wrapped

\* Within the first two limits a call is reported exactly when it is one by name and
\* Go resolves it to a symbol the rule forbids: through an alias, a dot import, a
\* versioned path or a package whose path does not show its name, and never for
\* what is called on a local name (matcher.go:136-145, 209-218).
CallsAreExact ==
  Compiles(file) =>
    \A k \in DOMAIN file.calls : \A m \in Callsites :
      LET n == Len(file.imports) + k IN
      n < next /\ PathsShowNames(file, file.calls[k]) /\ OneMeaning(file, m, file.calls[k])
        => (<<n, m>> \in found <=> CalledByName(file.calls[k]) /\ CallsForbidden(m, file, file.calls[k]))

-----------------------------------------------------------------------------
(* What a condition does *)

Leaves(cond) == UNION {{<<g, i>> : i \in DOMAIN cond[g]} : g \in DOMAIN cond}

\* The condition holds when these leaves of it hold and no others.
Holds(cond, true) == \E g \in DOMAIN cond : \A i \in DOMAIN cond[g] : <<g, i>> \in true

\* A value the narrow or the broad rule takes for a dependency, and not for an error.
\* The comment of NilGuard speaks of a field of the method's receiver; a field of any
\* identifier passes for one (matcher.go:50-56, 118).
Dependency(m, x) == ~x.errorName /\ x.form # "other" /\ (m.receiverFieldOnly => x.form = "field")

AsksForNil(m, leaf) ==
  /\ leaf.op = "=="
  /\ \/ leaf.y.form = "nil" /\ Dependency(m, leaf.x)
     \/ leaf.x.form = "nil" /\ Dependency(m, leaf.y)

\* Some dependency's being nil can be all that decides the condition.
DecidedByNil(m, cond) ==
  \E l \in Leaves(cond) :
    /\ AsksForNil(m, cond[l[1]][l[2]])
    /\ \E true \in SUBSET Leaves(cond) : Holds(cond, true \cup {l}) /\ ~Holds(cond, true \ {l})

\* NilGuard reports exactly the ifs that return without a value or an error where
\* a nil dependency can decide that they do, whichever side nil stands on and
\* however && and || join it to the rest (matcher.go:47-53).
GuardsAreExact ==
  \A k \in DOMAIN file.ifs : \A m \in Guards :
    LET n == Len(file.imports) + Len(file.calls) + k
        body == file.ifs[k].body
    IN n < next =>
         (<<n, m>> \in found <=>
            /\ DecidedByNil(m, file.ifs[k].cond)
            /\ \E ret \in {body[i] : i \in DOMAIN body} :
                 body = <<ret>> /\ ret.kind = "return" /\ \A i \in DOMAIN ret.results : ret.results[i] # "value")

-----------------------------------------------------------------------------

\* A module path and the packages below it.
Within(path, module) == Len(module) <= Len(path) /\ \A i \in DOMAIN module : path[i] = module[i]

\* Unless another module's name only begins like a forbidden one, the imports
\* reported are those of the forbidden modules and their packages, under any
\* alias (matcher.go:337-340).
BoundariesAreExact ==
  \A i \in DOMAIN file.imports : \A m \in Boundaries :
    LET path == file.imports[i].path IN
    /\ i < next
    /\ \A p \in m.prefixes :
         LET n == Len(p) IN n <= Len(path) /\ <<p[n], path[n]>> \in Begins => p[n] = path[n]
    => (<<i, m>> \in found <=> \E p \in m.prefixes : Within(path, p))

-----------------------------------------------------------------------------
(* What the documentation says and the code does not do *)

\* "A local variable named `time` with a `Now` method is not a match"
\* (matcher.go:139-140).
LocalNamesAreNotPackages ==
  Compiles(file) =>
    \A k \in DOMAIN file.calls : \A m \in Callsites :
      LET call == file.calls[k] IN
      <<Len(file.imports) + k, m>> \in found /\ call.callee = "selector"
        => ~IsLocal(file, call.qualifier, call.scope)
=============================================================================
