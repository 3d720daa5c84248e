----------------------------- MODULE MCFileWalk -----------------------------
(***************************************************************************)
(* Five packages: time and yaml, whose paths show their names (the latter  *)
(* under a version suffix), stripe under stripe-go/v76, which does not,    *)
(* gibson/v2, which no file may import, and gibson-tools, which any may.   *)
(* Files have up to two imports and two declarations and make every call   *)
(* that compiles; one more file for each condition of a guard and each     *)
(* shape of its body.                                                      *)
(***************************************************************************)
EXTENDS FileWalk

Time == <<"time">>
Yaml == <<"gopkg.in", "yaml.v3">>
Stripe == <<"github.com", "stripe", "stripe-go", "v76">>
Gibson == <<"github.com", "org", "gibson", "v2">>
Tools == <<"github.com", "org", "gibson-tools">>

MCPaths == {Time, Yaml, Stripe, Gibson, Tools}
Elements == UNION {{p[i] : i \in DOMAIN p} : p \in MCPaths}
MCMajorVersions == {"v76", "v2"}
MCStem == [e \in Elements |-> IF e = "yaml.v3" THEN "yaml" ELSE e]
MCBegins == {<<e, e>> : e \in Elements} \cup {<<"gibson", "gibson-tools">>, <<"stripe", "stripe-go">>}
MCPackageOf == [p \in MCPaths |->
  CASE p = Time -> "time" [] p = Yaml -> "yaml" [] p = Stripe -> "stripe"
    [] p = Gibson -> "gibson" [] OTHER -> "tools"]
MCExports == [p \in MCPaths |-> IF p = Time THEN {"Now"} ELSE {"New"}]

Callsite == [name |-> "ForbiddenCallsite",
             forbidden |-> {<<"time", "Now">>, <<"stripe", "New">>, <<"yaml", "New">>}]
NarrowGuard == [name |-> "NilGuard", receiverFieldOnly |-> TRUE]
BroadGuard == [name |-> "NilGuard", receiverFieldOnly |-> FALSE]
Boundary == [name |-> "ImportBoundary", prefixes |-> {<<"github.com", "org", "gibson">>}]
MCRules == {Callsite, NarrowGuard, BroadGuard, Boundary}

Import(p, a) == [path |-> p, alias |-> a]
Import1 == {Import(p, a) : p \in {Time, Stripe}, a \in {"none", ".", "_", "time", "t"}}
             \cup {Import(Yaml, a) : a \in {"none", "t"}}
             \cup {Import(p, a) : p \in {Gibson, Tools}, a \in {"none", "gibson"}}
Imports == {<<>>} \cup {<<i>> : i \in Import1} \cup {<<i, j>> : i, j \in Import1}

Decl(n, s) == [name |-> n, scope |-> s]
Decl1 == {Decl("time", "f"), Decl("stripe", "g"), Decl("stripe", "method"), Decl("Now", "g"), Decl("t", "package")}
Declared == {{}} \cup {{d} : d \in Decl1} \cup {{Decl("time", "f"), Decl("stripe", "g")}}

CallAs(w, c, q, n, s) == [kind |-> "call", callee |-> c, wrapped |-> w, qualifier |-> q, name |-> n, scope |-> s]
Call(c, q, n, s) == CallAs(FALSE, c, q, n, s)
Wrapped(c, q, n, s) == CallAs(TRUE, c, q, n, s)
AllCalls ==
  <<Call("selector", "time", "Now", "f"), Call("selector", "time", "Now", "g"),
    Call("selector", "stripe", "New", "f"), Call("selector", "stripe", "New", "g"),
    Call("selector", "t", "Now", "f"), Call("selector", "t", "New", "f"), Call("selector", "yaml", "New", "f"),
    Call("ident", "", "Now", "f"), Call("ident", "", "Now", "g"), Call("ident", "", "New", "f"),
    Call("other", "", "Now", "f"), Wrapped("selector", "time", "Now", "g"),
    Wrapped("selector", "stripe", "New", "f"), Wrapped("ident", "", "Now", "f")>>

CallFile(imports, declared, elsewhere) ==
  LET bare == [imports |-> imports, declared |-> declared, elsewhere |-> elsewhere, calls |-> <<>>, ifs |-> <<>>]
  IN [bare EXCEPT !.calls = SelectSeq(AllCalls, LAMBDA c : Compiles([bare EXCEPT !.calls = <<c>>]))]

CallFiles == {f \in {CallFile(i, d, e) : i \in Imports, d \in Declared, e \in {{}, {"stripe"}, {"t"}}} : Compiles(f)}

Operand(form, err) == [form |-> form, errorName |-> err]
Nil == Operand("nil", FALSE)
Subjects == {Operand(form, FALSE) : form \in {"ident", "field", "chain", "other"}} \cup {Operand(form, TRUE) : form \in {"ident", "field"}}
Leaf(op, x, y) == [op |-> op, x |-> x, y |-> y]
Leaf1 == {Leaf("==", x, Nil) : x \in Subjects} \cup {Leaf("==", Nil, Operand("field", FALSE))}
           \cup {Leaf("!=", Operand("field", FALSE), Nil), Leaf("opaque", Nil, Nil),
                 Leaf("==", Operand("field", FALSE), Operand("ident", FALSE))}
Conditions ==
  {<< <<l>> >> : l \in Leaf1} \cup {<< <<l, k>> >> : l, k \in Leaf1} \cup {<< <<l>>, <<k>> >> : l, k \in Leaf1}
  \cup {<< <<l, Leaf("opaque", Nil, Nil)>>, <<Leaf("!=", Operand("ident", FALSE), Nil), k>> >> : l, k \in Leaf1}

Return(results) == [kind |-> "return", results |-> results]
Silent == <<Return(<<"nil or bool", "nil or bool">>)>>
Bodies == {<<>>, <<Return(<<>>)>>, <<Return(<<"nil or bool", "value">>)>>,
           <<[kind |-> "other"]>>, <<[kind |-> "other"], Return(<<>>)>>}

If(cond, body) == [kind |-> "if", cond |-> cond, body |-> body]
IfFile(cond, body) == [imports |-> <<Import(Time, "none")>>, declared |-> {}, elsewhere |-> {},
                       calls |-> <<>>, ifs |-> <<If(cond, body)>>]
IfFiles == {IfFile(c, Silent) : c \in Conditions}
             \cup {IfFile(<< <<Leaf("==", Operand("field", FALSE), Nil)>> >>, b) : b \in Bodies}

MCSourceFiles == CallFiles \cup IfFiles

\* A file whose functions f and g both call what is named time, a variable in f.
ShadowFiles == {CallFile(i, d, {}) : i \in {<<Import(Time, "none")>>, <<Import(Yaml, "none")>>}, d \in {{}, {Decl("time", "f")}}}
=============================================================================
