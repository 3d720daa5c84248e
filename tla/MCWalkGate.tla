----------------------------- MODULE MCWalkGate -----------------------------
(***************************************************************************)
(* Two source files, of which two scope directories hold the handler, and  *)
(* a test.  Two ifs with one head, one silent and one with an error, and a *)
(* call of time.Now, which a file may import from elsewhere.  Two rules    *)
(* forbid what the operators of Matchers say.                              *)
(***************************************************************************)
EXTENDS WalkGate

MCScopeDirs == <<"internal", "service">>
MCDirsTo == [f \in {"handler", "handler_test", "store"} |->
  IF f = "store" THEN <<"internal">> ELSE <<"internal", "service">>]

MCHeads == {"time", "clock"}
MCNodes == {"silent", "loud", "now"}
MCSnippet == [n \in MCNodes |-> IF n = "now" THEN "time.Now()" ELSE "if s.store == nil"]

PathOf == [h \in MCHeads |-> <<h>>]
Matching == INSTANCE Matchers WITH
  Paths <- {PathOf[h] : h \in MCHeads}, MajorVersions <- {}, Stem <- [h \in MCHeads |-> h],
  Begins <- {<<h, h>> : h \in MCHeads}, NoAlias <- "none", Dot <- "."

RuleOf == [NilGuard |-> [name |-> "NilGuard", receiverFieldOnly |-> TRUE],
           ForbiddenCallsite |-> [name |-> "ForbiddenCallsite", forbidden |-> {<<"time", "Now">>}]]
FileOf == [h \in MCHeads |-> [imports |-> <<[path |-> PathOf[h], alias |-> "time"]>>, declared |-> {}]]
If(results) ==
  [kind |-> "if", body |-> <<[kind |-> "return", results |-> results]>>,
   cond |-> << <<[op |-> "==", x |-> [form |-> "field", errorName |-> FALSE],
                  y |-> [form |-> "nil", errorName |-> FALSE]]>> >>]
NodeOf == [silent |-> If(<<"nil or bool">>), loud |-> If(<<"value">>),
           now |-> [kind |-> "call", callee |-> "selector", wrapped |-> FALSE, qualifier |-> "time", name |-> "Now"]]
MCMatches ==
  [mh \in (DOMAIN RuleOf) \X MCHeads |->
     {n \in MCNodes : Matching!Match(RuleOf[mh[1]], FileOf[mh[2]], NodeOf[n])}]

Handler(head, lines) == [head |-> head, lines |-> lines]
BusyHandler == Handler("time", <<"silent", "now">>)
Handlers == {Handler("time", <<>>), Handler("time", <<"blank", "loud">>), Handler("time", <<"loud", "blank", "silent">>),
             BusyHandler, Handler("clock", <<"silent", "now">>)}
Kind(internal, service) == [internal |-> internal, service |-> service]
Keys == {<<"handler", "if s.store == nil">>, <<"handler", "time.Now()">>, <<"store", "if s.store == nil">>}

Trees(handlers, kinds, allows, valids, asserteds) ==
  {[head |-> [f \in Files |-> IF f = "handler" THEN h.head ELSE "time"],
    lines |-> [f \in Files |-> CASE f = "handler" -> h.lines [] f = "store" -> s [] OTHER -> <<"silent">>],
    kind |-> k, allow |-> a, valid |-> v, asserted |-> e] :
     h \in handlers, s \in {<<>>, <<"blank", "silent">>}, k \in kinds, a \in allows, v \in valids, e \in asserteds}

WalkCommits ==
  Trees(Handlers, {Kind("directory", "directory")}, SUBSET Keys, {TRUE}, {TRUE})
  \cup Trees(Handlers, {Kind("directory", "directory")}, {{<<"handler", "if s.store == nil">>}, Keys}, {TRUE}, {FALSE})
  \cup Trees({BusyHandler}, {Kind("directory", "missing"), Kind("directory", "file"), Kind("missing", "missing")},
             {{}}, {TRUE}, {TRUE})
  \cup Trees({BusyHandler}, {Kind("directory", "directory")}, {{}}, {FALSE}, {TRUE})

ScopeCommits ==
  Trees(Handlers, {Kind(k, "directory") : k \in {"directory", "skipped name", "symlink"}}
                    \cup {Kind("directory", k) : k \in {"skipped name", "symlink"}}, {{}}, {TRUE}, {TRUE})
=============================================================================
