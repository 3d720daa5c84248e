-------------------------- MODULE MCUnwiredAnalyze --------------------------
(***************************************************************************)
(* A module of three packages and one consumer.  lib has internal tests    *)
(* (two loads and a test main), app has external tests, kit is imported by *)
(* tests, by its own and by those of app, and by app.go in some programs.  *)
(***************************************************************************)
EXTENDS UnwiredAnalyze, TLC

MCLoads == {"lib", "libT", "libMain", "app", "appX", "kit", "kitT", "con", "conT"}
MCPathOf == [l \in MCLoads |->
  CASE l \in {"lib", "libT"} -> "lib" [] l = "libMain" -> "lib.test" [] l = "app" -> "app"
    [] l = "appX" -> "app_test" [] l \in {"kit", "kitT"} -> "kit" [] OTHER -> "con"]
MCBaseOf == [l \in MCLoads |-> IF l = "appX" THEN "app" ELSE MCPathOf[l]]
MCFilesOf ==
  [lib |-> {"lib.go", "lib.pb.go"}, libT |-> {"lib.go", "lib.pb.go", "lib_test.go"},
   libMain |-> {"_testmain.go"}, app |-> {"app.go"}, appX |-> {"app_x_test.go"},
   kit |-> {"kit.go"}, kitT |-> {"kit.go", "kit_test.go"}, con |-> {"con.go"},
   conT |-> {"con.go", "con_test.go"}]
MCFiles == UNION {MCFilesOf[l] : l \in MCLoads}
MCTestFiles == {"lib_test.go", "app_x_test.go", "kit_test.go", "con_test.go"}
MCGeneratedFiles == {"lib.pb.go", "_testmain.go"}

\* A type with a method called through an interface and an Error method, the
\* interface method, two fields, a helper of kit and a generated function.
MCPkgOf == [Type |-> "lib", Run |-> "lib", Error |-> "lib", IRun |-> "lib",
            Field |-> "lib", Wire |-> "lib", Helper |-> "kit", Gen |-> "lib"]
MCDecls == DOMAIN MCPkgOf
MCFileOf == [d \in MCDecls |-> CASE d = "Helper" -> "kit.go" [] d = "Gen" -> "lib.pb.go"
                                 [] OTHER -> "lib.go"]
MCSatisfies == {<<"Run", "IRun">>}
MCRecvOf == [Run |-> "Type", Error |-> "Type"]

Use(f, d, h) == [file |-> f, decl |-> d, how |-> h]

MCFixedUses == {Use("lib.go", "Type", "recv"), Use("app.go", "Field", "write"),
                Use("app.go", "Field", "key"), Use("app.go", "Wire", "key"),
                Use("kit_test.go", "Helper", "read"), Use("lib_test.go", "Run", "read")}
MCPossibleUses ==
  {Use("app.go", "Type", "read"), Use("app.go", "IRun", "read"), Use("con_test.go", "Helper", "read"),
   Use("con.go", "Field", "read"), Use("app_x_test.go", "Helper", "read"),
   Use("app.go", "Wire", "read")}
MCFixedImports == {<<"app.go", "lib">>, <<"_testmain.go", "lib">>, <<"con.go", "lib">>,
                   <<"app_x_test.go", "app">>, <<"app_x_test.go", "kit">>}
MCPossibleImports == {<<"app.go", "kit">>}

MCKindOf == [d \in MCDecls |-> CASE d = "Type" -> "type" [] d \in {"Field", "Wire"} -> "field"
                                 [] d \in {"Helper", "Gen"} -> "func" [] OTHER -> "method"]

Options(t, u, g, k) == [testsAsReads |-> t, unexported |-> u, generated |-> g, kinds |-> k]
MCOptSet == {Options(FALSE, FALSE, FALSE, {}), Options(TRUE, TRUE, TRUE, {"type", "field", "func"})}

\* The module has two consumers, one of which holds no package. A go.mod may ask for
\* two releases of one minor, another minor, its language version or a candidate.
MCGoMods == [path : {"module", "consumer"}, minor : {21}, patch : {0, 2}]
              \cup [path : {"module", "consumer"}, minor : {22}, patch : {Language, Candidate, 0}]
=============================================================================
