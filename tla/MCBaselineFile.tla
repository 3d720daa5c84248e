--------------------------- MODULE MCBaselineFile ---------------------------
(* An instance of BaselineFile: two declarations share a key, and another   *)
(* key is only ever in the file.                                            *)
EXTENDS BaselineFile

CONSTANTS d1, d2, k1, k2

MCKeyOrder == <<k1, k2>>
SharedKey == d1 :> k1 @@ d2 :> k1
=============================================================================
