--------------------------- MODULE MCValidateCall ----------------------------
(* Instances of ValidateCall: a plugin that loads, and one that loads,      *)
(* fails or crashes; the modules of both build models.                      *)
EXTENDS ValidateCall, TLC

MCEntryPoints == <<"logger", "tracer">>
MCLoads == {"logger" :> "ok" @@ "tracer" :> k : k \in Kinds}
=============================================================================
