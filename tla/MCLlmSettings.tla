--------------------------- MODULE MCLlmSettings ---------------------------
(***************************************************************************)
(* Values of the constants of LlmSettings for model checking.              *)
(***************************************************************************)
EXTENDS LlmSettings

MCProviderOf == [off |-> "disabled", a |-> "p"]
=============================================================================
