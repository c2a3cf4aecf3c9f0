----------------------------- MODULE MCRunLedger -----------------------------
(* Values TLC's configurations give to the constants of RunLedger. *)
EXTENDS RunLedger, TLC

MCMixed == <<"quarantine", "rename", "case">>
MCQuarantine == <<"quarantine">>
MCQuarantines == <<"quarantine", "quarantine">>
MCRename == <<"rename">>

MCNone == {}
MCChoices == {<<1>>, <<2>>}

MCSymmetry == Permutations(Rollbacks)

==============================================================================
