-------------------------- MODULE MCMigrationApply --------------------------
(***************************************************************************)
(* Three migrate commands: a batch of two folders, a second command for    *)
(* the first of them, and a third for it in another environment.           *)
(***************************************************************************)
EXTENDS MigrationApply, TLC

CONSTANTS p1, p2, p3, f1, f2

MCBatch == (p1 :> <<f1, f2>>) @@ (p2 :> <<f1>>) @@ (p3 :> <<f1>>)
MCEnvOf == (p1 :> "dev") @@ (p2 :> "dev") @@ (p3 :> "staging")
=============================================================================
