--------------------------- MODULE MCMirrorReplace ---------------------------
(* An instance of MirrorReplace: three runs of one shell on one schema.      *)
EXTENDS MirrorReplace, TLC

CONSTANTS c1, c2, c3, hr

ParentOf == (hr :> NoDest)
OneSchema == (c1 :> <<hr>>) @@ (c2 :> <<hr>>) @@ (c3 :> <<hr>>)
OneShell == [c \in Command |-> "sh"]

=============================================================================
