---------------------------- MODULE MCCapsuleStore ----------------------------
(* Instances of CapsuleStore: two commits with the same release inputs.       *)
EXTENDS CapsuleStore, TLC

CONSTANTS c1, c2, s1, s2

Twins == UNION {Permutations(S) : S \in {Engine, Commit, Builder, Runner, Cleaner}}

SameInputs == (c1 :> s1) @@ (c2 :> s1)

=============================================================================
