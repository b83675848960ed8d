-------------------------- MODULE MCFeatureRollout --------------------------
(***************************************************************************)
(* Small instances of FeatureRollout for TLC.  A run is a rollout; the     *)
(* capsules and the bindings of their steps to target scopes are the       *)
(* smallest that produce the situation each configuration is about.        *)
(***************************************************************************)
EXTENDS FeatureRollout, TLC

CONSTANTS r1, r2, r3, c1, c2, s1, s2, noRun

\* Everything of one capsule and one environment.
AllC1 == [r \in Run |-> c1]
AllStaging == [r \in Run |-> "staging"]
OneScope == [c \in Capsule |-> [e \in Environment |-> [i \in Step |-> s1]]]

\* A capsule of one checkpoint.
OneCheckpoint == [c \in Capsule |-> [i \in Step |-> "feature-migrate"]]
LengthOne == [c \in Capsule |-> 1]

\* Two capsules that share target s1: c1 runs a script and a checkpoint on
\* it, c2 has a checkpoint on it and another on s2.
MixedCapsules == (r1 :> c1) @@ (r2 :> c2) @@ (r3 :> c2)
MixedKind == (c1 :> <<"sql-script", "feature-migrate">>)
          @@ (c2 :> <<"feature-migrate", "feature-migrate">>)
MixedScope == [c \in Capsule |-> [e \in Environment |->
                 IF c = c1 THEN <<s1, s1>> ELSE <<s1, s2>>]]
LengthTwo == [c \in Capsule |-> 2]

\* Staging and production databases of one capsule whose second step
\* imports the application.
Promotion == (r1 :> "staging") @@ (r2 :> "prod") @@ (r3 :> "staging")
PromotionKind == [c \in Capsule |-> <<"feature-migrate", "app-deploy">>]
PromotionScope == [c \in Capsule |->
                     ("staging" :> <<s1, s1>>) @@ ("prod" :> <<s2, s2>>)]

\* One capsule: a script, then a checkpoint on the same target.
ScriptFirst == [c \in Capsule |-> <<"sql-script", "feature-migrate">>]
\* One capsule of two checkpoints.
TwoCheckpoints == [c \in Capsule |-> <<"feature-migrate", "feature-migrate">>]
\* The same checkpoint is the first step of c1 and the second of c2.
ShiftedKind == (c1 :> <<"feature-migrate", "verify">>) @@ (c2 :> <<"verify", "feature-migrate">>)
ShiftedCapsules == (r1 :> c1) @@ (r2 :> c1) @@ (r3 :> c2)

MCNoAttempt == <<noRun, 0>>

RunSymmetry == Permutations(Run)
=============================================================================
