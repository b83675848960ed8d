---------------------------- MODULE MCWorkingTree ----------------------------
(* Instances of WorkingTree: a schema mirror and the ords mirror inside it,   *)
(* replaced by different shells; two families in two schema directories, each *)
(* with up to two revisions; one managed file, sorted after the lock file,    *)
(* which version 2 changes and version 3 removes.                             *)
EXTENDS WorkingTree, TLC

TwoMirrors == [c1 |-> <<"hr">>, c2 |-> <<"hrOrds">>]
BothShells == [c1 |-> "sh", c2 |-> "ps1"]
OrdsInside == [hr |-> NoDest, hrOrds |-> "hr"]

OneEach == [f |-> "hr", g |-> "app"]
FThenG == <<"f", "g">>
Pairings == {{"k1", "a1"}, {"k1", "m1"}, {"a1", "m1"}}

TwoThenThree == [u2 |-> 2, u3 |-> 3]
OneFile == <<"b">>
LockFirst == <<"lock", "b", "b.new">>
ChangedThenGone == [b |-> <<<<1>>, <<2>>, <<>>>>]
BesideIt == [b |-> "b.new"]
OneSave == {<<11>>}

=============================================================================
