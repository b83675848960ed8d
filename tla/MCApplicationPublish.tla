------------------------- MODULE MCApplicationPublish -------------------------
(* Instances of ApplicationPublish: three publishes from two checkouts, each  *)
(* with an account of its own.                                                *)
EXTENDS ApplicationPublish, TLC

CONSTANTS p1, p2, p3, ca, cb, ana, ben, g1, g2

TwoPages == {g1, g2}

\* The first and the third publish are of one checkout, the second of the other.
ByCheckout == (p1 :> ca) @@ (p2 :> cb) @@ (p3 :> ca)
ByAccount == (ca :> ana) @@ (cb :> ben)

FullAndPartial == (p1 :> "full") @@ (p2 :> "partial") @@ (p3 :> "full")
OnePage == (p1 :> Page) @@ (p2 :> {g1}) @@ (p3 :> Page)

=============================================================================
