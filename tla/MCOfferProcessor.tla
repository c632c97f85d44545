--------------------------- MODULE MCOfferProcessor ---------------------------
(* Model checking of OfferProcessor: small sets of offers over few items. *)
EXTENDS OfferProcessor, TLC

CONSTANTS o1, o2

\* Two offers with two items in common, given in one and received in the other.
TwoItems   == {1, 2}
TwoAsset   == [i \in TwoItems |-> i]
TwoGive    == (o1 :> {1}) @@ (o2 :> {2})
TwoReceive == (o1 :> {2}) @@ (o2 :> {1})
=============================================================================
