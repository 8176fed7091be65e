-------------------------- MODULE MC_Negotiation ----------------------------
(* Instances of Negotiation for TLC. *)
EXTENDS Negotiation, TLC

CONSTANTS c1, c2, c3

ThreeChildren == {c1, c2, c3}
TwoRefuse == (c1 :> "accept") @@ (c2 :> "temporary-failure") @@ (c3 :> "reject")
SomeWishes == {{}, {"no-helo", "no-reply-helo"}, {"no-reply-helo", "skip"}}
=============================================================================
