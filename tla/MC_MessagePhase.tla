-------------------------- MODULE MC_MessagePhase ---------------------------
(* Instances of MessagePhase for TLC. *)
EXTENDS MessagePhase, TLC

CONSTANTS c1, c2, c3

TwoMilters == <<c1, c2>>
ThreeMilters == <<c1, c2, c3>>

AcceptAndTempfail == (c1 :> "accept") @@ (c2 :> "temporary-failure")
AllReject == [c \in {c1, c2, c3} |-> "reject"]
BothAccept == [c \in {c1, c2} |-> "accept"]

AllWanted == [c \in {c1, c2} |-> {}]
Picky == (c1 :> {"end-of-header"}) @@ (c2 :> {"header"}) @@ (c3 :> {"body"})
=============================================================================
