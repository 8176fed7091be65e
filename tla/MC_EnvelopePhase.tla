-------------------------- MODULE MC_EnvelopePhase --------------------------
(* Instances of EnvelopePhase for TLC. *)
EXTENDS EnvelopePhase, TLC

CONSTANTS c1, c2

TwoChildren == {c1, c2}

AcceptAndTempfail == (c1 :> "accept") @@ (c2 :> "temporary-failure")
BothReject == [c \in TwoChildren |-> "reject"]

HeloSkipped == (c1 :> {}) @@ (c2 :> {"helo", "unknown"})
=============================================================================
