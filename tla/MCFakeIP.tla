------------------------------ MODULE MCFakeIP -------------------------------
(* FakeIP with its domains as model values. *)
EXTENDS FakeIP, TLC

CONSTANTS d1, d2, d3, d4, d5

MCDomains == {d1, d2, d3, d4, d5}

=============================================================================
