-------------------------- MODULE MCConcurrencyGate --------------------------
(* ConcurrencyGate on a small instance.                                    *)
EXTENDS ConcurrencyGate, TLC

CONSTANTS c1, c2, c3, c4

FourCalls == {c1, c2, c3, c4}
=============================================================================
