-------------------------- MODULE MCLegacyTransaction --------------------------
(* Instances of LegacyTransaction for TLC.  Key 4 is a program, 3 an        *)
(* account that need not sign, 2 a read-only signer, 1 usually pays.        *)
EXTENDS LegacyTransaction

CONSTANTS h, n    (* a blockhash and the value of a nonce *)

Meta(k, s, w) == [key |-> k, signer |-> s, writable |-> w]

Advance  == [program |-> 4, metas |-> <<Meta(3, FALSE, TRUE), Meta(2, TRUE, FALSE)>>]
Transfer == [program |-> 4, metas |-> <<Meta(2, TRUE, TRUE), Meta(3, FALSE, FALSE)>>]

MCInstructions == {Advance, Transfer}
MCNonces == {[hash |-> n, ins |-> Advance]}
=============================================================================
