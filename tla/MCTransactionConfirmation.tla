---------------------- MODULE MCTransactionConfirmation ----------------------
(* Instances of TransactionConfirmation for TLC: the configurations choose  *)
(* the strategies and the commitments.                                      *)
EXTENDS TransactionConfirmation
=============================================================================
