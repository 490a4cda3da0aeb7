--------------------------- MODULE SubmissionLedger ---------------------------
(***************************************************************************)
(* What the blockhash cache of web3/connection.go promises to the callers  *)
(* of SendTransaction: a transaction is admitted only under the blockhash  *)
(* that is current, the current blockhash only moves forward, and a        *)
(* signature reaches the cluster at most once.                             *)
(***************************************************************************)
EXTENDS Integers

CONSTANTS Messages, MaxBlock

VARIABLES
  epoch,     (* the current blockhash, 0 before the first one                *)
  admitted,  (* signatures admitted and neither submitted nor dropped        *)
  submitted  (* how often each signature was submitted                       *)

Signed == Messages \X (1 .. MaxBlock)

Init ==
  /\ epoch = 0
  /\ admitted = {}
  /\ submitted = [s \in Signed |-> 0]

Advance(h) ==
  /\ h > epoch
  /\ epoch' = h
  /\ UNCHANGED <<admitted, submitted>>

Admit(s) ==
  /\ s[2] = epoch
  /\ submitted[s] = 0
  /\ admitted' = admitted \cup {s}
  /\ UNCHANGED <<epoch, submitted>>

Submit(s) ==
  /\ s \in admitted
  /\ submitted[s] = 0
  /\ submitted' = [submitted EXCEPT ![s] = 1]
  /\ admitted' = admitted \ {s}
  /\ UNCHANGED epoch

Drop(s) ==
  /\ s \in admitted
  /\ admitted' = admitted \ {s}
  /\ UNCHANGED <<epoch, submitted>>

Next ==
  \/ \E h \in 1 .. MaxBlock : Advance(h)
  \/ \E s \in Signed : Admit(s) \/ Submit(s) \/ Drop(s)

Spec == Init /\ [][Next]_<<epoch, admitted, submitted>>

=============================================================================
