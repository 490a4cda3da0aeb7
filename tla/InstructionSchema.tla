-------------------------- MODULE InstructionSchema --------------------------
(***************************************************************************)
(* How the generated builders describe an instruction: its discriminator,  *)
(* the parameters Validate demands and those that may be left out, and its *)
(* accounts in order, each with the flags its setter gives it.             *)
(***************************************************************************)

R(name)  == [name |-> name, writable |-> FALSE, signer |-> FALSE]
W(name)  == [name |-> name, writable |-> TRUE, signer |-> FALSE]
S(name)  == [name |-> name, writable |-> FALSE, signer |-> TRUE]
WS(name) == [name |-> name, writable |-> TRUE, signer |-> TRUE]

Kind(id, required, optional, accounts) ==
  [id |-> id, required |-> required, optional |-> optional,
   accounts |-> accounts, readable |-> TRUE]

(* An instruction whose decoder does not read what its encoder writes: a   *)
(* text goes out without its length and is expected with one.              *)
Unreadable(id, required, optional, accounts) ==
  [Kind(id, required, optional, accounts) EXCEPT !.readable = FALSE]

=============================================================================
