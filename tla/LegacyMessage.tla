---------------------------- MODULE LegacyMessage ----------------------------
(***************************************************************************)
(* How a legacy transaction becomes a message: Transaction.compileMessage  *)
(* (web3/transaction_legacy.go) with AccountMetaSlice and Message          *)
(* (web3/message_legacy.go).                                               *)
(*                                                                         *)
(* A public key is a number, and numbers are ordered as the base58 texts   *)
(* of the keys are.  An instruction is its program and its account metas;  *)
(* its data is copied and left out.  Positions count from 1.               *)
(***************************************************************************)
EXTENDS Integers, Sequences, FiniteSets, SequencesExt, Selection

CONSTANTS
  Keys,    (* public keys                                                    *)
  Hashes   (* blockhashes and nonce values                                   *)

ASSUME KeysAssumption == Keys \subseteq Nat

Metas == [key : Keys, signer : BOOLEAN, writable : BOOLEAN]
Instruction == [program : Keys, metas : Seq(Metas)]
Indices == Nat
CompiledInstruction == [program : Indices, accounts : Seq(Indices)]
Message ==
  [required : Nat, readonlySigned : Nat, readonlyUnsigned : Nat,
   keys : Seq(Keys), hash : Hashes, ins : Seq(CompiledInstruction)]

-----------------------------------------------------------------------------
(* Faulty forms of definitions below, to test that the properties can fail.*)

LastMetaWins(ins) ==
  LET all == FlattenSeq([n \in DOMAIN ins |-> ins[n].metas])
  IN {k \in {all[n].key : n \in DOMAIN all} :
        all[Max({n \in DOMAIN all : all[n].key = k})].writable}
SignWhenAsked(ins, payer, supplied) ==
  {payer} \cup {k \in supplied : \E n \in DOMAIN ins : \E m \in ToSet(ins[n].metas) :
                                   m.key = k /\ m.signer}
WritableOffByOne(msg, n) ==
  IF n <= msg.required THEN n < msg.required - msg.readonlySigned
                       ELSE n <= Len(msg.keys) - msg.readonlyUnsigned

-----------------------------------------------------------------------------
(* TransactionInstructionSlice.Metas and the culling of duplicates: what   *)
(* any instruction asks of an account holds for the account.  A program is *)
(* an account, and asks for nothing.                                       *)

AllMetas(ins) == UNION {ToSet(ins[n].metas) : n \in DOMAIN ins}

Accounts(ins) ==
  {m.key : m \in AllMetas(ins)} \cup {ins[n].program : n \in DOMAIN ins}

Signers(ins) == {m.key : m \in {a \in AllMetas(ins) : a.signer}}

Writables(ins) == {m.key : m \in {a \in AllMetas(ins) : a.writable}}

(* AccountMetaSlice.Sort, by ByPriority.Less, among accounts that all sign *)
(* or all do not: writable accounts first, and then by key.                *)
ByPriority(keys, writables) ==
  Ascending(keys \cap writables) \o Ascending(keys \ writables)

Known(ins, payer, supplied) == supplied \subseteq Accounts(ins) \cup {payer}

(* Those who sign are the accounts asked to, the fee payer, and whoever    *)
(* has a signature in the transaction already ("Disallow unknown signers").*)
Signing(ins, payer, supplied) == Signers(ins) \cup {payer} \cup supplied

(* The accounts are sorted, signers first, and the fee payer is moved to   *)
(* the front (MoveToFirst), before anybody is made to sign.  ToKeys then   *)
(* puts those who sign first, and each part stays in order: an account     *)
(* that was made to sign comes after the ones that were asked to.          *)
SignedPart(ins, payer, supplied) ==
  LET others == Accounts(ins) \ {payer}
      asked  == others \cap Signers(ins)
      made   == (others \ Signers(ins)) \cap Signing(ins, payer, supplied)
  IN <<payer>> \o ByPriority(asked, Writables(ins)) \o ByPriority(made, Writables(ins))

UnsignedPart(ins, payer, supplied) ==
  ByPriority(Accounts(ins) \ Signing(ins, payer, supplied), Writables(ins))

IndexIn(keys, k) == CHOOSE n \in DOMAIN keys : keys[n] = k

(* ToHeader counts; the instructions refer to positions.                   *)
Compile(ins, payer, supplied, hash) ==
  LET signed    == SignedPart(ins, payer, supplied)
      unsigned  == UnsignedPart(ins, payer, supplied)
      writables == Writables(ins) \cup {payer}
      keys      == signed \o unsigned
  IN [required         |-> Len(signed),
      readonlySigned   |-> Cardinality(ToSet(signed) \ writables),
      readonlyUnsigned |-> Cardinality(ToSet(unsigned) \ writables),
      keys             |-> keys,
      hash             |-> hash,
      ins              |-> [n \in DOMAIN ins |->
        [program  |-> IndexIn(keys, ins[n].program),
         accounts |-> [a \in DOMAIN ins[n].metas |-> IndexIn(keys, ins[n].metas[a].key)]]]]

-----------------------------------------------------------------------------
(* Reading a message.                                                      *)

SignedKeys(msg) == [n \in 1 .. msg.required |-> msg.keys[n]]

IsAccountSigner(msg, n) == n <= msg.required

IsAccountWritable(msg, n) ==
  IF n <= msg.required THEN n <= msg.required - msg.readonlySigned
                       ELSE n <= Len(msg.keys) - msg.readonlyUnsigned

(* The instructions PopulateTransaction takes from a message, where every  *)
(* key in "supplied" comes with a signature.                               *)
Decompile(msg, supplied) ==
  [n \in DOMAIN msg.ins |->
    [program |-> msg.keys[msg.ins[n].program],
     metas   |-> [a \in DOMAIN msg.ins[n].accounts |->
       LET at == msg.ins[n].accounts[a] IN
         [key      |-> msg.keys[at],
          signer   |-> msg.keys[at] \in supplied \/ IsAccountSigner(msg, at),
          writable |-> IsAccountWritable(msg, at)]]]]

=============================================================================
