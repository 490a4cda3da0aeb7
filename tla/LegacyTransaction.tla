--------------------------- MODULE LegacyTransaction ---------------------------
(***************************************************************************)
(* Transaction (web3/transaction_legacy.go): the life of one transaction   *)
(* in the hands of its owner, from its first instruction to the wire and,  *)
(* through PopulateTransaction, back.                                      *)
(*                                                                         *)
(* The message is compiled anew by Sign and by Serialize from whatever the *)
(* fields hold at the time, and both may replace the signatures.  An entry *)
(* of the signatures is a key and the message its signature was made over, *)
(* or None for a signature of zeros; verification compares messages.  The  *)
(* signature's own bytes, and those of the wire, are left out.             *)
(***************************************************************************)
EXTENDS LegacyMessage

CONSTANTS
  Instructions,     (* what the owner may add                               *)
  Nonces,           (* NonceInformation the owner may set                   *)
  Wallets,          (* keys the owner can sign with, or have pay the fee     *)
  None,             (* nil                                                  *)
  MaxEdits,         (* bound: changes of the fields                         *)
  MaxSigners        (* bound: signers of one call of Sign                   *)

ASSUME PoolAssumption ==
  /\ Wallets \subseteq Keys
  /\ Instructions \subseteq Instruction
  /\ Nonces \subseteq [hash : Hashes, ins : Instruction]
Entry == [key : Keys, over : Message \cup {None}]
Transmission == [signatures : Seq(Entry), message : Message]
Request == [ins : Seq(Instruction), payer : Keys, promoted : SUBSET Keys]

ASSUME NoneAssumption ==
  /\ None \notin Keys /\ None \notin Hashes /\ None \notin Nonces
  /\ None \notin Message /\ None \notin Transmission /\ None \notin Request

VARIABLES
  ins, feePayer, recentBlockhash, nonceInfo,  (* of the Transaction          *)
  signatures,  (* of the Transaction                                         *)
  result,      (* what the last call returned                                *)
  wire,        (* what it put on the wire, or None                           *)
  asked,       (* history: what the fields asked for when wire was made      *)
  standing,    (* history: the message signed last, while the fields stand   *)
  edits        (* changes of the fields so far                               *)

fields == <<ins, feePayer, recentBlockhash, nonceInfo>>
vars == <<ins, feePayer, recentBlockhash, nonceInfo, signatures, result, wire,
          asked, standing, edits>>

Init ==
  /\ ins = <<>>
  /\ feePayer = None
  /\ recentBlockhash = None
  /\ nonceInfo = None
  /\ signatures = <<>>
  /\ result = "ok"
  /\ wire = None
  /\ asked = None
  /\ standing = None
  /\ edits = 0

-----------------------------------------------------------------------------
(* compileMessage and compile.                                             *)

(* A nonce transaction begins with the advance of its nonce.               *)
AllInstructions ==
  IF nonceInfo = None \/ ins[1] = nonceInfo.ins THEN ins
                                                ELSE <<nonceInfo.ins>> \o ins

Hash == IF nonceInfo = None THEN recentBlockhash ELSE nonceInfo.hash

KeysOf(entries) == [n \in DOMAIN entries |-> entries[n].key]

Unsigned(keys) == [n \in DOMAIN keys |-> [key |-> keys[n], over |-> None]]

(* Without an explicit fee payer the first who signs pays.                 *)
Payer(entries) == IF feePayer # None THEN feePayer ELSE entries[1].key

(* A faulty form of Obstacle, to test that the properties can fail: the     *)
(* check for a blockhash is missing.                                       *)
ObstacleButHash(entries) ==
  CASE nonceInfo # None /\ ins = <<>>    -> "panic"
    [] feePayer = None /\ entries = <<>> -> "no fee payer"
    [] ~Known(AllInstructions, Payer(entries), ToSet(KeysOf(entries)))
                                         -> "unknown signer"
    [] OTHER                             -> "none"

(* The reason for which compileMessage does not return a message.  With a  *)
(* nonce and no instruction it indexes an empty slice.                     *)
Obstacle(entries) ==
  CASE nonceInfo # None /\ ins = <<>>    -> "panic"
    [] Hash = None                       -> "no blockhash"
    [] feePayer = None /\ entries = <<>> -> "no fee payer"
    [] ~Known(AllInstructions, Payer(entries), ToSet(KeysOf(entries)))
                                         -> "unknown signer"
    [] OTHER                             -> "none"

MessageOf(entries) ==
  Compile(AllInstructions, Payer(entries), ToSet(KeysOf(entries)), Hash)

(* The entries stay if they are those of the keys that sign, in the order  *)
(* of the message; otherwise all of them are blank again.                  *)
Aligned(entries, msg) ==
  IF KeysOf(entries) = SignedKeys(msg) THEN entries ELSE Unsigned(SignedKeys(msg))

-----------------------------------------------------------------------------
(* The owner.                                                              *)

NoWire == wire' = None /\ asked' = None

(* A field changes: what was signed need not stand any more.               *)
Edit ==
  /\ edits < MaxEdits
  /\ edits' = edits + 1
  /\ standing' = None
  /\ result' = "ok"
  /\ NoWire
  /\ UNCHANGED signatures

AddInstruction(i) ==
  /\ ins' = Append(ins, i)
  /\ Edit
  /\ UNCHANGED <<feePayer, recentBlockhash, nonceInfo>>

SetFeePayer(k) ==
  /\ feePayer' = k
  /\ Edit
  /\ UNCHANGED <<ins, recentBlockhash, nonceInfo>>

SetRecentBlockhash(h) ==
  /\ recentBlockhash' = h
  /\ Edit
  /\ UNCHANGED <<ins, feePayer, nonceInfo>>

SetNonceInfo(n) ==
  /\ nonceInfo' = n
  /\ Edit
  /\ UNCHANGED <<ins, feePayer, recentBlockhash>>

-----------------------------------------------------------------------------
(* Sign.                                                                   *)

UniqueSigners(signers) == FirstOfEach(signers)

SignFails(signers) ==
  LET entries == Unsigned(UniqueSigners(signers)) IN
  /\ Obstacle(entries) # "none"
  /\ result' = Obstacle(entries)
  /\ signatures' = entries
  /\ standing' = None
  /\ NoWire
  /\ UNCHANGED <<fields, edits>>

(* _partialSign: the first "done" signers have signed; the next one, if    *)
(* there is one, returns an error or is not found among the entries.       *)
Sign(signers, done) ==
  LET unique  == UniqueSigners(signers)
      msg     == MessageOf(Unsigned(unique))
      entries == Aligned(Unsigned(unique), msg)
      signed  == ToSet(SubSeq(unique, 1, done))
  IN
  /\ Obstacle(Unsigned(unique)) = "none"
  /\ done <= Len(unique)
  /\ signed \subseteq ToSet(KeysOf(entries))
  /\ signatures' = [n \in DOMAIN entries |->
                     IF entries[n].key \in signed
                     THEN [entries[n] EXCEPT !.over = msg] ELSE entries[n]]
  /\ \/ /\ done = Len(unique)
        /\ result' = "ok"
        /\ standing' = msg
     \/ /\ done < Len(unique)
        /\ result' = IF unique[done + 1] \in ToSet(KeysOf(entries))
                     THEN "signer error" ELSE "signer not found"
        /\ standing' = None
  /\ NoWire
  /\ UNCHANGED <<fields, edits>>

-----------------------------------------------------------------------------
(* Serialize.                                                              *)

(* A faulty form of Signedness: a missing signature passes.                *)
InvalidOnly(entries, msg) ==
  IF \E n \in DOMAIN entries : entries[n].over \notin {None, msg}
  THEN "invalid signature" ELSE "ok"

(* getMessageSignednessErrors, with all signatures required.               *)
Signedness(entries, msg) ==
  CASE \E n \in DOMAIN entries : entries[n].over \notin {None, msg}
                                                   -> "invalid signature"
    [] \E n \in DOMAIN entries : entries[n].over = None -> "missing signature"
    [] OTHER                                       -> "ok"

SerializeFails ==
  /\ Obstacle(signatures) # "none"
  /\ result' = Obstacle(signatures)
  /\ NoWire
  /\ UNCHANGED <<fields, signatures, standing, edits>>

(* The accounts that sign although neither an instruction nor the payment  *)
(* of the fee asks them to.                                                *)
Promoted ==
  {k \in ToSet(KeysOf(signatures)) :
     k # Payer(signatures) /\ k \notin Signers(AllInstructions)}

(* The packet limit is a matter of bytes, and may or may not be exceeded.  *)
Serialize ==
  LET msg     == MessageOf(signatures)
      entries == Aligned(signatures, msg)
  IN
  /\ Obstacle(signatures) = "none"
  /\ signatures' = entries
  /\ \/ /\ Signedness(entries, msg) = "ok"
        /\ result' = "ok"
        /\ wire' = [signatures |-> entries, message |-> msg]
        /\ asked' = [ins |-> AllInstructions, payer |-> Payer(signatures),
                     promoted |-> Promoted]
     \/ /\ Signedness(entries, msg) = "ok"
        /\ result' = "too large"
        /\ NoWire
     \/ /\ Signedness(entries, msg) # "ok"
        /\ result' = Signedness(entries, msg)
        /\ NoWire
  /\ UNCHANGED <<fields, standing, edits>>

-----------------------------------------------------------------------------
(* PopulateTransaction, from the message and the signatures of the wire.   *)
(* The header of a message with promoted accounts may be wrong, and what   *)
(* is taken from it is then not what was signed.                           *)
Populate ==
  /\ wire # None
  /\ ins' = Decompile(wire.message, ToSet(KeysOf(wire.signatures)))
  /\ feePayer' = wire.message.keys[1]
  /\ recentBlockhash' = wire.message.hash
  /\ nonceInfo' = None
  /\ signatures' = wire.signatures
  /\ result' = "ok"
  /\ standing' = IF asked.promoted = {} THEN wire.message ELSE None
  /\ NoWire
  /\ UNCHANGED edits

-----------------------------------------------------------------------------
SignerLists == UNION {[1 .. n -> Wallets] : n \in 0 .. MaxSigners}

Next ==
  \/ \E i \in Instructions : AddInstruction(i)
  \/ \E k \in Wallets : SetFeePayer(k)
  \/ \E h \in Hashes : SetRecentBlockhash(h)
  \/ \E n \in Nonces : SetNonceInfo(n)
  \/ \E signers \in SignerLists : SignFails(signers)
  \/ \E signers \in SignerLists : \E done \in 0 .. MaxSigners : Sign(signers, done)
  \/ SerializeFails
  \/ Serialize
  \/ Populate

Spec == Init /\ [][Next]_vars

-----------------------------------------------------------------------------
(* Properties.                                                             *)

Results == {"ok", "panic", "no blockhash", "no fee payer", "unknown signer",
            "signer error", "signer not found", "invalid signature",
            "missing signature", "too large"}

TypeOK ==
  /\ ins \in Seq(Instruction)
  /\ feePayer \in Keys \cup {None}
  /\ recentBlockhash \in Hashes \cup {None}
  /\ nonceInfo \in Nonces \cup {None}
  /\ signatures \in Seq(Entry)
  /\ result \in Results
  /\ wire \in Transmission \cup {None}
  /\ asked \in Request \cup {None}
  /\ (asked = None) = (wire = None)
  /\ standing \in Message \cup {None}
  /\ edits \in Nat

(* "The signatures must match the first numRequiredSignatures of           *)
(* accountKeys" (MessageHeader): a transaction that goes on the wire has   *)
(* one signature per account that must sign, in the order of the message,  *)
(* and each was made over this very message.                               *)
WireIsSigned ==
  wire # None =>
    /\ KeysOf(wire.signatures) = SignedKeys(wire.message)
    /\ \A n \in DOMAIN wire.signatures : wire.signatures[n].over = wire.message

(* What a reader of the message makes of the accounts is what was asked.   *)
SomeMeta(list, k, flag) ==
  \E i \in DOMAIN list : \E a \in DOMAIN list[i].metas :
    list[i].metas[a].key = k /\ list[i].metas[a][flag]

HeaderIsRight ==
  LET msg == wire.message IN
    \A n \in DOMAIN msg.keys :
      LET k == msg.keys[n] IN
        /\ IsAccountSigner(msg, n) <=>
             \/ k \in {asked.payer} \cup asked.promoted
             \/ SomeMeta(asked.ins, k, "signer")
        /\ IsAccountWritable(msg, n) <=>
             k = asked.payer \/ SomeMeta(asked.ins, k, "writable")

(* "The last numReadonlySignedAccounts of the signed keys are read-only    *)
(* accounts" (MessageHeader).                                              *)
HeaderDescribesKeys == wire # None => HeaderIsRight

(* The same when nobody signs who was not asked to; and always, the fee    *)
(* payer comes first and the indices lead to the accounts of the           *)
(* instructions.                                                           *)
WireAsksWhatWasAsked ==
  wire # None =>
    /\ asked.promoted = {} => HeaderIsRight
    /\ wire.message.keys[1] = asked.payer
    /\ LET got == Decompile(wire.message, {}) IN
         \A n \in DOMAIN asked.ins :
           /\ got[n].program = asked.ins[n].program
           /\ \A a \in DOMAIN asked.ins[n].metas :
                got[n].metas[a].key = asked.ins[n].metas[a].key

(* Serialize and PopulateTransaction rely on it: compiling again gives the *)
(* message that was signed, as long as nobody has touched the fields, and  *)
(* leaves the signatures in place.                                         *)
SignedMessageStands ==
  standing # None =>
    /\ Obstacle(signatures) = "none"
    /\ MessageOf(signatures) = standing
    /\ Aligned(signatures, standing) = signatures

(* "unknown signer" of _addSignature: whoever signs has an entry, because  *)
(* compile made room for every signer, in whatever order they came.        *)
SignersAreFound == result # "signer not found"

=============================================================================
