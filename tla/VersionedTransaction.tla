------------------------- MODULE VersionedTransaction -------------------------
(***************************************************************************)
(* A versioned transaction between the one who builds it and a co-signer:  *)
(* TransactionMessage.CompileToV0Message and CompileToLegacyMessage,       *)
(* NewVersionedTransaction, Sign, AddSignature, Serialize and Deserialize  *)
(* (web3/transaction_versioned.go), VersionedMessage                       *)
(* (web3/message_compat.go) and decompilation, while the lookup tables     *)
(* grow.                                                                   *)
(***************************************************************************)
EXTENDS VersionedMessage

CONSTANTS
  Requests,     (* lists of instructions an application asks for             *)
  Orders,       (* orders of the keys a Go map may be walked in              *)
  TableStages,  (* the lookup tables at each time; entries are only appended *)
  TableChoices, (* the tables the owner compiles with, by position           *)
  CoSigner,     (* the key of the co-signer                                  *)
  SignerLists,  (* lists of keys the owner signs with                        *)
  MaxCompiles   (* bound: messages compiled                                  *)

ASSUME RequestsAssumption == Requests \subseteq Seq(Instruction)

(* A walk through the map meets every key once.                            *)
ASSUME OrdersAssumption ==
  \A order \in Orders :
    order \in Seq(AccountKeys) /\ ToSet(order) = AccountKeys /\ IsInjective(order)

(* The program that owns the tables only appends to them, and no two have  *)
(* the same key.                                                           *)
Grown(before, tables) ==
  \A n \in DOMAIN before :
    /\ n \in DOMAIN tables
    /\ tables[n].key = before[n].key
    /\ IsPrefix(before[n].entries, tables[n].entries)

ASSUME TablesAssumption ==
  /\ TableStages \in Seq(Seq(Table)) \ {<<>>}
  /\ \A s \in DOMAIN TableStages :
       /\ \A i, j \in DOMAIN TableStages[s] :
            TableStages[s][i].key = TableStages[s][j].key => i = j
       /\ \A t \in s .. Len(TableStages) : Grown(TableStages[s], TableStages[t])
  /\ TableChoices \subseteq Seq(DOMAIN TableStages[1])

ASSUME CoSignerAssumption == CoSigner \in AccountKeys
ASSUME CompilesAssumption == MaxCompiles \in Nat

VARIABLES
  meant,     (* history: what the application asked for                      *)
  asked,     (* TransactionMessage.instructions                              *)
  stage,     (* the lookup tables on the chain                               *)
  msg,       (* VersionedTransaction.Message, or why there is none           *)
  sigs,      (* VersionedTransaction.Signatures                              *)
  copy,      (* what the co-signer read, if it read anything                 *)
  reply,     (* the co-signer's signature on its way back                    *)
  late,      (* history: a signature for something else was added            *)
  wrapped,   (* history: an index was cut to a byte that says something else *)
  working,   (* FALSE after a panic                                          *)
  compiles   (* messages compiled                                            *)

versionedVars ==
  <<meant, asked, stage, msg, sigs, copy, reply, late, wrapped, working, compiles>>

NoMessage == Refused("none")
NoCopy    == [there |-> FALSE]
NoReply   == [there |-> FALSE]
NoSignature == [by |-> 0, over |-> <<>>]

-----------------------------------------------------------------------------
(* Faulty forms of definitions below, to test that the properties can fail.*)

KeptSignatures(m) == sigs
InOrderGiven(m, signers) ==
  [n \in DOMAIN sigs |->
     IF n \in DOMAIN signers /\ signers[n] \in ToSet(m.keys)
       THEN [by |-> signers[n], over |-> <<m>>] ELSE sigs[n]]
Forgiving(m) ==
  {[how |-> "no lookups",
    msg |-> [m EXCEPT !.lookups = <<>>,
                      !.ins = [n \in DOMAIN m.ins |->
                        [m.ins[n] EXCEPT !.accounts =
                           SelectSeq(@, LAMBDA i : i < Len(m.keys))]]]]}

-----------------------------------------------------------------------------
Tables == TableStages[stage]

(* The owner may have fetched the tables at any time before.               *)
Chosen(s, choice) == [n \in DOMAIN choice |-> TableStages[s][choice[n]]]

(* MessageV0.Serialize: the header's counts are cut to bytes.              *)
Bytes(m) ==
  [m EXCEPT !.required = @ % Radix, !.readonlySigned = @ % Radix,
            !.readonlyUnsigned = @ % Radix]

SignerKeys(m) == {m.keys[n] : n \in 1 .. m.required}

SignerIndex(m, k) == CHOOSE n \in 1 .. m.required : m.keys[n] = k

(* NewVersionedTransaction without signatures.                             *)
Blank(m) == [n \in 1 .. m.required |-> NoSignature]

VersionedInit ==
  /\ meant \in Requests
  /\ asked = meant
  /\ stage = 1
  /\ msg = NoMessage
  /\ sigs = <<>>
  /\ copy = NoCopy
  /\ reply = NoReply
  /\ late = FALSE
  /\ wrapped = FALSE
  /\ working = TRUE
  /\ compiles = 0

(* A key taken from a table at the index Radix: the limit lets it pass,    *)
(* and the byte says 0.                                                    *)
WrapsAround(m, ins, tables) ==
  /\ IsMessage(m)
  /\ \E t \in ToSet(tables) : \E k \in KeysOf(ins) \cap ToSet(t.entries) :
       k \notin ToSet(m.keys) /\ IndexIn(t.entries, k) = Radix

(* CompileToV0Message or CompileToLegacyMessage, and a new transaction.    *)
CompileTransaction(order, tables, version) ==
  /\ working
  /\ compiles < MaxCompiles
  /\ compiles' = compiles + 1
  /\ msg' = Compile(asked, order, tables, version)
  /\ sigs' = IF IsMessage(msg') THEN Blank(msg') ELSE <<>>
  /\ late' = FALSE
  /\ wrapped' = (wrapped \/ WrapsAround(msg', asked, tables))
  /\ UNCHANGED <<meant, asked, stage, copy, reply, working>>

(* Sign goes through the signers one by one; one that need not sign ends   *)
(* it with an error, and the signatures made before stay.                  *)
SignedBy(m, signers) ==
  LET strangers == {n \in DOMAIN signers : signers[n] \notin SignerKeys(m)}
      those == IF strangers = {} THEN ToSet(signers)
               ELSE ToSet(SubSeq(signers, 1, Min(strangers) - 1))
  IN [n \in DOMAIN sigs |->
        IF m.keys[n] \in those THEN [by |-> m.keys[n], over |-> <<Bytes(m)>>]
                               ELSE sigs[n]]

Sign(signers) ==
  /\ working
  /\ IsMessage(msg)
  /\ sigs' = SignedBy(msg, signers)
  /\ UNCHANGED <<meant, asked, stage, msg, copy, reply, late, wrapped, working, compiles>>

(* What VersionedTransaction.Deserialize makes of what arrives.  The bytes *)
(* may end anywhere: where a length is missing the instructions or the     *)
(* lookups are taken to be none, and bytes missing from the data, or from  *)
(* the last list of indexes, are zeros, of which the last one stands for   *)
(* all.  Anything else is an error, the panic on an empty message          *)
(* (VersionedMessage.Deserialize) included.  In a node's JSON a version 0  *)
(* message is taken for a legacy one.                                      *)
Readings(m) ==
  LET wire == Bytes(m)
      bare == [wire EXCEPT !.lookups = <<>>]
      n    == Len(m.ins)
      l    == Len(m.lookups)
  IN {[how |-> "whole", msg |-> wire],
      [how |-> "json", msg |-> [wire EXCEPT !.version = "legacy", !.lookups = <<>>]],
      [how |-> "no lookups", msg |-> bare],
      [how |-> "no instructions", msg |-> [bare EXCEPT !.ins = <<>>]]}
     \cup (IF n = 0 THEN {} ELSE
             {[how |-> "short data", msg |-> [bare EXCEPT !.ins[n].data = "cut"]]})
     \cup (IF l = 0 \/ Len(m.lookups[l].readonly) < 2 THEN {} ELSE
             {[how |-> "short indexes",
               msg |-> [wire EXCEPT !.lookups[l].readonly[Len(m.lookups[l].readonly)] = 0]]})

Send ==
  /\ working
  /\ IsMessage(msg)
  /\ \E r \in Readings(msg) :
       copy' = [there |-> TRUE, how |-> r.how, msg |-> r.msg, round |-> compiles]
  /\ UNCHANGED <<meant, asked, stage, msg, sigs, reply, late, wrapped, working, compiles>>

(* The co-signer signs what it read, if its signature is asked for; counts *)
(* that were read from bytes are not cut once more.                        *)
CoSign ==
  /\ working
  /\ copy.there
  /\ CoSigner \in SignerKeys(copy.msg)
  /\ reply' = [there |-> TRUE, by |-> CoSigner, over |-> <<copy.msg>>,
               how |-> copy.how, round |-> copy.round]
  /\ UNCHANGED <<meant, asked, stage, msg, sigs, copy, late, wrapped, working, compiles>>

(* AddSignature does not look at what was signed, and panics where no such *)
(* signature is asked for.                                                 *)
AddSignature ==
  /\ working
  /\ reply.there
  /\ IsMessage(msg)
  /\ IF reply.by \in SignerKeys(msg)
       THEN /\ sigs' = [sigs EXCEPT ![SignerIndex(msg, reply.by)] =
                          [by |-> reply.by, over |-> reply.over]]
            /\ late' = (late \/ reply.round # compiles \/ reply.how # "whole")
            /\ UNCHANGED working
       ELSE working' = FALSE /\ UNCHANGED <<sigs, late>>
  /\ reply' = NoReply
  /\ UNCHANGED <<meant, asked, stage, msg, copy, wrapped, compiles>>

(* NewTransactionMessageFrom, to compile once more: with the tables as     *)
(* they are on the chain by now.                                           *)
DecompileTransaction ==
  /\ working
  /\ IsMessage(msg)
  /\ LET read == Decompile(msg, Tables)
     IN asked' = IF read.ok THEN read.ins ELSE asked
  /\ UNCHANGED <<meant, stage, msg, sigs, copy, reply, late, wrapped, working, compiles>>

(* Not this code: the authority of a table extends it.                     *)
GrowTables ==
  /\ stage < Len(TableStages)
  /\ stage' = stage + 1
  /\ UNCHANGED <<meant, asked, msg, sigs, copy, reply, late, wrapped, working, compiles>>

CompileV0 ==
  \E order \in Orders, s \in 1 .. stage, choice \in TableChoices :
    CompileTransaction(order, Chosen(s, choice), "v0")

CompileLegacy ==
  \E order \in Orders : CompileTransaction(order, <<>>, "legacy")

VersionedNext ==
  \/ CompileV0
  \/ CompileLegacy
  \/ \E signers \in SignerLists : Sign(signers)
  \/ Send
  \/ CoSign
  \/ AddSignature
  \/ DecompileTransaction
  \/ GrowTables

VersionedSpec == VersionedInit /\ [][VersionedNext]_versionedVars

-----------------------------------------------------------------------------
(* Properties.                                                             *)

Entries == [by : AccountKeys \cup {0}, over : Seq(Message)]

(* The message, the signatures and the counters hold what their Go types   *)
(* allow, and there is one signature for each key that must sign.          *)
VersionedTypeOK ==
  /\ stage \in DOMAIN TableStages
  /\ IsMessage(msg) => msg \in Message /\ sigs \in Seq(Entries)
  /\ Len(sigs) = IF IsMessage(msg) THEN msg.required ELSE 0
  /\ asked \in Seq(Instruction) /\ meant \in Seq(Instruction)
  /\ copy.there => copy.msg \in Message
  /\ reply.there => reply.by \in AccountKeys /\ reply.over \in Seq(Message)
  /\ late \in BOOLEAN /\ wrapped \in BOOLEAN /\ working \in BOOLEAN
  /\ compiles \in 0 .. MaxCompiles

(* Instructions mean the same if they run the same programs on the same    *)
(* accounts, with the flags the transaction as a whole gives an account.   *)
SameMeaning(ins, wanted) ==
  /\ Len(ins) = Len(wanted)
  /\ \A n \in DOMAIN ins :
       /\ ins[n].program = wanted[n].program
       /\ ins[n].data = wanted[n].data
       /\ Len(ins[n].metas) = Len(wanted[n].metas)
       /\ \A m \in DOMAIN ins[n].metas :
            LET meta == ins[n].metas[m]
            IN /\ meta.key = wanted[n].metas[m].key
               /\ meta.signer <=> Signer(wanted, meta.key)
               /\ meta.writable <=> Writable(wanted, meta.key)

(* Compiled with whatever tables, in whatever order of the map, and after  *)
(* any number of decompilations and compilations while the tables grew, a  *)
(* message leads every index, through the tables, to the account that was  *)
(* asked for, and grants it what was asked for it; the fee payer is first, *)
(* and programs are among the message's own keys, never looked up.         *)
(* (Not so with a table in which a key stands at the index Radix.)         *)
MessageMeansWhatWasAsked ==
  IsMessage(msg) /\ ~ wrapped =>
    LET read == Decompile(msg, Tables)
    IN /\ read.ok /\ read.payer = Payer /\ SameMeaning(read.ins, meant)
       /\ \A n \in DOMAIN msg.ins : msg.ins[n].program < Len(msg.keys)

(* A compilation is refused only for a reason: too many accounts, a table  *)
(* too long for its indexes, or, by chance, since the map's order decides  *)
(* which writable signer comes first, when there is one beside the payer.  *)
(* (After a message with a wrong byte was decompiled, what is compiled is  *)
(* no longer what was asked.)                                              *)
RefusalsHaveReason ==
  ~ IsMessage(msg) /\ msg # NoMessage /\ ~ wrapped =>
    CASE msg.refused \in {"static", "accounts"} ->
           Cardinality(KeysOf(meant)) > Radix
      [] msg.refused = "payer" ->
           \E k \in KeysOf(meant) \ {Payer} : Signer(meant, k) /\ Writable(meant, k)
      [] OTHER ->
           \E t \in ToSet(Tables) :
             \E k \in KeysOf(meant) \cap ToSet(t.entries) : IndexIn(t.entries, k) > Radix

(* Every signature of a transaction is in the place of its key and is over *)
(* its message, unless the co-signer's answer came too late, after another *)
(* compilation, or to a message that was not whole.                        *)
SignaturesVerify ==
  IsMessage(msg) =>
    \A n \in DOMAIN sigs :
      sigs[n] # NoSignature =>
        /\ sigs[n].by = msg.keys[n]
        /\ late \/ sigs[n].over = <<Bytes(msg)>>

(* A reader to whom the lookups got lost, in a cut transmission or in JSON,*)
(* is not misled: what it decompiles is what the message means, or there   *)
(* is an error.                                                            *)
LostLookupsAreNoticed ==
  copy.there /\ copy.how \in {"whole", "json", "no lookups"} /\ ~ wrapped =>
    LET read == Decompile(copy.msg, Tables)
    IN read.ok => SameMeaning(read.ins, meant)
=============================================================================
