---------------------- MODULE VersionedTransactionProofs ----------------------
(***************************************************************************)
(* Proofs about VersionedTransaction, for any requests, tables, orders of  *)
(* the map, signers and number of compilations: the signatures a           *)
(* transaction carries verify; a message means what was asked for, also    *)
(* after it was decompiled and compiled again while the tables grew; a     *)
(* refusal has a reason; and lost lookups are noticed.                     *)
(*                                                                         *)
(* The second half goes through a compilation: what one table gives        *)
(* (Drained, TwoDrains, ExtractedOne), what all of them give               *)
(* (ExtractedKnown), how the keys are laid out (FlagsByPlace), where the   *)
(* indexes lead (InstructionsIndexed), how it is read (DecompileKnown,     *)
(* MadeMeans), and how it is read later (GrownReadsSame, LostLookups).     *)
(***************************************************************************)
EXTENDS VersionedTransaction, DataLemmas

(* A message that travels, or a signature of one, is of a compilation that *)
(* has been; if it is of the last one and was read whole, it is of what    *)
(* the transaction holds.                                                  *)
Rounds ==
  /\ compiles \in Nat
  /\ copy.there => copy.round \in Nat /\ copy.round <= compiles
  /\ reply.there => reply.round \in Nat /\ reply.round <= compiles

CopyIsCurrent ==
  copy.there /\ copy.how = "whole" /\ copy.round = compiles =>
    copy.msg = Bytes(msg)

ReplyIsCurrent ==
  reply.there /\ reply.how = "whole" /\ reply.round = compiles =>
    reply.over = <<Bytes(msg)>>

SignaturesInv == Rounds /\ CopyIsCurrent /\ ReplyIsCurrent /\ SignaturesVerify

-----------------------------------------------------------------------------
(* AddSignature finds a place that holds the key it looks for.             *)
LEMMA PlaceOfSigner ==
  ASSUME NEW m, NEW k \in SignerKeys(m)
  PROVE  m.keys[SignerIndex(m, k)] = k
  BY DEF SignerKeys, SignerIndex

(* What is read whole is what the message is in bytes.                     *)
LEMMA WholeReading ==
  ASSUME NEW m, NEW r \in Readings(m), r.how = "whole"
  PROVE  r.msg = Bytes(m)
  <1>1. \/ r = [how |-> "whole", msg |-> Bytes(m)]
        \/ \E h \in {"json", "no lookups", "no instructions", "short data", "short indexes"} :
             \E x : r = [how |-> h, msg |-> x]
    BY Zenon DEF Readings
  <1>2. ASSUME NEW h \in {"json", "no lookups", "no instructions", "short data", "short indexes"},
               NEW x, r = [how |-> h, msg |-> x]
        PROVE  FALSE
    <2>1. r.how = h
      BY <1>2
    <2> QED BY <2>1
  <1>3. r = [how |-> "whole", msg |-> Bytes(m)]
    BY <1>1, <1>2, Zenon
  <1>4. [how |-> "whole", msg |-> Bytes(m)].msg = Bytes(m)
    OBVIOUS
  <1> QED BY <1>3, <1>4, Zenon

LEMMA SignaturesInit == VersionedInit => SignaturesInv
  BY DEF VersionedInit, SignaturesInv, Rounds, CopyIsCurrent, ReplyIsCurrent,
         SignaturesVerify, NoCopy, NoReply, NoMessage, IsMessage, Refused
LEMMA SignaturesStep ==
  ASSUME SignaturesInv, [VersionedNext]_versionedVars
  PROVE  SignaturesInv'
  <1> USE DEF SignaturesInv
  <1>1. ASSUME NEW order, NEW tables, NEW version,
               CompileTransaction(order, tables, version)
        PROVE  SignaturesInv'
    <2>1. Rounds'
      BY <1>1 DEF CompileTransaction, Rounds
    <2>2. CopyIsCurrent' /\ ReplyIsCurrent'
      BY <1>1 DEF CompileTransaction, Rounds, CopyIsCurrent, ReplyIsCurrent
    <2>3. SignaturesVerify'
      BY <1>1 DEF CompileTransaction, SignaturesVerify, Blank
    <2> QED BY <2>1, <2>2, <2>3
  <1>2. ASSUME NEW signers, Sign(signers)
        PROVE  SignaturesInv'
    <2>1. Rounds' /\ CopyIsCurrent' /\ ReplyIsCurrent'
      BY <1>2 DEF Sign, Rounds, CopyIsCurrent, ReplyIsCurrent
    <2>2. ASSUME NEW n \in DOMAIN sigs'
          PROVE  /\ n \in DOMAIN sigs
                 /\ \/ sigs'[n] = [by |-> msg.keys[n], over |-> <<Bytes(msg)>>]
                    \/ sigs'[n] = sigs[n]
      BY <1>2 DEF Sign, SignedBy
    <2>3. SignaturesVerify'
      BY <1>2, <2>2 DEF Sign, SignaturesVerify
    <2> QED BY <2>1, <2>3
  <1>3. CASE Send
    <2>1. PICK r \in Readings(msg) :
            copy' = [there |-> TRUE, how |-> r.how, msg |-> r.msg, round |-> compiles]
      BY <1>3 DEF Send
    <2>2. UNCHANGED <<msg, sigs, reply, late, compiles>>
      BY <1>3 DEF Send
    <2>3. Rounds'
      BY <2>1, <2>2 DEF Rounds
    <2>4. CopyIsCurrent'
      BY <2>1, <2>2, WholeReading DEF CopyIsCurrent
    <2>5. ReplyIsCurrent' /\ SignaturesVerify'
      BY <2>2 DEF ReplyIsCurrent, SignaturesVerify
    <2> QED BY <2>3, <2>4, <2>5
  <1>4. CASE CoSign
    <2>1. Rounds' /\ CopyIsCurrent' /\ SignaturesVerify'
      BY <1>4 DEF CoSign, Rounds, CopyIsCurrent, SignaturesVerify
    <2>2. ReplyIsCurrent'
      BY <1>4 DEF CoSign, CopyIsCurrent, ReplyIsCurrent
    <2> QED BY <2>1, <2>2
  <1>5. CASE AddSignature
    <2>1. Rounds' /\ CopyIsCurrent' /\ ReplyIsCurrent'
      BY <1>5 DEF AddSignature, Rounds, CopyIsCurrent, ReplyIsCurrent, NoReply
    <2>2. CASE reply.by \in SignerKeys(msg)
      <3> DEFINE place == SignerIndex(msg, reply.by)
      <3>1. msg.keys[place] = reply.by
        BY <2>2, PlaceOfSigner
      <3>2. /\ sigs' = [sigs EXCEPT ![place] = [by |-> reply.by, over |-> reply.over]]
            /\ late' = (late \/ reply.round # compiles \/ reply.how # "whole")
            /\ msg' = msg
            /\ reply.there
        BY <1>5, <2>2 DEF AddSignature
      <3>3. ASSUME late' = FALSE
            PROVE  reply.over = <<Bytes(msg)>>
        BY <3>2, <3>3 DEF ReplyIsCurrent
      <3>4. ASSUME NEW n \in DOMAIN sigs'
            PROVE  /\ n \in DOMAIN sigs
                   /\ \/ n = place /\ sigs'[n] = [by |-> reply.by, over |-> reply.over]
                      \/ sigs'[n] = sigs[n]
        BY <3>2
      <3>5. SignaturesVerify'
        BY <3>1, <3>2, <3>3, <3>4 DEF SignaturesVerify
      <3> QED BY <2>1, <3>5
    <2>3. CASE reply.by \notin SignerKeys(msg)
      BY <1>5, <2>1, <2>3 DEF AddSignature, SignaturesVerify
    <2> QED BY <2>2, <2>3
  <1>6. CASE DecompileTransaction
    BY <1>6 DEF DecompileTransaction, Rounds, CopyIsCurrent, ReplyIsCurrent,
                SignaturesVerify
  <1>7. CASE GrowTables
    BY <1>7 DEF GrowTables, Rounds, CopyIsCurrent, ReplyIsCurrent, SignaturesVerify
  <1>8. CASE UNCHANGED versionedVars
    BY <1>8 DEF versionedVars, Rounds, CopyIsCurrent, ReplyIsCurrent, SignaturesVerify
  <1> QED
    BY <1>1, <1>2, <1>3, <1>4, <1>5, <1>6, <1>7, <1>8
    DEF VersionedNext, CompileV0, CompileLegacy

(* Every signature of a versioned transaction is in the place of its key   *)
(* and over its message, however often it is compiled, signed, sent to a   *)
(* co-signer and signed there, unless the co-signer's answer was to        *)
(* another compilation or to a message that was not whole.                 *)
THEOREM SignaturesAlwaysVerify == VersionedSpec => []SignaturesVerify
  <1>1. SignaturesInv /\ [VersionedNext]_versionedVars => SignaturesInv'
    BY SignaturesStep
  <1>2. SignaturesInv => SignaturesVerify
    BY DEF SignaturesInv
  <1> QED BY SignaturesInit, <1>1, <1>2, PTL DEF VersionedSpec

-----------------------------------------------------------------------------
(* What messages mean.  Two lists ask the same if they run the same        *)
(* programs on the same accounts, and together ask the same of each.       *)
AsksTheSame(ins, wanted) ==
  /\ Len(ins) = Len(wanted)
  /\ \A n \in DOMAIN wanted :
       /\ ins[n].program = wanted[n].program
       /\ ins[n].data = wanted[n].data
       /\ Len(ins[n].metas) = Len(wanted[n].metas)
       /\ \A m \in DOMAIN wanted[n].metas :
            ins[n].metas[m].key = wanted[n].metas[m].key
  /\ \A k \in AccountKeys :
       /\ Signer(ins, k) <=> Signer(wanted, k)
       /\ Writable(ins, k) <=> Writable(wanted, k)

AskedIsMeant == ~ wrapped => AsksTheSame(asked, meant)

(* What a reader holds who has a message with its lookups, or without: it  *)
(* can be read, and goes on to mean what it means while the tables grow;   *)
(* or its number of signers was cut to no signer; or no table matters.     *)
CopyIsNoticed ==
  copy.there /\ copy.how \in {"whole", "json", "no lookups"} /\ ~ wrapped =>
    LET read == Decompile(copy.msg, Tables)
    IN \/ copy.msg.required = 0
       \/ read.ok /\ SameMeaning(read.ins, meant)
       \/ copy.msg.lookups = <<>> /\ (read.ok => SameMeaning(read.ins, meant))

(* A message that is compiled has no more keys than a byte has values, and *)
(* those that must sign are among them.                                    *)
KeysFit ==
  IsMessage(msg) => msg.required <= Len(msg.keys) /\ Len(msg.keys) <= Radix

MeaningInv ==
  /\ VersionedTypeOK
  /\ AskedIsMeant
  /\ KeysFit
  /\ MessageMeansWhatWasAsked
  /\ RefusalsHaveReason
  /\ CopyIsNoticed

-----------------------------------------------------------------------------
(* The keys a list of instructions names.                                  *)
LEMMA Named ==
  ASSUME NEW ins \in Seq(Instruction)
  PROVE  /\ KeysOf(ins) \subseteq AccountKeys
         /\ Payer \in KeysOf(ins) /\ Signer(ins, Payer) /\ Writable(ins, Payer)
         /\ DOMAIN ins = 1 .. Len(ins) /\ Len(ins) \in Nat
         /\ \A n \in DOMAIN ins :
              /\ ins[n] \in Instruction
              /\ ins[n].program \in KeysOf(ins) \cap Invoked(ins)
              /\ ins[n].metas \in Seq(Meta)
              /\ DOMAIN ins[n].metas = 1 .. Len(ins[n].metas)
              /\ \A m \in DOMAIN ins[n].metas :
                   ins[n].metas[m] \in Meta /\ ins[n].metas[m].key \in KeysOf(ins)
  <1>1. /\ DOMAIN ins = 1 .. Len(ins) /\ Len(ins) \in Nat
        /\ \A n \in DOMAIN ins : ins[n] \in Instruction
    OBVIOUS
  <1>2. ASSUME NEW n \in DOMAIN ins
        PROVE  /\ ins[n].program \in KeysOf(ins) \cap Invoked(ins)
               /\ ins[n].program \in AccountKeys
               /\ ins[n].metas \in Seq(Meta)
    BY <1>1 DEF Instruction, KeysOf, Invoked
  <1>3. ASSUME NEW n \in DOMAIN ins
        PROVE  /\ DOMAIN ins[n].metas = 1 .. Len(ins[n].metas)
               /\ \A m \in DOMAIN ins[n].metas :
                    ins[n].metas[m] \in Meta /\ ins[n].metas[m].key \in KeysOf(ins)
    <2>1. /\ DOMAIN ins[n].metas = 1 .. Len(ins[n].metas)
          /\ \A m \in DOMAIN ins[n].metas : ins[n].metas[m] \in Meta
      BY <1>2
    <2>2. ASSUME NEW m \in DOMAIN ins[n].metas
          PROVE  ins[n].metas[m].key \in KeysOf(ins)
      <3>1. ins[n].metas[m] \in AllMetas(ins)
        BY DEF AllMetas, ToSet
      <3> QED BY <3>1 DEF KeysOf
    <2> QED BY <2>1, <2>2
  <1>4. KeysOf(ins) \subseteq AccountKeys
    <2>1. \A m \in AllMetas(ins) : m.key \in AccountKeys
      BY <1>3 DEF AllMetas, ToSet, Meta
    <2>2. Invoked(ins) \subseteq AccountKeys
      BY <1>2 DEF Invoked
    <2> QED BY <2>1, <2>2, PayerAssumption DEF KeysOf
  <1>5. Payer \in KeysOf(ins) /\ Signer(ins, Payer) /\ Writable(ins, Payer)
    BY DEF KeysOf, Signer, Writable
  <1> QED BY <1>1, <1>2, <1>3, <1>4, <1>5

(* The order of a compilation.                                             *)
LEMMA Walk ==
  ASSUME NEW order \in Orders
  PROVE  /\ Enumerates(order, AccountKeys)
         /\ IsFiniteSet(AccountKeys)
         /\ DOMAIN order = 1 .. Len(order)
  <1>1. order \in Seq(AccountKeys) /\ ToSet(order) = AccountKeys /\ IsInjective(order)
    BY OrdersAssumption
  <1>2. DOMAIN order = 1 .. Len(order)
    BY <1>1
  <1>3. Enumerates(order, AccountKeys)
    BY <1>1, <1>2 DEF Enumerates, IsInjective
  <1> QED BY <1>2, <1>3, EnumeratedLength

LEMMA PickedKeys ==
  ASSUME NEW order \in Orders, NEW P \in SUBSET DOMAIN order,
         NEW S, S \subseteq AccountKeys,
         \A n \in DOMAIN order : n \in P <=> order[n] \in S
  PROVE  Enumerates(Picked(order, P), S)
  <1>1. /\ Enumerates(order, AccountKeys) /\ DOMAIN order = 1 .. Len(order)
        /\ \A k \in AccountKeys : \E n \in 1 .. Len(order) : order[n] = k
    BY Walk, EnumeratedLength
  <1>2. Enumerates(Picked(order, P), {order[n] : n \in P})
    BY <1>1, PickedEnumerates
  <1>3. {order[n] : n \in P} = S
    BY <1>1
  <1> QED BY <1>2, <1>3

(* A table's first index of a key.                                         *)
LEMMA FirstIndex ==
  ASSUME NEW entries \in Seq(AccountKeys), NEW k \in ToSet(entries)
  PROVE  /\ IndexIn(entries, k) \in Nat
         /\ IndexIn(entries, k) + 1 \in 1 .. Len(entries)
         /\ entries[IndexIn(entries, k) + 1] = k
         /\ \A m \in 1 .. IndexIn(entries, k) : entries[m] # k
  <1> DEFINE T == {n \in 1 .. Len(entries) : entries[n] = k}
             Right(n) == entries[n] = k /\ \A m \in 1 .. n - 1 : entries[m] # k
  <1>1. DOMAIN entries = 1 .. Len(entries) /\ Len(entries) \in Nat
    OBVIOUS
  <1>2. T \subseteq Nat /\ T # {}
    BY <1>1 DEF ToSet
  <1>3. PICK x \in T : \A y \in T : x <= y
    BY <1>2, LeastOf
  <1>4. \E n \in DOMAIN entries : Right(n)
    <2>1. x \in DOMAIN entries /\ entries[x] = k
      BY <1>1, <1>3
    <2>2. ASSUME NEW m \in 1 .. x - 1
          PROVE  entries[m] # k
      BY <1>1, <1>3
    <2> QED BY <2>1, <2>2
  <1> DEFINE n == CHOOSE n \in DOMAIN entries : Right(n)
  <1>5. n \in DOMAIN entries /\ Right(n)
    BY <1>4
  <1>6. IndexIn(entries, k) = n - 1
    BY DEF IndexIn
  <1> HIDE DEF n
  <1> QED BY <1>1, <1>5, <1>6

(* What one table gives to one kind of key.                                *)
Fits(ins, left, entries, w) ==
  {k \in left \cap ToSet(entries) : MayBeLookedUp(ins, k, w)}

Drains(F, entries, failed, gone, keys, indexes) ==
  /\ failed \in BOOLEAN
  /\ gone \subseteq F
  /\ failed => keys = <<>> /\ indexes = <<>> /\ \E k \in F : TooFar(entries, k)
  /\ ~ failed => /\ Enumerates(keys, F) /\ gone = F
                 /\ indexes = [n \in DOMAIN keys |-> IndexIn(entries, keys[n]) % Radix]
                 /\ \A k \in F : ~ TooFar(entries, k)

LEMMA Drained ==
  ASSUME NEW ins, NEW left, left \subseteq AccountKeys, NEW order \in Orders,
         NEW entries \in Seq(AccountKeys), NEW w \in BOOLEAN,
         NEW d, d = Drain(ins, left, order, entries, w)
  PROVE  Drains(Fits(ins, left, entries, w), entries, d.failed, d.gone, d.keys, d.indexes)
  <1> DEFINE P == {n \in DOMAIN order :
                     /\ order[n] \in left /\ order[n] \in ToSet(entries)
                     /\ MayBeLookedUp(ins, order[n], w)}
             F == Fits(ins, left, entries, w)
             found == Picked(order, P)
             far == {n \in DOMAIN found : TooFar(entries, found[n])}
             gone == IF far = {} THEN found ELSE SubSeq(found, 1, Min(far) - 1)
  <1>1. Enumerates(found, F)
    <2>1. F \subseteq AccountKeys
      BY DEF Fits
    <2>2. \A n \in DOMAIN order : n \in P <=> order[n] \in F
      BY DEF Fits
    <2>3. P \in SUBSET DOMAIN order
      OBVIOUS
    <2> HIDE DEF P, F
    <2> QED BY <2>1, <2>2, <2>3, PickedKeys
  <1>2. d = [failed |-> far # {},
             gone   |-> ToSet(gone),
             keys   |-> IF far = {} THEN found ELSE <<>>,
             indexes |-> IF far # {} THEN <<>>
                         ELSE [n \in DOMAIN found |-> IndexIn(entries, found[n]) % Radix]]
    BY DEF Drain
  <1> HIDE DEF found, F
  <1>3. /\ Len(found) \in Nat /\ DOMAIN found = 1 .. Len(found)
        /\ \A i \in 1 .. Len(found) : found[i] \in F
        /\ \A x \in F : \E i \in 1 .. Len(found) : found[i] = x
        /\ ToSet(found) = F /\ found \in Seq(F)
    BY <1>1, EnumeratedLength DEF Enumerates
  <1>4. far # {} <=> \E k \in F : TooFar(entries, k)
    BY <1>3
  <1>5. ToSet(gone) \subseteq F
    <2>1. CASE far = {}
      BY <1>3, <2>1
    <2>2. CASE far # {}
      <3>1. \E x \in far : \A y \in far : x <= y
        <4>1. far \subseteq Nat
          BY <1>3
        <4> HIDE DEF far
        <4> QED BY <2>2, <4>1, LeastOf
      <3>2. Min(far) \in far
        BY <3>1 DEF Min
      <3>3. Min(far) \in 1 .. Len(found)
        BY <1>3, <3>2
      <3> DEFINE m == Min(far) - 1
                 part == SubSeq(found, 1, m)
      <3>4. m \in 0 .. Len(found)
        BY <1>3, <3>3
      <3> HIDE DEF m, far
      <3>5. DOMAIN part = 1 .. m /\ \A i \in 1 .. m : part[i] = found[i]
        BY <1>3, <3>4
      <3>6. \A i \in 1 .. m : i \in 1 .. Len(found)
        BY <1>3, <3>4
      <3>7. ToSet(part) \subseteq F
        BY <1>3, <3>5, <3>6 DEF ToSet
      <3>8. gone = part
        BY <2>2 DEF m
      <3> QED BY <3>7, <3>8
    <2> QED BY <2>1, <2>2
  <1> HIDE DEF far, gone
  <1>6. /\ d.failed = (far # {}) /\ d.gone = ToSet(gone)
        /\ d.keys = IF far = {} THEN found ELSE <<>>
        /\ d.indexes = IF far # {} THEN <<>>
                       ELSE [n \in DOMAIN found |-> IndexIn(entries, found[n]) % Radix]
    BY <1>2
  <1>7. CASE far # {}
    BY <1>4, <1>5, <1>6, <1>7 DEF Drains, F
  <1>8. CASE far = {}
    <2>1. gone = found
      BY <1>8 DEF gone
    <2> QED BY <1>1, <1>3, <1>4, <1>6, <1>8, <2>1 DEF Drains, F
  <1> QED BY <1>7, <1>8

-----------------------------------------------------------------------------
(* Tables and lookups.                                                     *)
Distinct(tables) ==
  /\ tables \in Seq(Table)
  /\ \A i, j \in DOMAIN tables : tables[i].key = tables[j].key => i = j

LEMMA Stages ==
  ASSUME NEW s \in DOMAIN TableStages
  PROVE  /\ DOMAIN TableStages = 1 .. Len(TableStages) /\ Len(TableStages) \in Nat
         /\ Distinct(TableStages[s])
         /\ \A t \in DOMAIN TableStages :
              s <= t => Grown(TableStages[s], TableStages[t])
  <1>1. /\ TableStages \in Seq(Seq(Table))
        /\ \A i, j \in DOMAIN TableStages[s] :
             TableStages[s][i].key = TableStages[s][j].key => i = j
        /\ \A t \in s .. Len(TableStages) : Grown(TableStages[s], TableStages[t])
    BY TablesAssumption
  <1>2. /\ DOMAIN TableStages = 1 .. Len(TableStages) /\ Len(TableStages) \in Nat
        /\ TableStages[s] \in Seq(Table)
    BY <1>1
  <1>3. ASSUME NEW t \in DOMAIN TableStages, s <= t
        PROVE  t \in s .. Len(TableStages)
    BY <1>2, <1>3
  <1> QED BY <1>1, <1>2, <1>3 DEF Distinct

LEMMA TableFound ==
  ASSUME NEW tables, Distinct(tables), NEW n \in DOMAIN tables
  PROVE  /\ TableOf(tables, tables[n].key) = tables[n]
         /\ tables[n] \in Table /\ tables[n] \in ToSet(tables)
  <1>1. tables[n] \in Table
    BY DEF Distinct
  <1>2. tables[n] \in ToSet(tables)
    BY DEF ToSet
  <1>3. \A t \in ToSet(tables) : t.key = tables[n].key => t = tables[n]
    BY DEF ToSet, Distinct
  <1> QED BY <1>1, <1>2, <1>3 DEF TableOf

LEMMA Prefix ==
  ASSUME NEW V, NEW s \in Seq(V), NEW t \in Seq(V), IsPrefix(s, t)
  PROVE  Len(s) \in Nat /\ Len(t) \in Nat /\ Len(s) <= Len(t)
         /\ \A i \in 1 .. Len(s) : t[i] = s[i]
  <1>1. /\ Len(s) \in Nat /\ Len(t) \in Nat /\ Len(s) <= Len(t)
        /\ s = SubSeq(t, 1, Len(s))
    BY DEF IsPrefix
  <1>2. ASSUME NEW i \in 1 .. Len(s)
        PROVE  t[i] = s[i]
    <2>1. SubSeq(t, 1, Len(s))[i] = t[i]
      BY <1>1
    <2> QED BY <1>1, <2>1
  <1> QED BY <1>1, <1>2

(* The lists of keys that lookups stand for, before they are strung        *)
(* together.                                                               *)
Through(m, tables, list) ==
  [n \in DOMAIN m.lookups |->
    LET l == m.lookups[n]
    IN [i \in DOMAIN l[list] |-> TableOf(tables, l.table).entries[l[list][i] + 1]]]

Kinds == {"writable", "readonly"}

LEMMA LookupLists ==
  ASSUME NEW l \in Lookup, NEW list \in Kinds
  PROVE  /\ l[list] \in Seq(Byte) /\ DOMAIN l[list] = 1 .. Len(l[list])
         /\ \A i \in DOMAIN l[list] :
              l[list][i] \in Byte /\ l[list][i] \in ToSet(l.writable \o l.readonly)
  <1>1. l.writable \in Seq(Byte) /\ l.readonly \in Seq(Byte)
    BY DEF Lookup
  <1>2. ToSet(l.writable \o l.readonly) = ToSet(l.writable) \cup ToSet(l.readonly)
    BY <1>1, ConcatToSet
  <1>3. l[list] \in Seq(Byte) /\ ToSet(l[list]) \subseteq ToSet(l.writable \o l.readonly)
    <2>1. CASE list = "writable"
      <3>1. l[list] = l.writable
        BY <2>1
      <3> QED BY <1>1, <1>2, <3>1
    <2>2. CASE list = "readonly"
      <3>1. l[list] = l.readonly
        BY <2>2
      <3> QED BY <1>1, <1>2, <3>1
    <2> QED BY <2>1, <2>2 DEF Kinds
  <1>4. ASSUME NEW s \in Seq(Byte)
        PROVE  DOMAIN s = 1 .. Len(s) /\ \A i \in DOMAIN s : s[i] \in Byte /\ s[i] \in ToSet(s)
    BY DEF ToSet
  <1> QED BY <1>3, <1>4

(* Where the lookups can be resolved they give keys, and the same when the *)
(* tables have grown.                                                      *)
LEMMA Resolved ==
  ASSUME NEW m, m.lookups \in Seq(Lookup), NEW tables, Distinct(tables),
         Resolvable(m, tables), NEW l \in ToSet(m.lookups)
  PROVE  /\ l \in Lookup
         /\ \E n \in DOMAIN tables :
              /\ tables[n].key = l.table /\ TableOf(tables, l.table) = tables[n]
              /\ tables[n].entries \in Seq(AccountKeys)
              /\ \A list \in Kinds : \A i \in DOMAIN l[list] :
                   /\ l[list][i] \in Nat
                   /\ l[list][i] + 1 \in 1 .. Len(tables[n].entries)
  <1>1. l \in Lookup
    BY DEF ToSet
  <1>2. /\ \E t \in ToSet(tables) : t.key = l.table
        /\ \A i \in ToSet(l.writable \o l.readonly) :
             i < Len(TableOf(tables, l.table).entries)
    BY DEF Resolvable
  <1>3. PICK n \in DOMAIN tables : tables[n].key = l.table
    BY <1>2 DEF ToSet
  <1>4. TableOf(tables, l.table) = tables[n] /\ tables[n] \in Table
    BY <1>3, TableFound
  <1>5. tables[n].entries \in Seq(AccountKeys) /\ Len(tables[n].entries) \in Nat
    BY <1>4 DEF Table
  <1>6. ASSUME NEW list \in Kinds, NEW i \in DOMAIN l[list]
        PROVE  l[list][i] \in Nat /\ l[list][i] + 1 \in 1 .. Len(tables[n].entries)
    <2>1. l[list][i] \in Byte /\ l[list][i] \in ToSet(l.writable \o l.readonly)
      BY <1>1, LookupLists
    <2>2. l[list][i] \in Nat
      BY <2>1, RadixAssumption DEF Byte
    <2>3. l[list][i] < Len(tables[n].entries)
      BY <1>2, <1>4, <2>1
    <2> QED BY <1>5, <2>2, <2>3
  <1> QED BY <1>1, <1>3, <1>4, <1>5, <1>6

LEMMA ThroughType ==
  ASSUME NEW m, m.lookups \in Seq(Lookup), NEW tables, Distinct(tables),
         Resolvable(m, tables), NEW list \in Kinds
  PROVE  /\ Through(m, tables, list) \in Seq(Seq(AccountKeys))
         /\ LookedUp(m, tables, list) \in Seq(AccountKeys)
         /\ LookedUp(m, tables, list) = FlattenSeq(Through(m, tables, list))
  <1> DEFINE T == Through(m, tables, list)
  <1>1. DOMAIN m.lookups = 1 .. Len(m.lookups) /\ Len(m.lookups) \in Nat
    OBVIOUS
  <1>2. ASSUME NEW n \in DOMAIN m.lookups
        PROVE  T[n] \in Seq(AccountKeys)
    <2> DEFINE l == m.lookups[n]
    <2>1. l \in ToSet(m.lookups)
      BY DEF ToSet
    <2>2. l \in Lookup
      BY <2>1, Resolved
    <2>3. PICK e \in DOMAIN tables :
            /\ TableOf(tables, l.table) = tables[e]
            /\ tables[e].entries \in Seq(AccountKeys)
            /\ \A i \in DOMAIN l[list] :
                 l[list][i] \in Nat /\ l[list][i] + 1 \in 1 .. Len(tables[e].entries)
      BY <2>1, Resolved
    <2>4. DOMAIN l[list] = 1 .. Len(l[list]) /\ Len(l[list]) \in Nat
      BY <2>2, LookupLists
    <2>5. T[n] = [i \in DOMAIN l[list] |-> TableOf(tables, l.table).entries[l[list][i] + 1]]
      BY DEF Through
    <2> HIDE DEF l, T
    <2>6. T[n] = [i \in 1 .. Len(l[list]) |-> tables[e].entries[l[list][i] + 1]]
      BY <2>3, <2>4, <2>5
    <2>7. \A i \in 1 .. Len(l[list]) : tables[e].entries[l[list][i] + 1] \in AccountKeys
      BY <2>3, <2>4
    <2>8. T[n] \in [1 .. Len(l[list]) -> AccountKeys]
      BY <2>6, <2>7
    <2> QED BY <2>4, <2>8
  <1>3. T = [n \in 1 .. Len(m.lookups) |-> T[n]]
    BY <1>1 DEF Through
  <1>4. LookedUp(m, tables, list) = FlattenSeq(T)
    BY DEF LookedUp, Through
  <1> HIDE DEF T
  <1>5. T \in Seq(Seq(AccountKeys))
    <2>1. T \in [1 .. Len(m.lookups) -> Seq(AccountKeys)]
      BY <1>1, <1>2, <1>3
    <2> QED BY <1>1, <2>1
  <1> QED BY <1>4, <1>5, FlattenType DEF T

LEMMA GrownResolves ==
  ASSUME NEW m, m.lookups \in Seq(Lookup), NEW tables, Distinct(tables),
         Resolvable(m, tables), NEW later, Distinct(later), Grown(tables, later)
  PROVE  /\ Resolvable(m, later)
         /\ \A list \in Kinds : LookedUp(m, later, list) = LookedUp(m, tables, list)
  <1>1. ASSUME NEW l \in ToSet(m.lookups)
        PROVE  /\ \E t \in ToSet(later) : t.key = l.table
               /\ \A n \in ToSet(l.writable \o l.readonly) :
                    n < Len(TableOf(later, l.table).entries)
               /\ \A list \in Kinds : \A i \in DOMAIN l[list] :
                    TableOf(later, l.table).entries[l[list][i] + 1]
                      = TableOf(tables, l.table).entries[l[list][i] + 1]
    <2>1. PICK e \in DOMAIN tables :
            /\ tables[e].key = l.table /\ TableOf(tables, l.table) = tables[e]
            /\ tables[e].entries \in Seq(AccountKeys)
            /\ \A list \in Kinds : \A i \in DOMAIN l[list] :
                 l[list][i] \in Nat /\ l[list][i] + 1 \in 1 .. Len(tables[e].entries)
      BY Resolved
    <2>2. /\ e \in DOMAIN later /\ later[e].key = l.table
          /\ IsPrefix(tables[e].entries, later[e].entries)
      BY <2>1 DEF Grown
    <2>3. /\ TableOf(later, l.table) = later[e]
          /\ later[e] \in Table /\ later[e] \in ToSet(later)
      BY <2>2, TableFound
    <2>4. later[e].entries \in Seq(AccountKeys)
      BY <2>3 DEF Table
    <2>5. /\ Len(tables[e].entries) <= Len(later[e].entries)
          /\ Len(tables[e].entries) \in Nat /\ Len(later[e].entries) \in Nat
          /\ \A i \in 1 .. Len(tables[e].entries) :
               later[e].entries[i] = tables[e].entries[i]
      BY <2>1, <2>2, <2>4, Prefix
    <2>6. \E t \in ToSet(later) : t.key = l.table
      BY <2>2, <2>3
    <2>7. ASSUME NEW n \in ToSet(l.writable \o l.readonly)
          PROVE  n < Len(TableOf(later, l.table).entries)
      <3>1. n < Len(tables[e].entries)
        BY <2>1 DEF Resolvable
      <3>2. n \in Int
        <4>1. l \in Lookup
          BY Resolved
        <4>2. l.writable \in Seq(Byte) /\ l.readonly \in Seq(Byte)
          BY <4>1 DEF Lookup
        <4>3. n \in Byte
          BY <4>2, ConcatToSet
        <4> QED BY <4>3, RadixAssumption DEF Byte
      <3> QED BY <2>3, <2>5, <3>1, <3>2
    <2>8. ASSUME NEW list \in Kinds, NEW i \in DOMAIN l[list]
          PROVE  TableOf(later, l.table).entries[l[list][i] + 1]
                   = TableOf(tables, l.table).entries[l[list][i] + 1]
      BY <2>1, <2>3, <2>5
    <2> QED BY <2>6, <2>7, <2>8
  <1>2. Resolvable(m, later)
    BY <1>1 DEF Resolvable
  <1>3. ASSUME NEW list \in Kinds
        PROVE  Through(m, later, list) = Through(m, tables, list)
    <2>1. ASSUME NEW n \in DOMAIN m.lookups, NEW i \in DOMAIN m.lookups[n][list]
          PROVE  TableOf(later, m.lookups[n].table).entries[m.lookups[n][list][i] + 1]
                   = TableOf(tables, m.lookups[n].table).entries[m.lookups[n][list][i] + 1]
      <3>1. m.lookups[n] \in ToSet(m.lookups)
        BY DEF ToSet
      <3> QED BY <1>1, <3>1
    <2> QED BY <2>1 DEF Through
  <1>4. ASSUME NEW list \in Kinds
        PROVE  LookedUp(m, later, list) = LookedUp(m, tables, list)
    <2>1. /\ LookedUp(m, tables, list) = FlattenSeq(Through(m, tables, list))
          /\ LookedUp(m, later, list) = FlattenSeq(Through(m, later, list))
      BY <1>2, ThroughType
    <2> QED BY <1>3, <2>1
  <1> QED BY <1>2, <1>4

-----------------------------------------------------------------------------
(* The lookup that a table adds leads to the keys that were found in it.   *)
LookupOf(table, W, R) ==
  [table    |-> table.key,
   writable |-> [n \in DOMAIN W |-> IndexIn(table.entries, W[n]) % Radix],
   readonly |-> [n \in DOMAIN R |-> IndexIn(table.entries, R[n]) % Radix]]

LEMMA SmallRest ==
  ASSUME NEW i \in Nat, NEW r \in Nat \ {0}, i < r
  PROVE  i % r = i
  OBVIOUS

(* Keys of a table whose index fits in a byte.                             *)
InReach(table, S) ==
  /\ S \in Seq(AccountKeys)
  /\ \A k \in ToSet(S) : k \in ToSet(table.entries) /\ IndexIn(table.entries, k) < Radix

LEMMA IndexesType ==
  ASSUME NEW table \in Table, NEW S \in Seq(AccountKeys),
         ToSet(S) \subseteq ToSet(table.entries)
  PROVE  LET d == [n \in DOMAIN S |-> IndexIn(table.entries, S[n]) % Radix]
         IN d \in Seq(Byte) /\ DOMAIN d = 1 .. Len(S) /\ Len(d) = Len(S)
  <1> DEFINE d == [n \in DOMAIN S |-> IndexIn(table.entries, S[n]) % Radix]
  <1>1. DOMAIN S = 1 .. Len(S) /\ Len(S) \in Nat
    OBVIOUS
  <1>2. ASSUME NEW n \in 1 .. Len(S)
        PROVE  d[n] \in Byte
    <2>1. S[n] \in ToSet(table.entries) /\ table.entries \in Seq(AccountKeys)
      BY <1>1 DEF ToSet, Table
    <2>2. IndexIn(table.entries, S[n]) \in Nat
      BY <2>1, FirstIndex
    <2>3. IndexIn(table.entries, S[n]) % Radix \in 0 .. Radix - 1
      BY <2>2, RadixAssumption
    <2> QED BY <1>1, <2>3 DEF Byte
  <1>3. d = [n \in 1 .. Len(S) |-> d[n]]
    BY <1>1
  <1> HIDE DEF d
  <1>4. d \in [1 .. Len(S) -> Byte]
    BY <1>2, <1>3
  <1>5. d \in Seq(Byte) /\ DOMAIN d = 1 .. Len(S) /\ Len(d) = Len(S)
    BY <1>1, <1>4
  <1> QED BY <1>5 DEF d

LEMMA IndexesLead ==
  ASSUME NEW table \in Table, NEW S, InReach(table, S),
         NEW entries \in Seq(AccountKeys), IsPrefix(table.entries, entries),
         NEW d, d = [n \in DOMAIN S |-> IndexIn(table.entries, S[n]) % Radix]
  PROVE  /\ \A i \in ToSet(d) : i < Len(entries)
         /\ [n \in DOMAIN d |-> entries[d[n] + 1]] = S
  <1>1. /\ S \in Seq(AccountKeys) /\ DOMAIN S = 1 .. Len(S) /\ Len(S) \in Nat
        /\ table.entries \in Seq(AccountKeys)
    BY DEF InReach, Table
  <1>2. ASSUME NEW n \in 1 .. Len(S)
        PROVE  d[n] < Len(entries) /\ entries[d[n] + 1] = S[n]
    <2> DEFINE i == IndexIn(table.entries, S[n])
    <2>1. S[n] \in ToSet(table.entries) /\ i < Radix
      BY <1>1 DEF InReach, ToSet
    <2>2. i \in Nat /\ i + 1 \in 1 .. Len(table.entries) /\ table.entries[i + 1] = S[n]
      BY <1>1, <2>1, FirstIndex
    <2>3. d[n] = i % Radix
      BY <1>1
    <2> HIDE DEF i
    <2>4. i % Radix = i
      BY <2>1, <2>2, RadixAssumption, SmallRest
    <2>5. /\ Len(table.entries) \in Nat /\ Len(entries) \in Nat
          /\ Len(table.entries) <= Len(entries)
          /\ entries[i + 1] = table.entries[i + 1]
      BY <1>1, <2>2, Prefix
    <2> QED BY <2>2, <2>3, <2>4, <2>5
  <1>3. DOMAIN d = 1 .. Len(S)
    BY <1>1
  <1>4. S = [n \in 1 .. Len(S) |-> S[n]]
    BY <1>1
  <1>5. [n \in DOMAIN d |-> entries[d[n] + 1]] = [n \in 1 .. Len(S) |-> S[n]]
    BY <1>2, <1>3
  <1> QED BY <1>2, <1>3, <1>4, <1>5 DEF ToSet

HasTable(tables, table) ==
  \E e \in DOMAIN tables :
    tables[e].key = table.key /\ IsPrefix(table.entries, tables[e].entries)

Lengthened(m, m2, table, W, R) ==
  m.lookups \in Seq(Lookup) /\ m2.lookups = Append(m.lookups, LookupOf(table, W, R))

LedOn(m, m2, tables, W, R) ==
  /\ Resolvable(m2, tables)
  /\ LookedUp(m2, tables, "writable") = LookedUp(m, tables, "writable") \o W
  /\ LookedUp(m2, tables, "readonly") = LookedUp(m, tables, "readonly") \o R

LEMMA LeadsOn ==
  ASSUME NEW m, NEW tables, Distinct(tables),
         Resolvable(m, tables), NEW table \in Table, HasTable(tables, table),
         NEW W, InReach(table, W), NEW R, InReach(table, R),
         NEW m2, Lengthened(m, m2, table, W, R)
  PROVE  LedOn(m, m2, tables, W, R)
  <1> DEFINE l == LookupOf(table, W, R)
             N == Len(m.lookups)
  <1>0. m.lookups \in Seq(Lookup) /\ m2.lookups = Append(m.lookups, LookupOf(table, W, R))
    BY DEF Lengthened
  <1>1. PICK e \in DOMAIN tables :
          tables[e].key = table.key /\ IsPrefix(table.entries, tables[e].entries)
    BY DEF HasTable
  <1>2. TableOf(tables, table.key) = tables[e] /\ tables[e] \in ToSet(tables)
    BY <1>1, TableFound
  <1>3. tables[e].entries \in Seq(AccountKeys)
    <2>1. tables[e] \in Table
      BY TableFound
    <2> QED BY <2>1 DEF Table
  <1>4. /\ l.table = table.key
        /\ l.writable = [n \in DOMAIN W |-> IndexIn(table.entries, W[n]) % Radix]
        /\ l.readonly = [n \in DOMAIN R |-> IndexIn(table.entries, R[n]) % Radix]
        /\ l = [table |-> l.table, writable |-> l.writable, readonly |-> l.readonly]
    BY DEF LookupOf
  <1> HIDE DEF l
  <1>5. /\ \A i \in ToSet(l.writable) : i < Len(tables[e].entries)
        /\ \A i \in ToSet(l.readonly) : i < Len(tables[e].entries)
        /\ [n \in DOMAIN l.writable |-> tables[e].entries[l.writable[n] + 1]] = W
        /\ [n \in DOMAIN l.readonly |-> tables[e].entries[l.readonly[n] + 1]] = R
    BY <1>1, <1>3, <1>4, IndexesLead
  <1>6. l.writable \in Seq(Byte) /\ l.readonly \in Seq(Byte)
    <2>1. W \in Seq(AccountKeys) /\ ToSet(W) \subseteq ToSet(table.entries)
      BY DEF InReach
    <2>2. R \in Seq(AccountKeys) /\ ToSet(R) \subseteq ToSet(table.entries)
      BY DEF InReach
    <2> QED BY <1>4, <2>1, <2>2, IndexesType
  <1>7. l \in Lookup
    <2>1. table.key \in STRING
      BY DEF Table
    <2> QED BY <1>4, <1>6, <2>1 DEF Lookup
  <1>8. /\ m2.lookups \in Seq(Lookup) /\ Len(m2.lookups) = N + 1 /\ N \in Nat
        /\ DOMAIN m2.lookups = 1 .. N + 1 /\ DOMAIN m.lookups = 1 .. N
        /\ m2.lookups[N + 1] = l /\ \A n \in 1 .. N : m2.lookups[n] = m.lookups[n]
    <2>1. m2.lookups = Append(m.lookups, l)
      BY <1>0 DEF l
    <2>2. /\ m2.lookups \in Seq(Lookup) /\ Len(m2.lookups) = N + 1 /\ N \in Nat
          /\ m2.lookups[N + 1] = l /\ \A n \in 1 .. N : m2.lookups[n] = m.lookups[n]
      BY <1>0, <1>7, <2>1, AppendProperties
    <2> QED BY <1>0, <2>2
  <1>9. Resolvable(m2, tables)
    <2>1. ASSUME NEW x \in ToSet(m2.lookups)
          PROVE  x \in ToSet(m.lookups) \/ x = l
      <3>1. PICK n \in 1 .. N + 1 : m2.lookups[n] = x
        BY <1>8 DEF ToSet
      <3>2. n \in 1 .. N \/ n = N + 1
        BY <1>8
      <3> QED BY <1>8, <3>1, <3>2 DEF ToSet
    <2>2. ToSet(l.writable \o l.readonly) = ToSet(l.writable) \cup ToSet(l.readonly)
      BY <1>6, ConcatToSet
    <2>3. /\ \E t \in ToSet(tables) : t.key = l.table
          /\ \A n \in ToSet(l.writable \o l.readonly) :
               n < Len(TableOf(tables, l.table).entries)
      BY <1>1, <1>2, <1>4, <1>5, <2>2
    <2> QED BY <2>1, <2>3 DEF Resolvable
  <1>10. ASSUME NEW list \in Kinds, NEW S \in Seq(AccountKeys),
                [n \in DOMAIN l[list] |-> tables[e].entries[l[list][n] + 1]] = S
         PROVE  LookedUp(m2, tables, list) = LookedUp(m, tables, list) \o S
    <2> DEFINE T == Through(m, tables, list)
               U == Through(m2, tables, list)
    <2>1. /\ T \in Seq(Seq(AccountKeys))
          /\ LookedUp(m, tables, list) = FlattenSeq(T)
          /\ LookedUp(m2, tables, list) = FlattenSeq(U)
      BY <1>0, <1>8, <1>9, ThroughType
    <2>2. DOMAIN T = 1 .. N /\ DOMAIN U = 1 .. N + 1
      BY <1>8 DEF Through
    <2>3. \A n \in 1 .. N : U[n] = T[n]
      <3>1. \A n \in 1 .. N : n \in DOMAIN m.lookups /\ n \in DOMAIN m2.lookups
        BY <1>8
      <3> QED BY <1>8, <3>1 DEF Through
    <2>4. U[N + 1] = S
      <3>1. N + 1 \in DOMAIN m2.lookups
        BY <1>8
      <3>2. U[N + 1] = [n \in DOMAIN l[list] |->
                          TableOf(tables, l.table).entries[l[list][n] + 1]]
        BY <1>8, <3>1 DEF Through
      <3> QED BY <1>2, <1>4, <1>10, <3>2
    <2>5. U \in Seq(Seq(AccountKeys))
      BY <1>8, <1>9, ThroughType
    <2> HIDE DEF T, U
    <2>6. Len(T) = N /\ Len(U) = N + 1
      BY <1>8, <2>1, <2>2, <2>5
    <2>7. U = Append(T, S)
      <3>1. /\ Append(T, S) \in Seq(Seq(AccountKeys)) /\ Len(Append(T, S)) = N + 1
            /\ Append(T, S)[N + 1] = S /\ \A n \in 1 .. N : Append(T, S)[n] = T[n]
        BY <2>1, <2>6, AppendProperties
      <3>2. ASSUME NEW n \in 1 .. N + 1
            PROVE  U[n] = Append(T, S)[n]
        <4>1. n \in 1 .. N \/ n = N + 1
          BY <1>8
        <4> QED BY <2>3, <2>4, <3>1, <4>1
      <3>3. DOMAIN Append(T, S) = 1 .. N + 1
        BY <3>1
      <3> DEFINE A == Append(T, S)
      <3> HIDE DEF A
      <3>4. A = [n \in 1 .. N + 1 |-> A[n]]
        <4>1. A \in Seq(Seq(AccountKeys)) /\ DOMAIN A = 1 .. N + 1
          BY <3>1, <3>3 DEF A
        <4> QED BY <4>1
      <3>5. U = [n \in 1 .. N + 1 |-> U[n]]
        BY <2>2, <2>5
      <3>6. \A n \in 1 .. N + 1 : U[n] = A[n]
        BY <3>2 DEF A
      <3>7. U = A
        BY <3>4, <3>5, <3>6
      <3> QED BY <3>7 DEF A
    <2> QED BY <2>1, <2>7, FlattenAppend
  <1>11. W \in Seq(AccountKeys) /\ R \in Seq(AccountKeys)
    BY DEF InReach
  <1>12. /\ l["writable"] = l.writable /\ l["readonly"] = l.readonly
         /\ "writable" \in Kinds /\ "readonly" \in Kinds
    BY DEF Kinds
  <1> QED BY <1>5, <1>9, <1>10, <1>11, <1>12 DEF LedOn

-----------------------------------------------------------------------------
(* A table and an extraction.                                              *)
Far(ins, table) ==
  \E k \in KeysOf(ins) \cap ToSet(table.entries) : TooFar(table.entries, k)

(* The keys W and R are found in the table, or some of them.               *)
Moved(ins, before, after, table, W, R) ==
  /\ W \in Seq(AccountKeys) /\ R \in Seq(AccountKeys)
  /\ \A k \in ToSet(W) :
       k \in before \ after /\ k \in ToSet(table.entries) /\ MayBeLookedUp(ins, k, TRUE)
       /\ ~ TooFar(table.entries, k)
  /\ \A k \in ToSet(R) :
       k \in before \ after /\ k \in ToSet(table.entries) /\ MayBeLookedUp(ins, k, FALSE)
       /\ ~ TooFar(table.entries, k)
  /\ \A k \in before \ after : MayBeLookedUp(ins, k, TRUE) \/ MayBeLookedUp(ins, k, FALSE)
  /\ Cardinality(after) + Len(W) + Len(R) <= Cardinality(before)
  /\ Far(ins, table) \/ before \subseteq after \cup ToSet(W) \cup ToSet(R)

LEMMA NoneListed == ToSet(<<>>) = {} /\ Len(<<>>) = 0
  BY DEF ToSet

LEMMA Indexes ==
  ASSUME NEW table \in Table, NEW S \in Seq(AccountKeys),
         ToSet(S) \subseteq ToSet(table.entries),
         NEW d, d = [n \in DOMAIN S |-> IndexIn(table.entries, S[n]) % Radix]
  PROVE  d = <<>> <=> S = <<>>
  <1>1. d \in Seq(Byte) /\ Len(d) = Len(S)
    BY IndexesType
  <1> QED BY <1>1, EmptySeq

(* What the writable keys and then the read-only ones move: wg and rg go,  *)
(* W and R are kept, with wi and ri.                                       *)
BothMoved(ins, left, table, wg, W, wi, rg, R, ri) ==
  /\ Moved(ins, left, (left \ wg) \ rg, table, W, R)
  /\ LookupOf(table, W, R) = [table |-> table.key, writable |-> wi, readonly |-> ri]
  /\ wi = <<>> <=> W = <<>>
  /\ ri = <<>> <=> R = <<>>

LEMMA TwoDrains ==
  ASSUME NEW ins \in Seq(Instruction), NEW left, left \subseteq KeysOf(ins),
         IsFiniteSet(left), NEW table \in Table,
         NEW refused, NEW wg, NEW W, NEW wi, refused = FALSE,
         Drains(Fits(ins, left, table.entries, TRUE), table.entries, refused, wg, W, wi),
         NEW failed, NEW rg, NEW R, NEW ri,
         Drains(Fits(ins, left \ wg, table.entries, FALSE), table.entries, failed, rg, R, ri)
  PROVE  BothMoved(ins, left, table, wg, W, wi, rg, R, ri)
  <1> DEFINE e == table.entries
             F == Fits(ins, left, e, TRUE)
             G == Fits(ins, left \ wg, e, FALSE)
             after == (left \ wg) \ rg
  <1>1. left \subseteq AccountKeys
    BY Named
  <1>2. /\ Enumerates(W, F) /\ wg = F
        /\ wi = [n \in DOMAIN W |-> IndexIn(e, W[n]) % Radix]
        /\ \A k \in F : ~ TooFar(e, k)
    BY DEF Drains
  <1>3. /\ failed \in BOOLEAN
        /\ rg \subseteq G
        /\ failed => R = <<>> /\ ri = <<>> /\ \E k \in G : TooFar(e, k)
        /\ ~ failed => /\ Enumerates(R, G) /\ rg = G
                       /\ ri = [n \in DOMAIN R |-> IndexIn(e, R[n]) % Radix]
                       /\ \A k \in G : ~ TooFar(e, k)
    BY DEF Drains
  <1>4. /\ F \subseteq left /\ \A k \in F : k \in ToSet(e) /\ MayBeLookedUp(ins, k, TRUE)
        /\ G \subseteq left \ F /\ \A k \in G : k \in ToSet(e) /\ MayBeLookedUp(ins, k, FALSE)
    BY <1>2 DEF Fits
  <1> HIDE DEF F, G, e
  <1>5. /\ W \in Seq(AccountKeys) /\ ToSet(W) = F
        /\ Len(W) \in Nat /\ Cardinality(F) = Len(W)
    <2>1. /\ ToSet(W) = F /\ W \in Seq(F)
          /\ Len(W) \in Nat /\ Cardinality(F) = Len(W)
      BY <1>2, EnumeratedLength DEF Enumerates
    <2>2. F \subseteq AccountKeys
      BY <1>1, <1>4
    <2> QED BY <2>1, <2>2
  <1>6. /\ R \in Seq(AccountKeys)
        /\ Len(R) \in Nat /\ Len(R) <= Cardinality(rg)
        /\ ToSet(R) \subseteq rg
        /\ \A k \in ToSet(R) : ~ TooFar(e, k)
        /\ ri = [n \in DOMAIN R |-> IndexIn(e, R[n]) % Radix]
        /\ ToSet(R) = G \/ \E k \in G : TooFar(e, k)
    <2>1. CASE failed
      <3>1. IsFiniteSet(rg)
        BY <1>3, <1>4, FS_Subset
      <3>2. Cardinality(rg) \in Nat
        BY <3>1, FS_CardinalityType
      <3>3. R = <<>> /\ ri = <<>> /\ \E k \in G : TooFar(e, k)
        BY <1>3, <2>1
      <3>4. [n \in DOMAIN R |-> IndexIn(e, R[n]) % Radix] = <<>>
        BY <3>3
      <3>5. <<>> \in Seq(AccountKeys)
        OBVIOUS
      <3>6. R \in Seq(AccountKeys) /\ Len(R) = 0 /\ ToSet(R) = {}
        BY <3>3, <3>5, NoneListed
      <3> QED BY <3>2, <3>3, <3>4, <3>6
    <2>2. CASE ~ failed
      <3>1. /\ Enumerates(R, G) /\ rg = G
            /\ ri = [n \in DOMAIN R |-> IndexIn(e, R[n]) % Radix]
            /\ \A k \in G : ~ TooFar(e, k)
        BY <1>3, <2>2
      <3>2. /\ ToSet(R) = G /\ R \in Seq(G)
            /\ Len(R) \in Nat /\ Cardinality(G) = Len(R)
        BY <3>1, EnumeratedLength DEF Enumerates
      <3>3. G \subseteq AccountKeys
        BY <1>1, <1>4
      <3>4. R \in Seq(AccountKeys)
        BY <3>2, <3>3
      <3> QED BY <3>1, <3>2, <3>4
    <2> QED BY <1>3, <2>1, <2>2
  <1>7. Cardinality(after) + Len(W) + Len(R) <= Cardinality(left)
    <2>1. left \cap F = F
      BY <1>4
    <2>2. /\ Cardinality(left) = Cardinality(F) + Cardinality(left \ F)
          /\ IsFiniteSet(left \ F) /\ Cardinality(left \ F) \in Nat
          /\ Cardinality(left) \in Nat
      BY <2>1, SplitCardinality
    <2>3. (left \ F) \cap rg = rg
      BY <1>3, <1>4
    <2>4. /\ Cardinality(left \ F) = Cardinality(rg) + Cardinality((left \ F) \ rg)
          /\ Cardinality((left \ F) \ rg) \in Nat /\ Cardinality(rg) \in Nat
      BY <2>2, <2>3, SplitCardinality
    <2>5. after = (left \ F) \ rg
      BY <1>2
    <2> DEFINE a == Cardinality(after)
               b == Cardinality(left)
               c == Cardinality(left \ F)
               f == Cardinality(F)
               g == Cardinality(rg)
    <2>6. /\ a \in Nat /\ b \in Nat /\ c \in Nat /\ g \in Nat
          /\ b = f + c /\ c = g + a /\ f = Len(W) /\ Len(R) <= g
      BY <1>5, <1>6, <2>2, <2>4, <2>5
    <2> HIDE DEF a, b, c, f, g
    <2>7. a + Len(W) + Len(R) <= b
      BY <1>5, <1>6, <2>6
    <2> QED BY <2>7 DEF a, b
  <1>8. Far(ins, table) \/ left \subseteq after \cup ToSet(W) \cup ToSet(R)
    <2>1. CASE ToSet(R) = G
      BY <1>2, <1>3, <1>5, <2>1
    <2>2. CASE \E k \in G : TooFar(e, k)
      <3>1. G \subseteq KeysOf(ins)
        BY <1>4
      <3> QED BY <1>4, <2>2, <3>1 DEF Far, e
    <2> QED BY <1>6, <2>1, <2>2
  <1>9. Moved(ins, left, after, table, W, R)
    <2>1. \A k \in ToSet(W) : k \in left \ after /\ k \in ToSet(e)
                              /\ MayBeLookedUp(ins, k, TRUE) /\ ~ TooFar(e, k)
      BY <1>2, <1>4, <1>5
    <2>2. \A k \in ToSet(R) : k \in left \ after /\ k \in ToSet(e)
                              /\ MayBeLookedUp(ins, k, FALSE) /\ ~ TooFar(e, k)
      BY <1>3, <1>4, <1>6
    <2>3. \A k \in left \ after : MayBeLookedUp(ins, k, TRUE) \/ MayBeLookedUp(ins, k, FALSE)
      BY <1>2, <1>3, <1>4
    <2> HIDE DEF after
    <2> QED BY <1>5, <1>6, <1>7, <1>8, <2>1, <2>2, <2>3 DEF Moved, e
  <1>10. LookupOf(table, W, R) = [table |-> table.key, writable |-> wi, readonly |-> ri]
    BY <1>2, <1>6 DEF LookupOf, e
  <1>11. wi = <<>> <=> W = <<>>
    BY <1>2, <1>4, <1>5, Indexes DEF e
  <1>12. ri = <<>> <=> R = <<>>
    BY <1>3, <1>4, <1>6, Indexes DEF e
  <1> QED BY <1>9, <1>10, <1>11, <1>12 DEF BothMoved

(* One table's extraction.                                                 *)
TableGave(ins, x, table, y) ==
  /\ "failed" \in DOMAIN y /\ y.failed \in BOOLEAN
  /\ y.failed => Far(ins, table)
  /\ ~ y.failed =>
       /\ y.left \subseteq x.left
       /\ \E W, R :
            /\ Moved(ins, x.left, y.left, table, W, R)
            /\ y.writable = x.writable \o W /\ y.readonly = x.readonly \o R
            /\ \/ y.lookups = x.lookups /\ W = <<>> /\ R = <<>>
               \/ y.lookups = Append(x.lookups, LookupOf(table, W, R))

Unfailed(ins, x) ==
  /\ "failed" \in DOMAIN x /\ x.failed = FALSE /\ x.left \subseteq KeysOf(ins)
  /\ x.writable \in Seq(AccountKeys) /\ x.readonly \in Seq(AccountKeys)

LEMMA ExtractedOne ==
  ASSUME NEW ins \in Seq(Instruction), NEW order \in Orders, NEW table \in Table,
         NEW x, Unfailed(ins, x)
  PROVE  TableGave(ins, x, table, Extract(ins, order, x, table))
  <1> DEFINE w == Drain(ins, x.left, order, table.entries, TRUE)
             r == Drain(ins, x.left \ w.gone, order, table.entries, FALSE)
             y == Extract(ins, order, x, table)
  <1>0. /\ "failed" \in DOMAIN x /\ x.failed = FALSE /\ x.left \subseteq KeysOf(ins)
        /\ x.writable \in Seq(AccountKeys) /\ x.readonly \in Seq(AccountKeys)
    BY DEF Unfailed
  <1>1. y = IF x.failed \/ w.failed THEN [x EXCEPT !.failed = TRUE]
            ELSE [failed   |-> FALSE,
                  left     |-> (x.left \ w.gone) \ r.gone,
                  lookups  |-> IF w.indexes = <<>> /\ r.indexes = <<>> THEN x.lookups
                               ELSE Append(x.lookups,
                                      [table |-> table.key, writable |-> w.indexes,
                                       readonly |-> r.indexes]),
                  writable |-> x.writable \o w.keys,
                  readonly |-> x.readonly \o r.keys]
    BY DEF Extract
  <1>2. /\ Drains(Fits(ins, x.left, table.entries, TRUE), table.entries,
                  w.failed, w.gone, w.keys, w.indexes)
        /\ Drains(Fits(ins, x.left \ w.gone, table.entries, FALSE), table.entries,
                  r.failed, r.gone, r.keys, r.indexes)
        /\ IsFiniteSet(x.left)
    <2>1. /\ table.entries \in Seq(AccountKeys)
          /\ x.left \subseteq AccountKeys /\ x.left \ w.gone \subseteq AccountKeys
      BY <1>0, Named DEF Table
    <2>2. IsFiniteSet(x.left)
      BY <2>1, Walk, FS_Subset
    <2> QED BY <2>1, <2>2, Drained
  <1> HIDE DEF w, r, y
  <1>6. /\ w.failed \in BOOLEAN
        /\ w.failed => \E k \in Fits(ins, x.left, table.entries, TRUE) :
                         TooFar(table.entries, k)
    BY <1>2 DEF Drains
  <1>3. w.failed = FALSE =>
          /\ Moved(ins, x.left, (x.left \ w.gone) \ r.gone, table, w.keys, r.keys)
          /\ LookupOf(table, w.keys, r.keys) =
               [table |-> table.key, writable |-> w.indexes, readonly |-> r.indexes]
          /\ w.indexes = <<>> <=> w.keys = <<>>
          /\ r.indexes = <<>> <=> r.keys = <<>>
    <2> SUFFICES ASSUME w.failed = FALSE PROVE
          /\ Moved(ins, x.left, (x.left \ w.gone) \ r.gone, table, w.keys, r.keys)
          /\ LookupOf(table, w.keys, r.keys) =
               [table |-> table.key, writable |-> w.indexes, readonly |-> r.indexes]
          /\ w.indexes = <<>> <=> w.keys = <<>>
          /\ r.indexes = <<>> <=> r.keys = <<>>
      OBVIOUS
    <2> DEFINE left == x.left
               refused == w.failed
               wg == w.gone
               W == w.keys
               wi == w.indexes
               failed == r.failed
               rg == r.gone
               R == r.keys
               ri == r.indexes
    <2>2. left \subseteq KeysOf(ins) /\ IsFiniteSet(left)
      BY <1>0, <1>2
    <2>3. /\ Drains(Fits(ins, left, table.entries, TRUE), table.entries, refused, wg, W, wi)
          /\ refused = FALSE
          /\ Drains(Fits(ins, left \ wg, table.entries, FALSE), table.entries, failed, rg, R, ri)
      BY <1>2
    <2> HIDE DEF left, refused, wg, W, wi, failed, rg, R, ri
    <2>4. BothMoved(ins, left, table, wg, W, wi, rg, R, ri)
      BY <2>2, <2>3, TwoDrains, Zenon
    <2> QED BY <2>4 DEF BothMoved, left, wg, W, wi, failed, rg, R, ri
  <1>4. CASE w.failed
    <2>1. y = [x EXCEPT !.failed = TRUE]
      BY <1>1, <1>4
    <2>2. "failed" \in DOMAIN y /\ y.failed = TRUE
      BY <1>0, <2>1
    <2>3. Far(ins, table)
      BY <1>0, <1>4, <1>6 DEF Far, Fits
    <2>4. TableGave(ins, x, table, y)
      BY <2>2, <2>3 DEF TableGave
    <2> QED BY <2>4 DEF y
  <1>5. CASE w.failed = FALSE
    <2> DEFINE lookups == IF w.indexes = <<>> /\ r.indexes = <<>> THEN x.lookups
                          ELSE Append(x.lookups,
                                 [table |-> table.key, writable |-> w.indexes,
                                  readonly |-> r.indexes])
               left == (x.left \ w.gone) \ r.gone
               writable == x.writable \o w.keys
               readonly == x.readonly \o r.keys
    <2>0. y = [failed |-> FALSE, left |-> left, lookups |-> lookups,
               writable |-> writable, readonly |-> readonly]
      BY <1>0, <1>1, <1>5, Zenon
    <2> HIDE DEF lookups, left, writable, readonly
    <2>4. /\ "failed" \in DOMAIN y /\ y.failed = FALSE
          /\ y.left = left /\ y.lookups = lookups
          /\ y.writable = writable /\ y.readonly = readonly
      BY <2>0
    <2>1. /\ "failed" \in DOMAIN y /\ y.failed = FALSE
          /\ y.left = (x.left \ w.gone) \ r.gone
          /\ y.lookups = IF w.indexes = <<>> /\ r.indexes = <<>> THEN x.lookups
                         ELSE Append(x.lookups,
                                [table |-> table.key, writable |-> w.indexes,
                                 readonly |-> r.indexes])
          /\ y.writable = x.writable \o w.keys /\ y.readonly = x.readonly \o r.keys
      BY <2>4, Zenon DEF lookups, left, writable, readonly
    <2>2. \/ y.lookups = x.lookups /\ w.keys = <<>> /\ r.keys = <<>>
          \/ y.lookups = Append(x.lookups, LookupOf(table, w.keys, r.keys))
      BY <1>3, <1>5, <2>1
    <2>3. Moved(ins, x.left, y.left, table, w.keys, r.keys)
      BY <1>3, <1>5, <2>1
    <2>5. y.left \subseteq x.left
      BY <2>1
    <2>6. TableGave(ins, x, table, y)
      BY <2>1, <2>2, <2>3, <2>5 DEF TableGave
    <2> QED BY <2>6 DEF y
  <1> QED BY <1>4, <1>5, <1>6

-----------------------------------------------------------------------------
(* What is known of an extraction after n of the tables.  Later tables may *)
(* stand for those it was made with.                                       *)
Taken(ins, x) ==
  /\ x.left \subseteq KeysOf(ins)
  /\ x.writable \in Seq(AccountKeys) /\ x.readonly \in Seq(AccountKeys)
  /\ \A k \in ToSet(x.writable) : MayBeLookedUp(ins, k, TRUE)
  /\ \A k \in ToSet(x.readonly) : MayBeLookedUp(ins, k, FALSE)
  /\ \A k \in KeysOf(ins) : Signer(ins, k) \/ k \in Invoked(ins) => k \in x.left
  /\ Cardinality(x.left) + Len(x.writable) + Len(x.readonly) <= Cardinality(KeysOf(ins))
  /\ x.lookups \in Seq(Lookup)

AllFound(ins, x) ==
  KeysOf(ins) \subseteq x.left \cup ToSet(x.writable) \cup ToSet(x.readonly)

NoneWraps(ins, tables, n, left) ==
  \A i \in 1 .. n : \A k \in KeysOf(ins) \cap ToSet(tables[i].entries) :
    k \notin left => IndexIn(tables[i].entries, k) # Radix

Leads(x, tables) ==
  /\ Resolvable(x, tables)
  /\ LookedUp(x, tables, "writable") = x.writable
  /\ LookedUp(x, tables, "readonly") = x.readonly

SomeFar(ins, tables, n) == \E i \in 1 .. n : Far(ins, tables[i])

Progress(ins, tables, n, later, x) ==
  /\ "failed" \in DOMAIN x /\ x.failed \in BOOLEAN
  /\ x.failed = TRUE => SomeFar(ins, tables, n)
  /\ x.failed = FALSE =>
       /\ Taken(ins, x)
       /\ AllFound(ins, x) \/ SomeFar(ins, tables, n)
       /\ NoneWraps(ins, tables, n, x.left) => Leads(x, later)

LEMMA TakenOn ==
  ASSUME NEW ins \in Seq(Instruction), NEW table \in Table, NEW x, Taken(ins, x),
         IsFiniteSet(KeysOf(ins)),
         NEW y, y.left \subseteq x.left, NEW W, NEW R,
         Moved(ins, x.left, y.left, table, W, R),
         y.writable = x.writable \o W, y.readonly = x.readonly \o R,
         \/ y.lookups = x.lookups
         \/ y.lookups = Append(x.lookups, LookupOf(table, W, R))
  PROVE  Taken(ins, y) /\ (AllFound(ins, x) => AllFound(ins, y) \/ Far(ins, table))
  <1>1. /\ W \in Seq(AccountKeys) /\ R \in Seq(AccountKeys)
        /\ \A k \in ToSet(W) : k \in ToSet(table.entries) /\ MayBeLookedUp(ins, k, TRUE)
        /\ \A k \in ToSet(R) : k \in ToSet(table.entries) /\ MayBeLookedUp(ins, k, FALSE)
        /\ \A k \in x.left \ y.left : MayBeLookedUp(ins, k, TRUE) \/ MayBeLookedUp(ins, k, FALSE)
        /\ Cardinality(y.left) + Len(W) + Len(R) <= Cardinality(x.left)
        /\ Far(ins, table) \/ x.left \subseteq y.left \cup ToSet(W) \cup ToSet(R)
    BY DEF Moved
  <1>2. /\ x.left \subseteq KeysOf(ins)
        /\ x.writable \in Seq(AccountKeys) /\ x.readonly \in Seq(AccountKeys)
        /\ Cardinality(x.left) + Len(x.writable) + Len(x.readonly) <= Cardinality(KeysOf(ins))
    BY DEF Taken
  <1>3. /\ y.writable \in Seq(AccountKeys)
        /\ ToSet(y.writable) = ToSet(x.writable) \cup ToSet(W)
        /\ Len(y.writable) = Len(x.writable) + Len(W)
        /\ Len(x.writable) \in Nat /\ Len(W) \in Nat
    BY <1>1, <1>2, ConcatSeqs, ConcatToSet
  <1>4. /\ y.readonly \in Seq(AccountKeys)
        /\ ToSet(y.readonly) = ToSet(x.readonly) \cup ToSet(R)
        /\ Len(y.readonly) = Len(x.readonly) + Len(R)
        /\ Len(x.readonly) \in Nat /\ Len(R) \in Nat
    BY <1>1, <1>2, ConcatSeqs, ConcatToSet
  <1>5. Cardinality(y.left) + Len(y.writable) + Len(y.readonly) <= Cardinality(KeysOf(ins))
    <2>1. IsFiniteSet(x.left) /\ IsFiniteSet(y.left)
      BY <1>2, FS_Subset
    <2>2. /\ Cardinality(x.left) \in Nat /\ Cardinality(y.left) \in Nat
          /\ Cardinality(KeysOf(ins)) \in Nat
      BY <2>1, FS_CardinalityType
    <2> DEFINE a == Cardinality(y.left)
               b == Cardinality(x.left)
               c == Cardinality(KeysOf(ins))
    <2> HIDE DEF a, b, c
    <2> DEFINE u == Len(W)
               v == Len(R)
               xu == Len(x.writable)
               xv == Len(x.readonly)
               yu == Len(y.writable)
               yv == Len(y.readonly)
    <2>3. /\ a + u + v <= b /\ b + xu + xv <= c /\ yu = xu + u /\ yv = xv + v
          /\ a \in Nat /\ b \in Nat /\ c \in Nat /\ u \in Nat /\ v \in Nat
          /\ xu \in Nat /\ xv \in Nat
      BY <1>1, <1>2, <1>3, <1>4, <2>2 DEF a, b, c
    <2> HIDE DEF u, v, xu, xv, yu, yv
    <2>4. a + yu + yv <= c
      BY <2>3
    <2> QED BY <2>4 DEF a, c, yu, yv
  <1>6. y.lookups \in Seq(Lookup)
    <2>1. LookupOf(table, W, R) \in Lookup
      <3>1. ToSet(W) \subseteq ToSet(table.entries) /\ ToSet(R) \subseteq ToSet(table.entries)
        BY <1>1
      <3> DEFINE wi == [n \in DOMAIN W |-> IndexIn(table.entries, W[n]) % Radix]
                 ri == [n \in DOMAIN R |-> IndexIn(table.entries, R[n]) % Radix]
      <3>2. wi \in Seq(Byte) /\ ri \in Seq(Byte)
        BY <1>1, <3>1, IndexesType
      <3>3. LookupOf(table, W, R) = [table |-> table.key, writable |-> wi, readonly |-> ri]
        BY DEF LookupOf
      <3>4. table.key \in STRING
        BY DEF Table
      <3> HIDE DEF wi, ri
      <3> QED BY <3>2, <3>3, <3>4 DEF Lookup
    <2>2. x.lookups \in Seq(Lookup)
      BY DEF Taken
    <2>3. CASE y.lookups = x.lookups
      BY <2>2, <2>3
    <2>4. CASE y.lookups = Append(x.lookups, LookupOf(table, W, R))
      <3>1. Append(x.lookups, LookupOf(table, W, R)) \in Seq(Lookup)
        BY <2>1, <2>2, AppendProperties
      <3> QED BY <2>4, <3>1
    <2> QED BY <2>3, <2>4
  <1>7. \A k \in KeysOf(ins) : Signer(ins, k) \/ k \in Invoked(ins) => k \in y.left
    <2>1. \A k \in KeysOf(ins) : Signer(ins, k) \/ k \in Invoked(ins) => k \in x.left
      BY DEF Taken
    <2> QED BY <1>1, <2>1 DEF MayBeLookedUp
  <1>8. Taken(ins, y)
    <2>1. \A k \in ToSet(y.writable) : MayBeLookedUp(ins, k, TRUE)
      BY <1>1, <1>3 DEF Taken
    <2>2. \A k \in ToSet(y.readonly) : MayBeLookedUp(ins, k, FALSE)
      BY <1>1, <1>4 DEF Taken
    <2>3. y.left \subseteq KeysOf(ins)
      BY <1>2
    <2> QED BY <1>3, <1>4, <1>5, <1>6, <1>7, <2>1, <2>2, <2>3 DEF Taken
  <1>9. AllFound(ins, x) => AllFound(ins, y) \/ Far(ins, table)
    BY <1>1, <1>3, <1>4 DEF AllFound
  <1> QED BY <1>8, <1>9

LEMMA ProgressOn ==
  ASSUME NEW ins \in Seq(Instruction), NEW order \in Orders,
         NEW tables \in Seq(Table), NEW n \in Nat, n + 1 <= Len(tables),
         NEW later, Distinct(later), HasTable(later, tables[n + 1]),
         NEW x, Progress(ins, tables, n, later, x),
         NEW y, y = Extract(ins, order, x, tables[n + 1])
  PROVE  Progress(ins, tables, n + 1, later, y)
  <1> DEFINE table == tables[n + 1]
  <1>1. /\ table \in Table /\ n + 1 \in 1 .. n + 1
        /\ \A i \in 1 .. n : i \in 1 .. n + 1
        /\ \A i \in 1 .. n + 1 : i \in 1 .. n \/ i = n + 1
    OBVIOUS
  <1>2. /\ SomeFar(ins, tables, n) => SomeFar(ins, tables, n + 1)
        /\ Far(ins, table) => SomeFar(ins, tables, n + 1)
    BY <1>1 DEF SomeFar
  <1>3. "failed" \in DOMAIN x /\ x.failed \in BOOLEAN
    BY DEF Progress
  <1>4. CASE x.failed = TRUE
    <2>1. y = [x EXCEPT !.failed = TRUE]
      BY <1>4, Zenon DEF Extract
    <2>2. "failed" \in DOMAIN y /\ y.failed = TRUE
      BY <1>3, <2>1
    <2>3. SomeFar(ins, tables, n + 1)
      BY <1>2, <1>4 DEF Progress
    <2> QED BY <2>2, <2>3 DEF Progress
  <1>5. CASE x.failed = FALSE
    <2>1. /\ Taken(ins, x)
          /\ AllFound(ins, x) \/ SomeFar(ins, tables, n)
          /\ NoneWraps(ins, tables, n, x.left) => Leads(x, later)
      BY <1>5 DEF Progress
    <2>2. /\ x.left \subseteq KeysOf(ins)
          /\ x.writable \in Seq(AccountKeys) /\ x.readonly \in Seq(AccountKeys)
          /\ x.lookups \in Seq(Lookup)
      BY <2>1 DEF Taken
    <2> HIDE DEF table
    <2>3. TableGave(ins, x, table, y)
      <3>1. y = Extract(ins, order, x, table)
        BY DEF table
      <3>2. Unfailed(ins, x)
        BY <1>3, <1>5, <2>2 DEF Unfailed
      <3>3. TableGave(ins, x, table, Extract(ins, order, x, table))
        BY <1>1, <3>2, ExtractedOne, Zenon
      <3> QED BY <3>1, <3>3, Zenon
    <2>4. CASE y.failed = TRUE
      BY <1>2, <2>3, <2>4 DEF Progress, TableGave
    <2>5. CASE y.failed = FALSE
      <3>1. y.left \subseteq x.left
        BY <2>3, <2>5 DEF TableGave
      <3>2. PICK W, R :
              /\ Moved(ins, x.left, y.left, table, W, R)
              /\ y.writable = x.writable \o W /\ y.readonly = x.readonly \o R
              /\ \/ y.lookups = x.lookups /\ W = <<>> /\ R = <<>>
                 \/ y.lookups = Append(x.lookups, LookupOf(table, W, R))
        BY <2>3, <2>5 DEF TableGave
      <3>3. IsFiniteSet(KeysOf(ins))
        BY Named, Walk, FS_Subset
      <3>4. Taken(ins, y) /\ (AllFound(ins, x) => AllFound(ins, y) \/ Far(ins, table))
        BY <1>1, <2>1, <3>1, <3>2, <3>3, TakenOn
      <3>5. ASSUME NoneWraps(ins, tables, n + 1, y.left)
            PROVE  Leads(y, later)
        <4>1. NoneWraps(ins, tables, n, x.left)
          BY <1>1, <3>1, <3>5 DEF NoneWraps
        <4>2. Leads(x, later)
          BY <2>1, <4>1
        <4>3. CASE y.lookups = x.lookups /\ W = <<>> /\ R = <<>>
          <5>1. y.writable = x.writable /\ y.readonly = x.readonly
            BY <2>2, <3>2, <4>3
          <5> QED BY <4>2, <4>3, <5>1 DEF Leads, Resolvable, LookedUp
        <4>4. CASE y.lookups = Append(x.lookups, LookupOf(table, W, R))
          <5>1. \A k \in x.left \ y.left : k \in ToSet(table.entries) =>
                  IndexIn(table.entries, k) # Radix
            BY <1>1, <2>2, <3>5 DEF NoneWraps, table
          <5>2. \A k \in ToSet(table.entries) :
                  ~ TooFar(table.entries, k) /\ IndexIn(table.entries, k) # Radix =>
                    IndexIn(table.entries, k) < Radix
            <6>1. table.entries \in Seq(AccountKeys)
              BY <1>1 DEF Table
            <6>2. \A k \in ToSet(table.entries) : IndexIn(table.entries, k) \in Nat
              BY <6>1, FirstIndex
            <6> QED BY <6>2, RadixAssumption DEF TooFar
          <5>3. InReach(table, W) /\ InReach(table, R)
            BY <3>2, <5>1, <5>2 DEF InReach, Moved
          <5>4. Resolvable(x, later) /\ HasTable(later, table)
            BY <4>2 DEF Leads, table
          <5>5. Lengthened(x, y, table, W, R)
            BY <2>2, <4>4 DEF Lengthened
          <5>6. LedOn(x, y, later, W, R)
            BY <1>1, <5>3, <5>4, <5>5, LeadsOn, Zenon
          <5> QED BY <3>2, <4>2, <5>6 DEF Leads, LedOn
        <4> QED BY <3>2, <4>3, <4>4
      <3>6. AllFound(ins, y) \/ SomeFar(ins, tables, n + 1)
        BY <1>2, <2>1, <3>4
      <3>7. "failed" \in DOMAIN y
        BY <2>3 DEF TableGave
      <3> QED BY <2>5, <3>4, <3>5, <3>6, <3>7 DEF Progress
    <2>6. y.failed \in BOOLEAN
      BY <2>3 DEF TableGave
    <2> QED BY <2>4, <2>5, <2>6
  <1> QED BY <1>3, <1>4, <1>5

(* The extractions one table after another exist.                          *)
Extractions(f, ins, order, tables, N) ==
  f = [n \in 0 .. N |-> IF n = 0 THEN Start(ins)
                        ELSE Extract(ins, order, f[n - 1], tables[n])]

LEMMA ExtractionsExist ==
  ASSUME NEW ins, NEW order, NEW tables, NEW N \in Nat
  PROVE  \E f : Extractions(f, ins, order, tables, N)
  <1> DEFINE Run(f, k) == f = [n \in 0 .. k |->
                                 IF n = 0 THEN Start(ins)
                                 ELSE Extract(ins, order, f[n - 1], tables[n])]
             T == {k \in Nat : \E f : Run(f, k)}
  <1>1. 0 \in T
    <2> DEFINE f == [n \in 0 .. 0 |-> Start(ins)]
    <2>1. Run(f, 0)
      OBVIOUS
    <2> HIDE DEF f, Run
    <2> QED BY <2>1
  <1>2. ASSUME NEW k \in Nat, k \in T
        PROVE  k + 1 \in T
    <2>1. PICK f : Run(f, k)
      BY <1>2
    <2> DEFINE last == Extract(ins, order, f[k], tables[k + 1])
               h == [n \in 0 .. k + 1 |-> IF n <= k THEN f[n] ELSE last]
    <2> HIDE DEF last
    <2>2. ASSUME NEW n \in 0 .. k + 1
          PROVE  h[n] = IF n = 0 THEN Start(ins)
                        ELSE Extract(ins, order, h[n - 1], tables[n])
      <3>1. CASE n <= k
        <4>1. n \in 0 .. k /\ h[n] = f[n] /\ (n # 0 => h[n - 1] = f[n - 1])
          BY <3>1
        <4>2. f[n] = IF n = 0 THEN Start(ins)
                     ELSE Extract(ins, order, f[n - 1], tables[n])
          BY <2>1, <4>1
        <4> HIDE DEF h, Run
        <4> QED BY <4>1, <4>2
      <3>2. CASE n = k + 1
        <4>1. h[n] = last /\ n # 0 /\ h[n - 1] = f[k]
          BY <3>2
        <4> HIDE DEF h, Run
        <4> QED BY <3>2, <4>1 DEF last
      <3> QED BY <3>1, <3>2
    <2>3. Run(h, k + 1)
      <3>1. h = [n \in 0 .. k + 1 |-> h[n]]
        OBVIOUS
      <3> HIDE DEF h
      <3> QED BY <2>2, <3>1
    <2> HIDE DEF h, Run
    <2> QED BY <2>3
  <1> HIDE DEF T
  <1>3. Nat \subseteq T
    BY <1>1, <1>2, SetInduction
  <1>4. N \in T
    BY <1>3
  <1> QED BY <1>4 DEF T, Run, Extractions

(* Before the first table every key is left, and nothing is looked up.     *)
LEMMA ProgressAtFirst ==
  ASSUME NEW ins \in Seq(Instruction), NEW order \in Orders, NEW tables, NEW later
  PROVE  Progress(ins, tables, 0, later, Start(ins))
  <1> DEFINE x == Start(ins)
  <1>1. /\ "failed" \in DOMAIN x /\ x.failed = FALSE /\ x.left = KeysOf(ins)
        /\ x.lookups = <<>> /\ x.writable = <<>> /\ x.readonly = <<>>
    BY DEF Start
  <1> HIDE DEF x
  <1>2. Taken(ins, x)
    <2>1. \A V : <<>> \in Seq(V)
      OBVIOUS
    <2>2. Cardinality(KeysOf(ins)) \in Nat /\ Len(<<>>) = 0
      <3>1. IsFiniteSet(KeysOf(ins))
        BY Named, Walk, FS_Subset
      <3> QED BY <3>1, FS_CardinalityType
    <2>3. Cardinality(x.left) + Len(x.writable) + Len(x.readonly)
            <= Cardinality(KeysOf(ins))
      BY <1>1, <2>2
    <2> QED BY <1>1, <2>1, <2>3, NoneListed DEF Taken
  <1>3. Leads(x, later)
    <2>1. Resolvable(x, later)
      BY <1>1, NoneListed DEF Resolvable
    <2>2. ASSUME NEW list
          PROVE  LookedUp(x, later, list) = <<>>
      <3>1. DOMAIN x.lookups = {}
        BY <1>1
      <3> QED BY <3>1, FlattenNothing DEF LookedUp
    <2> QED BY <1>1, <2>1, <2>2 DEF Leads
  <1> QED BY <1>1, <1>2, <1>3 DEF Progress, AllFound, x

(* All of the tables.                                                      *)
LEMMA ExtractedKnown ==
  ASSUME NEW ins \in Seq(Instruction), NEW order \in Orders,
         NEW tables \in Seq(Table), NEW later, Distinct(later),
         \A n \in 1 .. Len(tables) : HasTable(later, tables[n])
  PROVE  Progress(ins, tables, Len(tables), later, Extracted(ins, order, tables))
  <1> DEFINE N == Len(tables)
             after == CHOOSE f : f = [n \in 0 .. N |->
                        IF n = 0 THEN Start(ins)
                        ELSE Extract(ins, order, f[n - 1], tables[n])]
  <1>1. N \in Nat
    OBVIOUS
  <1>2. Extracted(ins, order, tables) = after[N]
    BY DEF Extracted
  <1>3. after = [n \in 0 .. N |-> IF n = 0 THEN Start(ins)
                                 ELSE Extract(ins, order, after[n - 1], tables[n])]
    <2>1. \E f : Extractions(f, ins, order, tables, N)
      BY <1>1, ExtractionsExist
    <2> QED BY <2>1, Zenon DEF Extractions
  <1> HIDE DEF after
  <1> DEFINE T == {n \in Nat : n <= N => Progress(ins, tables, n, later, after[n])}
  <1>4. 0 \in T
    <2>1. after[0] = Start(ins)
      BY <1>1, <1>3
    <2> QED BY <2>1, ProgressAtFirst
  <1>5. ASSUME NEW n \in Nat, n \in T
        PROVE  n + 1 \in T
    <2>1. CASE n + 1 <= N
      <3>1. n + 1 \in 1 .. N /\ n <= N /\ n + 1 \in 0 .. N /\ n + 1 # 0 /\ (n + 1) - 1 = n
        BY <1>1, <2>1
      <3>2. after[n + 1] = Extract(ins, order, after[n], tables[n + 1])
        BY <1>3, <3>1
      <3>3. HasTable(later, tables[n + 1]) /\ Progress(ins, tables, n, later, after[n])
        BY <1>5, <3>1
      <3>4. Progress(ins, tables, n + 1, later, after[n + 1])
        BY <2>1, <3>2, <3>3, ProgressOn
      <3> QED BY <3>4
    <2>2. CASE ~ (n + 1 <= N)
      BY <2>2
    <2> QED BY <2>1, <2>2
  <1> HIDE DEF T
  <1>6. Nat \subseteq T
    BY <1>4, <1>5, SetInduction
  <1>7. N \in T
    BY <1>1, <1>6
  <1> QED BY <1>1, <1>2, <1>7 DEF T

-----------------------------------------------------------------------------
(* The keys of a message, in their groups.                                 *)
Granted(ins, left, signer, writable) ==
  {k \in left : (Signer(ins, k) <=> signer) /\ (Writable(ins, k) <=> writable)}

Groups(ins, left, tt, tf, ft, ff) ==
  /\ Enumerates(tt, Granted(ins, left, TRUE, TRUE))
  /\ Enumerates(tf, Granted(ins, left, TRUE, FALSE))
  /\ Enumerates(ft, Granted(ins, left, FALSE, TRUE))
  /\ Enumerates(ff, Granted(ins, left, FALSE, FALSE))

Grouped(components, tt, tf, ft, ff) ==
  components = [payerFirst |-> tt \o tf, writableOthers |-> ft,
                readonlyOthers |-> ff, readonlySigned |-> Len(tf)]

LEMMA ComponentsKnown ==
  ASSUME NEW ins, NEW order \in Orders, NEW left, left \subseteq AccountKeys
  PROVE  \E tt, tf, ft, ff :
           /\ Groups(ins, left, tt, tf, ft, ff)
           /\ Grouped(Components(ins, order, left), tt, tf, ft, ff)
  <1> DEFINE Group(signer, writable) ==
               Picked(order, {n \in DOMAIN order :
                                /\ order[n] \in left
                                /\ Signer(ins, order[n]) <=> signer
                                /\ Writable(ins, order[n]) <=> writable})
             tt == Group(TRUE, TRUE)
             tf == Group(TRUE, FALSE)
             ft == Group(FALSE, TRUE)
             ff == Group(FALSE, FALSE)
  <1>1. ASSUME NEW s \in BOOLEAN, NEW w \in BOOLEAN
        PROVE  Enumerates(Group(s, w), Granted(ins, left, s, w))
    <2> DEFINE P == {n \in DOMAIN order :
                       /\ order[n] \in left
                       /\ Signer(ins, order[n]) <=> s
                       /\ Writable(ins, order[n]) <=> w}
               S == Granted(ins, left, s, w)
    <2>1. P \in SUBSET DOMAIN order
      OBVIOUS
    <2>2. S \subseteq AccountKeys /\ \A n \in DOMAIN order : n \in P <=> order[n] \in S
      BY DEF Granted
    <2> HIDE DEF P, S
    <2>3. Enumerates(Picked(order, P), S)
      BY <2>1, <2>2, PickedKeys
    <2> QED BY <2>3, Zenon DEF P, S
  <1>2. Components(ins, order, left) =
          [payerFirst |-> tt \o tf, writableOthers |-> ft, readonlyOthers |-> ff,
           readonlySigned |-> Len(tf)]
    BY Zenon DEF Components
  <1>3. /\ Enumerates(tt, Granted(ins, left, TRUE, TRUE))
        /\ Enumerates(tf, Granted(ins, left, TRUE, FALSE))
        /\ Enumerates(ft, Granted(ins, left, FALSE, TRUE))
        /\ Enumerates(ff, Granted(ins, left, FALSE, FALSE))
    BY <1>1, Zenon
  <1> HIDE DEF Group, tt, tf, ft, ff
  <1>4. Groups(ins, left, tt, tf, ft, ff)
    BY <1>3, Zenon DEF Groups
  <1>5. Grouped(Components(ins, order, left), tt, tf, ft, ff)
    BY <1>2, Zenon DEF Grouped
  <1> QED BY <1>4, <1>5

(* The groups together are the keys that are left.                         *)
LEMMA GroupsTogether ==
  ASSUME NEW ins, NEW left, left \subseteq AccountKeys, NEW tt, NEW tf, NEW ft, NEW ff,
         Groups(ins, left, tt, tf, ft, ff)
  PROVE  Enumerates(((tt \o tf) \o ft) \o ff, left)
  <1> DEFINE A == Granted(ins, left, TRUE, TRUE)
             B == Granted(ins, left, TRUE, FALSE)
             C == Granted(ins, left, FALSE, TRUE)
             D == Granted(ins, left, FALSE, FALSE)
  <1>1. /\ A \cap B = {} /\ (A \cup B) \cap C = {} /\ ((A \cup B) \cup C) \cap D = {}
        /\ ((A \cup B) \cup C) \cup D = left
    BY DEF Granted
  <1>2. Enumerates(tt, A) /\ Enumerates(tf, B) /\ Enumerates(ft, C) /\ Enumerates(ff, D)
    BY DEF Groups
  <1> HIDE DEF A, B, C, D
  <1>3. Enumerates(tt \o tf, A \cup B)
    BY <1>1, <1>2, ConcatEnumerates
  <1>4. Enumerates((tt \o tf) \o ft, (A \cup B) \cup C)
    BY <1>1, <1>2, <1>3, ConcatEnumerates
  <1>5. Enumerates(((tt \o tf) \o ft) \o ff, ((A \cup B) \cup C) \cup D)
    BY <1>1, <1>2, <1>4, ConcatEnumerates
  <1> QED BY <1>1, <1>5

LEMMA GroupTypes ==
  ASSUME NEW ins, NEW left, left \subseteq AccountKeys, NEW tt, NEW tf, NEW ft, NEW ff,
         Groups(ins, left, tt, tf, ft, ff)
  PROVE  /\ tt \in Seq(AccountKeys) /\ tf \in Seq(AccountKeys)
         /\ ft \in Seq(AccountKeys) /\ ff \in Seq(AccountKeys)
         /\ \A i \in 1 .. Len(tt) : Signer(ins, tt[i]) /\ Writable(ins, tt[i])
         /\ \A i \in 1 .. Len(tf) : Signer(ins, tf[i]) /\ ~ Writable(ins, tf[i])
         /\ \A i \in 1 .. Len(ft) : ~ Signer(ins, ft[i]) /\ Writable(ins, ft[i])
         /\ \A i \in 1 .. Len(ff) : ~ Signer(ins, ff[i]) /\ ~ Writable(ins, ff[i])
  <1>1. ASSUME NEW s, NEW S, S \subseteq AccountKeys, Enumerates(s, S)
        PROVE  s \in Seq(AccountKeys) /\ \A i \in 1 .. Len(s) : s[i] \in S
    <2>1. s \in Seq(S) /\ \A i \in 1 .. Len(s) : s[i] \in S
      BY <1>1, EnumeratedLength DEF Enumerates
    <2> QED BY <1>1, <2>1
  <1> DEFINE A == Granted(ins, left, TRUE, TRUE)
             B == Granted(ins, left, TRUE, FALSE)
             C == Granted(ins, left, FALSE, TRUE)
             D == Granted(ins, left, FALSE, FALSE)
  <1>2. /\ A \subseteq AccountKeys /\ B \subseteq AccountKeys
        /\ C \subseteq AccountKeys /\ D \subseteq AccountKeys
        /\ \A k \in A : Signer(ins, k) /\ Writable(ins, k)
        /\ \A k \in B : Signer(ins, k) /\ ~ Writable(ins, k)
        /\ \A k \in C : ~ Signer(ins, k) /\ Writable(ins, k)
        /\ \A k \in D : ~ Signer(ins, k) /\ ~ Writable(ins, k)
    BY DEF Granted
  <1>3. Enumerates(tt, A) /\ Enumerates(tf, B) /\ Enumerates(ft, C) /\ Enumerates(ff, D)
    BY DEF Groups
  <1> HIDE DEF A, B, C, D
  <1>4. tt \in Seq(AccountKeys) /\ \A i \in 1 .. Len(tt) : tt[i] \in A
    BY <1>1, <1>2, <1>3
  <1>5. tf \in Seq(AccountKeys) /\ \A i \in 1 .. Len(tf) : tf[i] \in B
    BY <1>1, <1>2, <1>3
  <1>6. ft \in Seq(AccountKeys) /\ \A i \in 1 .. Len(ft) : ft[i] \in C
    BY <1>1, <1>2, <1>3
  <1>7. ff \in Seq(AccountKeys) /\ \A i \in 1 .. Len(ff) : ff[i] \in D
    BY <1>1, <1>2, <1>3
  <1> QED BY <1>2, <1>4, <1>5, <1>6, <1>7

-----------------------------------------------------------------------------
(* The flags that the place of a key stands for are those asked for it.    *)
Layout(m, tt, tf, ft, ff) ==
  /\ m.keys = ((tt \o tf) \o ft) \o ff
  /\ m.required = Len(tt) + Len(tf)
  /\ m.readonlySigned = Len(tf)
  /\ m.readonlyUnsigned = Len(ff)

LEMMA FlagsByPlace ==
  ASSUME NEW ins, NEW left, left \subseteq AccountKeys, NEW tt, NEW tf, NEW ft, NEW ff,
         Groups(ins, left, tt, tf, ft, ff), NEW m, Layout(m, tt, tf, ft, ff),
         NEW W \in Seq(AccountKeys), NEW R \in Seq(AccountKeys),
         \A k \in ToSet(W) : MayBeLookedUp(ins, k, TRUE),
         \A k \in ToSet(R) : MayBeLookedUp(ins, k, FALSE),
         NEW n \in 1 .. Len(m.keys \o W \o R)
  PROVE  /\ SignerAt(m, n) <=> Signer(ins, (m.keys \o W \o R)[n])
         /\ WritableAt(m, n, Len(W)) <=> Writable(ins, (m.keys \o W \o R)[n])
  <1>1. /\ tt \in Seq(AccountKeys) /\ tf \in Seq(AccountKeys)
        /\ ft \in Seq(AccountKeys) /\ ff \in Seq(AccountKeys)
        /\ \A i \in 1 .. Len(tt) : Signer(ins, tt[i]) /\ Writable(ins, tt[i])
        /\ \A i \in 1 .. Len(tf) : Signer(ins, tf[i]) /\ ~ Writable(ins, tf[i])
        /\ \A i \in 1 .. Len(ft) : ~ Signer(ins, ft[i]) /\ Writable(ins, ft[i])
        /\ \A i \in 1 .. Len(ff) : ~ Signer(ins, ff[i]) /\ ~ Writable(ins, ff[i])
    BY GroupTypes
  <1>2. /\ \A i \in 1 .. Len(W) : ~ Signer(ins, W[i]) /\ Writable(ins, W[i])
        /\ \A i \in 1 .. Len(R) : ~ Signer(ins, R[i]) /\ ~ Writable(ins, R[i])
    <2>1. \A i \in 1 .. Len(W) : W[i] \in ToSet(W)
      BY DEF ToSet
    <2>2. \A i \in 1 .. Len(R) : R[i] \in ToSet(R)
      BY DEF ToSet
    <2> QED BY <2>1, <2>2 DEF MayBeLookedUp
  <1> DEFINE s2 == tt \o tf
             s3 == s2 \o ft
             s4 == s3 \o ff
             s5 == s4 \o W
             s6 == s5 \o R
             a == Len(tt)
             b == Len(tf)
             c == Len(ft)
             d == Len(ff)
             e == Len(W)
             f == Len(R)
  <1>3. s2 \in Seq(AccountKeys) /\ Len(s2) = a + b /\ a \in Nat /\ b \in Nat
    BY <1>1, ConcatSeqs
  <1> HIDE DEF s2
  <1>4. s3 \in Seq(AccountKeys) /\ Len(s3) = Len(s2) + c /\ c \in Nat
    <2>1. ft \in Seq(AccountKeys) /\ s2 \in Seq(AccountKeys)
      BY <1>1, <1>3
    <2> QED BY <2>1, ConcatSeqs
  <1> HIDE DEF s3
  <1>5. s4 \in Seq(AccountKeys) /\ Len(s4) = Len(s3) + d /\ d \in Nat
    <2>1. ff \in Seq(AccountKeys) /\ s3 \in Seq(AccountKeys)
      BY <1>1, <1>4
    <2> QED BY <2>1, ConcatSeqs
  <1> HIDE DEF s4
  <1>6. s5 \in Seq(AccountKeys) /\ Len(s5) = Len(s4) + e /\ e \in Nat
    BY <1>5, ConcatSeqs
  <1> HIDE DEF s5
  <1>7. s6 \in Seq(AccountKeys) /\ Len(s6) = Len(s5) + f /\ f \in Nat
    BY <1>6, ConcatSeqs
  <1>8. m.keys = s4 /\ m.keys \o W \o R = s6
    BY DEF Layout, s2, s3, s4, s5
  <1> HIDE DEF s6
  <1>9. /\ m.required = a + b /\ m.readonlySigned = b /\ m.readonlyUnsigned = d
        /\ Len(m.keys) = a + b + c + d /\ n \in 1 .. a + b + c + d + e + f
    BY <1>3, <1>4, <1>5, <1>6, <1>7, <1>8 DEF Layout
  <1> DEFINE Place(s, i) == n = Len(s) + i
  <1>10. \/ n \in 1 .. a /\ s6[n] = tt[n]
         \/ \E i \in 1 .. b : n = a + i /\ s6[n] = tf[i]
         \/ \E i \in 1 .. c : n = a + b + i /\ s6[n] = ft[i]
         \/ \E i \in 1 .. d : n = a + b + c + i /\ s6[n] = ff[i]
         \/ \E i \in 1 .. e : n = a + b + c + d + i /\ s6[n] = W[i]
         \/ \E i \in 1 .. f : n = a + b + c + d + e + i /\ s6[n] = R[i]
    <2>0. n \in 1 .. Len(s6)
      BY <1>8
    <2>1. \/ n \in 1 .. Len(s5) /\ s6[n] = s5[n]
          \/ n - Len(s5) \in 1 .. f /\ s6[n] = R[n - Len(s5)]
      BY <1>6, <2>0, PlaceInConcat DEF s6
    <2>2. n \in 1 .. Len(s5) =>
            \/ n \in 1 .. Len(s4) /\ s5[n] = s4[n]
            \/ n - Len(s4) \in 1 .. e /\ s5[n] = W[n - Len(s4)]
      BY <1>5, PlaceInConcat DEF s5
    <2>3. n \in 1 .. Len(s4) =>
            \/ n \in 1 .. Len(s3) /\ s4[n] = s3[n]
            \/ n - Len(s3) \in 1 .. d /\ s4[n] = ff[n - Len(s3)]
      BY <1>1, <1>4, PlaceInConcat DEF s4
    <2>4. n \in 1 .. Len(s3) =>
            \/ n \in 1 .. Len(s2) /\ s3[n] = s2[n]
            \/ n - Len(s2) \in 1 .. c /\ s3[n] = ft[n - Len(s2)]
      BY <1>1, <1>3, PlaceInConcat DEF s3
    <2>5. n \in 1 .. Len(s2) =>
            \/ n \in 1 .. a /\ s2[n] = tt[n]
            \/ n - a \in 1 .. b /\ s2[n] = tf[n - a]
      BY <1>1, PlaceInConcat DEF s2
    <2> HIDE DEF a, b, c, d, e, f
    <2>6. /\ n - a \in 1 .. b => n = a + (n - a)
          /\ n - Len(s2) \in 1 .. c => n = a + b + (n - Len(s2))
          /\ n - Len(s3) \in 1 .. d => n = a + b + c + (n - Len(s3))
          /\ n - Len(s4) \in 1 .. e => n = a + b + c + d + (n - Len(s4))
          /\ n - Len(s5) \in 1 .. f => n = a + b + c + d + e + (n - Len(s5))
      BY <1>3, <1>4, <1>5, <1>6, <1>7
    <2> QED BY <2>1, <2>2, <2>3, <2>4, <2>5, <2>6
  <1> DEFINE k == s6[n]
             sg == Signer(ins, k)
             wr == Writable(ins, k)
  <1>11. \/ n \in 1 .. a /\ sg /\ wr
         \/ \E i \in 1 .. b : n = a + i /\ sg /\ ~ wr
         \/ \E i \in 1 .. c : n = a + b + i /\ ~ sg /\ wr
         \/ \E i \in 1 .. d : n = a + b + c + i /\ ~ sg /\ ~ wr
         \/ \E i \in 1 .. e : n = a + b + c + d + i /\ ~ sg /\ wr
         \/ \E i \in 1 .. f : n = a + b + c + d + e + i /\ ~ sg /\ ~ wr
    BY <1>1, <1>2, <1>10
  <1> HIDE DEF a, b, c, d, e, f, k, sg, wr
  <1>12. SignerAt(m, n) <=> sg
    BY <1>3, <1>4, <1>5, <1>6, <1>7, <1>9, <1>11 DEF SignerAt
  <1>13. WritableAt(m, n, e) <=> wr
    BY <1>3, <1>4, <1>5, <1>6, <1>7, <1>9, <1>11 DEF WritableAt
  <1> QED BY <1>8, <1>12, <1>13 DEF sg, wr, k, e

-----------------------------------------------------------------------------
(* The indexes a message carries lead to the keys that were asked for.     *)
Place(all, k) == (IndexOfKey(all, k) - 1) % Radix

LEMMA IndexFits ==
  ASSUME NEW all \in Seq(AccountKeys), Len(all) <= Radix, NEW k \in ToSet(all)
  PROVE  /\ Place(all, k) \in Byte
         /\ Place(all, k) + 1 \in 1 .. Len(all)
         /\ all[Place(all, k) + 1] = k
  <1>1. DOMAIN all = 1 .. Len(all) /\ Len(all) \in Nat
    OBVIOUS
  <1>2. \E n \in DOMAIN all : all[n] = k
    BY <1>1 DEF ToSet
  <1> DEFINE i == IndexOfKey(all, k)
  <1>3. i \in DOMAIN all /\ all[i] = k
    BY <1>2 DEF IndexOfKey
  <1> HIDE DEF i
  <1>4. i - 1 \in Nat /\ i - 1 < Radix /\ i - 1 \in 0 .. Radix - 1
    BY <1>1, <1>3, RadixAssumption
  <1>5. (i - 1) % Radix = i - 1
    BY <1>4, RadixAssumption, SmallRest
  <1>6. Place(all, k) = i - 1
    BY <1>5 DEF Place, i
  <1> QED BY <1>1, <1>3, <1>4, <1>6 DEF Byte

CompiledWith(ins, all) ==
  [n \in DOMAIN ins |->
     [program  |-> Place(all, ins[n].program),
      accounts |-> [m \in DOMAIN ins[n].metas |-> Place(all, ins[n].metas[m].key)],
      data     |-> ins[n].data]]

LeadsTo(all, i, k) == i + 1 \in 1 .. Len(all) /\ all[i + 1] = k

Indexed(ins, all, compiled) ==
  /\ compiled \in Seq(Compiled)
  /\ DOMAIN compiled = DOMAIN ins /\ Len(compiled) = Len(ins)
  /\ \A n \in DOMAIN ins :
       /\ LeadsTo(all, compiled[n].program, ins[n].program)
       /\ compiled[n].data = ins[n].data
       /\ Len(compiled[n].accounts) = Len(ins[n].metas)
       /\ DOMAIN compiled[n].accounts = DOMAIN ins[n].metas
       /\ \A m \in DOMAIN ins[n].metas :
            LeadsTo(all, compiled[n].accounts[m], ins[n].metas[m].key)

LEMMA InstructionsIndexed ==
  ASSUME NEW ins \in Seq(Instruction), NEW all \in Seq(AccountKeys),
         Len(all) <= Radix, KeysOf(ins) \subseteq ToSet(all)
  PROVE  Indexed(ins, all, CompiledWith(ins, all))
  <1> DEFINE compiled == CompiledWith(ins, all)
  <1>1. /\ DOMAIN ins = 1 .. Len(ins) /\ Len(ins) \in Nat
        /\ \A n \in DOMAIN ins :
             /\ ins[n] \in Instruction
             /\ ins[n].program \in KeysOf(ins)
             /\ ins[n].metas \in Seq(Meta)
             /\ DOMAIN ins[n].metas = 1 .. Len(ins[n].metas)
             /\ \A m \in DOMAIN ins[n].metas : ins[n].metas[m].key \in KeysOf(ins)
    BY Named
  <1>2. \A k \in KeysOf(ins) : Place(all, k) \in Byte /\ LeadsTo(all, Place(all, k), k)
    BY IndexFits DEF LeadsTo
  <1>3. ASSUME NEW n \in DOMAIN ins
        PROVE  /\ compiled[n] \in Compiled
               /\ LeadsTo(all, compiled[n].program, ins[n].program)
               /\ compiled[n].data = ins[n].data
               /\ Len(compiled[n].accounts) = Len(ins[n].metas)
               /\ DOMAIN compiled[n].accounts = DOMAIN ins[n].metas
               /\ \A m \in DOMAIN ins[n].metas :
                    LeadsTo(all, compiled[n].accounts[m], ins[n].metas[m].key)
    <2> DEFINE p == Place(all, ins[n].program)
               a == [m \in DOMAIN ins[n].metas |-> Place(all, ins[n].metas[m].key)]
               d == ins[n].data
               N == Len(ins[n].metas)
    <2>1. compiled[n] = [program |-> p, accounts |-> a, data |-> d]
      BY DEF CompiledWith
    <2>2. p \in Byte /\ LeadsTo(all, p, ins[n].program)
      BY <1>1, <1>2
    <2>3. N \in Nat /\ DOMAIN ins[n].metas = 1 .. N
      BY <1>1
    <2>4. \A m \in 1 .. N : a[m] \in Byte /\ LeadsTo(all, a[m], ins[n].metas[m].key)
      BY <1>1, <1>2, <2>3
    <2>5. a = [m \in 1 .. N |-> a[m]]
      BY <2>3
    <2>6. d \in {"whole", "cut"}
      BY <1>1 DEF Instruction
    <2> HIDE DEF p, a, d, N, compiled
    <2>7. a \in [1 .. N -> Byte]
      BY <2>4, <2>5
    <2>8. a \in Seq(Byte) /\ Len(a) = N /\ DOMAIN a = 1 .. N
      BY <2>3, <2>7
    <2>9. compiled[n].program = p /\ compiled[n].accounts = a /\ compiled[n].data = d
      BY <2>1
    <2>10. compiled[n] \in Compiled
      BY <2>1, <2>2, <2>6, <2>8 DEF Compiled
    <2> QED BY <2>2, <2>3, <2>4, <2>8, <2>9, <2>10 DEF d, N
  <1>4. compiled = [n \in 1 .. Len(ins) |-> compiled[n]]
    BY <1>1 DEF CompiledWith
  <1> HIDE DEF compiled
  <1>5. compiled \in [1 .. Len(ins) -> Compiled]
    BY <1>1, <1>3, <1>4
  <1>6. compiled \in Seq(Compiled) /\ DOMAIN compiled = DOMAIN ins /\ Len(compiled) = Len(ins)
    BY <1>1, <1>5
  <1>7. Indexed(ins, all, compiled)
    BY <1>3, <1>6 DEF Indexed
  <1> QED BY <1>7 DEF compiled

(* What a compilation makes of an extraction x and the groups of the keys  *)
(* that are left.                                                          *)
AllOf(m, x) == m.keys \o x.writable \o x.readonly

Made(m, ins, x, tt, tf, ft, ff) ==
  /\ m \in Message
  /\ Layout(m, tt, tf, ft, ff)
  /\ m.lookups = x.lookups
  /\ Indexed(ins, AllOf(m, x), m.ins)
  /\ Len(AllOf(m, x)) <= Radix
  /\ Head(m.keys) = Payer

RefusedFor(m, reason) == m = Refused(reason)

Outcomes(m, ins, x, tt, tf, ft, ff) ==
  LET static == ((tt \o tf) \o ft) \o ff
      all == static \o x.writable \o x.readonly
  IN \/ RefusedFor(m, "static") /\ Cardinality(x.left) > Radix
     \/ RefusedFor(m, "payer") /\ Head(static) # Payer
     \/ RefusedFor(m, "accounts") /\ Len(all) > Radix
     \/ RefusedFor(m, "unknown") /\ ~ (KeysOf(ins) \subseteq ToSet(all))
     \/ Made(m, ins, x, tt, tf, ft, ff)

LEMMA CompileFails ==
  ASSUME NEW ins, NEW order, NEW tables, NEW version,
         Extracted(ins, order, tables).failed = TRUE
  PROVE  RefusedFor(Compile(ins, order, tables, version), "index")
  BY Zenon DEF Compile, Assembled, RefusedFor

LEMMA CompileMakes ==
  ASSUME NEW ins \in Seq(Instruction), NEW order, NEW tables,
         NEW version \in {"legacy", "v0"},
         Extracted(ins, order, tables).failed = FALSE,
         Taken(ins, Extracted(ins, order, tables)),
         NEW tt, NEW tf, NEW ft, NEW ff,
         Groups(ins, Extracted(ins, order, tables).left, tt, tf, ft, ff),
         Grouped(Components(ins, order, Extracted(ins, order, tables).left), tt, tf, ft, ff)
  PROVE  Outcomes(Compile(ins, order, tables, version), ins,
                  Extracted(ins, order, tables), tt, tf, ft, ff)
  <1> DEFINE x == Extracted(ins, order, tables)
             components == Components(ins, order, x.left)
             static == StaticKeys(components)
             all == static \o x.writable \o x.readonly
             compiled == CompiledWith(ins, all)
             first == components.payerFirst
             others == components.readonlyOthers
             result == [version          |-> version,
                        required         |-> Len(first),
                        readonlySigned   |-> components.readonlySigned,
                        readonlyUnsigned |-> Len(others),
                        keys             |-> static,
                        ins              |-> compiled,
                        lookups          |-> x.lookups]
             m == Compile(ins, order, tables, version)
  <1>1. m = IF x.failed THEN Refused("index")
            ELSE IF Cardinality(x.left) > Radix THEN Refused("static")
            ELSE IF Head(static) # Payer THEN Refused("payer")
            ELSE IF Len(all) > Radix THEN Refused("accounts")
            ELSE IF ~ (KeysOf(ins) \subseteq ToSet(all)) THEN Refused("unknown")
            ELSE result
    BY Zenon DEF Compile, Assembled, CompiledWith, Place
  <1>2. x.failed = FALSE /\ Taken(ins, x) /\ Groups(ins, x.left, tt, tf, ft, ff)
        /\ Grouped(components, tt, tf, ft, ff)
    OBVIOUS
  <1> HIDE DEF x, components, m
  <1>3. /\ first = tt \o tf /\ components.writableOthers = ft /\ others = ff
        /\ components.readonlySigned = Len(tf)
    BY <1>2 DEF Grouped
  <1>4. static = ((tt \o tf) \o ft) \o ff
    BY <1>3 DEF StaticKeys
  <1>5. /\ x.left \subseteq AccountKeys
        /\ x.writable \in Seq(AccountKeys) /\ x.readonly \in Seq(AccountKeys)
        /\ x.lookups \in Seq(Lookup)
    BY <1>2, Named DEF Taken
  <1>6. static \in Seq(AccountKeys)
    <2>1. /\ tt \in Seq(AccountKeys) /\ tf \in Seq(AccountKeys)
          /\ ft \in Seq(AccountKeys) /\ ff \in Seq(AccountKeys)
      BY <1>2, <1>5, GroupTypes
    <2>2. tt \o tf \in Seq(AccountKeys)
      BY <2>1, ConcatSeqs
    <2>3. (tt \o tf) \o ft \in Seq(AccountKeys)
      BY <2>1, <2>2, ConcatSeqs
    <2>4. ((tt \o tf) \o ft) \o ff \in Seq(AccountKeys)
      BY <2>1, <2>3, ConcatSeqs
    <2> QED BY <1>4, <2>4
  <1> HIDE DEF static
  <1>7. all \in Seq(AccountKeys)
    <2>1. static \o x.writable \in Seq(AccountKeys)
      BY <1>5, <1>6, ConcatSeqs
    <2>2. (static \o x.writable) \o x.readonly \in Seq(AccountKeys)
      BY <1>5, <2>1, ConcatSeqs
    <2> QED BY <2>2
  <1> HIDE DEF all, compiled, first, others
  <1>8. ASSUME ~ (Len(all) > Radix), KeysOf(ins) \subseteq ToSet(all),
               Head(static) = Payer, m = result
        PROVE  Made(m, ins, x, tt, tf, ft, ff)
    <2>1. Len(all) <= Radix
      BY <1>7, <1>8, RadixAssumption
    <2>2. Indexed(ins, all, compiled)
      BY <1>7, <1>8, <2>1, InstructionsIndexed DEF compiled
    <2>3. Len(first) \in Nat /\ Len(others) \in Nat /\ Len(tf) \in Nat
          /\ Len(first) = Len(tt) + Len(tf)
      <3>1. /\ tt \in Seq(AccountKeys) /\ tf \in Seq(AccountKeys) /\ ff \in Seq(AccountKeys)
        BY <1>2, <1>5, GroupTypes
      <3>2. Len(tt \o tf) = Len(tt) + Len(tf) /\ Len(tt) \in Nat /\ Len(tf) \in Nat
        BY <3>1, ConcatSeqs
      <3> QED BY <1>3, <3>1, <3>2
    <2> DEFINE a == Len(first)
               b == components.readonlySigned
               c == Len(others)
               l == x.lookups
    <2>4. m = [version |-> version, required |-> a, readonlySigned |-> b,
               readonlyUnsigned |-> c, keys |-> static, ins |-> compiled, lookups |-> l]
      BY <1>8
    <2>5. a \in Nat /\ b \in Nat /\ c \in Nat /\ l \in Seq(Lookup) /\ compiled \in Seq(Compiled)
      BY <1>3, <1>5, <2>2, <2>3 DEF Indexed
    <2> HIDE DEF a, b, c, l
    <2>6. m \in Message
      BY <1>6, <2>4, <2>5 DEF Message
    <2>7. /\ m.required = a /\ m.readonlySigned = b /\ m.readonlyUnsigned = c
          /\ m.keys = static /\ m.ins = compiled /\ m.lookups = l
      BY <2>4
    <2>8. Layout(m, tt, tf, ft, ff)
      BY <1>3, <1>4, <2>3, <2>7 DEF Layout, a, b, c
    <2>9. AllOf(m, x) = all
      BY <2>7 DEF AllOf, all
    <2> QED BY <1>8, <2>1, <2>2, <2>6, <2>7, <2>8, <2>9 DEF Made, l
  <1> HIDE DEF result
  <1>9. \/ RefusedFor(m, "static") /\ Cardinality(x.left) > Radix
        \/ RefusedFor(m, "payer") /\ Head(static) # Payer
        \/ RefusedFor(m, "accounts") /\ Len(all) > Radix
        \/ RefusedFor(m, "unknown") /\ ~ (KeysOf(ins) \subseteq ToSet(all))
        \/ Made(m, ins, x, tt, tf, ft, ff)
    BY <1>1, <1>2, <1>8, Zenon DEF RefusedFor
  <1>10. Outcomes(m, ins, x, tt, tf, ft, ff)
    BY <1>4, <1>9, Zenon DEF Outcomes, all
  <1> QED BY <1>10 DEF m, x

-----------------------------------------------------------------------------
(* Reading a message.                                                      *)
Readable(m, tables) ==
  /\ ~ (m.required - m.readonlySigned <= 0)
  /\ ~ (Len(m.keys) - m.required - m.readonlyUnsigned < 0)
  /\ ~ (tables = <<>> /\ m.lookups # <<>>)
  /\ Resolvable(m, tables)
  /\ ~ OutOfRange(m, AllKeys(m, tables))

FlaggedAs(m, keys, lookedUp, index) ==
  [key      |-> keys[index + 1],
   signer   |-> SignerAt(m, index + 1),
   writable |-> WritableAt(m, index + 1, lookedUp)]

ReadAs(m, keys, lookedUp) ==
  [n \in DOMAIN m.ins |->
     [program |-> keys[m.ins[n].program + 1],
      metas   |-> [i \in DOMAIN m.ins[n].accounts |->
                     FlaggedAs(m, keys, lookedUp, m.ins[n].accounts[i])],
      data    |-> m.ins[n].data]]

LEMMA DecompileKnown ==
  ASSUME NEW m, NEW tables
  PROVE  /\ Decompile(m, tables).ok <=> Readable(m, tables)
         /\ Readable(m, tables) =>
              /\ Decompile(m, tables).payer = Head(AllKeys(m, tables))
              /\ Decompile(m, tables).ins =
                   ReadAs(m, AllKeys(m, tables), Len(WritableLookedUp(m, tables)))
  <1> DEFINE keys == AllKeys(m, tables)
             lookedUp == Len(WritableLookedUp(m, tables))
             ins == ReadAs(m, keys, lookedUp)
             d == Decompile(m, tables)
             payer == Head(keys)
             bad == \/ m.required - m.readonlySigned <= 0
                    \/ Len(m.keys) - m.required - m.readonlyUnsigned < 0
                    \/ tables = <<>> /\ m.lookups # <<>>
                    \/ ~ Resolvable(m, tables)
  <1>1. d = IF bad THEN Unreadable
            ELSE IF OutOfRange(m, keys) THEN Unreadable
            ELSE [ok |-> TRUE, payer |-> payer, ins |-> ins]
    BY Zenon DEF Decompile, ReadAs, FlaggedAs
  <1>2. Readable(m, tables) <=> ~ bad /\ ~ OutOfRange(m, keys)
    BY DEF Readable
  <1>3. Unreadable.ok = FALSE
    BY DEF Unreadable
  <1> HIDE DEF d, ins, bad, keys, payer
  <1>4. CASE Readable(m, tables)
    <2>1. d = [ok |-> TRUE, payer |-> payer, ins |-> ins]
      BY <1>1, <1>2, <1>4, Zenon
    <2>2. d.ok = TRUE /\ d.payer = payer /\ d.ins = ins
      BY <2>1
    <2> QED BY <1>4, <2>2 DEF d, ins, keys, payer
  <1>5. CASE ~ Readable(m, tables)
    <2>1. d = Unreadable
      BY <1>1, <1>2, <1>5, Zenon
    <2> QED BY <1>3, <1>5, <2>1 DEF d
  <1> QED BY <1>4, <1>5

LEMMA ReadParts ==
  ASSUME NEW m, NEW keys, NEW lookedUp
  PROVE  /\ DOMAIN ReadAs(m, keys, lookedUp) = DOMAIN m.ins
         /\ \A n \in DOMAIN m.ins :
              LET r == ReadAs(m, keys, lookedUp)[n]
              IN /\ r.program = keys[m.ins[n].program + 1]
                 /\ r.data = m.ins[n].data
                 /\ DOMAIN r.metas = DOMAIN m.ins[n].accounts
                 /\ \A i \in DOMAIN m.ins[n].accounts :
                      /\ r.metas[i] = FlaggedAs(m, keys, lookedUp, m.ins[n].accounts[i])
                      /\ r.metas[i].key = keys[m.ins[n].accounts[i] + 1]
                      /\ r.metas[i].signer = SignerAt(m, m.ins[n].accounts[i] + 1)
                      /\ r.metas[i].writable =
                           WritableAt(m, m.ins[n].accounts[i] + 1, lookedUp)
  <1>1. DOMAIN ReadAs(m, keys, lookedUp) = DOMAIN m.ins
    BY DEF ReadAs
  <1>2. ASSUME NEW n \in DOMAIN m.ins
        PROVE  LET r == ReadAs(m, keys, lookedUp)[n]
               IN /\ r.program = keys[m.ins[n].program + 1]
                  /\ r.data = m.ins[n].data
                  /\ r.metas = [i \in DOMAIN m.ins[n].accounts |->
                                  FlaggedAs(m, keys, lookedUp, m.ins[n].accounts[i])]
    <2> DEFINE p == keys[m.ins[n].program + 1]
               a == [i \in DOMAIN m.ins[n].accounts |->
                       FlaggedAs(m, keys, lookedUp, m.ins[n].accounts[i])]
               d == m.ins[n].data
               r == ReadAs(m, keys, lookedUp)[n]
    <2>1. r = [program |-> p, metas |-> a, data |-> d]
      BY DEF ReadAs
    <2> HIDE DEF p, a, d, r
    <2>2. r.program = p /\ r.metas = a /\ r.data = d
      BY <2>1
    <2> QED BY <2>2 DEF p, a, d, r
  <1>3. ASSUME NEW index
        PROVE  LET f == FlaggedAs(m, keys, lookedUp, index)
               IN /\ f.key = keys[index + 1]
                  /\ f.signer = SignerAt(m, index + 1)
                  /\ f.writable = WritableAt(m, index + 1, lookedUp)
    <2> DEFINE k == keys[index + 1]
               s == SignerAt(m, index + 1)
               w == WritableAt(m, index + 1, lookedUp)
               f == FlaggedAs(m, keys, lookedUp, index)
    <2>1. f = [key |-> k, signer |-> s, writable |-> w]
      BY DEF FlaggedAs
    <2> HIDE DEF k, s, w, f
    <2>2. f.key = k /\ f.signer = s /\ f.writable = w
      BY <2>1
    <2> QED BY <2>2 DEF k, s, w, f
  <1>4. ASSUME NEW n \in DOMAIN m.ins, NEW i \in DOMAIN m.ins[n].accounts
        PROVE  LET r == ReadAs(m, keys, lookedUp)[n]
               IN r.metas[i] = FlaggedAs(m, keys, lookedUp, m.ins[n].accounts[i])
    BY <1>2
  <1> QED BY <1>1, <1>2, <1>3, <1>4

(* What the tables lead a message to is what was asked, and its programs   *)
(* are among its own keys.                                                 *)
Means(m, tables, ins) ==
  /\ Decompile(m, tables).ok
  /\ Decompile(m, tables).payer = Payer
  /\ SameMeaning(Decompile(m, tables).ins, ins)
  /\ \A n \in DOMAIN m.ins : m.ins[n].program < Len(m.keys)

LEMMA MadeParts ==
  ASSUME NEW ins \in Seq(Instruction), NEW x, Taken(ins, x),
         NEW tt, NEW tf, NEW ft, NEW ff, Groups(ins, x.left, tt, tf, ft, ff),
         NEW m, Made(m, ins, x, tt, tf, ft, ff)
  PROVE  /\ m.keys \in Seq(AccountKeys) /\ Enumerates(m.keys, x.left)
         /\ m.required \in Nat /\ m.readonlySigned \in Nat /\ m.readonlyUnsigned \in Nat
         /\ m.required - m.readonlySigned > 0
         /\ Len(m.keys) - m.required - m.readonlyUnsigned >= 0
         /\ m.required <= Len(m.keys) /\ Len(m.keys) \in Nat
         /\ Len(m.keys) <= Len(AllOf(m, x)) /\ AllOf(m, x) \in Seq(AccountKeys)
         /\ Head(AllOf(m, x)) = Payer
  <1>1. /\ m.keys = ((tt \o tf) \o ft) \o ff
        /\ m.required = Len(tt) + Len(tf)
        /\ m.readonlySigned = Len(tf)
        /\ m.readonlyUnsigned = Len(ff)
        /\ Head(m.keys) = Payer
    BY DEF Made, Layout
  <1>2. /\ x.left \subseteq AccountKeys
        /\ x.writable \in Seq(AccountKeys) /\ x.readonly \in Seq(AccountKeys)
        /\ Payer \in x.left
    BY Named DEF Taken
  <1>3. Enumerates(m.keys, x.left)
    BY <1>1, <1>2, GroupsTogether
  <1>4. /\ tt \in Seq(AccountKeys) /\ tf \in Seq(AccountKeys)
        /\ ft \in Seq(AccountKeys) /\ ff \in Seq(AccountKeys)
    BY <1>2, GroupTypes
  <1>5. /\ Len(tt) \in Nat /\ Len(tf) \in Nat /\ Len(ft) \in Nat /\ Len(ff) \in Nat
        /\ m.keys \in Seq(AccountKeys)
        /\ Len(m.keys) = Len(tt) + Len(tf) + Len(ft) + Len(ff)
    <2>1. /\ tt \o tf \in Seq(AccountKeys) /\ Len(tt \o tf) = Len(tt) + Len(tf)
          /\ Len(tt) \in Nat /\ Len(tf) \in Nat
      BY <1>4, ConcatSeqs
    <2>2. /\ (tt \o tf) \o ft \in Seq(AccountKeys)
          /\ Len((tt \o tf) \o ft) = Len(tt \o tf) + Len(ft) /\ Len(ft) \in Nat
      BY <1>4, <2>1, ConcatSeqs
    <2>3. /\ ((tt \o tf) \o ft) \o ff \in Seq(AccountKeys)
          /\ Len(((tt \o tf) \o ft) \o ff) = Len((tt \o tf) \o ft) + Len(ff)
          /\ Len(ff) \in Nat
      BY <1>4, <2>2, ConcatSeqs
    <2> QED BY <1>1, <2>1, <2>2, <2>3
  <1>6. Len(tt) > 0
    <2>1. Payer \in Granted(ins, x.left, TRUE, TRUE)
      BY <1>2, Named DEF Granted
    <2>2. Enumerates(tt, Granted(ins, x.left, TRUE, TRUE))
      BY DEF Groups
    <2>3. \E i \in 1 .. Len(tt) : tt[i] = Payer
      BY <2>1, <2>2, EnumeratedLength
    <2> QED BY <1>5, <2>3
  <1> DEFINE k == m.keys
             w == x.writable
             r == x.readonly
             all == AllOf(m, x)
  <1>7. /\ Len(all) = Len(k) + Len(w) + Len(r)
        /\ Len(k) \in Nat /\ Len(w) \in Nat /\ Len(r) \in Nat
        /\ all \in Seq(AccountKeys)
        /\ \A i \in 1 .. Len(k) : all[i] = k[i]
    <2>1. k \in Seq(AccountKeys) /\ w \in Seq(AccountKeys) /\ r \in Seq(AccountKeys)
      BY <1>2, <1>5
    <2>2. all = k \o w \o r
      BY DEF AllOf
    <2> HIDE DEF k, w, r, all
    <2>3. /\ k \o w \o r \in Seq(AccountKeys)
          /\ Len(k) \in Nat /\ Len(w) \in Nat /\ Len(r) \in Nat
          /\ Len(k \o w \o r) = Len(k) + Len(w) + Len(r)
          /\ \A i \in 1 .. Len(k) : (k \o w \o r)[i] = k[i]
      BY <2>1, ThreeInARow
    <2> QED BY <2>2, <2>3
  <1>8. Head(all) = Payer
    <2>1. Head(k) = Payer /\ k \in Seq(AccountKeys) /\ Len(k) > 0
      <3>1. Len(k) > 0
        <4> DEFINE a == Len(tt)
                   b == Len(tf)
                   c == Len(ft)
                   d == Len(ff)
        <4>1. /\ Len(k) = a + b + c + d /\ a \in Nat /\ b \in Nat /\ c \in Nat /\ d \in Nat
              /\ a > 0
          BY <1>5, <1>6
        <4> HIDE DEF a, b, c, d
        <4> QED BY <4>1
      <3> QED BY <1>1, <1>5, <3>1
    <2> HIDE DEF k, w, r, all
    <2>2. Len(all) > 0 /\ 1 \in 1 .. Len(k)
      BY <1>7, <2>1
    <2>3. Head(all) = all[1] /\ Head(k) = k[1]
      BY <1>7, <2>1, <2>2
    <2> QED BY <1>7, <2>1, <2>2, <2>3
  <1>9. /\ m.required - m.readonlySigned > 0
        /\ Len(k) - m.required - m.readonlyUnsigned >= 0
        /\ m.required \in Nat /\ m.readonlySigned \in Nat /\ m.readonlyUnsigned \in Nat
        /\ m.required <= Len(k) /\ Len(k) <= Len(all)
    <2> DEFINE a == Len(tt)
               b == Len(tf)
               c == Len(ft)
               d == Len(ff)
               n == Len(k)
    <2>1. /\ n = a + b + c + d /\ a \in Nat /\ b \in Nat /\ c \in Nat /\ d \in Nat /\ a > 0
          /\ m.required = a + b /\ m.readonlySigned = b /\ m.readonlyUnsigned = d
          /\ Len(all) = n + Len(w) + Len(r)
      BY <1>1, <1>5, <1>6, <1>7
    <2> HIDE DEF a, b, c, d, n, k, w, r, all
    <2>2. n <= Len(all)
      BY <1>7, <2>1
    <2> QED BY <2>1, <2>2 DEF n
  <1>10. k \in Seq(AccountKeys) /\ Enumerates(k, x.left)
    BY <1>3, <1>5
  <1> HIDE DEF k, w, r, all
  <1> QED BY <1>7, <1>8, <1>9, <1>10 DEF k, all

LEMMA MessageTypes ==
  ASSUME NEW m \in Message
  PROVE  /\ m.keys \in Seq(AccountKeys) /\ m.lookups \in Seq(Lookup)
         /\ m.required \in Nat /\ m.readonlySigned \in Nat /\ m.readonlyUnsigned \in Nat
         /\ m.ins \in Seq(Compiled) /\ DOMAIN m.ins = 1 .. Len(m.ins) /\ Len(m.ins) \in Nat
         /\ \A n \in DOMAIN m.ins :
              /\ m.ins[n].program \in Nat
              /\ m.ins[n].data \in {"whole", "cut"}
              /\ m.ins[n].accounts \in Seq(Byte)
              /\ DOMAIN m.ins[n].accounts = 1 .. Len(m.ins[n].accounts)
              /\ Len(m.ins[n].accounts) \in Nat
              /\ \A i \in DOMAIN m.ins[n].accounts : m.ins[n].accounts[i] \in Nat
  <1>1. /\ m.keys \in Seq(AccountKeys) /\ m.lookups \in Seq(Lookup)
        /\ m.required \in Nat /\ m.readonlySigned \in Nat /\ m.readonlyUnsigned \in Nat
        /\ m.ins \in Seq(Compiled)
    BY DEF Message
  <1>2. DOMAIN m.ins = 1 .. Len(m.ins) /\ Len(m.ins) \in Nat
        /\ \A n \in DOMAIN m.ins : m.ins[n] \in Compiled
    BY <1>1
  <1>3. ASSUME NEW c \in Compiled
        PROVE  /\ c.program \in Nat /\ c.data \in {"whole", "cut"}
               /\ c.accounts \in Seq(Byte) /\ DOMAIN c.accounts = 1 .. Len(c.accounts)
               /\ Len(c.accounts) \in Nat
               /\ \A i \in DOMAIN c.accounts : c.accounts[i] \in Nat
    <2>1. c.program \in Byte /\ c.data \in {"whole", "cut"} /\ c.accounts \in Seq(Byte)
      BY DEF Compiled
    <2>2. \A i \in Byte : i \in Nat
      BY RadixAssumption DEF Byte
    <2> QED BY <2>1, <2>2
  <1> QED BY <1>1, <1>2, <1>3

LEMMA InRange ==
  ASSUME NEW m, NEW keys
  PROVE  OutOfRange(m, keys) <=>
           \E n \in DOMAIN m.ins :
             \/ m.ins[n].program >= Len(keys)
             \/ \E i \in DOMAIN m.ins[n].accounts : m.ins[n].accounts[i] >= Len(keys)
  BY DEF OutOfRange, ToSet

LEMMA NoTablesNoLookups ==
  ASSUME NEW m, m.lookups \in Seq(Lookup), Resolvable(m, <<>>)
  PROVE  m.lookups = <<>>
  <1> SUFFICES ASSUME m.lookups # <<>> PROVE FALSE
    OBVIOUS
  <1>1. Len(m.lookups) \in Nat /\ Len(m.lookups) # 0 /\ DOMAIN m.lookups = 1 .. Len(m.lookups)
    BY EmptySeq
  <1>2. m.lookups[1] \in ToSet(m.lookups)
    BY <1>1 DEF ToSet
  <1>3. \E t \in ToSet(<<>>) : t.key = m.lookups[1].table
    BY <1>2 DEF Resolvable
  <1> QED BY <1>3, NoneListed

LEMMA MadeMeans ==
  ASSUME NEW ins \in Seq(Instruction), NEW x, Taken(ins, x),
         NEW tt, NEW tf, NEW ft, NEW ff, Groups(ins, x.left, tt, tf, ft, ff),
         NEW m, Made(m, ins, x, tt, tf, ft, ff),
         NEW later, Leads(x, later)
  PROVE  Means(m, later, ins)
  <1> DEFINE all == AllOf(m, x)
             W == x.writable
             R == x.readonly
  <1>1. /\ m.keys \in Seq(AccountKeys)
        /\ m.required \in Nat /\ m.readonlySigned \in Nat /\ m.readonlyUnsigned \in Nat
        /\ m.required - m.readonlySigned > 0
        /\ Len(m.keys) - m.required - m.readonlyUnsigned >= 0
        /\ Len(m.keys) \in Nat
        /\ all \in Seq(AccountKeys) /\ Head(all) = Payer
    BY MadeParts
  <1>2. m \in Message /\ m.lookups = x.lookups /\ Indexed(ins, all, m.ins)
        /\ Layout(m, tt, tf, ft, ff)
    BY DEF Made
  <1>3. /\ Resolvable(m, later)
        /\ WritableLookedUp(m, later) = W
        /\ ReadonlyLookedUp(m, later) = R
    BY <1>2 DEF Leads, Resolvable, LookedUp, WritableLookedUp, ReadonlyLookedUp
  <1>4. AllKeys(m, later) = all
    BY <1>3 DEF AllKeys, AllOf
  <1>5. /\ x.left \subseteq AccountKeys
        /\ W \in Seq(AccountKeys) /\ R \in Seq(AccountKeys)
        /\ \A k \in ToSet(W) : MayBeLookedUp(ins, k, TRUE)
        /\ \A k \in ToSet(R) : MayBeLookedUp(ins, k, FALSE)
    BY Named DEF Taken
  <1>6. /\ DOMAIN m.ins = 1 .. Len(m.ins) /\ Len(m.ins) \in Nat
        /\ \A n \in DOMAIN m.ins :
             /\ m.ins[n].program \in Nat
             /\ DOMAIN m.ins[n].accounts = 1 .. Len(m.ins[n].accounts)
             /\ Len(m.ins[n].accounts) \in Nat
             /\ \A i \in DOMAIN m.ins[n].accounts : m.ins[n].accounts[i] \in Nat
    BY <1>2, MessageTypes
  <1>7. /\ DOMAIN m.ins = DOMAIN ins /\ Len(m.ins) = Len(ins)
        /\ \A n \in DOMAIN ins :
             /\ LeadsTo(all, m.ins[n].program, ins[n].program)
             /\ m.ins[n].data = ins[n].data
             /\ Len(m.ins[n].accounts) = Len(ins[n].metas)
             /\ DOMAIN m.ins[n].accounts = DOMAIN ins[n].metas
             /\ \A i \in DOMAIN ins[n].metas :
                  LeadsTo(all, m.ins[n].accounts[i], ins[n].metas[i].key)
    BY <1>2 DEF Indexed
  <1>8. Readable(m, later)
    <2>1. ~ OutOfRange(m, all)
      <3>1. ASSUME NEW i \in Nat, NEW k, LeadsTo(all, i, k)
            PROVE  ~ (i >= Len(all))
        <4>1. Len(all) \in Nat
          BY <1>1
        <4> QED BY <3>1, <4>1 DEF LeadsTo
      <3> HIDE DEF all
      <3> QED BY <1>6, <1>7, <3>1, InRange
    <2>2. later = <<>> => m.lookups = <<>>
      <3>1. m.lookups \in Seq(Lookup)
        BY <1>2, MessageTypes
      <3> QED BY <1>3, <3>1, NoTablesNoLookups
    <2> HIDE DEF all
    <2>3. ~ (m.required - m.readonlySigned <= 0)
          /\ ~ (Len(m.keys) - m.required - m.readonlyUnsigned < 0)
      BY <1>1
    <2> QED BY <1>3, <1>4, <2>1, <2>2, <2>3 DEF Readable
  <1> DEFINE d == Decompile(m, later)
             read == ReadAs(m, all, Len(W))
  <1>9. d.ok /\ d.payer = Payer /\ d.ins = read
    BY <1>1, <1>3, <1>4, <1>8, DecompileKnown
  <1>10. ASSUME NEW i \in Nat, NEW k, LeadsTo(all, i, k)
         PROVE  /\ all[i + 1] = k
                /\ SignerAt(m, i + 1) <=> Signer(ins, k)
                /\ WritableAt(m, i + 1, Len(W)) <=> Writable(ins, k)
    <2>1. i + 1 \in 1 .. Len(m.keys \o W \o R) /\ (m.keys \o W \o R)[i + 1] = k
      BY <1>10 DEF LeadsTo, AllOf
    <2> HIDE DEF W, R
    <2>2. /\ SignerAt(m, i + 1) <=> Signer(ins, (m.keys \o W \o R)[i + 1])
          /\ WritableAt(m, i + 1, Len(W)) <=> Writable(ins, (m.keys \o W \o R)[i + 1])
      BY <1>2, <1>5, <2>1, FlagsByPlace
    <2> QED BY <1>10, <2>1, <2>2 DEF LeadsTo
  <1> HIDE DEF all, d, W
  <1>11. SameMeaning(read, ins)
    <2>1. /\ DOMAIN read = DOMAIN m.ins
          /\ \A n \in DOMAIN m.ins :
               /\ read[n].program = all[m.ins[n].program + 1]
               /\ read[n].data = m.ins[n].data
               /\ DOMAIN read[n].metas = DOMAIN m.ins[n].accounts
               /\ \A i \in DOMAIN m.ins[n].accounts :
                    /\ read[n].metas[i].key = all[m.ins[n].accounts[i] + 1]
                    /\ read[n].metas[i].signer = SignerAt(m, m.ins[n].accounts[i] + 1)
                    /\ read[n].metas[i].writable =
                         WritableAt(m, m.ins[n].accounts[i] + 1, Len(W))
      BY ReadParts
    <2>2. \A n \in DOMAIN m.ins :
            read[n] = [program |-> all[m.ins[n].program + 1],
                       metas   |-> [i \in DOMAIN m.ins[n].accounts |->
                          FlaggedAs(m, all, Len(W), m.ins[n].accounts[i])],
                       data    |-> m.ins[n].data]
      BY DEF ReadAs
    <2>3. Len(read) = Len(ins)
      <3>1. read = [n \in 1 .. Len(m.ins) |-> read[n]]
        BY <1>6, <2>1 DEF ReadAs
      <3> HIDE DEF read
      <3>2. DOMAIN read = 1 .. Len(m.ins)
        BY <1>6, <2>1
      <3>3. Len(read) = Len(m.ins)
        BY <1>6, <3>1
      <3> QED BY <1>7, <3>3
    <2>4. ASSUME NEW n \in DOMAIN ins
          PROVE  Len(read[n].metas) = Len(ins[n].metas)
      <3> DEFINE N == Len(m.ins[n].accounts)
                 a == [i \in DOMAIN m.ins[n].accounts |->
                        FlaggedAs(m, all, Len(W), m.ins[n].accounts[i])]
      <3>1. N \in Nat /\ a = [i \in 1 .. N |-> a[i]]
        BY <1>6, <1>7
      <3>2. read[n].metas = a
        <4> DEFINE p == all[m.ins[n].program + 1]
                   c == m.ins[n].data
        <4>1. read[n] = [program |-> p, metas |-> a, data |-> c]
          BY <1>7, <2>2
        <4> HIDE DEF a, p, c, read
        <4> QED BY <4>1
      <3> HIDE DEF a, N, read
      <3>3. Len(a) = N
        BY <3>1
      <3> QED BY <1>7, <3>2, <3>3 DEF N
    <2> HIDE DEF read
    <2>5. ASSUME NEW n \in DOMAIN ins
          PROVE  /\ read[n].program = ins[n].program
                 /\ read[n].data = ins[n].data
                 /\ \A i \in DOMAIN read[n].metas :
                      /\ read[n].metas[i].key = ins[n].metas[i].key
                      /\ read[n].metas[i].signer <=> Signer(ins, read[n].metas[i].key)
                      /\ read[n].metas[i].writable <=> Writable(ins, read[n].metas[i].key)
      <3>1. n \in DOMAIN m.ins
        BY <1>7
      <3>2. read[n].program = ins[n].program
        <4>1. m.ins[n].program \in Nat /\ LeadsTo(all, m.ins[n].program, ins[n].program)
          BY <1>6, <1>7, <3>1
        <4> QED BY <1>10, <2>1, <3>1, <4>1
      <3>3. read[n].data = ins[n].data
        BY <1>7, <2>1, <3>1
      <3>4. ASSUME NEW i \in DOMAIN read[n].metas
            PROVE  /\ read[n].metas[i].key = ins[n].metas[i].key
                   /\ read[n].metas[i].signer <=> Signer(ins, read[n].metas[i].key)
                   /\ read[n].metas[i].writable <=> Writable(ins, read[n].metas[i].key)
        <4> DEFINE index == m.ins[n].accounts[i]
                   k == ins[n].metas[i].key
        <4>1. i \in DOMAIN m.ins[n].accounts /\ i \in DOMAIN ins[n].metas
          BY <1>7, <2>1, <3>1
        <4>2. index \in Nat /\ LeadsTo(all, index, k)
          BY <1>6, <1>7, <3>1, <4>1
        <4>3. /\ read[n].metas[i].key = all[index + 1]
              /\ read[n].metas[i].signer = SignerAt(m, index + 1)
              /\ read[n].metas[i].writable = WritableAt(m, index + 1, Len(W))
          BY <2>1, <3>1, <4>1
        <4> HIDE DEF index, k
        <4>4. /\ all[index + 1] = k
              /\ SignerAt(m, index + 1) <=> Signer(ins, k)
              /\ WritableAt(m, index + 1, Len(W)) <=> Writable(ins, k)
          BY <1>10, <4>2
        <4> QED BY <4>3, <4>4, Zenon DEF k
      <3> QED BY <3>2, <3>3, <3>4
    <2> QED BY <1>7, <2>1, <2>3, <2>4, <2>5 DEF SameMeaning
  <1>12. ASSUME NEW n \in DOMAIN m.ins
         PROVE  m.ins[n].program < Len(m.keys)
    <2> DEFINE p == m.ins[n].program
               k == ins[n].program
    <2>1. p \in Nat /\ p + 1 \in 1 .. Len(all) /\ all[p + 1] = k
      BY <1>6, <1>7 DEF LeadsTo
    <2>2. k \in Invoked(ins)
      BY <1>7, Named
    <2> HIDE DEF p, k
    <2>3. k \notin ToSet(W) /\ k \notin ToSet(R)
      BY <1>5, <2>2 DEF MayBeLookedUp, W
    <2> DEFINE s == m.keys \o W
    <2>4. s \in Seq(AccountKeys)
      BY <1>1, <1>5, ConcatSeqs DEF W
    <2>5. all = s \o R
      BY DEF all, AllOf, W
    <2>6. W \in Seq(AccountKeys) /\ R \in Seq(AccountKeys)
      BY <1>5 DEF W
    <2> HIDE DEF R, s
    <2>7. p + 1 \in 1 .. Len(s) /\ s[p + 1] = k
      <3>1. p + 1 \in 1 .. Len(s \o R) /\ (s \o R)[p + 1] = k
        BY <2>1, <2>5
      <3> DEFINE q == p + 1
      <3> HIDE DEF q
      <3>2. \/ q \in 1 .. Len(s) /\ (s \o R)[q] = s[q]
            \/ q - Len(s) \in 1 .. Len(R) /\ (s \o R)[q] = R[q - Len(s)]
        BY <2>4, <2>6, <3>1, PlaceInConcat DEF q
      <3>3. (s \o R)[q] = k
        BY <3>1 DEF q
      <3>4. q \in 1 .. Len(s) /\ s[q] = k
        <4>1. CASE q - Len(s) \in 1 .. Len(R) /\ (s \o R)[q] = R[q - Len(s)]
          <5> DEFINE j == q - Len(s)
          <5>1. j \in 1 .. Len(R) /\ R[j] = k
            BY <3>3, <4>1
          <5> HIDE DEF j
          <5>2. R[j] \in ToSet(R)
            <6>1. R \in Seq(AccountKeys)
              BY <2>6
            <6> QED BY <5>1, <6>1, ElementListed
          <5>3. FALSE
            BY <2>3, <5>1, <5>2
          <5> QED BY <5>3
        <4> QED BY <3>2, <3>3, <4>1
      <3> QED BY <3>4 DEF q
    <2>8. p + 1 \in 1 .. Len(m.keys)
      <3>1. \/ p + 1 \in 1 .. Len(m.keys)
            \/ /\ (p + 1) - Len(m.keys) \in 1 .. Len(W)
               /\ s[p + 1] = W[(p + 1) - Len(m.keys)]
        <4> DEFINE h == m.keys
                   q == p + 1
        <4>1. h \in Seq(AccountKeys) /\ q \in 1 .. Len(h \o W) /\ s = h \o W
          BY <1>1, <2>7 DEF s
        <4> HIDE DEF h, q
        <4>2. \/ q \in 1 .. Len(h) /\ (h \o W)[q] = h[q]
              \/ q - Len(h) \in 1 .. Len(W) /\ (h \o W)[q] = W[q - Len(h)]
          BY <2>6, <4>1, PlaceInConcat
        <4>3. q \in 1 .. Len(h) \/ (q - Len(h) \in 1 .. Len(W) /\ s[q] = W[q - Len(h)])
          BY <4>1, <4>2
        <4> QED BY <4>3 DEF h, q
      <3>2. CASE (p + 1) - Len(m.keys) \in 1 .. Len(W)
                 /\ s[p + 1] = W[(p + 1) - Len(m.keys)]
        <4>1. W[(p + 1) - Len(m.keys)] \in ToSet(W)
          BY <2>6, <3>2, ElementListed
        <4>2. FALSE
          BY <2>3, <2>7, <3>2, <4>1
        <4> QED BY <4>2
      <3> QED BY <3>1, <3>2
    <2> QED BY <1>1, <2>1, <2>8 DEF p
  <1> QED BY <1>9, <1>11, <1>12 DEF Means, d, read

-----------------------------------------------------------------------------
(* Why a compilation may be refused.                                       *)
HasReason(m, ins, tables) ==
  CASE m.refused \in {"static", "accounts"} -> Cardinality(KeysOf(ins)) > Radix
    [] m.refused = "payer" ->
         \E k \in KeysOf(ins) \ {Payer} : Signer(ins, k) /\ Writable(ins, k)
    [] OTHER -> \E t \in ToSet(tables) : Far(ins, t)

LEMMA SameIndex ==
  ASSUME NEW e \in Seq(AccountKeys), NEW e2 \in Seq(AccountKeys), IsPrefix(e, e2),
         NEW k \in ToSet(e)
  PROVE  k \in ToSet(e2) /\ IndexIn(e2, k) = IndexIn(e, k)
  <1> DEFINE i == IndexIn(e, k)
             j == IndexIn(e2, k)
  <1>1. /\ i \in Nat /\ i + 1 \in 1 .. Len(e) /\ e[i + 1] = k
        /\ \A n \in 1 .. i : e[n] # k
    BY FirstIndex
  <1>2. /\ Len(e) \in Nat /\ Len(e2) \in Nat /\ Len(e) <= Len(e2)
        /\ \A n \in 1 .. Len(e) : e2[n] = e[n]
    BY Prefix
  <1> HIDE DEF i
  <1>3. k \in ToSet(e2)
    <2>1. i + 1 \in 1 .. Len(e2) /\ e2[i + 1] = k
      BY <1>1, <1>2
    <2> QED BY <2>1, ElementListed
  <1>4. /\ j \in Nat /\ j + 1 \in 1 .. Len(e2) /\ e2[j + 1] = k
        /\ \A n \in 1 .. j : e2[n] # k
    BY <1>3, FirstIndex
  <1> HIDE DEF j
  <1>5. ~ (j < i)
    <2> SUFFICES ASSUME j < i PROVE FALSE
      OBVIOUS
    <2>1. j + 1 \in 1 .. i /\ j + 1 \in 1 .. Len(e)
      BY <1>1, <1>4
    <2> QED BY <1>1, <1>2, <1>4, <2>1
  <1>6. ~ (i < j)
    <2> SUFFICES ASSUME i < j PROVE FALSE
      OBVIOUS
    <2>1. i + 1 \in 1 .. j
      BY <1>1, <1>4
    <2> QED BY <1>1, <1>2, <1>4, <2>1
  <1>7. i = j
    BY <1>1, <1>4, <1>5, <1>6
  <1> QED BY <1>3, <1>7 DEF i, j

LEMMA FarStays ==
  ASSUME NEW ins, NEW table \in Table, NEW table2 \in Table,
         IsPrefix(table.entries, table2.entries), Far(ins, table)
  PROVE  Far(ins, table2)
  <1>1. table.entries \in Seq(AccountKeys) /\ table2.entries \in Seq(AccountKeys)
    BY DEF Table
  <1>2. PICK k \in KeysOf(ins) \cap ToSet(table.entries) : TooFar(table.entries, k)
    BY DEF Far
  <1>3. k \in ToSet(table2.entries) /\ IndexIn(table2.entries, k) = IndexIn(table.entries, k)
    BY <1>1, <1>2, SameIndex
  <1> QED BY <1>2, <1>3 DEF Far, TooFar

LEMMA FarLater ==
  ASSUME NEW ins, NEW tables \in Seq(Table), NEW later, Distinct(later),
         \A n \in 1 .. Len(tables) : HasTable(later, tables[n]),
         SomeFar(ins, tables, Len(tables))
  PROVE  \E t \in ToSet(later) : Far(ins, t)
  <1>1. PICK n \in 1 .. Len(tables) : Far(ins, tables[n])
    BY DEF SomeFar
  <1>2. tables[n] \in Table
    OBVIOUS
  <1>3. PICK e \in DOMAIN later : IsPrefix(tables[n].entries, later[e].entries)
    BY DEF HasTable
  <1>4. later[e] \in Table /\ later[e] \in ToSet(later)
    BY TableFound
  <1> QED BY <1>1, <1>2, <1>3, <1>4, FarStays

LEMMA Refusal ==
  ASSUME NEW m, NEW reason, RefusedFor(m, reason), NEW ins, NEW tables
  PROVE  /\ ~ IsMessage(m)
         /\ m.refused = reason
  BY DEF RefusedFor, Refused, IsMessage

LEMMA ReasonTooMany ==
  ASSUME NEW m, NEW ins, NEW tables, m.refused \in {"static", "accounts"},
         Cardinality(KeysOf(ins)) > Radix
  PROVE  HasReason(m, ins, tables)
  BY DEF HasReason

LEMMA ReasonPayer ==
  ASSUME NEW m, NEW ins, NEW tables, m.refused = "payer",
         \E k \in KeysOf(ins) \ {Payer} : Signer(ins, k) /\ Writable(ins, k)
  PROVE  HasReason(m, ins, tables)
  BY DEF HasReason

LEMMA ReasonFar ==
  ASSUME NEW m, NEW ins, NEW tables, m.refused \in {"index", "unknown"},
         \E t \in ToSet(tables) : Far(ins, t)
  PROVE  HasReason(m, ins, tables)
  BY DEF HasReason

(* What is known of the result of a compilation.                           *)
CompileResult(m, ins, tables, later) ==
  /\ IsMessage(m) =>
       /\ m \in Message /\ m.required <= Len(m.keys) /\ Len(m.keys) <= Radix
       /\ ~ WrapsAround(m, ins, tables) => Means(m, later, ins)
  /\ ~ IsMessage(m) => HasReason(m, ins, later)

LEMMA MadeResult ==
  ASSUME NEW ins \in Seq(Instruction), NEW tables \in Seq(Table), NEW later,
         NEW x, Taken(ins, x), NoneWraps(ins, tables, Len(tables), x.left) => Leads(x, later),
         NEW tt, NEW tf, NEW ft, NEW ff, Groups(ins, x.left, tt, tf, ft, ff),
         NEW m, Made(m, ins, x, tt, tf, ft, ff)
  PROVE  CompileResult(m, ins, tables, later)
  <1>1. /\ Enumerates(m.keys, x.left)
        /\ m.required \in Nat /\ m.required <= Len(m.keys) /\ Len(m.keys) \in Nat
        /\ Len(m.keys) <= Len(AllOf(m, x)) /\ AllOf(m, x) \in Seq(AccountKeys)
    BY MadeParts
  <1>2. m \in Message /\ Len(AllOf(m, x)) <= Radix
    BY DEF Made
  <1>3. Len(m.keys) <= Radix
    <2>1. Len(AllOf(m, x)) \in Nat
      BY <1>1
    <2> QED BY <1>1, <1>2, <2>1, RadixAssumption
  <1>4. IsMessage(m)
    BY <1>2 DEF Message, IsMessage
  <1>5. ASSUME ~ WrapsAround(m, ins, tables)
        PROVE  Means(m, later, ins)
    <2>1. ToSet(m.keys) = x.left
      BY <1>1 DEF Enumerates
    <2>2. \A i \in 1 .. Len(tables) : tables[i] \in ToSet(tables)
      BY ElementListed
    <2>3. NoneWraps(ins, tables, Len(tables), x.left)
      BY <1>4, <1>5, <2>1, <2>2 DEF WrapsAround, NoneWraps
    <2>4. Leads(x, later)
      BY <2>3
    <2> QED BY <2>4, MadeMeans
  <1> QED BY <1>1, <1>2, <1>3, <1>4, <1>5 DEF CompileResult

(* What Compile (NewMessage0) makes of instructions: a message with no     *)
(* more keys than a byte has values, that leads to what was asked through  *)
(* the tables it was compiled with, and through later ones of which these  *)
(* were the beginnings, unless a key was taken at the index no byte holds; *)
(* or a refusal that has a reason.                                         *)
THEOREM CompileKnown ==
  ASSUME NEW ins \in Seq(Instruction), NEW order \in Orders,
         NEW tables \in Seq(Table), NEW version \in {"legacy", "v0"},
         NEW later, Distinct(later),
         \A n \in 1 .. Len(tables) : HasTable(later, tables[n])
  PROVE  CompileResult(Compile(ins, order, tables, version), ins, tables, later)
  <1> DEFINE x == Extracted(ins, order, tables)
             m == Compile(ins, order, tables, version)
  <1>1. Progress(ins, tables, Len(tables), later, x)
    BY ExtractedKnown
  <1>2. SomeFar(ins, tables, Len(tables)) => \E t \in ToSet(later) : Far(ins, t)
    BY FarLater
  <1>3. CASE x.failed = TRUE
    <2>1. RefusedFor(m, "index")
      BY <1>3, CompileFails
    <2>2. \E t \in ToSet(later) : Far(ins, t)
      BY <1>1, <1>2, <1>3 DEF Progress
    <2> HIDE DEF x, m
    <2>3. ~ IsMessage(m) /\ m.refused \in {"index", "unknown"}
      BY <2>1, Refusal
    <2>4. HasReason(m, ins, later)
      BY <2>2, <2>3, ReasonFar
    <2> QED BY <2>3, <2>4 DEF CompileResult, m
  <1>4. CASE x.failed = FALSE
    <2>1. /\ Taken(ins, x)
          /\ AllFound(ins, x) \/ SomeFar(ins, tables, Len(tables))
          /\ NoneWraps(ins, tables, Len(tables), x.left) => Leads(x, later)
      BY <1>1, <1>4 DEF Progress
    <2>2. /\ x.left \subseteq KeysOf(ins) /\ x.left \subseteq AccountKeys /\ Payer \in x.left
          /\ x.writable \in Seq(AccountKeys) /\ x.readonly \in Seq(AccountKeys)
          /\ Cardinality(x.left) + Len(x.writable) + Len(x.readonly)
               <= Cardinality(KeysOf(ins))
      BY <2>1, Named DEF Taken
    <2>3. PICK tt, tf, ft, ff :
            /\ Groups(ins, x.left, tt, tf, ft, ff)
            /\ Grouped(Components(ins, order, x.left), tt, tf, ft, ff)
      BY <2>2, ComponentsKnown
    <2> DEFINE static == ((tt \o tf) \o ft) \o ff
               all == static \o x.writable \o x.readonly
    <2>4. Outcomes(m, ins, x, tt, tf, ft, ff)
      BY <1>4, <2>1, <2>3, CompileMakes
    <2> HIDE DEF x, m
    <2>5. \/ RefusedFor(m, "static") /\ Cardinality(x.left) > Radix
          \/ RefusedFor(m, "payer") /\ Head(static) # Payer
          \/ RefusedFor(m, "accounts") /\ Len(all) > Radix
          \/ RefusedFor(m, "unknown") /\ ~ (KeysOf(ins) \subseteq ToSet(all))
          \/ Made(m, ins, x, tt, tf, ft, ff)
      BY <2>4, Zenon DEF Outcomes
    <2>6. Enumerates(static, x.left)
      BY <2>2, <2>3, GroupsTogether
    <2> HIDE DEF static
    <2>7. /\ static \in Seq(AccountKeys) /\ ToSet(static) = x.left
          /\ Cardinality(x.left) = Len(static) /\ Len(static) \in Nat
      <3>1. static \in Seq(x.left) /\ ToSet(static) = x.left
        BY <2>6 DEF Enumerates
      <3>2. static \in Seq(AccountKeys)
        BY <2>2, <3>1
      <3> QED BY <2>6, <3>1, <3>2, EnumeratedLength
    <2>8. /\ Len(all) = Len(static) + Len(x.writable) + Len(x.readonly)
          /\ Len(x.writable) \in Nat /\ Len(x.readonly) \in Nat
          /\ ToSet(all) = x.left \cup ToSet(x.writable) \cup ToSet(x.readonly)
      <3> DEFINE w == x.writable
                 r == x.readonly
      <3>1. w \in Seq(AccountKeys) /\ r \in Seq(AccountKeys)
        BY <2>2
      <3> HIDE DEF w, r
      <3>2. /\ Len(static \o w \o r) = Len(static) + Len(w) + Len(r)
            /\ Len(w) \in Nat /\ Len(r) \in Nat
            /\ ToSet(static \o w \o r) = ToSet(static) \cup ToSet(w) \cup ToSet(r)
        BY <2>7, <3>1, ThreeInARow
      <3> QED BY <2>7, <3>2 DEF w, r
    <2> HIDE DEF all
    <2> DEFINE a == Cardinality(x.left)
               b == Len(x.writable)
               c == Len(x.readonly)
               d == Cardinality(KeysOf(ins))
    <2>9. /\ a \in Nat /\ b \in Nat /\ c \in Nat /\ d \in Nat
          /\ a + b + c <= d /\ Len(all) = a + b + c
      <3>1. IsFiniteSet(KeysOf(ins))
        BY Named, Walk, FS_Subset
      <3>2. Cardinality(KeysOf(ins)) \in Nat
        BY <3>1, FS_CardinalityType
      <3> QED BY <2>2, <2>7, <2>8, <3>2
    <2>10. CASE RefusedFor(m, "static") /\ Cardinality(x.left) > Radix
      <3>1. ~ IsMessage(m) /\ m.refused \in {"static", "accounts"}
        BY <2>10, Refusal
      <3>2. a > Radix
        BY <2>10
      <3> HIDE DEF a, b, c, d
      <3>3. d > Radix
        BY <2>9, <3>2, RadixAssumption
      <3> QED BY <3>1, <3>3, ReasonTooMany DEF CompileResult, m, d
    <2>11. CASE RefusedFor(m, "accounts") /\ Len(all) > Radix
      <3>1. ~ IsMessage(m) /\ m.refused \in {"static", "accounts"}
        BY <2>11, Refusal
      <3> HIDE DEF a, b, c, d
      <3>2. d > Radix
        BY <2>9, <2>11, RadixAssumption
      <3> QED BY <3>1, <3>2, ReasonTooMany DEF CompileResult, m, d
    <2> HIDE DEF a, b, c, d
    <2>12. CASE RefusedFor(m, "unknown") /\ ~ (KeysOf(ins) \subseteq ToSet(all))
      <3>1. ~ IsMessage(m) /\ m.refused \in {"index", "unknown"}
        BY <2>12, Refusal
      <3>2. \E t \in ToSet(later) : Far(ins, t)
        BY <1>2, <2>1, <2>8, <2>12 DEF AllFound
      <3> QED BY <3>1, <3>2, ReasonFar DEF CompileResult, m
    <2>13. CASE RefusedFor(m, "payer") /\ Head(static) # Payer
      <3>1. ~ IsMessage(m) /\ m.refused = "payer"
        BY <2>13, Refusal
      <3>2. \E k \in KeysOf(ins) \ {Payer} : Signer(ins, k) /\ Writable(ins, k)
        <4>1. /\ tt \in Seq(AccountKeys) /\ tf \in Seq(AccountKeys)
              /\ ft \in Seq(AccountKeys) /\ ff \in Seq(AccountKeys)
          BY <2>2, <2>3, GroupTypes
        <4>2. Enumerates(tt, Granted(ins, x.left, TRUE, TRUE))
          BY <2>3 DEF Groups
        <4>3. Payer \in Granted(ins, x.left, TRUE, TRUE)
          BY <2>2, Named DEF Granted
        <4>4. 1 \in 1 .. Len(tt) /\ Len(tt) \in Nat
          <5>1. \E i \in 1 .. Len(tt) : tt[i] = Payer
            BY <4>2, <4>3, EnumeratedLength
          <5> QED BY <4>1, <5>1
        <4>5. tt[1] \in Granted(ins, x.left, TRUE, TRUE)
          BY <4>2, <4>4, EnumeratedLength
        <4>6. Head(static) = tt[1]
          <5>1. 1 \in 1 .. Len(tt \o tf) /\ (tt \o tf)[1] = tt[1] /\ tt \o tf \in Seq(AccountKeys)
            BY <4>1, <4>4, ConcatSeqs
          <5> DEFINE s == tt \o tf
          <5> HIDE DEF s
          <5>2. /\ \A i \in 1 .. Len(s) : (s \o ft \o ff)[i] = s[i]
                /\ s \o ft \o ff \in Seq(AccountKeys)
                /\ Len(s \o ft \o ff) = Len(s) + Len(ft) + Len(ff)
                /\ Len(s) \in Nat /\ Len(ft) \in Nat /\ Len(ff) \in Nat
            BY <4>1, <5>1, ThreeInARow DEF s
          <5>3. static = s \o ft \o ff
            BY DEF static, s
          <5>4. static[1] = tt[1]
            BY <5>1, <5>2, <5>3 DEF s
          <5>5. static # <<>>
            <6>1. Len(s) > 0
              BY <5>1, <5>2 DEF s
            <6>2. Len(static) > 0
              BY <5>2, <5>3, <6>1
            <6> QED BY <6>2
          <5> QED BY <2>7, <5>4, <5>5
        <4> QED BY <2>2, <2>13, <4>5, <4>6 DEF Granted
      <3> QED BY <3>1, <3>2, ReasonPayer DEF CompileResult, m
    <2>14. CASE Made(m, ins, x, tt, tf, ft, ff)
      <3>1. CompileResult(m, ins, tables, later)
        BY <2>1, <2>3, <2>14, MadeResult
      <3> QED BY <3>1 DEF m
    <2> QED BY <2>5, <2>10, <2>11, <2>12, <2>13, <2>14
  <1>5. x.failed \in BOOLEAN
    BY <1>1 DEF Progress
  <1> QED BY <1>3, <1>4, <1>5

-----------------------------------------------------------------------------
(* Lists that ask the same.                                                *)
LEMMA SameKeys ==
  ASSUME NEW ins \in Seq(Instruction), NEW wanted \in Seq(Instruction),
         AsksTheSame(ins, wanted)
  PROVE  KeysOf(ins) = KeysOf(wanted)
  <1>1. /\ DOMAIN ins = DOMAIN wanted
        /\ \A n \in DOMAIN wanted :
             /\ ins[n].program = wanted[n].program
             /\ DOMAIN ins[n].metas = DOMAIN wanted[n].metas
             /\ \A m \in DOMAIN wanted[n].metas :
                  ins[n].metas[m].key = wanted[n].metas[m].key
    <2>1. /\ DOMAIN ins = 1 .. Len(ins) /\ DOMAIN wanted = 1 .. Len(wanted)
          /\ Len(ins) = Len(wanted)
      BY DEF AsksTheSame
    <2>2. ASSUME NEW n \in DOMAIN wanted
          PROVE  DOMAIN ins[n].metas = DOMAIN wanted[n].metas
      <3>1. /\ DOMAIN ins[n].metas = 1 .. Len(ins[n].metas)
            /\ DOMAIN wanted[n].metas = 1 .. Len(wanted[n].metas)
        BY <2>1, Named
      <3>2. Len(ins[n].metas) = Len(wanted[n].metas)
        BY DEF AsksTheSame
      <3> QED BY <3>1, <3>2
    <2> QED BY <2>1, <2>2 DEF AsksTheSame
  <1>2. Invoked(ins) = Invoked(wanted)
    BY <1>1 DEF Invoked
  <1>3. {m.key : m \in AllMetas(ins)} = {m.key : m \in AllMetas(wanted)}
    <2> DEFINE A == {m.key : m \in AllMetas(ins)}
               B == {m.key : m \in AllMetas(wanted)}
    <2>2. ASSUME NEW k
          PROVE  k \in A <=> k \in B
      <3>1. k \in A <=>
              \E n \in DOMAIN ins : \E m \in DOMAIN ins[n].metas : k = ins[n].metas[m].key
        BY DEF AllMetas, ToSet
      <3>2. k \in B <=>
              \E n \in DOMAIN wanted :
                \E m \in DOMAIN wanted[n].metas : k = wanted[n].metas[m].key
        BY DEF AllMetas, ToSet
      <3> HIDE DEF A, B
      <3> QED BY <1>1, <3>1, <3>2
    <2> HIDE DEF A, B
    <2>3. A = B
      BY <2>2
    <2> QED BY <2>3 DEF A, B
  <1> QED BY <1>2, <1>3 DEF KeysOf

LEMMA MeaningPassesOn ==
  ASSUME NEW ins \in Seq(Instruction), NEW wanted \in Seq(Instruction),
         AsksTheSame(ins, wanted),
         NEW read \in Seq(Instruction), SameMeaning(read, ins)
  PROVE  SameMeaning(read, wanted)
  <1>1. /\ DOMAIN read = 1 .. Len(read) /\ DOMAIN ins = 1 .. Len(ins)
        /\ DOMAIN wanted = 1 .. Len(wanted)
        /\ Len(ins) = Len(wanted) /\ Len(read) = Len(ins)
    BY DEF AsksTheSame, SameMeaning
  <1>2. ASSUME NEW n \in DOMAIN read
        PROVE  /\ read[n].program = wanted[n].program
               /\ read[n].data = wanted[n].data
               /\ Len(read[n].metas) = Len(wanted[n].metas)
    BY <1>1 DEF AsksTheSame, SameMeaning
  <1>3. ASSUME NEW n \in DOMAIN read, NEW m \in DOMAIN read[n].metas
        PROVE  LET meta == read[n].metas[m]
               IN /\ meta.key = wanted[n].metas[m].key
                  /\ meta.signer <=> Signer(wanted, meta.key)
                  /\ meta.writable <=> Writable(wanted, meta.key)
    <2> DEFINE meta == read[n].metas[m]
               k == meta.key
    <2>1. n \in DOMAIN ins /\ n \in DOMAIN wanted
      BY <1>1
    <2>2. m \in DOMAIN wanted[n].metas
      <3>1. /\ DOMAIN read[n].metas = 1 .. Len(read[n].metas)
            /\ DOMAIN wanted[n].metas = 1 .. Len(wanted[n].metas)
        BY <2>1, Named
      <3> QED BY <1>2, <3>1
    <2>3. /\ k = ins[n].metas[m].key
          /\ meta.signer <=> Signer(ins, k)
          /\ meta.writable <=> Writable(ins, k)
      BY DEF SameMeaning
    <2>4. ins[n].metas[m].key = wanted[n].metas[m].key
      BY <2>1, <2>2 DEF AsksTheSame
    <2>5. k \in AccountKeys
      BY Named
    <2>6. /\ Signer(ins, k) <=> Signer(wanted, k)
          /\ Writable(ins, k) <=> Writable(wanted, k)
      BY <2>5 DEF AsksTheSame
    <2> QED BY <2>3, <2>4, <2>6
  <1> QED BY <1>1, <1>2, <1>3 DEF SameMeaning

LEMMA MeaningIsAsked ==
  ASSUME NEW wanted \in Seq(Instruction), NEW read \in Seq(Instruction),
         SameMeaning(read, wanted)
  PROVE  AsksTheSame(read, wanted)
  <1>1. /\ DOMAIN read = 1 .. Len(read) /\ DOMAIN wanted = 1 .. Len(wanted)
        /\ Len(read) = Len(wanted)
        /\ \A n \in DOMAIN read :
             /\ read[n].program = wanted[n].program
             /\ read[n].data = wanted[n].data
             /\ Len(read[n].metas) = Len(wanted[n].metas)
             /\ \A m \in DOMAIN read[n].metas :
                  /\ read[n].metas[m].key = wanted[n].metas[m].key
                  /\ read[n].metas[m].signer <=> Signer(wanted, read[n].metas[m].key)
                  /\ read[n].metas[m].writable <=> Writable(wanted, read[n].metas[m].key)
    BY DEF SameMeaning
  <1>2. \A n \in DOMAIN read : DOMAIN read[n].metas = DOMAIN wanted[n].metas
    <2>1. ASSUME NEW n \in DOMAIN read
          PROVE  DOMAIN read[n].metas = DOMAIN wanted[n].metas
      <3>1. n \in DOMAIN wanted
        BY <1>1
      <3>2. /\ DOMAIN read[n].metas = 1 .. Len(read[n].metas)
            /\ DOMAIN wanted[n].metas = 1 .. Len(wanted[n].metas)
        BY <3>1, Named
      <3> QED BY <1>1, <3>2
    <2> QED BY <2>1
  <1>3. ASSUME NEW a \in Seq(Instruction), NEW k
        PROVE  /\ Signer(a, k) <=> \/ k = Payer
                                  \/ \E n \in DOMAIN a : \E m \in DOMAIN a[n].metas :
                                       a[n].metas[m].key = k /\ a[n].metas[m].signer
               /\ Writable(a, k) <=> \/ k = Payer
                                    \/ \E n \in DOMAIN a : \E m \in DOMAIN a[n].metas :
                                         a[n].metas[m].key = k /\ a[n].metas[m].writable
    BY DEF Signer, Writable, AllMetas, ToSet
  <1>4. ASSUME NEW k
        PROVE  Signer(read, k) <=> Signer(wanted, k)
    <2>1. ASSUME Signer(read, k), k # Payer
          PROVE  Signer(wanted, k)
      <3>1. PICK n \in DOMAIN read : \E m \in DOMAIN read[n].metas :
               read[n].metas[m].key = k /\ read[n].metas[m].signer
        BY <1>3, <2>1
      <3>2. PICK m \in DOMAIN read[n].metas :
               read[n].metas[m].key = k /\ read[n].metas[m].signer
        BY <3>1
      <3> QED BY <1>1, <3>2
    <2>2. ASSUME Signer(wanted, k), k # Payer
          PROVE  Signer(read, k)
      <3>1. PICK n \in DOMAIN wanted : \E m \in DOMAIN wanted[n].metas :
               wanted[n].metas[m].key = k /\ wanted[n].metas[m].signer
        BY <1>3, <2>2
      <3>2. PICK m \in DOMAIN wanted[n].metas : wanted[n].metas[m].key = k
        BY <3>1
      <3>3. n \in DOMAIN read /\ m \in DOMAIN read[n].metas
        BY <1>1, <1>2
      <3>4. read[n].metas[m].key = k /\ read[n].metas[m].signer
        BY <1>1, <2>2, <3>2, <3>3
      <3> QED BY <1>3, <3>3, <3>4
    <2>3. k = Payer => Signer(read, k) /\ Signer(wanted, k)
      BY Named
    <2> QED BY <2>1, <2>2, <2>3
  <1>5. ASSUME NEW k
        PROVE  Writable(read, k) <=> Writable(wanted, k)
    <2>1. ASSUME Writable(read, k), k # Payer
          PROVE  Writable(wanted, k)
      <3>1. PICK n \in DOMAIN read : \E m \in DOMAIN read[n].metas :
               read[n].metas[m].key = k /\ read[n].metas[m].writable
        BY <1>3, <2>1
      <3>2. PICK m \in DOMAIN read[n].metas :
               read[n].metas[m].key = k /\ read[n].metas[m].writable
        BY <3>1
      <3> QED BY <1>1, <3>2
    <2>2. ASSUME Writable(wanted, k), k # Payer
          PROVE  Writable(read, k)
      <3>1. PICK n \in DOMAIN wanted : \E m \in DOMAIN wanted[n].metas :
               wanted[n].metas[m].key = k /\ wanted[n].metas[m].writable
        BY <1>3, <2>2
      <3>2. PICK m \in DOMAIN wanted[n].metas : wanted[n].metas[m].key = k
        BY <3>1
      <3>3. n \in DOMAIN read /\ m \in DOMAIN read[n].metas
        BY <1>1, <1>2
      <3>4. read[n].metas[m].key = k /\ read[n].metas[m].writable
        BY <1>1, <2>2, <3>2, <3>3
      <3> QED BY <1>3, <3>3, <3>4
    <2>3. k = Payer => Writable(read, k) /\ Writable(wanted, k)
      BY Named
    <2> QED BY <2>1, <2>2, <2>3
  <1> QED BY <1>1, <1>2, <1>4, <1>5 DEF AsksTheSame

LEMMA ReasonPassesOn ==
  ASSUME NEW ins \in Seq(Instruction), NEW wanted \in Seq(Instruction),
         AsksTheSame(ins, wanted), NEW m, NEW tables, HasReason(m, ins, tables)
  PROVE  HasReason(m, wanted, tables)
  <1>1. KeysOf(ins) = KeysOf(wanted) /\ KeysOf(ins) \subseteq AccountKeys
    BY SameKeys, Named
  <1>2. \A k \in KeysOf(ins) : /\ Signer(ins, k) <=> Signer(wanted, k)
                               /\ Writable(ins, k) <=> Writable(wanted, k)
    BY <1>1 DEF AsksTheSame
  <1>3. CASE m.refused \in {"static", "accounts"}
    BY <1>1, <1>3 DEF HasReason
  <1>4. CASE m.refused = "payer"
    BY <1>1, <1>2, <1>4 DEF HasReason
  <1>5. CASE m.refused \notin {"static", "accounts", "payer"}
    <2>1. \E t \in ToSet(tables) : Far(ins, t)
      BY <1>5 DEF HasReason
    <2>2. \E t \in ToSet(tables) : Far(wanted, t)
      BY <1>1, <2>1 DEF Far
    <2> QED BY <1>5, <2>2 DEF HasReason
  <1> QED BY <1>3, <1>4, <1>5

-----------------------------------------------------------------------------
(* What a reader gets has the types of instructions, and stays the same    *)
(* while the tables grow.                                                  *)
LEMMA AllKeysType ==
  ASSUME NEW m \in Message, NEW tables, Distinct(tables), Resolvable(m, tables)
  PROVE  /\ AllKeys(m, tables) \in Seq(AccountKeys)
         /\ Len(WritableLookedUp(m, tables)) \in Nat
  <1> DEFINE k == m.keys
             w == WritableLookedUp(m, tables)
             r == ReadonlyLookedUp(m, tables)
  <1>1. k \in Seq(AccountKeys) /\ m.lookups \in Seq(Lookup)
    BY MessageTypes
  <1>2. w \in Seq(AccountKeys) /\ r \in Seq(AccountKeys)
    BY <1>1, ThroughType DEF WritableLookedUp, ReadonlyLookedUp, Kinds
  <1>3. AllKeys(m, tables) = k \o w \o r
    BY DEF AllKeys
  <1> HIDE DEF k, w, r
  <1>4. k \o w \o r \in Seq(AccountKeys) /\ Len(w) \in Nat
    BY <1>1, <1>2, ThreeInARow
  <1> QED BY <1>3, <1>4 DEF w

LEMMA ReadType ==
  ASSUME NEW m \in Message, NEW keys \in Seq(AccountKeys), NEW lookedUp,
         ~ OutOfRange(m, keys)
  PROVE  ReadAs(m, keys, lookedUp) \in Seq(Instruction)
  <1> DEFINE N == Len(m.ins)
             read == ReadAs(m, keys, lookedUp)
  <1>1. /\ DOMAIN m.ins = 1 .. N /\ N \in Nat
        /\ \A n \in DOMAIN m.ins :
             /\ m.ins[n].program \in Nat
             /\ m.ins[n].data \in {"whole", "cut"}
             /\ DOMAIN m.ins[n].accounts = 1 .. Len(m.ins[n].accounts)
             /\ Len(m.ins[n].accounts) \in Nat
             /\ \A i \in DOMAIN m.ins[n].accounts : m.ins[n].accounts[i] \in Nat
    BY MessageTypes
  <1>2. \A n \in DOMAIN m.ins :
          /\ ~ (m.ins[n].program >= Len(keys))
          /\ \A i \in DOMAIN m.ins[n].accounts : ~ (m.ins[n].accounts[i] >= Len(keys))
    BY InRange
  <1>3. \A i \in Nat : ~ (i >= Len(keys)) => keys[i + 1] \in AccountKeys
    <2>1. Len(keys) \in Nat
      OBVIOUS
    <2>2. \A i \in Nat : ~ (i >= Len(keys)) => i + 1 \in 1 .. Len(keys)
      BY <2>1
    <2> QED BY <2>2
  <1>4. ASSUME NEW n \in 1 .. N
        PROVE  read[n] \in Instruction
    <2> DEFINE p == keys[m.ins[n].program + 1]
               a == [i \in DOMAIN m.ins[n].accounts |->
                       FlaggedAs(m, keys, lookedUp, m.ins[n].accounts[i])]
               d == m.ins[n].data
               K == Len(m.ins[n].accounts)
    <2>1. read[n] = [program |-> p, metas |-> a, data |-> d]
      BY <1>1 DEF ReadAs
    <2>2. p \in AccountKeys /\ d \in {"whole", "cut"}
      BY <1>1, <1>2, <1>3
    <2>3. K \in Nat /\ DOMAIN m.ins[n].accounts = 1 .. K
      BY <1>1
    <2>4. ASSUME NEW i \in 1 .. K
          PROVE  a[i] \in Meta
      <3> DEFINE index == m.ins[n].accounts[i]
                 s == SignerAt(m, index + 1)
                 w == WritableAt(m, index + 1, lookedUp)
                 k == keys[index + 1]
      <3>1. index \in Nat /\ ~ (index >= Len(keys))
        BY <1>1, <1>2, <2>3
      <3>2. k \in AccountKeys
        BY <1>3, <3>1
      <3>3. s \in BOOLEAN /\ w \in BOOLEAN
        <4>1. s \in BOOLEAN
          BY DEF SignerAt
        <4>2. w \in BOOLEAN
          <5> DEFINE place == index + 1
                     b     == m.required - m.readonlySigned
                     c     == Len(m.keys) - m.readonlyUnsigned
                     rest  == place - Len(m.keys)
          <5>1. w = IF place <= m.required THEN place <= b
                    ELSE IF place <= Len(m.keys) THEN place <= c ELSE rest <= lookedUp
            BY Zenon DEF WritableAt
          <5> HIDE DEF place, b, c, rest, w
          <5>2. (place <= b) \in BOOLEAN
            OBVIOUS
          <5>3. (place <= c) \in BOOLEAN
            OBVIOUS
          <5>4. (rest <= lookedUp) \in BOOLEAN
            OBVIOUS
          <5> QED BY <5>1, <5>2, <5>3, <5>4, Zenon
        <4> QED BY <4>1, <4>2
      <3>4. a[i] = [key |-> k, signer |-> s, writable |-> w]
        BY <2>3 DEF FlaggedAs
      <3> HIDE DEF k, s, w, a
      <3> QED BY <3>2, <3>3, <3>4 DEF Meta
    <2>5. a = [i \in 1 .. K |-> a[i]]
      BY <2>3
    <2> HIDE DEF a, p, d, K, read
    <2>6. a \in [1 .. K -> Meta]
      BY <2>4, <2>5
    <2>7. a \in Seq(Meta)
      BY <2>3, <2>6
    <2> QED BY <2>1, <2>2, <2>7 DEF Instruction
  <1>5. read = [n \in 1 .. N |-> read[n]]
    BY <1>1 DEF ReadAs
  <1> HIDE DEF read, N
  <1>6. read \in [1 .. N -> Instruction]
    BY <1>4, <1>5
  <1>7. read \in Seq(Instruction)
    BY <1>1, <1>6
  <1> QED BY <1>7 DEF read

LEMMA DecompileType ==
  ASSUME NEW m \in Message, NEW tables, Distinct(tables), Decompile(m, tables).ok
  PROVE  Decompile(m, tables).ins \in Seq(Instruction)
  <1>1. Readable(m, tables)
    BY DecompileKnown
  <1>2. Resolvable(m, tables) /\ ~ OutOfRange(m, AllKeys(m, tables))
    BY <1>1 DEF Readable
  <1>3. Decompile(m, tables).ins =
          ReadAs(m, AllKeys(m, tables), Len(WritableLookedUp(m, tables)))
    BY <1>1, DecompileKnown
  <1> QED BY <1>2, <1>3, AllKeysType, ReadType

SameRead(m, tables, later) ==
  /\ Decompile(m, later).ok
  /\ Decompile(m, later).payer = Decompile(m, tables).payer
  /\ Decompile(m, later).ins = Decompile(m, tables).ins

LEMMA GrownReadsSame ==
  ASSUME NEW m \in Message, NEW tables, Distinct(tables), NEW later, Distinct(later),
         Grown(tables, later), Decompile(m, tables).ok
  PROVE  SameRead(m, tables, later)
  <1>1. m.lookups \in Seq(Lookup)
    BY MessageTypes
  <1>2. Readable(m, tables)
    BY DecompileKnown
  <1>3. Resolvable(m, tables)
    BY <1>2 DEF Readable
  <1>4. /\ Resolvable(m, later)
        /\ \A list \in Kinds : LookedUp(m, later, list) = LookedUp(m, tables, list)
    BY <1>1, <1>3, GrownResolves
  <1>5. /\ WritableLookedUp(m, later) = WritableLookedUp(m, tables)
        /\ AllKeys(m, later) = AllKeys(m, tables)
    BY <1>4 DEF WritableLookedUp, ReadonlyLookedUp, AllKeys, Kinds
  <1>6. later = <<>> => m.lookups = <<>>
    BY <1>1, <1>4, NoTablesNoLookups
  <1>7. Readable(m, later)
    BY <1>2, <1>4, <1>5, <1>6 DEF Readable
  <1> QED BY <1>2, <1>5, <1>7, DecompileKnown DEF SameRead

LEMMA NothingLookedUp ==
  ASSUME NEW m, m.lookups = <<>>, NEW tables
  PROVE  /\ Resolvable(m, tables)
         /\ WritableLookedUp(m, tables) = <<>> /\ ReadonlyLookedUp(m, tables) = <<>>
  <1>1. Resolvable(m, tables)
    BY NoneListed DEF Resolvable
  <1>2. ASSUME NEW list
        PROVE  LookedUp(m, tables, list) = <<>>
    <2>1. DOMAIN m.lookups = {}
      OBVIOUS
    <2> QED BY <2>1, FlattenNothing DEF LookedUp
  <1> QED BY <1>1, <1>2 DEF WritableLookedUp, ReadonlyLookedUp

(* Without lookups the tables do not matter.                               *)
LEMMA NoLookupsSame ==
  ASSUME NEW m \in Message, m.lookups = <<>>, NEW tables, NEW later
  PROVE  Decompile(m, later).ok =>
           Decompile(m, tables).ok /\ Decompile(m, later).ins = Decompile(m, tables).ins
  <1>1. /\ Resolvable(m, tables)
        /\ WritableLookedUp(m, tables) = <<>> /\ ReadonlyLookedUp(m, tables) = <<>>
    BY NothingLookedUp
  <1>2. /\ Resolvable(m, later)
        /\ WritableLookedUp(m, later) = <<>> /\ ReadonlyLookedUp(m, later) = <<>>
    BY NothingLookedUp
  <1>3. AllKeys(m, later) = AllKeys(m, tables)
    BY <1>1, <1>2 DEF AllKeys
  <1>4. Readable(m, later) => Readable(m, tables)
    BY <1>1, <1>2, <1>3 DEF Readable
  <1> QED BY <1>1, <1>2, <1>3, <1>4, DecompileKnown

(* Where only the lookups are missing, an index still means what it meant, *)
(* or it leads nowhere.                                                    *)
Bare(m, bare) ==
  /\ bare \in Message /\ bare.lookups = <<>>
  /\ bare.keys = m.keys /\ bare.ins = m.ins /\ bare.required = m.required
  /\ bare.readonlySigned = m.readonlySigned
  /\ bare.readonlyUnsigned = m.readonlyUnsigned

LEMMA LostLookups ==
  ASSUME NEW m \in Message, NEW bare, Bare(m, bare), NEW tables, Distinct(tables),
         NEW ins, Decompile(m, tables).ok, SameMeaning(Decompile(m, tables).ins, ins),
         Decompile(bare, tables).ok
  PROVE  SameMeaning(Decompile(bare, tables).ins, ins)
  <1> DEFINE all == AllKeys(m, tables)
             L == Len(WritableLookedUp(m, tables))
             k == m.keys
  <1>1. /\ bare \in Message /\ bare.lookups = <<>>
        /\ bare.keys = k /\ bare.ins = m.ins /\ bare.required = m.required
        /\ bare.readonlySigned = m.readonlySigned
        /\ bare.readonlyUnsigned = m.readonlyUnsigned
    BY DEF Bare
  <1>2. k \in Seq(AccountKeys) /\ Len(k) \in Nat
    BY MessageTypes
  <1>3. /\ WritableLookedUp(bare, tables) = <<>> /\ ReadonlyLookedUp(bare, tables) = <<>>
    BY <1>1, NothingLookedUp
  <1>4. AllKeys(bare, tables) = k
    BY <1>1, <1>2, <1>3 DEF AllKeys
  <1>5. /\ ~ OutOfRange(bare, k)
        /\ Decompile(bare, tables).ins = ReadAs(bare, k, 0)
    BY <1>3, <1>4, DecompileKnown, NoneListed DEF Readable
  <1>6. Resolvable(m, tables) /\ Decompile(m, tables).ins = ReadAs(m, all, L)
    BY DecompileKnown DEF Readable
  <1>7. ASSUME NEW i \in Nat, ~ (i >= Len(k))
        PROVE  /\ all[i + 1] = k[i + 1]
               /\ SignerAt(bare, i + 1) = SignerAt(m, i + 1)
               /\ WritableAt(bare, i + 1, 0) = WritableAt(m, i + 1, L)
    <2>1. i + 1 \in 1 .. Len(k) /\ i + 1 <= Len(k)
      BY <1>2, <1>7
    <2>2. all[i + 1] = k[i + 1]
      <3> DEFINE w == WritableLookedUp(m, tables)
                 r == ReadonlyLookedUp(m, tables)
      <3>1. w \in Seq(AccountKeys) /\ r \in Seq(AccountKeys)
        BY <1>6, MessageTypes, ThroughType DEF WritableLookedUp, ReadonlyLookedUp, Kinds
      <3>2. all = k \o w \o r
        BY DEF AllKeys
      <3> HIDE DEF w, r, k, all
      <3>3. \A j \in 1 .. Len(k) : (k \o w \o r)[j] = k[j]
        BY <1>2, <3>1, ThreeInARow
      <3> QED BY <2>1, <3>2, <3>3
    <2>3. SignerAt(bare, i + 1) = SignerAt(m, i + 1)
      BY <1>1 DEF SignerAt
    <2>4. WritableAt(bare, i + 1, 0) = WritableAt(m, i + 1, L)
      BY <1>1, <2>1 DEF WritableAt
    <2> QED BY <2>2, <2>3, <2>4
  <1>8. /\ DOMAIN m.ins = 1 .. Len(m.ins)
        /\ \A n \in DOMAIN m.ins :
             /\ m.ins[n].program \in Nat
             /\ \A i \in DOMAIN m.ins[n].accounts : m.ins[n].accounts[i] \in Nat
    BY MessageTypes
  <1>9. \A n \in DOMAIN m.ins :
          /\ ~ (m.ins[n].program >= Len(k))
          /\ \A i \in DOMAIN m.ins[n].accounts : ~ (m.ins[n].accounts[i] >= Len(k))
    BY <1>1, <1>5, InRange
  <1> HIDE DEF all, L, k
  <1>10. ReadAs(bare, k, 0) = ReadAs(m, all, L)
    <2>1. ASSUME NEW n \in DOMAIN m.ins
          PROVE  k[m.ins[n].program + 1] = all[m.ins[n].program + 1]
      BY <1>7, <1>8, <1>9
    <2>2. ASSUME NEW n \in DOMAIN m.ins, NEW i \in DOMAIN m.ins[n].accounts
          PROVE  FlaggedAs(bare, k, 0, m.ins[n].accounts[i])
                   = FlaggedAs(m, all, L, m.ins[n].accounts[i])
      <3>1. m.ins[n].accounts[i] \in Nat /\ ~ (m.ins[n].accounts[i] >= Len(k))
        BY <1>8, <1>9
      <3> DEFINE index == m.ins[n].accounts[i]
      <3> HIDE DEF index
      <3>2. /\ all[index + 1] = k[index + 1]
            /\ SignerAt(bare, index + 1) = SignerAt(m, index + 1)
            /\ WritableAt(bare, index + 1, 0) = WritableAt(m, index + 1, L)
        BY <1>7, <3>1 DEF index
      <3>3. FlaggedAs(bare, k, 0, index) = FlaggedAs(m, all, L, index)
        BY <3>2, Zenon DEF FlaggedAs
      <3> QED BY <3>3 DEF index
    <2> QED BY <1>1, <2>1, <2>2 DEF ReadAs
  <1>11. Decompile(bare, tables).ins = Decompile(m, tables).ins
    BY <1>5, <1>6, <1>10
  <1> QED BY <1>11

-----------------------------------------------------------------------------
(* What travels.                                                           *)
LEMMA MessageRecord ==
  ASSUME NEW m \in Message
  PROVE  m = [version |-> m.version, required |-> m.required,
              readonlySigned |-> m.readonlySigned,
              readonlyUnsigned |-> m.readonlyUnsigned,
              keys |-> m.keys, ins |-> m.ins, lookups |-> m.lookups]
  BY DEF Message

LEMMA BytesParts ==
  ASSUME NEW m \in Message
  PROVE  Bytes(m) = [version |-> m.version, required |-> m.required % Radix,
                     readonlySigned |-> m.readonlySigned % Radix,
                     readonlyUnsigned |-> m.readonlyUnsigned % Radix,
                     keys |-> m.keys, ins |-> m.ins, lookups |-> m.lookups]
  <1> DEFINE v == m.version
             a == m.required
             b == m.readonlySigned
             c == m.readonlyUnsigned
             k == m.keys
             i == m.ins
             l == m.lookups
  <1>1. m = [version |-> v, required |-> a, readonlySigned |-> b, readonlyUnsigned |-> c,
             keys |-> k, ins |-> i, lookups |-> l]
    BY MessageRecord
  <1>2. Bytes(m) = [[[m EXCEPT !.required = a % Radix] EXCEPT
                        !.readonlySigned = b % Radix] EXCEPT
                        !.readonlyUnsigned = c % Radix]
    BY DEF Bytes
  <1> DEFINE x == a % Radix
             y == b % Radix
             z == c % Radix
  <1> HIDE DEF v, a, b, c, k, i, l, x, y, z
  <1>3. [m EXCEPT !.required = x] =
          [version |-> v, required |-> x, readonlySigned |-> b, readonlyUnsigned |-> c,
           keys |-> k, ins |-> i, lookups |-> l]
    BY <1>1
  <1>4. ASSUME NEW m1, m1 = [version |-> v, required |-> x, readonlySigned |-> b,
                             readonlyUnsigned |-> c, keys |-> k, ins |-> i, lookups |-> l]
        PROVE  [m1 EXCEPT !.readonlySigned = y] =
          [version |-> v, required |-> x, readonlySigned |-> y, readonlyUnsigned |-> c,
           keys |-> k, ins |-> i, lookups |-> l]
    BY <1>4
  <1>5. ASSUME NEW m2, m2 = [version |-> v, required |-> x, readonlySigned |-> y,
                             readonlyUnsigned |-> c, keys |-> k, ins |-> i, lookups |-> l]
        PROVE  [m2 EXCEPT !.readonlyUnsigned = z] =
          [version |-> v, required |-> x, readonlySigned |-> y, readonlyUnsigned |-> z,
           keys |-> k, ins |-> i, lookups |-> l]
    BY <1>5
  <1> DEFINE m1 == [m EXCEPT !.required = x]
             m2 == [m1 EXCEPT !.readonlySigned = y]
  <1>6. Bytes(m) = [m2 EXCEPT !.readonlyUnsigned = z]
    BY <1>2 DEF x, y, z
  <1> HIDE DEF m1
  <1>7. m2 = [version |-> v, required |-> x, readonlySigned |-> y,
              readonlyUnsigned |-> c, keys |-> k, ins |-> i, lookups |-> l]
    BY <1>3, <1>4 DEF m1
  <1> HIDE DEF m2
  <1>8. Bytes(m) = [version |-> v, required |-> x, readonlySigned |-> y,
                    readonlyUnsigned |-> z, keys |-> k, ins |-> i, lookups |-> l]
    BY <1>5, <1>6, <1>7
  <1> QED BY <1>8 DEF v, a, b, c, k, i, l, x, y, z

LEMMA BytesType ==
  ASSUME NEW m \in Message
  PROVE  Bytes(m) \in Message
  <1> DEFINE v == m.version
             a == m.required % Radix
             b == m.readonlySigned % Radix
             c == m.readonlyUnsigned % Radix
             k == m.keys
             i == m.ins
             l == m.lookups
  <1>1. Bytes(m) = [version |-> v, required |-> a, readonlySigned |-> b,
                    readonlyUnsigned |-> c, keys |-> k, ins |-> i, lookups |-> l]
    BY BytesParts
  <1>2. /\ v \in {"legacy", "v0"} /\ k \in Seq(AccountKeys) /\ i \in Seq(Compiled)
        /\ l \in Seq(Lookup)
    BY DEF Message
  <1>3. a \in Nat /\ b \in Nat /\ c \in Nat
    BY RadixAssumption, MessageTypes
  <1> HIDE DEF v, a, b, c, k, i, l
  <1> QED BY <1>1, <1>2, <1>3 DEF Message

(* The counts of a readable message with few keys fit in bytes, unless     *)
(* every key must sign and there are as many as a byte has values.         *)
LEMMA BytesFit ==
  ASSUME NEW m \in Message, m.required <= Len(m.keys), Len(m.keys) <= Radix,
         m.required - m.readonlySigned > 0,
         Len(m.keys) - m.required - m.readonlyUnsigned >= 0
  PROVE  Bytes(m).required = 0 \/ Bytes(m) = m
  <1> DEFINE n == Len(m.keys)
             a == m.required
             b == m.readonlySigned
             c == m.readonlyUnsigned
  <1>1. /\ a \in Nat /\ b \in Nat /\ c \in Nat /\ n \in Nat /\ m.keys \in Seq(AccountKeys)
        /\ a <= n /\ n <= Radix /\ a - b > 0 /\ n - a - c >= 0
    BY MessageTypes
  <1> HIDE DEF n, a, b, c
  <1>2. CASE a = Radix
    <2>1. a % Radix = 0
      BY <1>2, RadixAssumption
    <2>2. Bytes(m).required = a % Radix
      BY BytesParts DEF a
    <2> QED BY <2>1, <2>2
  <1>3. CASE a # Radix
    <2>1. a < Radix /\ b < Radix /\ c < Radix
      BY <1>1, <1>3, RadixAssumption
    <2>2. a % Radix = a /\ b % Radix = b /\ c % Radix = c
      BY <1>1, <2>1, RadixAssumption, SmallRest
    <2>3. Bytes(m) = m
      BY <2>2, BytesParts, MessageRecord, Zenon DEF a, b, c
    <2> QED BY <2>3
  <1> QED BY <1>2, <1>3

(* Losing the lookups leaves the rest of a message as it is.               *)
LEMMA BareParts ==
  ASSUME NEW m \in Message
  PROVE  /\ Bare(m, [m EXCEPT !.lookups = <<>>])
         /\ Bare(m, [m EXCEPT !.version = "legacy", !.lookups = <<>>])
  <1> DEFINE v == m.version
             a == m.required
             b == m.readonlySigned
             c == m.readonlyUnsigned
             k == m.keys
             i == m.ins
             l == m.lookups
  <1>1. m = [version |-> v, required |-> a, readonlySigned |-> b, readonlyUnsigned |-> c,
             keys |-> k, ins |-> i, lookups |-> l]
    BY MessageRecord
  <1>2. /\ v \in {"legacy", "v0"} /\ k \in Seq(AccountKeys) /\ i \in Seq(Compiled)
        /\ a \in Nat /\ b \in Nat /\ c \in Nat
    BY DEF Message
  <1> HIDE DEF v, a, b, c, k, i, l
  <1>3. ASSUME NEW u \in {"legacy", "v0"}, NEW bare,
               bare = [version |-> u, required |-> a, readonlySigned |-> b,
                       readonlyUnsigned |-> c, keys |-> k, ins |-> i, lookups |-> <<>>]
        PROVE  Bare(m, bare)
    <2>1. <<>> \in Seq(Lookup)
      OBVIOUS
    <2>2. bare \in Message
      BY <1>2, <1>3, <2>1 DEF Message
    <2>3. /\ bare.lookups = <<>> /\ bare.keys = k /\ bare.ins = i /\ bare.required = a
          /\ bare.readonlySigned = b /\ bare.readonlyUnsigned = c
      BY <1>3
    <2> QED BY <2>2, <2>3 DEF Bare, k, i, a, b, c
  <1>4. [m EXCEPT !.lookups = <<>>] =
          [version |-> v, required |-> a, readonlySigned |-> b,
           readonlyUnsigned |-> c, keys |-> k, ins |-> i, lookups |-> <<>>]
    BY <1>1
  <1>5. ASSUME NEW m1, m1 = [version |-> "legacy", required |-> a, readonlySigned |-> b,
                             readonlyUnsigned |-> c, keys |-> k, ins |-> i, lookups |-> l]
        PROVE  [m1 EXCEPT !.lookups = <<>>] =
          [version |-> "legacy", required |-> a, readonlySigned |-> b,
           readonlyUnsigned |-> c, keys |-> k, ins |-> i, lookups |-> <<>>]
    BY <1>5
  <1>6. [m EXCEPT !.version = "legacy"] =
          [version |-> "legacy", required |-> a, readonlySigned |-> b,
           readonlyUnsigned |-> c, keys |-> k, ins |-> i, lookups |-> l]
    BY <1>1
  <1>7. [m EXCEPT !.version = "legacy", !.lookups = <<>>] =
          [[m EXCEPT !.version = "legacy"] EXCEPT !.lookups = <<>>]
    OBVIOUS
  <1>8. [m EXCEPT !.version = "legacy", !.lookups = <<>>] =
          [version |-> "legacy", required |-> a, readonlySigned |-> b,
           readonlyUnsigned |-> c, keys |-> k, ins |-> i, lookups |-> <<>>]
    BY <1>5, <1>6, <1>7, Zenon
  <1> QED BY <1>2, <1>3, <1>4, <1>8

(* What a receiver makes of a message.                                     *)
LEMMA PartReplaced ==
  ASSUME NEW m \in Message
  PROVE  /\ \A s \in Seq(Compiled) : [m EXCEPT !.ins = s] \in Message
         /\ \A s \in Seq(Lookup) : [m EXCEPT !.lookups = s] \in Message
  BY DEF Message

LEMMA OneReplaced ==
  ASSUME NEW T, NEW s \in Seq(T), NEW i \in 1 .. Len(s), NEW x \in T
  PROVE  [s EXCEPT ![i] = x] \in Seq(T)
  OBVIOUS

DataCut(m, n) == [m EXCEPT !.ins[n].data = "cut"]
IndexCut(m, n, i) == [m EXCEPT !.lookups[n].readonly[i] = 0]

LEMMA DataCutType ==
  ASSUME NEW m \in Message, NEW n \in 1 .. Len(m.ins)
  PROVE  DataCut(m, n) \in Message
  <1> DEFINE c == [m.ins[n] EXCEPT !.data = "cut"]
             s == [m.ins EXCEPT ![n] = c]
  <1>1. DataCut(m, n) = [m EXCEPT !.ins = s]
    BY DEF DataCut
  <1>2. m.ins \in Seq(Compiled)
    BY MessageTypes
  <1>3. m.ins[n] \in Compiled
    BY <1>2
  <1>4. c \in Compiled
    BY <1>3 DEF Compiled
  <1> HIDE DEF c
  <1>5. s \in Seq(Compiled)
    BY <1>2, <1>4, OneReplaced
  <1> HIDE DEF s
  <1> QED BY <1>1, <1>5, PartReplaced

LEMMA IndexCutType ==
  ASSUME NEW m \in Message, NEW n \in 1 .. Len(m.lookups),
         NEW i \in 1 .. Len(m.lookups[n].readonly)
  PROVE  IndexCut(m, n, i) \in Message
  <1> DEFINE r == [m.lookups[n].readonly EXCEPT ![i] = 0]
             l == [m.lookups[n] EXCEPT !.readonly = r]
             s == [m.lookups EXCEPT ![n] = l]
  <1>1. IndexCut(m, n, i) = [m EXCEPT !.lookups = s]
    BY DEF IndexCut
  <1>2. m.lookups \in Seq(Lookup)
    BY MessageTypes
  <1>3. m.lookups[n] \in Lookup
    BY <1>2
  <1>4. m.lookups[n].readonly \in Seq(Byte)
    BY <1>3 DEF Lookup
  <1>5. 0 \in Byte
    BY RadixAssumption DEF Byte
  <1>6. r \in Seq(Byte)
    BY <1>4, <1>5, OneReplaced
  <1> HIDE DEF r
  <1>7. l \in Lookup
    BY <1>3, <1>6 DEF Lookup
  <1> HIDE DEF l
  <1>8. s \in Seq(Lookup)
    BY <1>2, <1>7, OneReplaced
  <1> HIDE DEF s
  <1> QED BY <1>1, <1>8, PartReplaced

Reading(r, how, m) == r = [how |-> how, msg |-> m]
Json(m) == [m EXCEPT !.version = "legacy", !.lookups = <<>>]
NoLookups(m) == [m EXCEPT !.lookups = <<>>]
NoInstructions(m) == [m EXCEPT !.ins = <<>>]

LEMMA ReadingForms ==
  ASSUME NEW m, NEW r \in Readings(m)
  PROVE  \/ Reading(r, "whole", Bytes(m))
         \/ Reading(r, "json", Json(Bytes(m)))
         \/ Reading(r, "no lookups", NoLookups(Bytes(m)))
         \/ Reading(r, "no instructions", NoInstructions(NoLookups(Bytes(m))))
         \/ /\ Len(m.ins) # 0
            /\ Reading(r, "short data", DataCut(NoLookups(Bytes(m)), Len(m.ins)))
         \/ /\ ~ (Len(m.lookups) = 0 \/ Len(m.lookups[Len(m.lookups)].readonly) < 2)
            /\ Reading(r, "short indexes",
                       IndexCut(Bytes(m), Len(m.lookups),
                                Len(m.lookups[Len(m.lookups)].readonly)))
  BY Zenon DEF Readings, Reading, Json, NoLookups, NoInstructions, DataCut, IndexCut

LEMMA ReadingParts ==
  ASSUME NEW r, NEW how, NEW m, Reading(r, how, m)
  PROVE  r.how = how /\ r.msg = m
  BY DEF Reading

(* A reader who has the message with its lookups, or without.              *)
Received(m, how, read) ==
  /\ read \in Message
  /\ how = "whole" => read = Bytes(m)
  /\ how \in {"json", "no lookups"} => Bare(Bytes(m), read)

LEMMA ReadingTypes ==
  ASSUME NEW m \in Message, NEW r \in Readings(m)
  PROVE  Received(m, r.how, r.msg)
  <1> DEFINE w == Bytes(m)
             b == NoLookups(w)
  <1>1. w \in Message /\ w.ins = m.ins /\ w.lookups = m.lookups
    BY BytesType, BytesParts
  <1>2. m.ins \in Seq(Compiled) /\ m.lookups \in Seq(Lookup)
    BY MessageTypes
  <1>3. Bare(w, b) /\ Bare(w, Json(w))
    BY <1>1, BareParts DEF NoLookups, Json
  <1>4. b \in Message /\ Json(w) \in Message /\ b.ins = w.ins
    BY <1>3 DEF Bare
  <1>5. <<>> \in Seq(Compiled)
    OBVIOUS
  <1>6. NoInstructions(b) \in Message
    BY <1>4, <1>5, PartReplaced DEF NoInstructions
  <1>7. ASSUME Len(m.ins) # 0
        PROVE  DataCut(b, Len(m.ins)) \in Message
    <2>1. Len(m.ins) \in Nat
      BY <1>2
    <2>2. Len(m.ins) \in 1 .. Len(b.ins)
      BY <1>1, <1>4, <1>7, <2>1
    <2> HIDE DEF b
    <2> QED BY <1>4, <2>2, DataCutType
  <1> DEFINE n == Len(m.lookups)
             i == Len(m.lookups[n].readonly)
  <1>8. ASSUME ~ (n = 0 \/ i < 2)
        PROVE  IndexCut(w, n, i) \in Message
    <2>1. n \in Nat
      BY <1>2
    <2>2. n \in 1 .. Len(m.lookups)
      BY <1>8, <2>1
    <2> HIDE DEF n
    <2>3. m.lookups[n] \in Lookup
      BY <1>2, <2>2
    <2>4. m.lookups[n].readonly \in Seq(Byte)
      BY <2>3 DEF Lookup
    <2>5. i \in Nat
      BY <2>4
    <2>6. i \in 1 .. Len(m.lookups[n].readonly)
      BY <1>8, <2>5
    <2> HIDE DEF i, w
    <2> QED BY <1>1, <2>2, <2>6, IndexCutType
  <1> HIDE DEF w, b, n, i
  <1>9. \/ Reading(r, "whole", w)
        \/ Reading(r, "json", Json(w))
        \/ Reading(r, "no lookups", b)
        \/ Reading(r, "no instructions", NoInstructions(b))
        \/ Len(m.ins) # 0 /\ Reading(r, "short data", DataCut(b, Len(m.ins)))
        \/ ~ (n = 0 \/ i < 2) /\ Reading(r, "short indexes", IndexCut(w, n, i))
    BY ReadingForms, Zenon DEF w, b, n, i
  <1>10. CASE Reading(r, "whole", w)
    <2>1. r.how = "whole" /\ r.msg = w
      BY <1>10, ReadingParts, Zenon
    <2> QED BY <2>1, <1>1 DEF Received, w
  <1>11. CASE Reading(r, "json", Json(w))
    <2>1. r.how = "json" /\ r.msg = Json(w)
      BY <1>11, ReadingParts, Zenon
    <2> QED BY <2>1, <1>3, <1>4 DEF Received, w
  <1>12. CASE Reading(r, "no lookups", b)
    <2>1. r.how = "no lookups" /\ r.msg = b
      BY <1>12, ReadingParts, Zenon
    <2> QED BY <2>1, <1>3, <1>4 DEF Received, w
  <1>13. CASE Reading(r, "no instructions", NoInstructions(b))
    <2>1. r.how = "no instructions" /\ r.msg = NoInstructions(b)
      BY <1>13, ReadingParts, Zenon
    <2> QED BY <2>1, <1>6 DEF Received
  <1>14. CASE Len(m.ins) # 0 /\ Reading(r, "short data", DataCut(b, Len(m.ins)))
    <2>1. r.how = "short data" /\ r.msg = DataCut(b, Len(m.ins))
      BY <1>14, ReadingParts, Zenon
    <2> QED BY <2>1, <1>7, <1>14 DEF Received
  <1>15. CASE ~ (n = 0 \/ i < 2) /\ Reading(r, "short indexes", IndexCut(w, n, i))
    <2>1. r.how = "short indexes" /\ r.msg = IndexCut(w, n, i)
      BY <1>15, ReadingParts, Zenon
    <2> QED BY <2>1, <1>8, <1>15 DEF Received
  <1> QED BY <1>9, <1>10, <1>11, <1>12, <1>13, <1>14, <1>15, Zenon

-----------------------------------------------------------------------------
(* The steps.                                                              *)
Usable(tables, later) ==
  tables \in Seq(Table) /\ \A n \in 1 .. Len(tables) : HasTable(later, tables[n])

LEMMA ChosenTables ==
  ASSUME NEW now \in DOMAIN TableStages, NEW s \in 1 .. now, NEW choice \in TableChoices
  PROVE  Usable(Chosen(s, choice), TableStages[now])
  <1> DEFINE tables == Chosen(s, choice)
  <1>1. /\ DOMAIN TableStages = 1 .. Len(TableStages) /\ Len(TableStages) \in Nat
        /\ 1 \in DOMAIN TableStages /\ s \in DOMAIN TableStages
    BY Stages
  <1>2. 1 <= s /\ s <= now
    OBVIOUS
  <1>3. /\ Grown(TableStages[1], TableStages[s])
        /\ Grown(TableStages[s], TableStages[now])
        /\ TableStages[s] \in Seq(Table)
    BY <1>1, <1>2, Stages DEF Distinct
  <1>4. choice \in Seq(DOMAIN TableStages[1])
    BY TablesAssumption
  <1>5. ASSUME NEW n \in DOMAIN choice
        PROVE  /\ choice[n] \in DOMAIN TableStages[s]
               /\ tables[n] = TableStages[s][choice[n]]
               /\ tables[n] \in Table
               /\ HasTable(TableStages[now], tables[n])
    <2>1. choice[n] \in DOMAIN TableStages[1]
      BY <1>4
    <2>2. choice[n] \in DOMAIN TableStages[s]
      BY <1>3, <2>1 DEF Grown
    <2>3. tables[n] = TableStages[s][choice[n]]
      BY DEF Chosen
    <2>4. TableStages[s][choice[n]] \in Table
      BY <1>3, <2>2
    <2> HIDE DEF tables
    <2>5. /\ choice[n] \in DOMAIN TableStages[now]
          /\ TableStages[now][choice[n]].key = tables[n].key
          /\ IsPrefix(tables[n].entries, TableStages[now][choice[n]].entries)
      BY <1>3, <2>2, <2>3 DEF Grown
    <2>6. HasTable(TableStages[now], tables[n])
      BY <2>5 DEF HasTable
    <2> QED BY <2>2, <2>3, <2>4, <2>6
  <1>6. DOMAIN choice = 1 .. Len(choice) /\ Len(choice) \in Nat
    BY <1>4
  <1>7. DOMAIN tables = 1 .. Len(choice)
    BY <1>6 DEF Chosen
  <1>8. tables = [n \in 1 .. Len(choice) |-> tables[n]]
    BY <1>6 DEF Chosen
  <1> HIDE DEF tables
  <1>9. tables \in Seq(Table)
    BY <1>5, <1>6, <1>8
  <1>10. Len(tables) = Len(choice)
    BY <1>6, <1>7, <1>9
  <1> QED BY <1>5, <1>6, <1>9, <1>10 DEF Usable, tables

LEMMA TablesNow ==
  ASSUME stage \in DOMAIN TableStages
  PROVE  Distinct(Tables)
  BY Stages DEF Tables

LEMMA CompileKinds ==
  ASSUME VersionedTypeOK, CompileV0 \/ CompileLegacy
  PROVE  \E tables, order, version :
           /\ order \in Orders /\ version \in {"legacy", "v0"}
           /\ Usable(tables, Tables) /\ CompileTransaction(order, tables, version)
  <1>1. CASE CompileV0
    <2>1. PICK order \in Orders, s \in 1 .. stage, choice \in TableChoices :
            CompileTransaction(order, Chosen(s, choice), "v0")
      BY <1>1 DEF CompileV0
    <2>2. Usable(Chosen(s, choice), Tables)
      BY ChosenTables DEF VersionedTypeOK, Tables
    <2> QED BY <2>1, <2>2
  <1>2. CASE CompileLegacy
    <2>1. PICK order \in Orders : CompileTransaction(order, <<>>, "legacy")
      BY <1>2 DEF CompileLegacy
    <2>2. Usable(<<>>, Tables)
      BY DEF Usable
    <2> QED BY <2>1, <2>2
  <1> QED BY <1>1, <1>2

LEMMA CompileOutcome ==
  ASSUME VersionedTypeOK, NEW order \in Orders, NEW version \in {"legacy", "v0"},
         NEW tables, Usable(tables, Tables), CompileTransaction(order, tables, version)
  PROVE  CompileResult(msg', asked, tables, Tables)
  <1>1. asked \in Seq(Instruction) /\ Distinct(Tables)
    BY TablesNow DEF VersionedTypeOK
  <1>2. tables \in Seq(Table) /\ \A n \in 1 .. Len(tables) : HasTable(Tables, tables[n])
    BY DEF Usable
  <1>3. msg' = Compile(asked, order, tables, version)
    BY DEF CompileTransaction
  <1> QED BY <1>1, <1>2, <1>3, CompileKnown

LEMMA BlankType ==
  ASSUME NEW m \in Message
  PROVE  Blank(m) \in Seq(Entries) /\ Len(Blank(m)) = m.required
  <1>1. m.required \in Nat
    BY MessageTypes
  <1>2. NoSignature \in Entries
    BY DEF NoSignature, Entries
  <1> QED BY <1>1, <1>2 DEF Blank

TypesInv == VersionedTypeOK /\ KeysFit

(* A place for a signature is one of a key.                                *)
LEMMA SignedType ==
  ASSUME TypesInv, IsMessage(msg), NEW signers
  PROVE  /\ SignedBy(msg, signers) \in Seq(Entries)
         /\ Len(SignedBy(msg, signers)) = msg.required
  <1>1. /\ msg \in Message /\ sigs \in Seq(Entries) /\ Len(sigs) = msg.required
        /\ msg.required <= Len(msg.keys)
    BY DEF TypesInv, VersionedTypeOK, KeysFit
  <1>2. /\ DOMAIN sigs = 1 .. Len(sigs) /\ Len(sigs) \in Nat
        /\ \A n \in DOMAIN sigs : sigs[n] \in Entries
    BY <1>1
  <1>3. msg.keys \in Seq(AccountKeys) /\ Len(msg.keys) \in Nat
    BY <1>1, MessageTypes
  <1>4. ASSUME NEW n \in DOMAIN sigs
        PROVE  msg.keys[n] \in AccountKeys
    BY <1>1, <1>2, <1>3
  <1>5. <<Bytes(msg)>> \in Seq(Message)
    <2>1. Bytes(msg) \in Message
      BY <1>1, BytesType
    <2> HIDE DEF Bytes
    <2> QED BY <2>1
  <1> DEFINE those == IF {n \in DOMAIN signers : signers[n] \notin SignerKeys(msg)} = {}
                        THEN ToSet(signers)
                        ELSE ToSet(SubSeq(signers, 1,
                               Min({n \in DOMAIN signers :
                                      signers[n] \notin SignerKeys(msg)}) - 1))
             Put(n) == IF msg.keys[n] \in those
                         THEN [by |-> msg.keys[n], over |-> <<Bytes(msg)>>] ELSE sigs[n]
  <1>6. SignedBy(msg, signers) = [n \in DOMAIN sigs |-> Put(n)]
    BY DEF SignedBy
  <1> HIDE DEF those
  <1>7. ASSUME NEW n \in DOMAIN sigs
        PROVE  Put(n) \in Entries
    <2>1. [by |-> msg.keys[n], over |-> <<Bytes(msg)>>] \in Entries
      BY <1>4, <1>5 DEF Entries
    <2> QED BY <1>2, <2>1
  <1> HIDE DEF Put
  <1> QED BY <1>1, <1>2, <1>6, <1>7

LEMMA TypesInit == VersionedInit => TypesInv
  <1> SUFFICES ASSUME VersionedInit PROVE TypesInv
    OBVIOUS
  <1> USE DEF VersionedInit
  <1>1. stage \in DOMAIN TableStages
    BY TablesAssumption
  <1>2. ~ IsMessage(msg)
    BY DEF NoMessage, Refused, IsMessage
  <1>3. sigs = <<>> /\ Len(sigs) = 0
    OBVIOUS
  <1>4. meant \in Seq(Instruction) /\ asked \in Seq(Instruction)
    BY RequestsAssumption
  <1>5. ~ copy.there /\ ~ reply.there
    BY DEF NoCopy, NoReply
  <1>6. compiles \in 0 .. MaxCompiles
    BY CompilesAssumption
  <1>7. late \in BOOLEAN /\ wrapped \in BOOLEAN /\ working \in BOOLEAN
    OBVIOUS
  <1> QED
    BY <1>1, <1>2, <1>3, <1>4, <1>5, <1>6, <1>7 DEF TypesInv, VersionedTypeOK, KeysFit

LEMMA TypesCompile ==
  ASSUME TypesInv, CompileV0 \/ CompileLegacy
  PROVE  TypesInv'
  <1>1. PICK tables, order, version :
          /\ order \in Orders /\ version \in {"legacy", "v0"}
          /\ Usable(tables, Tables) /\ CompileTransaction(order, tables, version)
    BY CompileKinds DEF TypesInv
  <1>2. CompileResult(msg', asked, tables, Tables)
    BY <1>1, CompileOutcome DEF TypesInv
  <1>3. /\ sigs' = IF IsMessage(msg') THEN Blank(msg') ELSE <<>>
        /\ compiles < MaxCompiles /\ compiles' = compiles + 1
        /\ late' = FALSE /\ wrapped' = (wrapped \/ WrapsAround(msg', asked, tables))
        /\ UNCHANGED <<meant, asked, stage, copy, reply, working>>
    BY <1>1 DEF CompileTransaction
  <1>4. IsMessage(msg') => /\ msg' \in Message /\ msg'.required <= Len(msg'.keys)
                           /\ Len(msg'.keys) <= Radix
    BY <1>2 DEF CompileResult
  <1>5. IsMessage(msg') => sigs' \in Seq(Entries) /\ Len(sigs') = msg'.required
    BY <1>3, <1>4, BlankType
  <1>6. ~ IsMessage(msg') => Len(sigs') = 0
    BY <1>3
  <1>7. wrapped' \in BOOLEAN
    BY <1>3 DEF WrapsAround, TypesInv, VersionedTypeOK
  <1>8. compiles' \in 0 .. MaxCompiles
    BY <1>3, CompilesAssumption DEF TypesInv, VersionedTypeOK
  <1>9. KeysFit'
    BY <1>4 DEF KeysFit
  <1>10. VersionedTypeOK'
    BY <1>3, <1>4, <1>5, <1>6, <1>7, <1>8 DEF TypesInv, VersionedTypeOK
  <1> QED BY <1>9, <1>10 DEF TypesInv

LEMMA TypesStep ==
  ASSUME TypesInv, [VersionedNext]_versionedVars
  PROVE  TypesInv'
  <1>1. CASE CompileV0 \/ CompileLegacy
    BY <1>1, TypesCompile
  <1>2. ASSUME NEW signers, Sign(signers)
        PROVE  TypesInv'
    <2>1. /\ IsMessage(msg) /\ sigs' = SignedBy(msg, signers)
          /\ UNCHANGED <<meant, asked, stage, msg, copy, reply, late, wrapped, working, compiles>>
      BY <1>2 DEF Sign
    <2>2. sigs' \in Seq(Entries) /\ Len(sigs') = msg.required
      BY <2>1, SignedType
    <2> QED BY <2>1, <2>2 DEF TypesInv, VersionedTypeOK, KeysFit
  <1>3. CASE Send
    <2>1. PICK r \in Readings(msg) :
            copy' = [there |-> TRUE, how |-> r.how, msg |-> r.msg, round |-> compiles]
      BY <1>3 DEF Send
    <2>2. /\ IsMessage(msg)
          /\ UNCHANGED <<meant, asked, stage, msg, sigs, reply, late, wrapped, working, compiles>>
      BY <1>3 DEF Send
    <2>3. msg \in Message
      BY <2>2 DEF TypesInv, VersionedTypeOK
    <2>4. r.msg \in Message
      BY <2>3, ReadingTypes DEF Received
    <2>5. copy'.msg \in Message
      BY <2>1, <2>4
    <2> QED BY <2>2, <2>5 DEF TypesInv, VersionedTypeOK, KeysFit
  <1>4. CASE CoSign
    <2>1. /\ copy.there
          /\ reply' = [there |-> TRUE, by |-> CoSigner, over |-> <<copy.msg>>,
                       how |-> copy.how, round |-> copy.round]
          /\ UNCHANGED <<meant, asked, stage, msg, sigs, copy, late, wrapped, working, compiles>>
      BY <1>4 DEF CoSign
    <2>2. copy.msg \in Message
      BY <2>1 DEF TypesInv, VersionedTypeOK
    <2>3. <<copy.msg>> \in Seq(Message)
      BY <2>2
    <2>4. reply'.by \in AccountKeys /\ reply'.over \in Seq(Message)
      BY <2>1, <2>3, CoSignerAssumption
    <2> QED BY <2>1, <2>4 DEF TypesInv, VersionedTypeOK, KeysFit
  <1>5. CASE AddSignature
    <2>1. /\ reply.there /\ IsMessage(msg) /\ reply' = NoReply
          /\ UNCHANGED <<meant, asked, stage, msg, copy, wrapped, compiles>>
      BY <1>5 DEF AddSignature
    <2>2. ~ reply'.there
      BY <2>1 DEF NoReply
    <2>3. /\ sigs \in Seq(Entries) /\ Len(sigs) = msg.required
          /\ [by |-> reply.by, over |-> reply.over] \in Entries
      BY <2>1 DEF TypesInv, VersionedTypeOK, Entries
    <2>4. CASE reply.by \in SignerKeys(msg)
      <3> DEFINE place == SignerIndex(msg, reply.by)
                 entry == [by |-> reply.by, over |-> reply.over]
      <3>1. /\ sigs' = [sigs EXCEPT ![place] = entry]
            /\ late' = (late \/ reply.round # compiles \/ reply.how # "whole")
            /\ UNCHANGED working
        BY <1>5, <2>4 DEF AddSignature
      <3>2. late' \in BOOLEAN
        BY <3>1
      <3>3. place \in 1 .. msg.required
        BY <2>4 DEF SignerKeys, SignerIndex
      <3> HIDE DEF place, entry
      <3>4. sigs' \in Seq(Entries) /\ Len(sigs') = Len(sigs)
        BY <2>3, <3>1, <3>3 DEF entry
      <3> QED BY <2>1, <2>2, <2>3, <3>1, <3>2, <3>4 DEF TypesInv, VersionedTypeOK, KeysFit
    <2>5. CASE reply.by \notin SignerKeys(msg)
      <3>1. working' = FALSE /\ UNCHANGED <<sigs, late>>
        BY <1>5, <2>5 DEF AddSignature
      <3> QED BY <2>1, <2>2, <3>1 DEF TypesInv, VersionedTypeOK, KeysFit
    <2> QED BY <2>4, <2>5
  <1>6. CASE DecompileTransaction
    <2>1. /\ IsMessage(msg)
          /\ asked' = IF Decompile(msg, Tables).ok THEN Decompile(msg, Tables).ins ELSE asked
          /\ UNCHANGED <<meant, stage, msg, sigs, copy, reply, late, wrapped, working, compiles>>
      BY <1>6 DEF DecompileTransaction
    <2>2. msg \in Message /\ Distinct(Tables) /\ asked \in Seq(Instruction)
      BY <2>1, TablesNow DEF TypesInv, VersionedTypeOK
    <2>3. asked' \in Seq(Instruction)
      BY <2>1, <2>2, DecompileType
    <2> QED BY <2>1, <2>3 DEF TypesInv, VersionedTypeOK, KeysFit
  <1>7. CASE GrowTables
    <2>1. /\ stage < Len(TableStages) /\ stage' = stage + 1
          /\ UNCHANGED <<meant, asked, msg, sigs, copy, reply, late, wrapped, working, compiles>>
      BY <1>7 DEF GrowTables
    <2>2. stage' \in DOMAIN TableStages
      BY <2>1, TablesAssumption DEF TypesInv, VersionedTypeOK
    <2> QED BY <2>1, <2>2 DEF TypesInv, VersionedTypeOK, KeysFit
  <1>8. CASE UNCHANGED versionedVars
    BY <1>8 DEF versionedVars, TypesInv, VersionedTypeOK, KeysFit
  <1> QED
    BY <1>1, <1>2, <1>3, <1>4, <1>5, <1>6, <1>7, <1>8 DEF VersionedNext

(* The message, the signatures and the counters hold what their Go types   *)
(* allow in every state: whatever is compiled, cut, read and signed, there *)
(* is one signature for each key that must sign (NewVersionedTransaction,  *)
(* Sign, AddSignature).                                                    *)
THEOREM VersionedTypes == VersionedSpec => []VersionedTypeOK
  <1>1. TypesInv /\ [VersionedNext]_versionedVars => TypesInv'
    BY TypesStep
  <1>2. TypesInv => VersionedTypeOK
    BY DEF TypesInv
  <1> QED BY TypesInit, <1>1, <1>2, PTL DEF VersionedSpec

(* What is known of the message and of the copy, as the lemmas say it.     *)
MeaningNow ==
  /\ IsMessage(msg) /\ ~ wrapped => Means(msg, Tables, meant)
  /\ ~ IsMessage(msg) /\ msg # NoMessage /\ ~ wrapped => HasReason(msg, meant, Tables)

Noticed(m) ==
  \/ m.required = 0
  \/ Decompile(m, Tables).ok /\ SameMeaning(Decompile(m, Tables).ins, meant)
  \/ /\ m.lookups = <<>>
     /\ Decompile(m, Tables).ok => SameMeaning(Decompile(m, Tables).ins, meant)

CopyNow ==
  copy.there /\ copy.how \in {"whole", "json", "no lookups"} /\ ~ wrapped =>
    Noticed(copy.msg)

LEMMA MeaningSaid ==
  /\ MeaningNow <=> MessageMeansWhatWasAsked /\ RefusalsHaveReason
  /\ CopyNow <=> CopyIsNoticed
  <1>1. (IsMessage(msg) /\ ~ wrapped => Means(msg, Tables, meant))
          <=> MessageMeansWhatWasAsked
    BY Zenon DEF Means, MessageMeansWhatWasAsked
  <1>2. (~ IsMessage(msg) /\ msg # NoMessage /\ ~ wrapped => HasReason(msg, meant, Tables))
          <=> RefusalsHaveReason
    BY Zenon DEF HasReason, RefusalsHaveReason, Far, TooFar
  <1>3. CopyNow <=> CopyIsNoticed
    BY Zenon DEF CopyNow, CopyIsNoticed, Noticed
  <1> QED BY <1>1, <1>2, <1>3 DEF MeaningNow

LEMMA MeaningSaidNext ==
  /\ MeaningNow' <=> MessageMeansWhatWasAsked' /\ RefusalsHaveReason'
  /\ CopyNow' <=> CopyIsNoticed'
  BY MeaningSaid, PTL

MeaningParts == TypesInv /\ AskedIsMeant /\ MeaningNow /\ CopyNow

LEMMA MeaningCompile ==
  ASSUME MeaningParts, CompileV0 \/ CompileLegacy
  PROVE  AskedIsMeant' /\ MeaningNow' /\ CopyNow'
  <1>1. PICK tables, order, version :
          /\ order \in Orders /\ version \in {"legacy", "v0"}
          /\ Usable(tables, Tables) /\ CompileTransaction(order, tables, version)
    BY CompileKinds DEF MeaningParts, TypesInv
  <1>2. CompileResult(msg', asked, tables, Tables)
    BY <1>1, CompileOutcome DEF MeaningParts, TypesInv
  <1>3. /\ wrapped' = (wrapped \/ WrapsAround(msg', asked, tables))
        /\ UNCHANGED <<meant, asked, stage, copy>>
    BY <1>1 DEF CompileTransaction
  <1>4. Tables' = Tables
    BY <1>3 DEF Tables
  <1>5. /\ asked \in Seq(Instruction) /\ meant \in Seq(Instruction) /\ Distinct(Tables)
    BY TablesNow DEF MeaningParts, TypesInv, VersionedTypeOK
  <1>6. ~ wrapped' => AsksTheSame(asked, meant) /\ ~ WrapsAround(msg', asked, tables)
    BY <1>3 DEF MeaningParts, AskedIsMeant
  <1>7. AskedIsMeant'
    BY <1>3, <1>6 DEF AskedIsMeant
  <1>8. ASSUME IsMessage(msg'), ~ wrapped'
        PROVE  Means(msg', Tables, meant)
    <2>1. msg' \in Message /\ Means(msg', Tables, asked)
      BY <1>2, <1>6, <1>8 DEF CompileResult
    <2>2. Decompile(msg', Tables).ok /\ SameMeaning(Decompile(msg', Tables).ins, asked)
      BY <2>1 DEF Means
    <2>3. Decompile(msg', Tables).ins \in Seq(Instruction)
      BY <1>5, <2>1, <2>2, DecompileType
    <2>4. SameMeaning(Decompile(msg', Tables).ins, meant)
      BY <1>5, <1>6, <1>8, <2>2, <2>3, MeaningPassesOn
    <2> QED BY <2>1, <2>4 DEF Means
  <1>9. ASSUME ~ IsMessage(msg'), ~ wrapped'
        PROVE  HasReason(msg', meant, Tables)
    <2>1. HasReason(msg', asked, Tables)
      BY <1>2, <1>9 DEF CompileResult
    <2> QED BY <1>5, <1>6, <1>9, <2>1, ReasonPassesOn
  <1>10. MeaningNow'
    BY <1>3, <1>4, <1>8, <1>9 DEF MeaningNow
  <1>11. CopyNow'
    BY <1>3, <1>4 DEF MeaningParts, CopyNow, Noticed
  <1> QED BY <1>7, <1>10, <1>11

(* What is sent keeps its counts, or its number of signers becomes 0.      *)
LEMMA MeansFits ==
  ASSUME NEW m \in Message, m.required <= Len(m.keys), Len(m.keys) <= Radix,
         NEW tables, NEW ins, Means(m, tables, ins)
  PROVE  Bytes(m).required = 0 \/ Bytes(m) = m
  <1>1. Readable(m, tables)
    BY DecompileKnown DEF Means
  <1>2. /\ ~ (m.required - m.readonlySigned <= 0)
        /\ ~ (Len(m.keys) - m.required - m.readonlyUnsigned < 0)
    BY <1>1 DEF Readable
  <1>3. /\ m.required \in Nat /\ m.readonlySigned \in Nat /\ m.readonlyUnsigned \in Nat
        /\ Len(m.keys) \in Nat
    BY MessageTypes
  <1>4. m.required - m.readonlySigned > 0
    BY <1>2, <1>3
  <1>5. Len(m.keys) - m.required - m.readonlyUnsigned >= 0
    BY <1>2, <1>3
  <1> QED BY <1>4, <1>5, BytesFit

LEMMA MeaningSend ==
  ASSUME MeaningParts, Send
  PROVE  AskedIsMeant' /\ MeaningNow' /\ CopyNow'
  <1>1. PICK r \in Readings(msg) :
          copy' = [there |-> TRUE, how |-> r.how, msg |-> r.msg, round |-> compiles]
    BY DEF Send
  <1>2. IsMessage(msg) /\ UNCHANGED <<meant, asked, stage, msg, wrapped>>
    BY DEF Send
  <1>3. Tables' = Tables
    BY <1>2 DEF Tables
  <1>4. AskedIsMeant' /\ MeaningNow'
    BY <1>2, <1>3 DEF MeaningParts, AskedIsMeant, MeaningNow
  <1>5. /\ msg \in Message /\ msg.required <= Len(msg.keys) /\ Len(msg.keys) <= Radix
        /\ Distinct(Tables)
    BY <1>2, TablesNow DEF MeaningParts, TypesInv, VersionedTypeOK, KeysFit
  <1>6. Received(msg, r.how, r.msg)
    BY <1>5, ReadingTypes
  <1>7. ASSUME ~ wrapped, r.how \in {"whole", "json", "no lookups"}
        PROVE  Noticed(r.msg)
    <2>1. Means(msg, Tables, meant)
      BY <1>2, <1>7 DEF MeaningParts, MeaningNow
    <2>2. Bytes(msg).required = 0 \/ Bytes(msg) = msg
      BY <1>5, <2>1, MeansFits
    <2>3. Decompile(msg, Tables).ok /\ SameMeaning(Decompile(msg, Tables).ins, meant)
      BY <2>1 DEF Means
    <2>4. r.msg = Bytes(msg) \/ Bare(Bytes(msg), r.msg)
      BY <1>6, <1>7 DEF Received
    <2>5. CASE Bytes(msg).required = 0
      <3>1. r.msg.required = 0
        BY <2>4, <2>5 DEF Bare
      <3> QED BY <3>1 DEF Noticed
    <2>6. CASE Bytes(msg) = msg
      <3>1. CASE r.msg = msg
        BY <2>3, <3>1 DEF Noticed
      <3>2. CASE Bare(msg, r.msg)
        <4>1. Decompile(r.msg, Tables).ok => SameMeaning(Decompile(r.msg, Tables).ins, meant)
          BY <1>5, <2>3, <3>2, LostLookups
        <4>2. r.msg.lookups = <<>>
          BY <3>2 DEF Bare
        <4> QED BY <4>1, <4>2 DEF Noticed
      <3> QED BY <2>4, <2>6, <3>1, <3>2
    <2> QED BY <2>2, <2>5, <2>6
  <1>8. copy'.how = r.how /\ copy'.msg = r.msg
    BY <1>1
  <1>9. CopyNow'
    BY <1>2, <1>3, <1>7, <1>8 DEF CopyNow, Noticed
  <1> QED BY <1>4, <1>9

LEMMA MeaningDecompile ==
  ASSUME MeaningParts, DecompileTransaction
  PROVE  AskedIsMeant' /\ MeaningNow' /\ CopyNow'
  <1>1. /\ IsMessage(msg)
        /\ asked' = IF Decompile(msg, Tables).ok THEN Decompile(msg, Tables).ins ELSE asked
        /\ UNCHANGED <<meant, stage, msg, copy, wrapped>>
    BY DEF DecompileTransaction
  <1>2. Tables' = Tables
    BY <1>1 DEF Tables
  <1>3. msg \in Message /\ Distinct(Tables) /\ meant \in Seq(Instruction)
    BY <1>1, TablesNow DEF MeaningParts, TypesInv, VersionedTypeOK
  <1>4. ASSUME ~ wrapped
        PROVE  AsksTheSame(asked', meant)
    <2>1. Decompile(msg, Tables).ok /\ SameMeaning(Decompile(msg, Tables).ins, meant)
      BY <1>1, <1>4 DEF MeaningParts, MeaningNow, Means
    <2>2. asked' = Decompile(msg, Tables).ins
      BY <1>1, <2>1
    <2>3. asked' \in Seq(Instruction)
      BY <1>3, <2>1, <2>2, DecompileType
    <2> QED BY <1>3, <2>1, <2>2, <2>3, MeaningIsAsked
  <1>5. AskedIsMeant'
    BY <1>1, <1>4 DEF AskedIsMeant
  <1>6. MeaningNow' /\ CopyNow'
    BY <1>1, <1>2 DEF MeaningParts, MeaningNow, CopyNow, Noticed
  <1> QED BY <1>5, <1>6

(* While the tables grow, what can be read can be read on, and a refusal   *)
(* goes on to have its reason.                                             *)
LEMMA ReasonStays ==
  ASSUME NEW m, NEW ins, NEW tables, Distinct(tables), NEW later, Distinct(later),
         Grown(tables, later), HasReason(m, ins, tables)
  PROVE  HasReason(m, ins, later)
  <1>1. ASSUME NEW t \in ToSet(tables), Far(ins, t)
        PROVE  \E u \in ToSet(later) : Far(ins, u)
    <2>1. PICK n \in DOMAIN tables : t = tables[n]
      BY DEF ToSet
    <2>2. n \in DOMAIN later /\ IsPrefix(t.entries, later[n].entries)
      BY <2>1 DEF Grown
    <2>3. t \in Table /\ later[n] \in Table /\ later[n] \in ToSet(later)
      BY <2>1, <2>2, TableFound
    <2>4. Far(ins, later[n])
      BY <1>1, <2>2, <2>3, FarStays
    <2> QED BY <2>3, <2>4
  <1> HIDE DEF Far
  <1> QED BY <1>1, Zenon DEF HasReason

LEMMA NoticedStays ==
  ASSUME NEW m \in Message, NEW tables, Distinct(tables), NEW later, Distinct(later),
         Grown(tables, later), NEW ins,
         \/ Decompile(m, tables).ok /\ SameMeaning(Decompile(m, tables).ins, ins)
         \/ /\ m.lookups = <<>>
            /\ Decompile(m, tables).ok => SameMeaning(Decompile(m, tables).ins, ins)
  PROVE  \/ Decompile(m, later).ok /\ SameMeaning(Decompile(m, later).ins, ins)
         \/ /\ m.lookups = <<>>
            /\ Decompile(m, later).ok => SameMeaning(Decompile(m, later).ins, ins)
  <1>1. CASE Decompile(m, tables).ok /\ SameMeaning(Decompile(m, tables).ins, ins)
    <2>1. SameRead(m, tables, later)
      BY <1>1, GrownReadsSame
    <2> QED BY <1>1, <2>1, Zenon DEF SameRead
  <1>2. CASE /\ m.lookups = <<>>
             /\ Decompile(m, tables).ok => SameMeaning(Decompile(m, tables).ins, ins)
    <2>1. Decompile(m, later).ok =>
            Decompile(m, tables).ok /\ Decompile(m, later).ins = Decompile(m, tables).ins
      BY <1>2, NoLookupsSame
    <2> QED BY <1>2, <2>1, Zenon
  <1> QED BY <1>1, <1>2

LEMMA MeaningGrow ==
  ASSUME MeaningParts, GrowTables
  PROVE  AskedIsMeant' /\ MeaningNow' /\ CopyNow'
  <1>1. /\ stage < Len(TableStages) /\ stage' = stage + 1
        /\ UNCHANGED <<meant, asked, msg, copy, wrapped>>
    BY DEF GrowTables
  <1>2. stage \in DOMAIN TableStages /\ stage' \in DOMAIN TableStages /\ stage <= stage'
    BY <1>1, TablesAssumption DEF MeaningParts, TypesInv, VersionedTypeOK
  <1>3. Distinct(Tables) /\ Distinct(Tables') /\ Grown(Tables, Tables')
    BY <1>2, Stages DEF Tables
  <1>4. AskedIsMeant'
    BY <1>1 DEF MeaningParts, AskedIsMeant
  <1>5. ASSUME IsMessage(msg), ~ wrapped
        PROVE  Means(msg, Tables', meant)
    <2>1. msg \in Message /\ Means(msg, Tables, meant)
      BY <1>5 DEF MeaningParts, MeaningNow, TypesInv, VersionedTypeOK
    <2>2. SameRead(msg, Tables, Tables')
      BY <1>3, <2>1, GrownReadsSame DEF Means
    <2> HIDE DEF Tables
    <2> QED BY <2>1, <2>2 DEF SameRead, Means
  <1>6. ASSUME ~ IsMessage(msg), msg # NoMessage, ~ wrapped
        PROVE  HasReason(msg, meant, Tables')
    <2>1. HasReason(msg, meant, Tables)
      BY <1>6 DEF MeaningParts, MeaningNow
    <2> QED BY <1>3, <2>1, ReasonStays
  <1>7. MeaningNow'
    BY <1>1, <1>5, <1>6 DEF MeaningNow
  <1>8. ASSUME copy.there, copy.how \in {"whole", "json", "no lookups"}, ~ wrapped
        PROVE  \/ copy.msg.required = 0
               \/ /\ Decompile(copy.msg, Tables').ok
                  /\ SameMeaning(Decompile(copy.msg, Tables').ins, meant)
               \/ /\ copy.msg.lookups = <<>>
                  /\ Decompile(copy.msg, Tables').ok =>
                       SameMeaning(Decompile(copy.msg, Tables').ins, meant)
    <2>1. copy.msg \in Message /\ Noticed(copy.msg)
      BY <1>8 DEF MeaningParts, CopyNow, TypesInv, VersionedTypeOK
    <2> QED BY <1>3, <2>1, NoticedStays DEF Noticed
  <1>9. CopyNow'
    BY <1>1, <1>8 DEF CopyNow, Noticed
  <1> QED BY <1>4, <1>7, <1>9

LEMMA MeaningInit == VersionedInit => MeaningParts
  <1> SUFFICES ASSUME VersionedInit PROVE MeaningParts
    OBVIOUS
  <1>1. ~ IsMessage(msg) /\ msg = NoMessage
    BY DEF VersionedInit, NoMessage, Refused, IsMessage
  <1>2. ~ copy.there
    BY DEF VersionedInit, NoCopy
  <1>3. AsksTheSame(asked, meant)
    BY DEF VersionedInit, AsksTheSame
  <1> QED BY <1>1, <1>2, <1>3, TypesInit DEF MeaningParts, AskedIsMeant, MeaningNow, CopyNow

LEMMA MeaningStep ==
  ASSUME MeaningParts, [VersionedNext]_versionedVars
  PROVE  MeaningParts'
  <1>1. TypesInv'
    BY TypesStep DEF MeaningParts
  <1>2. ASSUME UNCHANGED <<meant, asked, stage, msg, copy, wrapped>>
        PROVE  AskedIsMeant' /\ MeaningNow' /\ CopyNow'
    <2>1. Tables' = Tables
      BY <1>2 DEF Tables
    <2> QED BY <1>2, <2>1 DEF MeaningParts, AskedIsMeant, MeaningNow, CopyNow, Noticed
  <1>3. CASE CompileV0 \/ CompileLegacy
    BY <1>1, <1>3, MeaningCompile DEF MeaningParts
  <1>4. CASE Send
    BY <1>1, <1>4, MeaningSend DEF MeaningParts
  <1>5. CASE DecompileTransaction
    BY <1>1, <1>5, MeaningDecompile DEF MeaningParts
  <1>6. CASE GrowTables
    BY <1>1, <1>6, MeaningGrow DEF MeaningParts
  <1>7. ASSUME NEW signers, Sign(signers)
        PROVE  MeaningParts'
    BY <1>1, <1>2, <1>7 DEF Sign, MeaningParts
  <1>8. CASE CoSign
    BY <1>1, <1>2, <1>8 DEF CoSign, MeaningParts
  <1>9. CASE AddSignature
    BY <1>1, <1>2, <1>9 DEF AddSignature, MeaningParts
  <1>10. CASE UNCHANGED versionedVars
    BY <1>1, <1>2, <1>10 DEF versionedVars, MeaningParts
  <1> QED
    BY <1>3, <1>4, <1>5, <1>6, <1>7, <1>8, <1>9, <1>10 DEF VersionedNext

(* The same as the invariant that is checked on the instances.             *)
LEMMA MeaningPartsInv == MeaningParts <=> MeaningInv
  BY MeaningSaid DEF MeaningParts, MeaningInv, TypesInv

LEMMA MeaningAlways == VersionedSpec => []MeaningInv
  <1>1. MeaningParts /\ [VersionedNext]_versionedVars => MeaningParts'
    BY MeaningStep
  <1> QED BY MeaningInit, <1>1, MeaningPartsInv, PTL DEF VersionedSpec

(* Whoever has no signer to look for reads nothing.                        *)
LEMMA NoSignersNoRead ==
  ASSUME NEW m \in Message, m.required = 0, NEW tables
  PROVE  ~ Decompile(m, tables).ok
  <1>1. m.required - m.readonlySigned <= 0
    BY MessageTypes
  <1> QED BY <1>1, DecompileKnown DEF Readable

(* Compiled with any tables, in any order of the map, after any number of  *)
(* decompilations while the tables grew, a message leads every index to    *)
(* the account that was asked for and grants it what was asked (Compile,   *)
(* NewMessage0, NewTransactionMessageFrom), as long as no key was taken    *)
(* from a table at the index that the limit lets pass but no byte holds.   *)
THEOREM MessagesMeanWhatWasAsked == VersionedSpec => []MessageMeansWhatWasAsked
  <1>1. MeaningInv => MessageMeansWhatWasAsked
    BY DEF MeaningInv
  <1> QED BY MeaningAlways, <1>1, PTL

(* A compilation is refused only where there are too many accounts, a      *)
(* table is too long for its indexes, or another writable signer came      *)
(* before the payer.                                                       *)
THEOREM RefusalsAlwaysHaveReason == VersionedSpec => []RefusalsHaveReason
  <1>1. MeaningInv => RefusalsHaveReason
    BY DEF MeaningInv
  <1> QED BY MeaningAlways, <1>1, PTL

(* A reader to whom the lookups of a message got lost, in JSON or in a cut *)
(* transmission, decompiles what was asked for, or gets an error, whatever *)
(* tables there are and however they grow.                                 *)
THEOREM LostLookupsAlwaysNoticed == VersionedSpec => []LostLookupsAreNoticed
  <1>1. ASSUME MeaningInv
        PROVE  LostLookupsAreNoticed
    <2>1. ASSUME copy.there, copy.how \in {"whole", "json", "no lookups"}, ~ wrapped,
                 Decompile(copy.msg, Tables).ok
          PROVE  SameMeaning(Decompile(copy.msg, Tables).ins, meant)
      <3>1. copy.msg \in Message /\ Noticed(copy.msg)
        BY <1>1, <2>1, MeaningPartsInv
        DEF MeaningInv, MeaningParts, CopyNow, VersionedTypeOK
      <3>2. copy.msg.required # 0
        BY <2>1, <3>1, NoSignersNoRead
      <3> QED BY <2>1, <3>1, <3>2 DEF Noticed
    <2> QED BY <2>1 DEF LostLookupsAreNoticed
  <1>2. MeaningInv => LostLookupsAreNoticed
    BY <1>1
  <1> QED BY MeaningAlways, <1>2, PTL
=============================================================================
