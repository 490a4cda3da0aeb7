------------------------ MODULE LegacyTransactionProofs ------------------------
(* Proofs about LegacyTransaction, for all keys, instructions and signers.  *)
EXTENDS LegacyTransaction, DataLemmas

-----------------------------------------------------------------------------
(* Compiling.                                                              *)

(* The accounts of the instructions, their signers and the writable ones.  *)
LEMMA AccountSets ==
  ASSUME NEW list \in Seq(Instruction)
  PROVE  /\ Accounts(list) \subseteq Keys /\ IsFiniteSet(Accounts(list))
         /\ Signers(list) \subseteq Accounts(list)
         /\ Writables(list) \subseteq Accounts(list)
         /\ DOMAIN list = 1 .. Len(list) /\ Len(list) \in Nat
         /\ \A n \in DOMAIN list :
              /\ list[n] \in Instruction
              /\ list[n].program \in Accounts(list)
              /\ \A a \in DOMAIN list[n].metas :
                   /\ list[n].metas[a] \in Metas
                   /\ list[n].metas[a].key \in Accounts(list)
<1>1. /\ DOMAIN list = 1 .. Len(list) /\ Len(list) \in Nat
      /\ \A n \in DOMAIN list : list[n] \in Instruction
  OBVIOUS
<1>2. \A n \in DOMAIN list : list[n].metas \in Seq(Metas) /\ list[n].program \in Keys
  BY <1>1 DEF Instruction
<1>3. IsFiniteSet(DOMAIN list)
  BY <1>1, FS_Interval
<1>4. IsFiniteSet(AllMetas(list)) /\ AllMetas(list) \subseteq Metas
  <2> DEFINE f == [n \in DOMAIN list |-> ToSet(list[n].metas)]
             T == {f[n] : n \in DOMAIN list}
  <2>1. \A n \in DOMAIN list :
          IsFiniteSet(ToSet(list[n].metas)) /\ ToSet(list[n].metas) \subseteq Metas
    BY <1>2, FiniteToSet
  <2>2. IsFiniteSet(T)
    <3>1. DOMAIN f = DOMAIN list
      OBVIOUS
    <3> HIDE DEF f
    <3> QED BY <1>3, <3>1, FiniteRange
  <2>3. \A S \in T : IsFiniteSet(S) /\ S \subseteq Metas
    BY <2>1
  <2>4. T = {ToSet(list[n].metas) : n \in DOMAIN list}
    OBVIOUS
  <2>5. AllMetas(list) = UNION T
    BY <2>4 DEF AllMetas
  <2> HIDE DEF T
  <2> QED BY <2>2, <2>3, <2>5, FS_UNION
<1>5. IsFiniteSet({m.key : m \in AllMetas(list)})
  <2> DEFINE f == [m \in AllMetas(list) |-> m.key]
  <2>1. DOMAIN f = AllMetas(list)
    OBVIOUS
  <2>2. {f[m] : m \in AllMetas(list)} = {m.key : m \in AllMetas(list)}
    OBVIOUS
  <2> HIDE DEF f
  <2> QED BY <1>4, <2>1, <2>2, FiniteRange
<1>6. IsFiniteSet({list[n].program : n \in DOMAIN list})
  <2> DEFINE f == [n \in DOMAIN list |-> list[n].program]
  <2>1. DOMAIN f = DOMAIN list
    OBVIOUS
  <2>2. {f[n] : n \in DOMAIN list} = {list[n].program : n \in DOMAIN list}
    OBVIOUS
  <2> HIDE DEF f
  <2> QED BY <1>3, <2>1, <2>2, FiniteRange
<1>7. IsFiniteSet(Accounts(list))
  BY <1>5, <1>6, FS_Union DEF Accounts
<1>8. Accounts(list) \subseteq Keys
  <2>1. \A m \in AllMetas(list) : m.key \in Keys
    BY <1>4 DEF Metas
  <2> QED BY <1>2, <2>1 DEF Accounts
<1>9. Signers(list) \subseteq Accounts(list) /\ Writables(list) \subseteq Accounts(list)
  BY DEF Signers, Writables, Accounts
<1>10. ASSUME NEW n \in DOMAIN list
       PROVE  /\ list[n].program \in Accounts(list)
              /\ \A a \in DOMAIN list[n].metas :
                   /\ list[n].metas[a] \in Metas
                   /\ list[n].metas[a].key \in Accounts(list)
  <2>1. list[n].program \in Accounts(list)
    BY DEF Accounts
  <2>2. ASSUME NEW a \in DOMAIN list[n].metas
        PROVE  list[n].metas[a] \in Metas /\ list[n].metas[a] \in AllMetas(list)
    <3>1. list[n].metas[a] \in Metas
      BY <1>2, <2>2
    <3>2. list[n].metas[a] \in ToSet(list[n].metas)
      BY DEF ToSet
    <3> QED BY <3>1, <3>2 DEF AllMetas
  <2> QED BY <2>1, <2>2 DEF Accounts
<1> QED
  BY <1>1, <1>7, <1>8, <1>9, <1>10

(* A list by priority: every key once, the writable ones in front.         *)
LEMMA PriorityOrder ==
  ASSUME NEW S, S \subseteq Keys, IsFiniteSet(S), NEW W
  PROVE  /\ Enumerates(ByPriority(S, W), S)
         /\ \A n \in 1 .. Len(ByPriority(S, W)) :
              ByPriority(S, W)[n] \in W <=> n <= Cardinality(S \cap W)
<1> DEFINE w == Ascending(S \cap W)
           r == Ascending(S \ W)
           s == ByPriority(S, W)
<1>1. /\ IsFiniteSet(S \cap W) /\ IsFiniteSet(S \ W)
      /\ S \cap W \subseteq Nat /\ S \ W \subseteq Nat
  BY SplitCardinality, KeysAssumption
<1>2. Enumerates(w, S \cap W) /\ Enumerates(r, S \ W)
  BY <1>1, AscendingEnumerates
<1>3. s = w \o r
  BY DEF ByPriority
<1> HIDE DEF w, r, s
<1>4. Enumerates(s, S)
  <2>1. (S \cap W) \cup (S \ W) = S /\ (S \cap W) \cap (S \ W) = {}
    OBVIOUS
  <2>2. Enumerates(w \o r, (S \cap W) \cup (S \ W))
    BY <1>2, <2>1, ConcatEnumerates
  <2> QED BY <1>3, <2>1, <2>2
<1>5. /\ Len(w) = Cardinality(S \cap W) /\ Len(w) \in Nat /\ Len(r) \in Nat
      /\ \A n \in 1 .. Len(w) : w[n] \in W
      /\ \A n \in 1 .. Len(r) : r[n] \notin W
  BY <1>2, EnumeratedLength
<1>6. /\ Len(s) = Len(w) + Len(r)
      /\ \A n \in 1 .. Len(w) : s[n] = w[n]
      /\ \A n \in Len(w) + 1 .. Len(w) + Len(r) :
           n - Len(w) \in 1 .. Len(r) /\ s[n] = r[n - Len(w)]
  <2>1. w \in Seq(S) /\ r \in Seq(S)
    BY <1>2, SeqMonotonic DEF Enumerates
  <2> QED BY <1>3, <2>1, ConcatSeqs
<1>7. ASSUME NEW n \in 1 .. Len(s)
      PROVE  s[n] \in W <=> n <= Cardinality(S \cap W)
  <2>1. CASE n \in 1 .. Len(w)
    <3>1. s[n] \in W
      BY <1>5, <1>6, <2>1
    <3>2. n <= Cardinality(S \cap W)
      BY <1>5, <2>1
    <3> QED BY <3>1, <3>2
  <2>2. CASE n \in Len(w) + 1 .. Len(w) + Len(r)
    <3>1. s[n] \notin W
      BY <1>5, <1>6, <2>2
    <3>2. ~ n <= Cardinality(S \cap W)
      BY <1>5, <2>2
    <3> QED BY <3>1, <3>2
  <2> QED BY <1>5, <1>6, <2>1, <2>2
<1> QED
  BY <1>4, <1>7 DEF s

LEMMA SinglyListed == ASSUME NEW x PROVE Enumerates(<<x>>, {x})
<1>1. <<x>> \in Seq({x}) /\ Len(<<x>>) = 1 /\ DOMAIN <<x>> = 1 .. 1 /\ <<x>>[1] = x
  OBVIOUS
<1>2. ToSet(<<x>>) = {x}
  BY <1>1 DEF ToSet
<1> QED
  BY <1>1, <1>2 DEF Enumerates

(* The accounts that are made to sign are those that have a signature.     *)
LEMMA MadeToSign ==
  ASSUME NEW list, NEW payer, NEW supplied
  PROVE  LET others == Accounts(list) \ {payer}
             made   == (others \ Signers(list)) \cap supplied
         IN SignedPart(list, payer, supplied) =
              <<payer>> \o ByPriority(others \cap Signers(list), Writables(list))
                        \o ByPriority(made, Writables(list))
<1> DEFINE others == Accounts(list) \ {payer}
           made   == (others \ Signers(list)) \cap Signing(list, payer, supplied)
<1>1. made = (others \ Signers(list)) \cap supplied
  BY DEF Signing
<1>2. SignedPart(list, payer, supplied) =
        <<payer>> \o ByPriority(others \cap Signers(list), Writables(list))
                  \o ByPriority(made, Writables(list))
  BY DEF SignedPart
<1> HIDE DEF made
<1> QED
  BY <1>1, <1>2

(* The two parts of the accounts of a message.                             *)
LEMMA Parts ==
  ASSUME NEW list \in Seq(Instruction), NEW payer \in Keys, NEW supplied,
         Known(list, payer, supplied)
  PROVE  LET signed   == SignedPart(list, payer, supplied)
             unsigned == UnsignedPart(list, payer, supplied)
             signs    == Signing(list, payer, supplied)
             rest     == Accounts(list) \ signs
         IN /\ Enumerates(signed, signs)
            /\ Enumerates(unsigned, rest)
            /\ signs \cap rest = {} /\ signs \cup rest = Accounts(list) \cup {payer}
            /\ signed[1] = payer /\ 1 <= Len(signed)
<1> DEFINE signed   == SignedPart(list, payer, supplied)
           unsigned == UnsignedPart(list, payer, supplied)
           signs    == Signing(list, payer, supplied)
           rest     == Accounts(list) \ signs
           W      == Writables(list)
           others == Accounts(list) \ {payer}
           asks   == others \cap Signers(list)
           made   == (others \ Signers(list)) \cap supplied
           a == ByPriority(asks, W)
           m == ByPriority(made, W)
<1>1. /\ Accounts(list) \subseteq Keys /\ IsFiniteSet(Accounts(list))
      /\ Signers(list) \subseteq Accounts(list)
      /\ supplied \subseteq Accounts(list) \cup {payer}
  BY AccountSets DEF Known
<1>2. /\ IsFiniteSet(asks) /\ asks \subseteq Keys
      /\ IsFiniteSet(made) /\ made \subseteq Keys
      /\ IsFiniteSet(rest) /\ rest \subseteq Keys
  <2>1. \A S \in SUBSET Accounts(list) : IsFiniteSet(S)
    BY <1>1, FS_Subset
  <2> QED BY <1>1, <2>1
<1>3. Enumerates(a, asks) /\ Enumerates(m, made) /\ Enumerates(<<payer>>, {payer})
  BY <1>2, PriorityOrder, SinglyListed
<1>4. Enumerates(unsigned, rest)
  BY <1>2, PriorityOrder DEF UnsignedPart
<1>5. signed = <<payer>> \o a \o m
  BY MadeToSign
<1>6. /\ {payer} \cap asks = {} /\ ({payer} \cup asks) \cap made = {}
      /\ ({payer} \cup asks) \cup made = signs
  BY <1>1 DEF Signing
<1>7. signs \cap rest = {} /\ signs \cup rest = Accounts(list) \cup {payer}
  BY <1>1 DEF Signing
<1> HIDE DEF a, m, asks, made, signs
<1>8. Enumerates(<<payer>> \o a, {payer} \cup asks)
  BY <1>3, <1>6, ConcatEnumerates
<1>9. Enumerates(signed, signs)
  <2>1. Enumerates((<<payer>> \o a) \o m, ({payer} \cup asks) \cup made)
    BY <1>3, <1>6, <1>8, ConcatEnumerates
  <2> QED BY <1>5, <1>6, <2>1
<1>10. signed[1] = payer /\ 1 <= Len(signed)
  <2>1. /\ <<payer>> \in Seq(signs) /\ a \in Seq(signs) /\ m \in Seq(signs)
        /\ <<payer>> \o a \in Seq(signs)
    BY <1>3, <1>6, <1>8, SeqMonotonic DEF Enumerates
  <2>2. /\ Len(<<payer>>) = 1 /\ <<payer>>[1] = payer
        /\ Len(<<payer>> \o a) = 1 + Len(a) /\ Len(a) \in Nat /\ Len(m) \in Nat
        /\ (<<payer>> \o a)[1] = payer
    BY <2>1, ConcatSeqs
  <2>3. /\ Len(signed) = Len(<<payer>> \o a) + Len(m)
        /\ \A i \in 1 .. Len(<<payer>> \o a) : signed[i] = (<<payer>> \o a)[i]
    BY <1>5, <2>1, ConcatSeqs
  <2> QED BY <2>2, <2>3
<1> QED
  BY <1>4, <1>7, <1>9, <1>10 DEF signs

LEMMA IndexFound ==
  ASSUME NEW keys, NEW S, Enumerates(keys, S), NEW k \in S
  PROVE  IndexIn(keys, k) \in 1 .. Len(keys) /\ keys[IndexIn(keys, k)] = k
<1>1. DOMAIN keys = 1 .. Len(keys) /\ \E i \in 1 .. Len(keys) : keys[i] = k
  BY EnumeratedLength
<1> QED
  BY <1>1 DEF IndexIn

(* What compileMessage makes of keys, header and instructions.             *)
LEMMA CompiledKeys ==
  ASSUME NEW list \in Seq(Instruction), NEW payer \in Keys, NEW supplied,
         Known(list, payer, supplied), NEW hash
  PROVE  LET msg   == Compile(list, payer, supplied, hash)
             signs == Signing(list, payer, supplied)
         IN /\ msg.hash = hash
            /\ Enumerates(msg.keys, Accounts(list) \cup {payer})
            /\ msg.required \in 1 .. Len(msg.keys)
            /\ msg.keys[1] = payer
            /\ \A n \in 1 .. Len(msg.keys) : msg.keys[n] \in signs <=> n <= msg.required
            /\ Enumerates(SignedKeys(msg), signs)
            /\ SignedKeys(msg) \in Seq(Keys)
<1> DEFINE signed   == SignedPart(list, payer, supplied)
           unsigned == UnsignedPart(list, payer, supplied)
           signs    == Signing(list, payer, supplied)
           rest     == Accounts(list) \ signs
           msg      == Compile(list, payer, supplied, hash)
           K        == Accounts(list) \cup {payer}
           keys     == msg.keys
<1>1. /\ Enumerates(signed, signs) /\ Enumerates(unsigned, rest)
      /\ signs \cap rest = {} /\ signs \cup rest = K
      /\ signed[1] = payer /\ 1 <= Len(signed)
  BY Parts
<1>2. keys = signed \o unsigned /\ msg.required = Len(signed) /\ msg.hash = hash
  BY DEF Compile
<1> HIDE DEF signed, unsigned, signs, rest, keys
<1>3. Enumerates(keys, K)
  BY <1>1, <1>2, ConcatEnumerates
<1>4. /\ Len(keys) = Len(signed) + Len(unsigned)
      /\ Len(signed) \in Nat /\ Len(unsigned) \in Nat
      /\ \A i \in 1 .. Len(signed) : keys[i] = signed[i]
      /\ \A i \in Len(signed) + 1 .. Len(signed) + Len(unsigned) :
           i - Len(signed) \in 1 .. Len(unsigned) /\ keys[i] = unsigned[i - Len(signed)]
  <2>1. signed \in Seq(K) /\ unsigned \in Seq(K)
    BY <1>1, SeqMonotonic DEF Enumerates
  <2> QED BY <1>2, <2>1, ConcatSeqs
<1>5. ASSUME NEW n \in 1 .. Len(keys)
      PROVE  keys[n] \in signs <=> n <= Len(signed)
  <2>1. CASE n \in 1 .. Len(signed)
    <3>1. keys[n] \in signs
      BY <1>1, <1>4, <2>1, EnumeratedLength
    <3>2. n <= Len(signed)
      BY <2>1
    <3> QED BY <3>1, <3>2
  <2>2. CASE n \in Len(signed) + 1 .. Len(signed) + Len(unsigned)
    <3>1. keys[n] \notin signs
      BY <1>1, <1>4, <2>2, EnumeratedLength
    <3>2. ~ n <= Len(signed)
      BY <1>4, <2>2
    <3> QED BY <3>1, <3>2
  <2> QED BY <1>4, <2>1, <2>2
<1>6. SignedKeys(msg) = signed
  <2>1. signed \in [1 .. Len(signed) -> signs]
    BY <1>1 DEF Enumerates
  <2>2. SignedKeys(msg) = [n \in 1 .. Len(signed) |-> keys[n]]
    BY <1>2 DEF SignedKeys, keys
  <2>3. SignedKeys(msg) = [n \in 1 .. Len(signed) |-> signed[n]]
    BY <1>4, <2>2
  <2> QED BY <2>1, <2>3
<1>7. signed \in Seq(Keys)
  <2>1. signs \subseteq Keys
    BY <1>1, AccountSets
  <2> QED BY <1>1, <2>1, SeqMonotonic DEF Enumerates
<1>8. keys[1] = payer /\ Len(signed) \in 1 .. Len(keys)
  BY <1>1, <1>4
<1> HIDE DEF msg
<1>9. /\ Enumerates(msg.keys, K) /\ msg.required \in 1 .. Len(msg.keys)
      /\ msg.keys[1] = payer
      /\ \A n \in 1 .. Len(msg.keys) : msg.keys[n] \in signs <=> n <= msg.required
  BY <1>2, <1>3, <1>5, <1>8 DEF keys
<1>10. Enumerates(SignedKeys(msg), signs) /\ SignedKeys(msg) \in Seq(Keys)
  BY <1>1, <1>2, <1>6, <1>7
<1> QED
  BY <1>2, <1>9, <1>10 DEF msg, signs, K

LEMMA CompiledSigners ==
  ASSUME NEW list \in Seq(Instruction), NEW payer \in Keys, NEW supplied,
         Known(list, payer, supplied), NEW hash,
         NEW msg, msg = Compile(list, payer, supplied, hash),
         NEW keys, keys = SignedKeys(msg)
  PROVE  /\ Enumerates(keys, Signing(list, payer, supplied))
         /\ keys \in Seq(Keys)
         /\ keys[1] = payer
         /\ Len(keys) = msg.required
         /\ msg.required \in 1 .. Len(msg.keys)
<1> DEFINE m == Compile(list, payer, supplied, hash)
<1>1. /\ Enumerates(SignedKeys(m), Signing(list, payer, supplied))
      /\ SignedKeys(m) \in Seq(Keys)
      /\ m.required \in 1 .. Len(m.keys)
      /\ m.keys[1] = payer
      /\ Enumerates(m.keys, Accounts(list) \cup {payer})
  <2>1. LET signs == Signing(list, payer, supplied)
        IN /\ m.hash = hash
           /\ Enumerates(m.keys, Accounts(list) \cup {payer})
           /\ m.required \in 1 .. Len(m.keys)
           /\ m.keys[1] = payer
           /\ \A n \in 1 .. Len(m.keys) : m.keys[n] \in signs <=> n <= m.required
           /\ Enumerates(SignedKeys(m), signs)
           /\ SignedKeys(m) \in Seq(Keys)
    BY CompiledKeys, Zenon
  <2> QED BY <2>1
<1> HIDE DEF m
<1>2. m.required \in Nat \ {0}
  <2>1. Len(m.keys) \in Nat
    BY <1>1, EnumeratedLength
  <2> QED BY <1>1, <2>1
<1>3. SignedKeys(m) = [n \in 1 .. m.required |-> m.keys[n]]
  BY DEF SignedKeys
<1>4. SignedKeys(m)[1] = payer /\ Len(SignedKeys(m)) = m.required
  BY <1>1, <1>2, <1>3
<1> QED
  BY <1>1, <1>4 DEF m

(* The indices lead back to the accounts.                                  *)
LEMMA CompiledIndices ==
  ASSUME NEW list \in Seq(Instruction), NEW payer \in Keys, NEW supplied,
         Known(list, payer, supplied), NEW hash
  PROVE  LET msg == Compile(list, payer, supplied, hash)
         IN /\ DOMAIN msg.ins = DOMAIN list
            /\ \A n \in DOMAIN list :
                 /\ msg.ins[n].program \in 1 .. Len(msg.keys)
                 /\ msg.keys[msg.ins[n].program] = list[n].program
                 /\ DOMAIN msg.ins[n].accounts = DOMAIN list[n].metas
                 /\ \A a \in DOMAIN list[n].metas :
                      /\ msg.ins[n].accounts[a] \in 1 .. Len(msg.keys)
                      /\ msg.keys[msg.ins[n].accounts[a]] = list[n].metas[a].key
<1> DEFINE msg  == Compile(list, payer, supplied, hash)
           keys == msg.keys
<1>1. Enumerates(keys, Accounts(list) \cup {payer})
  BY CompiledKeys
<1>2. msg.ins = [n \in DOMAIN list |->
        [program  |-> IndexIn(keys, list[n].program),
         accounts |-> [a \in DOMAIN list[n].metas |-> IndexIn(keys, list[n].metas[a].key)]]]
  BY DEF Compile
<1> HIDE DEF msg, keys
<1>3. ASSUME NEW n \in DOMAIN list
      PROVE  /\ msg.ins[n].program \in 1 .. Len(keys)
             /\ keys[msg.ins[n].program] = list[n].program
             /\ DOMAIN msg.ins[n].accounts = DOMAIN list[n].metas
  <2>1. list[n].program \in Accounts(list)
    BY AccountSets
  <2>2. msg.ins[n].program = IndexIn(keys, list[n].program)
    BY <1>2
  <2>3. DOMAIN msg.ins[n].accounts = DOMAIN list[n].metas
    BY <1>2
  <2> QED BY <1>1, <2>1, <2>2, <2>3, IndexFound
<1>4. ASSUME NEW n \in DOMAIN list, NEW a \in DOMAIN list[n].metas
      PROVE  /\ msg.ins[n].accounts[a] \in 1 .. Len(keys)
             /\ keys[msg.ins[n].accounts[a]] = list[n].metas[a].key
  <2>1. list[n].metas[a].key \in Accounts(list)
    BY AccountSets
  <2>2. msg.ins[n].accounts[a] = IndexIn(keys, list[n].metas[a].key)
    BY <1>2
  <2> QED BY <1>1, <2>1, <2>2, IndexFound
<1>5. DOMAIN msg.ins = DOMAIN list
  BY <1>2
<1> QED
  BY <1>3, <1>4, <1>5 DEF msg, keys

LEMMA CompiledType ==
  ASSUME NEW list \in Seq(Instruction), NEW payer \in Keys, NEW supplied,
         Known(list, payer, supplied), NEW hash \in Hashes
  PROVE  Compile(list, payer, supplied, hash) \in Message
<1> DEFINE signed   == SignedPart(list, payer, supplied)
           unsigned == UnsignedPart(list, payer, supplied)
           writables == Writables(list) \cup {payer}
           msg == Compile(list, payer, supplied, hash)
<1>1. Len(signed) \in Nat /\ IsFiniteSet(ToSet(signed)) /\ IsFiniteSet(ToSet(unsigned))
  <2>1. PICK A, B : Enumerates(signed, A) /\ Enumerates(unsigned, B)
    BY Parts
  <2>2. ToSet(signed) = A /\ ToSet(unsigned) = B
    BY <2>1 DEF Enumerates
  <2> HIDE DEF signed, unsigned
  <2> QED BY <2>1, <2>2, EnumeratedLength
<1>2. /\ Cardinality(ToSet(signed) \ writables) \in Nat
      /\ Cardinality(ToSet(unsigned) \ writables) \in Nat
  <2> HIDE DEF signed, unsigned, writables
  <2> QED BY <1>1, SplitCardinality
<1>3. msg.keys \in Seq(Keys) /\ Len(msg.keys) \in Nat
  <2>1. Accounts(list) \cup {payer} \subseteq Keys /\ Enumerates(msg.keys, Accounts(list) \cup {payer})
    BY AccountSets, CompiledKeys
  <2> HIDE DEF msg
  <2> QED BY <2>1, SeqMonotonic DEF Enumerates
<1>4. msg.ins \in Seq(CompiledInstruction)
  <2>1. /\ DOMAIN msg.ins = DOMAIN list
        /\ \A n \in DOMAIN list :
             /\ msg.ins[n].program \in 1 .. Len(msg.keys)
             /\ DOMAIN msg.ins[n].accounts = DOMAIN list[n].metas
             /\ \A a \in DOMAIN list[n].metas :
                  msg.ins[n].accounts[a] \in 1 .. Len(msg.keys)
    BY CompiledIndices
  <2>2. DOMAIN list = 1 .. Len(list) /\ Len(list) \in Nat
    OBVIOUS
  <2>3. msg.ins = [n \in DOMAIN list |->
          [program  |-> msg.ins[n].program, accounts |-> msg.ins[n].accounts]]
    BY DEF Compile
  <2>4. \A n \in DOMAIN list :
          msg.ins[n].accounts = [a \in DOMAIN list[n].metas |-> msg.ins[n].accounts[a]]
    BY DEF Compile
  <2>5. \A n \in DOMAIN list :
          DOMAIN list[n].metas = 1 .. Len(list[n].metas) /\ Len(list[n].metas) \in Nat
    BY DEF Instruction
  <2> HIDE DEF msg
  <2>6. ASSUME NEW n \in DOMAIN list
        PROVE  msg.ins[n] \in CompiledInstruction
    <3> DEFINE acc == msg.ins[n].accounts
               N   == Len(list[n].metas)
    <3>1. N \in Nat /\ acc = [a \in 1 .. N |-> acc[a]]
      BY <2>4, <2>5
    <3>2. msg.ins[n].program \in Nat /\ \A a \in 1 .. N : acc[a] \in Nat
      <4>1. \A i \in 1 .. Len(msg.keys) : i \in Nat
        BY <1>3
      <4>2. \A a \in 1 .. N : acc[a] \in 1 .. Len(msg.keys)
        BY <2>1, <2>5
      <4> QED BY <2>1, <4>1, <4>2
    <3> HIDE DEF acc, N
    <3>4. acc \in [1 .. N -> Nat]
      BY <3>1, <3>2
    <3>5. acc \in Seq(Nat)
      BY <3>1, <3>4
    <3>3. msg.ins[n] = [program |-> msg.ins[n].program, accounts |-> msg.ins[n].accounts]
      BY <2>3
    <3> QED BY <3>2, <3>3, <3>5 DEF CompiledInstruction, Indices, acc
  <2>7. msg.ins \in [1 .. Len(list) -> CompiledInstruction]
    BY <2>2, <2>3, <2>6
  <2> QED BY <2>2, <2>7
<1>5. msg = [required |-> Len(signed),
             readonlySigned |-> Cardinality(ToSet(signed) \ writables),
             readonlyUnsigned |-> Cardinality(ToSet(unsigned) \ writables),
             keys |-> msg.keys, hash |-> hash, ins |-> msg.ins]
  BY DEF Compile
<1> HIDE DEF msg, signed, unsigned, writables
<1>6. msg \in Message
  BY <1>1, <1>2, <1>3, <1>4, <1>5 DEF Message
<1> QED
  BY <1>6 DEF msg

(* A message is made of its two parts: instructions that lead to the same   *)
(* parts, and that name the same accounts in the same places, compile to    *)
(* the same message.                                                        *)
LEMMA SameMessage ==
  ASSUME NEW list, NEW list2, NEW payer, NEW supplied, NEW supplied2, NEW hash,
         SignedPart(list2, payer, supplied2) = SignedPart(list, payer, supplied),
         UnsignedPart(list2, payer, supplied2) = UnsignedPart(list, payer, supplied),
         Writables(list2) \cup {payer} = Writables(list) \cup {payer},
         DOMAIN list2 = DOMAIN list,
         \A n \in DOMAIN list :
           /\ list2[n].program = list[n].program
           /\ DOMAIN list2[n].metas = DOMAIN list[n].metas
           /\ \A a \in DOMAIN list[n].metas : list2[n].metas[a].key = list[n].metas[a].key
  PROVE  Compile(list2, payer, supplied2, hash) = Compile(list, payer, supplied, hash)
<1> DEFINE keys == SignedPart(list, payer, supplied) \o UnsignedPart(list, payer, supplied)
           Accs(l, n) == [a \in DOMAIN l[n].metas |-> IndexIn(keys, l[n].metas[a].key)]
           Ins(l) == [n \in DOMAIN l |-> [program |-> IndexIn(keys, l[n].program),
                                          accounts |-> Accs(l, n)]]
<1>1. \A n \in DOMAIN list : Accs(list2, n) = Accs(list, n)
  <2> HIDE DEF keys
  <2> QED OBVIOUS
<1>2. \A n \in DOMAIN list : IndexIn(keys, list2[n].program) = IndexIn(keys, list[n].program)
  OBVIOUS
<1> HIDE DEF Accs
<1>3. Ins(list2) = Ins(list)
  BY <1>1, <1>2
<1> USE DEF Accs
<1> QED
  BY <1>3 DEF Compile

(* Who signs a message may as well have signed before it was compiled.      *)
LEMMA Stable ==
  ASSUME NEW list, NEW payer, NEW supplied, NEW hash
  PROVE  Compile(list, payer, Signing(list, payer, supplied), hash)
           = Compile(list, payer, supplied, hash)
<1> DEFINE signs == Signing(list, payer, supplied)
<1>1. Signing(list, payer, signs) = signs
  BY DEF Signing
<1>2. SignedPart(list, payer, signs) = SignedPart(list, payer, supplied)
  BY <1>1 DEF SignedPart
<1>3. UnsignedPart(list, payer, signs) = UnsignedPart(list, payer, supplied)
  BY <1>1 DEF UnsignedPart
<1> HIDE DEF signs
<1>4. Compile(list, payer, signs, hash) = Compile(list, payer, supplied, hash)
  BY <1>2, <1>3, SameMessage
<1> QED
  BY <1>4 DEF signs

(* When nobody signs who was not asked to, the message tells of each of its *)
(* accounts whether it signs and whether it is writable.                    *)
LEMMA CompiledHeader ==
  ASSUME NEW list \in Seq(Instruction), NEW payer \in Keys, NEW supplied,
         supplied \subseteq Signers(list) \cup {payer}, NEW hash
  PROVE  LET msg == Compile(list, payer, supplied, hash)
         IN \A n \in 1 .. Len(msg.keys) :
              /\ IsAccountSigner(msg, n) <=> msg.keys[n] \in Signers(list) \cup {payer}
              /\ IsAccountWritable(msg, n) <=> msg.keys[n] \in Writables(list) \cup {payer}
<1> DEFINE msg   == Compile(list, payer, supplied, hash)
           W     == Writables(list)
           A     == (Accounts(list) \ {payer}) \cap Signers(list)
           B     == Accounts(list) \ Signing(list, payer, supplied)
           a     == ByPriority(A, W)
           b     == ByPriority(B, W)
           p     == <<payer>> \o a
           keys  == msg.keys
<1>1. /\ Accounts(list) \subseteq Keys /\ IsFiniteSet(Accounts(list))
      /\ Signers(list) \subseteq Accounts(list)
      /\ Known(list, payer, supplied)
  BY AccountSets DEF Known
<1>2. IsFiniteSet(A) /\ A \subseteq Keys /\ IsFiniteSet(B) /\ B \subseteq Keys
  <2>1. \A S \in SUBSET Accounts(list) : IsFiniteSet(S)
    BY <1>1, FS_Subset
  <2> QED BY <1>1, <2>1
<1>3. /\ Enumerates(a, A) /\ \A n \in 1 .. Len(a) : a[n] \in W <=> n <= Cardinality(A \cap W)
      /\ Enumerates(b, B) /\ \A n \in 1 .. Len(b) : b[n] \in W <=> n <= Cardinality(B \cap W)
  <2> HIDE DEF A, B
  <2> QED BY <1>2, PriorityOrder
<1>4. SignedPart(list, payer, supplied) = p /\ UnsignedPart(list, payer, supplied) = b
  <2> DEFINE made == ((Accounts(list) \ {payer}) \ Signers(list)) \cap supplied
  <2>1. made = {}
    OBVIOUS
  <2>2. ByPriority(made, W) = <<>>
    <3>1. Enumerates(ByPriority({}, W), {})
      BY FS_EmptySet, PriorityOrder
    <3>2. ByPriority({}, W) \in Seq({}) /\ ToSet(ByPriority({}, W)) = {}
      BY <3>1 DEF Enumerates
    <3>3. ByPriority({}, W) = <<>>
      BY <3>2 DEF ToSet
    <3> QED BY <2>1, <3>3
  <2>3. a \in Seq(A)
    BY <1>3 DEF Enumerates
  <2>4. SignedPart(list, payer, supplied) = <<payer>> \o a \o ByPriority(made, W)
    BY MadeToSign
  <2> HIDE DEF made, a
  <2>5. <<payer>> \o a \in Seq(A \cup {payer})
    BY <2>3
  <2>6. <<payer>> \o a \o <<>> = <<payer>> \o a
    BY <2>5
  <2> QED BY <2>2, <2>4, <2>6 DEF UnsignedPart, a
<1>5. /\ keys = p \o b /\ msg.required = Len(p)
      /\ msg.readonlySigned = Cardinality(ToSet(p) \ (W \cup {payer}))
      /\ msg.readonlyUnsigned = Cardinality(ToSet(b) \ (W \cup {payer}))
  BY <1>4 DEF Compile
<1>6. /\ Enumerates(p, A \cup {payer}) /\ payer \notin A /\ payer \notin B
      /\ A \cup {payer} = Signers(list) \cup {payer}
      /\ B \cap (Signers(list) \cup {payer}) = {}
      /\ B \cap (A \cup {payer}) = {}
  <2>1. /\ payer \notin A /\ payer \notin B /\ A \cup {payer} = Signers(list) \cup {payer}
        /\ B \cap (Signers(list) \cup {payer}) = {} /\ {payer} \cap A = {}
        /\ {payer} \cup A = A \cup {payer}
    BY <1>1 DEF Signing
  <2> HIDE DEF A, B, a
  <2>2. Enumerates(p, {payer} \cup A)
    BY <1>3, <2>1, SinglyListed, ConcatEnumerates
  <2> QED BY <2>1, <2>2
<1> HIDE DEF A, B, a, b, W, msg, keys
<1>7. /\ Cardinality(A \cap W) \in Nat /\ Cardinality(A \ W) \in Nat
      /\ Len(a) = Cardinality(A \cap W) + Cardinality(A \ W)
      /\ Cardinality(B \cap W) \in Nat /\ Cardinality(B \ W) \in Nat
      /\ Len(b) = Cardinality(B \cap W) + Cardinality(B \ W)
      /\ ToSet(b) = B /\ ToSet(p) = A \cup {payer}
  BY <1>2, <1>3, <1>6, EnumeratedLength, SplitCardinality DEF Enumerates
<1>8. msg.readonlySigned = Cardinality(A \ W) /\ msg.readonlyUnsigned = Cardinality(B \ W)
  <2>1. (A \cup {payer}) \ (W \cup {payer}) = A \ W /\ B \ (W \cup {payer}) = B \ W
    BY <1>6
  <2> QED BY <1>5, <1>7, <2>1
<1>9. /\ Len(a) \in Nat /\ Len(b) \in Nat /\ Len(p) = 1 + Len(a)
      /\ Len(keys) = Len(p) + Len(b)
      /\ p[1] = payer
      /\ \A i \in 2 .. Len(p) : i - 1 \in 1 .. Len(a) /\ p[i] = a[i - 1]
      /\ \A i \in 1 .. Len(p) : keys[i] = p[i]
      /\ \A i \in Len(p) + 1 .. Len(p) + Len(b) :
           i - Len(p) \in 1 .. Len(b) /\ keys[i] = b[i - Len(p)]
  <2> DEFINE V == A \cup {payer} \cup B
  <2>1. <<payer>> \in Seq(V) /\ a \in Seq(V) /\ p \in Seq(V) /\ b \in Seq(V)
    BY <1>3, <1>6, SeqMonotonic DEF Enumerates
  <2>2. Len(<<payer>>) = 1 /\ <<payer>>[1] = payer
    OBVIOUS
  <2> HIDE DEF p, V
  <2>3. /\ Len(a) \in Nat /\ Len(b) \in Nat /\ Len(p) = 1 + Len(a)
        /\ p[1] = payer
        /\ \A i \in 2 .. Len(p) : i - 1 \in 1 .. Len(a) /\ p[i] = a[i - 1]
    <3>1. /\ Len(<<payer>> \o a) = Len(<<payer>>) + Len(a) /\ Len(a) \in Nat /\ Len(b) \in Nat
          /\ \A i \in 1 .. Len(<<payer>>) : (<<payer>> \o a)[i] = <<payer>>[i]
          /\ \A i \in Len(<<payer>>) + 1 .. Len(<<payer>>) + Len(a) :
              i - Len(<<payer>>) \in 1 .. Len(a) /\ (<<payer>> \o a)[i] = a[i - Len(<<payer>>)]
      BY <2>1, ConcatSeqs
    <3> QED BY <2>2, <3>1 DEF p
  <2>4. /\ Len(p \o b) = Len(p) + Len(b)
        /\ \A i \in 1 .. Len(p) : (p \o b)[i] = p[i]
        /\ \A i \in Len(p) + 1 .. Len(p) + Len(b) :
             i - Len(p) \in 1 .. Len(b) /\ (p \o b)[i] = b[i - Len(p)]
    BY <2>1, ConcatSeqs
  <2> QED BY <1>5, <2>3, <2>4
<1> HIDE DEF p
<1>10. ASSUME NEW n \in 1 .. Len(keys)
       PROVE  IsAccountWritable(msg, n) <=> keys[n] \in W \cup {payer}
  <2> DEFINE x == Cardinality(A \cap W)
             y == Cardinality(A \ W)
             z == Cardinality(B \cap W)
             u == Cardinality(B \ W)
  <2>1. /\ x \in Nat /\ y \in Nat /\ z \in Nat /\ u \in Nat /\ n \in Nat
        /\ Len(a) = x + y /\ Len(b) = z + u /\ Len(p) = 1 + Len(a)
        /\ Len(keys) = Len(p) + Len(b) /\ msg.required = Len(p)
        /\ msg.readonlySigned = y /\ msg.readonlyUnsigned = u
    <3>1. n \in Nat /\ Len(p) = 1 + Len(a) /\ Len(keys) = Len(p) + Len(b)
      BY <1>9
    <3>2. /\ x \in Nat /\ y \in Nat /\ z \in Nat /\ u \in Nat
          /\ Len(a) = x + y /\ Len(b) = z + u
      BY <1>7
    <3>3. msg.required = Len(p) /\ msg.readonlySigned = y /\ msg.readonlyUnsigned = u
      BY <1>5, <1>8
    <3> QED BY <3>1, <3>2, <3>3
  <2>2. IsAccountWritable(msg, n) <=>
          IF n <= 1 + x + y THEN n <= 1 + x ELSE n <= 1 + x + y + z
    <3> HIDE DEF x, y, z, u
    <3>1. /\ Len(keys) = Len(msg.keys) /\ msg.required = 1 + x + y
          /\ msg.required - msg.readonlySigned = 1 + x
          /\ Len(msg.keys) - msg.readonlyUnsigned = 1 + x + y + z
      BY <2>1 DEF keys
    <3> QED BY <3>1 DEF IsAccountWritable
  <2>3. CASE n = 1
    <3>1. keys[n] = payer
      BY <1>9, <2>3
    <3>2. n <= 1 + x + y /\ n <= 1 + x
      <4> HIDE DEF x, y
      <4> QED BY <2>1, <2>3
    <3> QED BY <2>2, <3>1, <3>2
  <2>4. CASE n \in 2 .. Len(p)
    <3>1. keys[n] = a[n - 1] /\ n - 1 \in 1 .. Len(a)
      BY <1>9, <2>4
    <3>2. keys[n] # payer
      BY <1>3, <1>6, <3>1, EnumeratedLength
    <3>3. keys[n] \in W <=> n - 1 <= x
      BY <1>3, <3>1
    <3>4. n <= 1 + x + y /\ (n - 1 <= x <=> n <= 1 + x)
      <4> HIDE DEF x, y
      <4> QED BY <2>1, <2>4
    <3> HIDE DEF x, y
    <3> QED BY <2>2, <3>2, <3>3, <3>4
  <2>5. CASE n \in Len(p) + 1 .. Len(p) + Len(b)
    <3>1. keys[n] = b[n - Len(p)] /\ n - Len(p) \in 1 .. Len(b)
      BY <1>9, <2>5
    <3>2. keys[n] # payer
      BY <1>3, <1>6, <3>1, EnumeratedLength
    <3>3. keys[n] \in W <=> n - Len(p) <= z
      BY <1>3, <3>1
    <3>4. ~ (n <= 1 + x + y) /\ (n - Len(p) <= z <=> n <= 1 + x + y + z)
      <4> HIDE DEF x, y, z
      <4> QED BY <2>1, <2>5
    <3> HIDE DEF x, y, z
    <3> QED BY <2>2, <3>2, <3>3, <3>4
  <2>6. n = 1 \/ n \in 2 .. Len(p) \/ n \in Len(p) + 1 .. Len(p) + Len(b)
    BY <1>9
  <2> QED BY <2>3, <2>4, <2>5, <2>6
<1>11. ASSUME NEW n \in 1 .. Len(keys)
       PROVE  IsAccountSigner(msg, n) <=> keys[n] \in Signers(list) \cup {payer}
  <2>1. Signing(list, payer, supplied) = Signers(list) \cup {payer}
    BY DEF Signing
  <2>2. keys[n] \in Signing(list, payer, supplied) <=> n <= msg.required
    BY <1>1, CompiledKeys DEF keys, msg
  <2> QED BY <2>1, <2>2 DEF IsAccountSigner
<1>12. \A n \in 1 .. Len(msg.keys) :
         /\ IsAccountSigner(msg, n) <=> msg.keys[n] \in Signers(list) \cup {payer}
         /\ IsAccountWritable(msg, n) <=> msg.keys[n] \in Writables(list) \cup {payer}
  BY <1>10, <1>11 DEF keys, W
<1> QED
  BY <1>12 DEF msg

(* The sets of accounts, place by place.                                    *)
LEMMA ByPlace ==
  ASSUME NEW list, NEW k
  PROVE  /\ k \in Accounts(list) <=>
              \E n \in DOMAIN list :
                \/ list[n].program = k
                \/ \E a \in DOMAIN list[n].metas : list[n].metas[a].key = k
         /\ k \in Signers(list) <=> SomeMeta(list, k, "signer")
         /\ k \in Writables(list) <=> SomeMeta(list, k, "writable")
<1>1. \A m : m \in AllMetas(list) <=>
        \E n \in DOMAIN list : \E a \in DOMAIN list[n].metas : m = list[n].metas[a]
  BY DEF AllMetas, ToSet
<1>2. k \in Signers(list) <=> SomeMeta(list, k, "signer")
  BY <1>1 DEF Signers, SomeMeta
<1>3. k \in Writables(list) <=> SomeMeta(list, k, "writable")
  BY <1>1 DEF Writables, SomeMeta
<1>4. k \in Accounts(list) <=> \E n \in DOMAIN list :
                                 \/ list[n].program = k
                                 \/ \E a \in DOMAIN list[n].metas : list[n].metas[a].key = k
  BY <1>1 DEF Accounts
<1> QED
  BY <1>2, <1>3, <1>4

(* What a message gives back of the instructions it was compiled from.      *)
LEMMA Decompiled ==
  ASSUME NEW list \in Seq(Instruction), NEW payer \in Keys, NEW supplied,
         Known(list, payer, supplied), NEW hash \in Hashes, NEW S
  PROVE  LET msg   == Compile(list, payer, supplied, hash)
             signs == Signing(list, payer, supplied)
             got   == Decompile(msg, S)
         IN /\ got \in Seq(Instruction)
            /\ DOMAIN got = DOMAIN list
            /\ \A n \in DOMAIN list :
                 /\ got[n].program = list[n].program
                 /\ DOMAIN got[n].metas = DOMAIN list[n].metas
                 /\ \A a \in DOMAIN list[n].metas :
                      /\ got[n].metas[a].key = list[n].metas[a].key
                      /\ got[n].metas[a].signer <=> list[n].metas[a].key \in S \cup signs
                      /\ \E i \in 1 .. Len(msg.keys) :
                           /\ msg.keys[i] = list[n].metas[a].key
                           /\ got[n].metas[a].writable <=> IsAccountWritable(msg, i)
<1> DEFINE msg   == Compile(list, payer, supplied, hash)
           signs == Signing(list, payer, supplied)
           got   == Decompile(msg, S)
           Meta(n, a) ==
             [key      |-> msg.keys[msg.ins[n].accounts[a]],
              signer   |-> \/ msg.keys[msg.ins[n].accounts[a]] \in S
                           \/ IsAccountSigner(msg, msg.ins[n].accounts[a]),
              writable |-> IsAccountWritable(msg, msg.ins[n].accounts[a])]
           Got(n) == [program |-> msg.keys[msg.ins[n].program],
                      metas   |-> [a \in DOMAIN msg.ins[n].accounts |-> Meta(n, a)]]
<1>1. /\ DOMAIN msg.ins = DOMAIN list
      /\ \A n \in DOMAIN list :
           /\ msg.keys[msg.ins[n].program] = list[n].program
           /\ DOMAIN msg.ins[n].accounts = DOMAIN list[n].metas
           /\ \A a \in DOMAIN list[n].metas :
                /\ msg.ins[n].accounts[a] \in 1 .. Len(msg.keys)
                /\ msg.keys[msg.ins[n].accounts[a]] = list[n].metas[a].key
  BY CompiledIndices
<1>2. \A i \in 1 .. Len(msg.keys) : msg.keys[i] \in signs <=> i <= msg.required
  BY CompiledKeys
<1>3. got = [n \in DOMAIN msg.ins |-> Got(n)]
  BY DEF Decompile
<1>4. /\ DOMAIN list = 1 .. Len(list) /\ Len(list) \in Nat
      /\ \A n \in DOMAIN list :
           /\ list[n].program \in Keys
           /\ DOMAIN list[n].metas = 1 .. Len(list[n].metas)
           /\ Len(list[n].metas) \in Nat
           /\ \A a \in DOMAIN list[n].metas : list[n].metas[a].key \in Keys
  <2>1. DOMAIN list = 1 .. Len(list) /\ Len(list) \in Nat
        /\ \A n \in DOMAIN list : list[n] \in Instruction
    OBVIOUS
  <2>2. \A n \in DOMAIN list : list[n].metas \in Seq(Metas) /\ list[n].program \in Keys
    BY <2>1 DEF Instruction
  <2>3. \A n \in DOMAIN list :
          /\ DOMAIN list[n].metas = 1 .. Len(list[n].metas)
          /\ Len(list[n].metas) \in Nat
          /\ \A a \in DOMAIN list[n].metas : list[n].metas[a] \in Metas
    BY <2>2
  <2>4. \A n \in DOMAIN list : \A a \in DOMAIN list[n].metas : list[n].metas[a].key \in Keys
    BY <2>3 DEF Metas
  <2> QED BY <2>1, <2>2, <2>3, <2>4
<1> HIDE DEF msg, signs, got
<1>5. DOMAIN got = DOMAIN list /\ \A n \in DOMAIN list : got[n] = Got(n)
  <2> HIDE DEF Got
  <2> QED BY <1>1, <1>3
<1>6. ASSUME NEW n \in DOMAIN list
      PROVE  /\ got[n].program = list[n].program
             /\ DOMAIN got[n].metas = DOMAIN list[n].metas
             /\ got[n] \in Instruction
  <2> DEFINE ms == [a \in DOMAIN msg.ins[n].accounts |-> Meta(n, a)]
  <2>1. got[n].program = list[n].program /\ got[n].metas = ms
        /\ got[n] = [program |-> list[n].program, metas |-> ms]
    <3> HIDE DEF ms
    <3>1. got[n] = [program |-> msg.keys[msg.ins[n].program], metas |-> ms]
      BY <1>5 DEF ms
    <3> QED BY <1>1, <3>1
  <2>2. \A a \in DOMAIN list[n].metas : Meta(n, a) \in Metas
    <3>1. \A i \in 1 .. Len(msg.keys) : IsAccountWritable(msg, i) \in BOOLEAN
      <4>1. msg.required \in Nat /\ msg.readonlySigned \in Nat /\ msg.readonlyUnsigned \in Nat
            /\ Len(msg.keys) \in Nat
        BY CompiledType DEF msg, Message
      <4>2. ASSUME NEW i \in 1 .. Len(msg.keys)
            PROVE  IsAccountWritable(msg, i) \in BOOLEAN
        <5>1. i \in Int /\ msg.required - msg.readonlySigned \in Int
              /\ Len(msg.keys) - msg.readonlyUnsigned \in Int
          BY <4>1
        <5>2. CASE i <= msg.required
          BY <5>1, <5>2 DEF IsAccountWritable
        <5>3. CASE ~ i <= msg.required
          BY <5>1, <5>3 DEF IsAccountWritable
        <5> QED BY <5>2, <5>3
      <4> QED BY <4>2
    <3>2. \A a \in DOMAIN list[n].metas :
            /\ Meta(n, a).key \in Keys
            /\ Meta(n, a).signer \in BOOLEAN
            /\ Meta(n, a).writable \in BOOLEAN
      BY <1>1, <1>4, <3>1
    <3> QED BY <3>2 DEF Metas
  <2>3. ms \in [1 .. Len(list[n].metas) -> Metas] /\ DOMAIN ms = DOMAIN list[n].metas
    <3> HIDE DEF Meta
    <3> QED BY <1>1, <1>4, <2>2
  <2>4. ms \in Seq(Metas)
    <3> HIDE DEF ms
    <3> QED BY <1>4, <2>3
  <2> HIDE DEF ms
  <2> QED BY <1>4, <2>1, <2>3, <2>4 DEF Instruction
<1>7. ASSUME NEW n \in DOMAIN list, NEW a \in DOMAIN list[n].metas
      PROVE  /\ got[n].metas[a].key = list[n].metas[a].key
             /\ got[n].metas[a].signer <=> list[n].metas[a].key \in S \cup signs
             /\ \E i \in 1 .. Len(msg.keys) :
                  /\ msg.keys[i] = list[n].metas[a].key
                  /\ got[n].metas[a].writable <=> IsAccountWritable(msg, i)
  <2>1. got[n].metas[a] = Meta(n, a)
    <3> HIDE DEF Meta
    <3> QED BY <1>1, <1>5
  <2>2. /\ msg.ins[n].accounts[a] \in 1 .. Len(msg.keys)
        /\ msg.keys[msg.ins[n].accounts[a]] = list[n].metas[a].key
    BY <1>1
  <2>3. got[n].metas[a].key = list[n].metas[a].key
    BY <2>1, <2>2
  <2>4. got[n].metas[a].signer <=> list[n].metas[a].key \in S \cup signs
    BY <1>2, <2>1, <2>2 DEF IsAccountSigner
  <2>5. got[n].metas[a].writable <=> IsAccountWritable(msg, msg.ins[n].accounts[a])
    BY <2>1
  <2> QED BY <2>2, <2>3, <2>4, <2>5
<1>8. got \in Seq(Instruction)
  <2>1. got \in [1 .. Len(list) -> Instruction]
    <3>1. got = [n \in 1 .. Len(list) |-> got[n]]
      <4> HIDE DEF Got
      <4> QED BY <1>1, <1>3, <1>4
    <3> QED BY <1>4, <1>6, <3>1
  <2> QED BY <1>4, <2>1
<1>9. /\ got \in Seq(Instruction)
      /\ DOMAIN got = DOMAIN list
      /\ \A n \in DOMAIN list :
           /\ got[n].program = list[n].program
           /\ DOMAIN got[n].metas = DOMAIN list[n].metas
           /\ \A a \in DOMAIN list[n].metas :
                /\ got[n].metas[a].key = list[n].metas[a].key
                /\ got[n].metas[a].signer <=> list[n].metas[a].key \in S \cup signs
                /\ \E i \in 1 .. Len(msg.keys) :
                     /\ msg.keys[i] = list[n].metas[a].key
                     /\ got[n].metas[a].writable <=> IsAccountWritable(msg, i)
  BY <1>5, <1>6, <1>7, <1>8
<1> QED
  BY <1>9 DEF got, msg, signs

(* PopulateTransaction undoes compileMessage: if nobody signs who was not   *)
(* asked to, what it takes from a message and its signatures compiles to    *)
(* the message.                                                             *)
LEMMA RoundTrip ==
  ASSUME NEW list \in Seq(Instruction), NEW payer \in Keys, NEW supplied,
         supplied \subseteq Signers(list) \cup {payer}, NEW hash \in Hashes
  PROVE  LET msg   == Compile(list, payer, supplied, hash)
             signs == Signing(list, payer, supplied)
             got   == Decompile(msg, signs)
         IN /\ Known(got, payer, signs)
            /\ Compile(got, payer, signs, hash) = msg
<1> DEFINE msg   == Compile(list, payer, supplied, hash)
           signs == Signing(list, payer, supplied)
           got   == Decompile(msg, signs)
<1>1. /\ Signers(list) \subseteq Accounts(list) /\ Writables(list) \subseteq Accounts(list)
      /\ Known(list, payer, supplied) /\ signs = Signers(list) \cup {payer}
  BY AccountSets DEF Known, Signing
<1>2. /\ DOMAIN got = DOMAIN list
      /\ \A n \in DOMAIN list :
           /\ got[n].program = list[n].program
           /\ DOMAIN got[n].metas = DOMAIN list[n].metas
           /\ \A a \in DOMAIN list[n].metas :
                /\ got[n].metas[a].key = list[n].metas[a].key
                /\ got[n].metas[a].signer <=> list[n].metas[a].key \in signs
                /\ \E i \in 1 .. Len(msg.keys) :
                     /\ msg.keys[i] = list[n].metas[a].key
                     /\ got[n].metas[a].writable <=> IsAccountWritable(msg, i)
  <2>1. signs \cup signs = signs
    OBVIOUS
  <2> HIDE DEF msg, signs, got
  <2>2. /\ DOMAIN got = DOMAIN list
        /\ \A n \in DOMAIN list :
             /\ got[n].program = list[n].program
             /\ DOMAIN got[n].metas = DOMAIN list[n].metas
             /\ \A a \in DOMAIN list[n].metas :
                  /\ got[n].metas[a].key = list[n].metas[a].key
                  /\ got[n].metas[a].signer <=> list[n].metas[a].key \in signs \cup signs
                  /\ \E i \in 1 .. Len(msg.keys) :
                       /\ msg.keys[i] = list[n].metas[a].key
                       /\ got[n].metas[a].writable <=> IsAccountWritable(msg, i)
    BY <1>1, Decompiled DEF msg, signs, got
  <2> QED BY <2>1, <2>2
<1>3. \A i \in 1 .. Len(msg.keys) :
        IsAccountWritable(msg, i) <=> msg.keys[i] \in Writables(list) \cup {payer}
  BY CompiledHeader
<1> HIDE DEF msg, got
<1>4. \A n \in DOMAIN list : \A a \in DOMAIN list[n].metas :
        got[n].metas[a].writable <=> list[n].metas[a].key \in Writables(list) \cup {payer}
  BY <1>2, <1>3
<1>5. Accounts(got) = Accounts(list)
  <2>1. \A k : k \in Accounts(got) <=> k \in Accounts(list)
    BY SMTT(30), <1>2, ByPlace
  <2> QED BY <2>1
<1>6. Signers(got) \cup {payer} = signs
  <2>1. \A k : k \in Signers(got) => k \in signs
    BY <1>2, ByPlace DEF SomeMeta
  <2>2. \A k : k \in Signers(list) => k \in Signers(got)
    <3>1. ASSUME NEW k \in Signers(list) PROVE k \in Signers(got)
      <4>1. PICK n \in DOMAIN list : \E a \in DOMAIN list[n].metas :
              list[n].metas[a].key = k
        BY ByPlace DEF SomeMeta
      <4>2. PICK a \in DOMAIN list[n].metas : list[n].metas[a].key = k
        BY <4>1
      <4>3. got[n].metas[a].key = k /\ got[n].metas[a].signer
        BY <1>1, <1>2, <4>2
      <4>4. n \in DOMAIN got /\ a \in DOMAIN got[n].metas
        BY <1>2
      <4> QED BY <4>3, <4>4, ByPlace DEF SomeMeta
    <3> QED BY <3>1
  <2> QED BY <1>1, <2>1, <2>2
<1>7. Writables(got) \cup {payer} = Writables(list) \cup {payer}
  <2>1. \A k : k \in Writables(got) => k \in Writables(list) \cup {payer}
    BY <1>4, <1>2, ByPlace DEF SomeMeta
  <2>2. \A k : k \in Writables(list) => k \in Writables(got)
    <3>1. ASSUME NEW k \in Writables(list) PROVE k \in Writables(got)
      <4>1. PICK n \in DOMAIN list : \E a \in DOMAIN list[n].metas :
              list[n].metas[a].key = k
        BY ByPlace DEF SomeMeta
      <4>2. PICK a \in DOMAIN list[n].metas : list[n].metas[a].key = k
        BY <4>1
      <4>3. got[n].metas[a].key = k /\ got[n].metas[a].writable
        BY <1>2, <1>4, <4>2
      <4>4. n \in DOMAIN got /\ a \in DOMAIN got[n].metas
        BY <1>2
      <4> QED BY <4>3, <4>4, ByPlace DEF SomeMeta
    <3> QED BY <3>1
  <2> QED BY <2>1, <2>2
<1> HIDE DEF signs
<1>8. \A T : payer \notin T => ByPriority(T, Writables(got)) = ByPriority(T, Writables(list))
  <2>1. ASSUME NEW T, payer \notin T
        PROVE  T \cap Writables(got) = T \cap Writables(list)
               /\ T \ Writables(got) = T \ Writables(list)
    BY <1>7, <2>1
  <2> QED BY <2>1 DEF ByPriority
<1>9. SignedPart(got, payer, signs) = SignedPart(list, payer, supplied)
  <2> DEFINE A == (Accounts(list) \ {payer}) \cap Signers(list)
             B == ((Accounts(list) \ {payer}) \ Signers(list)) \cap supplied
  <2>1. (Accounts(got) \ {payer}) \cap Signers(got) = A
    BY <1>1, <1>5, <1>6
  <2>2. ((Accounts(got) \ {payer}) \ Signers(got)) \cap signs = B
    BY <1>1, <1>5, <1>6
  <2>3. payer \notin A /\ payer \notin B
    OBVIOUS
  <2> HIDE DEF A, B
  <2>4. SignedPart(got, payer, signs)
          = <<payer>> \o ByPriority(A, Writables(got)) \o ByPriority(B, Writables(got))
    BY <2>1, <2>2, MadeToSign
  <2>5. SignedPart(list, payer, supplied)
          = <<payer>> \o ByPriority(A, Writables(list)) \o ByPriority(B, Writables(list))
    BY MadeToSign DEF A, B
  <2>6. /\ ByPriority(A, Writables(got)) = ByPriority(A, Writables(list))
        /\ ByPriority(B, Writables(got)) = ByPriority(B, Writables(list))
    BY <1>8, <2>3
  <2> QED BY <2>4, <2>5, <2>6
<1>10. UnsignedPart(got, payer, signs) = UnsignedPart(list, payer, supplied)
  <2> DEFINE A == Accounts(list) \ signs
  <2>1. Signing(got, payer, signs) = signs /\ Signing(list, payer, supplied) = signs
    BY <1>6 DEF Signing, signs
  <2>2. payer \notin A
    BY <1>1
  <2> HIDE DEF A
  <2> QED BY <1>5, <1>8, <2>1, <2>2 DEF UnsignedPart, A
<1>11. Compile(got, payer, signs, hash) = Compile(list, payer, supplied, hash)
  BY <1>2, <1>7, <1>9, <1>10, SameMessage
<1>12. Known(got, payer, signs)
  BY <1>1, <1>5 DEF Known
<1> QED
  BY <1>11, <1>12 DEF msg, got, signs

-----------------------------------------------------------------------------
(* The wire.                                                               *)

(* What getMessageSignednessErrors lets through: signatures over this very  *)
(* message, none of them missing.                                           *)
LEMMA SignedEntries ==
  ASSUME NEW entries, NEW msg, Signedness(entries, msg) = "ok"
  PROVE  \A n \in DOMAIN entries : entries[n].over = msg
<1>1. \A n \in DOMAIN entries : entries[n].over \in {None, msg}
  BY DEF Signedness
<1>2. \A n \in DOMAIN entries : entries[n].over # None
  BY DEF Signedness
<1>3. QED
  BY <1>1, <1>2

(* After compile the entries are those of the accounts that must sign, in   *)
(* the order of the message, whatever they were before.                     *)
LEMMA AlignedEntries ==
  ASSUME NEW entries, NEW msg
  PROVE  KeysOf(Aligned(entries, msg)) = SignedKeys(msg)
<1> DEFINE keys == SignedKeys(msg)
<1>1. DOMAIN Unsigned(keys) = DOMAIN keys
  BY DEF Unsigned
<1>2. \A n \in DOMAIN keys : Unsigned(keys)[n].key = keys[n]
  BY DEF Unsigned
<1>3. KeysOf(Unsigned(keys)) = [n \in DOMAIN keys |-> keys[n]]
  BY <1>1, <1>2 DEF KeysOf
<1>4. [n \in DOMAIN keys |-> keys[n]] = keys
  BY DEF SignedKeys
<1>5. CASE KeysOf(entries) = keys
  BY <1>5 DEF Aligned
<1>6. CASE KeysOf(entries) # keys
  BY <1>3, <1>4, <1>6 DEF Aligned
<1>7. QED
  BY <1>5, <1>6

(* Only Serialize puts anything on the wire.                                *)
LEMMA WireStep ==
  ASSUME WireIsSigned, [Next]_vars
  PROVE  WireIsSigned'
<1>1. CASE Serialize
  <2> DEFINE msg == MessageOf(signatures)
             entries == Aligned(signatures, msg)
  <2>1. CASE Signedness(entries, msg) = "ok"
             /\ wire' = [signatures |-> entries, message |-> msg]
    <3>1. KeysOf(entries) = SignedKeys(msg)
      BY AlignedEntries
    <3>2. \A n \in DOMAIN entries : entries[n].over = msg
      BY <2>1, SignedEntries
    <3>3. wire'.signatures = entries /\ wire'.message = msg
      BY <2>1
    <3>4. QED
      BY <3>1, <3>2, <3>3 DEF WireIsSigned, KeysOf, SignedKeys
  <2>2. CASE wire' = None
    BY <2>2 DEF WireIsSigned
  <2>3. QED
    BY <1>1, <2>1, <2>2 DEF Serialize, NoWire
<1>2. CASE UNCHANGED vars
  BY <1>2 DEF WireIsSigned, vars, KeysOf, SignedKeys
<1>3. CASE \/ \E i \in Instructions : AddInstruction(i)
           \/ \E k \in Wallets : SetFeePayer(k)
           \/ \E h \in Hashes : SetRecentBlockhash(h)
           \/ \E n \in Nonces : SetNonceInfo(n)
  BY <1>3 DEF WireIsSigned, AddInstruction, SetFeePayer, SetRecentBlockhash,
              SetNonceInfo, Edit, NoWire
<1>4. CASE \E signers \in SignerLists :
             SignFails(signers) \/ \E done \in 0 .. MaxSigners : Sign(signers, done)
  BY <1>4 DEF WireIsSigned, SignFails, Sign, NoWire
<1>5. CASE SerializeFails \/ Populate
  BY <1>5 DEF WireIsSigned, SerializeFails, Populate, NoWire
<1>6. QED
  BY <1>1, <1>2, <1>3, <1>4, <1>5 DEF Next

(* "The signatures must match the first numRequiredSignatures of            *)
(* accountKeys": whatever the owner did to the fields before, what          *)
(* Serialize lets out is signed by every account that must sign, over the   *)
(* message that goes out.                                                   *)
THEOREM WireSigned == Spec => []WireIsSigned
<1>1. Init => WireIsSigned
  BY DEF Init, WireIsSigned
<1>2. WireIsSigned /\ [Next]_vars => WireIsSigned'
  BY WireStep
<1>3. QED
  BY <1>1, <1>2, PTL DEF Spec
-----------------------------------------------------------------------------
(* The fields.                                                             *)

(* compileMessage returns a message exactly when nothing is in its way.     *)
LEMMA NoObstacle ==
  ASSUME NEW entries
  PROVE  /\ Obstacle(entries) = "none" <=>
              /\ ~ (nonceInfo # None /\ ins = <<>>)
              /\ Hash # None
              /\ ~ (feePayer = None /\ entries = <<>>)
              /\ Known(AllInstructions, Payer(entries), ToSet(KeysOf(entries)))
         /\ Obstacle(entries) \in {"panic", "no blockhash", "no fee payer",
                                   "unknown signer", "none"}
  BY DEF Obstacle

LEMMA FieldTypes ==
  ASSUME TypeOK, NEW entries \in Seq(Entry), Obstacle(entries) = "none"
  PROVE  /\ AllInstructions \in Seq(Instruction)
         /\ Hash \in Hashes
         /\ Payer(entries) \in Keys
         /\ ToSet(KeysOf(entries)) \subseteq Keys
         /\ Known(AllInstructions, Payer(entries), ToSet(KeysOf(entries)))
<1>1. nonceInfo # None => nonceInfo.ins \in Instruction /\ nonceInfo.hash \in Hashes
  BY PoolAssumption DEF TypeOK
<1>2. AllInstructions \in Seq(Instruction)
  BY <1>1 DEF TypeOK, AllInstructions
<1>3. Hash \in Hashes
  BY <1>1, NoObstacle DEF TypeOK, Hash
<1>4. \A n \in DOMAIN entries : entries[n].key \in Keys
  <2>1. \A n \in DOMAIN entries : entries[n] \in Entry
    OBVIOUS
  <2> QED BY <2>1 DEF Entry
<1>5. Payer(entries) \in Keys
  <2>1. CASE feePayer # None
    BY <2>1 DEF Payer, TypeOK
  <2>2. CASE feePayer = None
    <3>1. entries # <<>>
      BY <2>2, NoObstacle
    <3>2. 1 \in DOMAIN entries
      BY <3>1
    <3> QED BY <1>4, <2>2, <3>2 DEF Payer
  <2> QED BY <2>1, <2>2
<1>6. ToSet(KeysOf(entries)) \subseteq Keys
  BY <1>4 DEF ToSet, KeysOf
<1> QED
  BY <1>2, <1>3, <1>5, <1>6, NoObstacle

(* Entries without signatures.                                              *)
LEMMA UnsignedEntries ==
  ASSUME NEW keys \in Seq(Keys)
  PROVE  /\ Unsigned(keys) \in Seq(Entry)
         /\ KeysOf(Unsigned(keys)) = keys
         /\ DOMAIN Unsigned(keys) = DOMAIN keys
<1>1. DOMAIN keys = 1 .. Len(keys) /\ Len(keys) \in Nat /\ \A n \in 1 .. Len(keys) : keys[n] \in Keys
  OBVIOUS
<1>2. \A n \in 1 .. Len(keys) : [key |-> keys[n], over |-> None] \in Entry
  BY <1>1 DEF Entry
<1>3. Unsigned(keys) \in [1 .. Len(keys) -> Entry]
  BY <1>1, <1>2 DEF Unsigned
<1>4. KeysOf(Unsigned(keys)) = [n \in DOMAIN keys |-> keys[n]]
  BY DEF Unsigned, KeysOf
<1>5. keys = [n \in DOMAIN keys |-> keys[n]]
  OBVIOUS
<1> QED
  BY <1>1, <1>3, <1>4, <1>5

(* Whatever entries the accounts that sign have, the message compiled with  *)
(* them is the one that made room for them.                                 *)
LEMMA CompiledAgain ==
  ASSUME TypeOK, NEW entries \in Seq(Entry), Obstacle(entries) = "none",
         NEW after \in Seq(Entry), KeysOf(after) = SignedKeys(MessageOf(entries))
  PROVE  /\ MessageOf(entries) \in Message
         /\ ToSet(KeysOf(after)) =
              Signing(AllInstructions, Payer(entries), ToSet(KeysOf(entries)))
         /\ Payer(after) = Payer(entries)
         /\ Obstacle(after) = "none"
         /\ MessageOf(after) = MessageOf(entries)
<1> DEFINE list     == AllInstructions
           payer    == Payer(entries)
           supplied == ToSet(KeysOf(entries))
           msg      == MessageOf(entries)
           signs    == Signing(list, payer, supplied)
<1>1. /\ list \in Seq(Instruction) /\ Hash \in Hashes /\ payer \in Keys
      /\ supplied \subseteq Keys /\ Known(list, payer, supplied)
  BY FieldTypes
<1>2. msg = Compile(list, payer, supplied, Hash)
  BY DEF MessageOf
<1> HIDE DEF list, payer, supplied, msg
<1>3. /\ Enumerates(SignedKeys(msg), signs) /\ SignedKeys(msg)[1] = payer
      /\ Len(SignedKeys(msg)) = msg.required /\ msg.required \in 1 .. Len(msg.keys)
  BY <1>1, <1>2, CompiledSigners
<1>4. ToSet(KeysOf(after)) = signs
  BY <1>3 DEF Enumerates, msg
<1>5. 1 \in DOMAIN after /\ after[1].key = payer
  <2>1. 1 \in DOMAIN SignedKeys(msg)
    BY <1>3, EnumeratedLength
  <2>2. DOMAIN SignedKeys(msg) = DOMAIN after /\ SignedKeys(msg)[1] = after[1].key
    <3>1. SignedKeys(msg) = [n \in DOMAIN after |-> after[n].key]
      BY DEF KeysOf, msg
    <3> QED BY <2>1, <3>1
  <2> QED BY <1>3, <2>1, <2>2
<1>6. Payer(after) = payer
  BY <1>5 DEF Payer, payer
<1>7. Known(list, payer, signs)
  <2>1. Signers(list) \subseteq Accounts(list)
    BY <1>1, AccountSets
  <2> QED BY <1>1, <2>1 DEF Known, Signing
<1>8. Obstacle(after) = "none"
  <2>1. after # <<>>
    BY <1>5
  <2> QED BY <1>4, <1>6, <1>7, <2>1, NoObstacle DEF list
<1>9. Compile(list, payer, signs, Hash) = msg
  BY <1>2, Stable
<1>10. MessageOf(after) = msg
  BY <1>4, <1>6, <1>9 DEF MessageOf, list
<1>11. msg \in Message
  BY <1>1, <1>2, CompiledType
<1> QED
  BY <1>4, <1>6, <1>8, <1>10, <1>11 DEF list, payer, supplied, msg

LEMMA AlignedType ==
  ASSUME TypeOK, NEW entries \in Seq(Entry), Obstacle(entries) = "none"
  PROVE  Aligned(entries, MessageOf(entries)) \in Seq(Entry)
<1>1. SignedKeys(MessageOf(entries)) \in Seq(Keys)
  <2> DEFINE m == Compile(AllInstructions, Payer(entries), ToSet(KeysOf(entries)), Hash)
  <2>1. SignedKeys(m) \in Seq(Keys)
    BY FieldTypes, CompiledKeys
  <2> QED BY <2>1 DEF MessageOf
<1> QED
  BY <1>1, UnsignedEntries DEF Aligned

(* A signer twice on the list signs once.                                   *)
LEMMA SignersOnce ==
  ASSUME NEW signers \in SignerLists
  PROVE  /\ UniqueSigners(signers) \in Seq(Keys)
         /\ ToSet(UniqueSigners(signers)) = ToSet(signers)
<1>1. PICK n \in 0 .. MaxSigners : signers \in [1 .. n -> Wallets]
  BY DEF SignerLists
<1>2. n \in Nat
  BY <1>1
<1>3. signers \in Seq(Keys) /\ Len(signers) = n
  BY <1>1, <1>2, PoolAssumption
<1> DEFINE P == {i \in DOMAIN signers : \A m \in 1 .. i - 1 : signers[m] # signers[i]}
<1>4. P \in SUBSET (1 .. Len(signers))
  BY <1>3
<1>5. UniqueSigners(signers) = Picked(signers, P)
  BY DEF UniqueSigners, FirstOfEach
<1>6. \A i \in DOMAIN signers : \E j \in P : signers[j] = signers[i]
  <2> SUFFICES ASSUME NEW i \in DOMAIN signers PROVE \E j \in P : signers[j] = signers[i]
    OBVIOUS
  <2> DEFINE T == {j \in DOMAIN signers : signers[j] = signers[i]}
  <2>1. T \subseteq Nat /\ T # {}
    BY <1>3
  <2>2. PICK j \in T : \A k \in T : j <= k
    BY <2>1, LeastOf
  <2>3. \A m \in 1 .. j - 1 : m \in DOMAIN signers /\ m \notin T
    BY <1>3, <2>1, <2>2
  <2> QED BY <2>2, <2>3
<1>7. Picked(signers, P) \in Seq(Keys) /\ ToSet(Picked(signers, P)) = {signers[i] : i \in P}
  <2> HIDE DEF P
  <2> QED BY <1>3, <1>4, PickedSeq
<1>8. {signers[i] : i \in P} = ToSet(signers)
  BY <1>6 DEF ToSet
<1> QED
  BY <1>5, <1>7, <1>8
-----------------------------------------------------------------------------
(* The inductive invariant.                                                *)

(* What is on the wire was compiled from what was asked.                    *)
WireIsCompiled ==
  wire # None => \E supplied \in SUBSET Keys :
    /\ Known(asked.ins, asked.payer, supplied)
    /\ asked.promoted = {k \in supplied : k # asked.payer /\ k \notin Signers(asked.ins)}
    /\ wire.message = Compile(asked.ins, asked.payer, supplied, wire.message.hash)

LegacyInv ==
  TypeOK /\ WireIsSigned /\ WireIsCompiled /\ SignedMessageStands /\ SignersAreFound

(* Any change of a field.                                                   *)
LEMMA EditStep ==
  ASSUME LegacyInv,
         \/ \E i \in Instructions : AddInstruction(i)
         \/ \E k \in Wallets : SetFeePayer(k)
         \/ \E h \in Hashes : SetRecentBlockhash(h)
         \/ \E n \in Nonces : SetNonceInfo(n)
  PROVE  LegacyInv'
<1>1. /\ standing' = None /\ result' = "ok" /\ wire' = None /\ asked' = None
      /\ signatures' = signatures /\ edits' = edits + 1
  BY DEF AddInstruction, SetFeePayer, SetRecentBlockhash, SetNonceInfo, Edit, NoWire
<1>2. /\ ins' \in Seq(Instruction) /\ feePayer' \in Keys \cup {None}
      /\ recentBlockhash' \in Hashes \cup {None} /\ nonceInfo' \in Nonces \cup {None}
  <2>1. CASE \E i \in Instructions : AddInstruction(i)
    BY <2>1, PoolAssumption DEF LegacyInv, TypeOK, AddInstruction
  <2>2. CASE \E k \in Wallets : SetFeePayer(k)
    BY <2>2, PoolAssumption DEF LegacyInv, TypeOK, SetFeePayer
  <2>3. CASE \E h \in Hashes : SetRecentBlockhash(h)
    BY <2>3 DEF LegacyInv, TypeOK, SetRecentBlockhash
  <2>4. CASE \E n \in Nonces : SetNonceInfo(n)
    BY <2>4 DEF LegacyInv, TypeOK, SetNonceInfo
  <2> QED BY <2>1, <2>2, <2>3, <2>4
<1>3. TypeOK'
  <2>1. edits' \in Nat
    BY <1>1 DEF LegacyInv, TypeOK
  <2>2. signatures' \in Seq(Entry) /\ result' \in Results
    BY <1>1 DEF LegacyInv, TypeOK, Results
  <2>3. /\ wire' \in Transmission \cup {None} /\ asked' \in Request \cup {None}
        /\ (asked' = None) = (wire' = None) /\ standing' \in Message \cup {None}
    BY <1>1
  <2> QED BY <1>2, <2>1, <2>2, <2>3 DEF TypeOK
<1>4. (WireIsSigned /\ WireIsCompiled /\ SignedMessageStands /\ SignersAreFound)'
  BY <1>1 DEF WireIsSigned, WireIsCompiled, SignedMessageStands, SignersAreFound
<1> QED
  BY <1>3, <1>4 DEF LegacyInv

LEMMA SignFailsStep ==
  ASSUME LegacyInv, NEW signers \in SignerLists, SignFails(signers)
  PROVE  LegacyInv'
<1> DEFINE entries == Unsigned(UniqueSigners(signers))
<1>1. entries \in Seq(Entry)
  BY SignersOnce, UnsignedEntries
<1>2. Obstacle(entries) \in {"panic", "no blockhash", "no fee payer", "unknown signer"}
  BY NoObstacle DEF SignFails
<1>3. /\ result' = Obstacle(entries) /\ signatures' = entries /\ standing' = None
      /\ wire' = None /\ asked' = None /\ edits' = edits
      /\ UNCHANGED <<ins, feePayer, recentBlockhash, nonceInfo>>
  BY DEF SignFails, NoWire, fields
<1> HIDE DEF entries
<1>4. TypeOK'
  BY <1>1, <1>2, <1>3 DEF LegacyInv, TypeOK, Results
<1>5. SignersAreFound'
  BY <1>2, <1>3 DEF SignersAreFound
<1>6. (WireIsSigned /\ WireIsCompiled /\ SignedMessageStands)'
  BY <1>3 DEF WireIsSigned, WireIsCompiled, SignedMessageStands
<1> QED
  BY <1>4, <1>5, <1>6 DEF LegacyInv

(* With the fields as they are, entries of the same keys compile the same.  *)
LEMMA SameFields ==
  ASSUME UNCHANGED <<ins, feePayer, recentBlockhash, nonceInfo>>
  PROVE  /\ Obstacle(signatures)' = Obstacle(signatures')
         /\ MessageOf(signatures)' = MessageOf(signatures')
<1>1. AllInstructions' = AllInstructions /\ Hash' = Hash
  BY DEF AllInstructions, Hash
<1>2. Payer(signatures)' = Payer(signatures')
  BY DEF Payer
<1> QED
  BY <1>1, <1>2 DEF Obstacle, MessageOf

LEMMA SignStep ==
  ASSUME LegacyInv, NEW signers \in SignerLists, NEW done \in 0 .. MaxSigners,
         Sign(signers, done)
  PROVE  LegacyInv'
<1> DEFINE unique  == UniqueSigners(signers)
           blank   == Unsigned(unique)
           msg     == MessageOf(blank)
           entries == Aligned(blank, msg)
           signed  == ToSet(SubSeq(unique, 1, done))
           after   == [n \in DOMAIN entries |->
                        IF entries[n].key \in signed
                        THEN [entries[n] EXCEPT !.over = msg] ELSE entries[n]]
<1>1. /\ unique \in Seq(Keys)
      /\ blank \in Seq(Entry) /\ KeysOf(blank) = unique
  BY SignersOnce, UnsignedEntries
<1>2. Obstacle(blank) = "none"
  BY DEF Sign
<1>3. entries \in Seq(Entry)
  BY <1>1, <1>2, AlignedType DEF LegacyInv
<1>4. KeysOf(entries) = SignedKeys(msg)
  BY AlignedEntries
<1>5. /\ msg \in Message
      /\ ToSet(KeysOf(entries)) =
           Signing(AllInstructions, Payer(blank), ToSet(KeysOf(blank)))
  <2> HIDE DEF blank, entries
  <2> QED BY <1>1, <1>2, <1>3, <1>4, CompiledAgain DEF LegacyInv
<1> HIDE DEF unique, blank, msg, entries, signed
<1>6. /\ after \in Seq(Entry) /\ KeysOf(after) = SignedKeys(msg)
  <2>1. DOMAIN entries = 1 .. Len(entries) /\ Len(entries) \in Nat
        /\ \A n \in 1 .. Len(entries) : entries[n] \in Entry
    BY <1>3
  <2>2. \A n \in 1 .. Len(entries) : after[n] \in Entry /\ after[n].key = entries[n].key
    BY <1>5, <2>1 DEF Entry
  <2>3. after \in [1 .. Len(entries) -> Entry] /\ DOMAIN after = DOMAIN entries
    BY <2>1, <2>2
  <2>4. KeysOf(after) = KeysOf(entries)
    <3> HIDE DEF after
    <3> QED BY <2>1, <2>2, <2>3 DEF KeysOf
  <2> HIDE DEF after
  <2> QED BY <1>4, <2>1, <2>3, <2>4
<1>7. /\ signatures' = after /\ wire' = None /\ asked' = None /\ edits' = edits
      /\ UNCHANGED <<ins, feePayer, recentBlockhash, nonceInfo>>
      /\ \/ result' = "ok" /\ standing' = msg
         \/ /\ done < Len(unique) /\ standing' = None
            /\ result' = IF unique[done + 1] \in ToSet(KeysOf(entries))
                         THEN "signer error" ELSE "signer not found"
  BY DEF Sign, NoWire, fields, unique, blank, msg, entries, signed
<1> HIDE DEF after
<1>8. done < Len(unique) => unique[done + 1] \in ToSet(KeysOf(entries))
  <2> SUFFICES ASSUME done < Len(unique) PROVE unique[done + 1] \in ToSet(KeysOf(entries))
    OBVIOUS
  <2>1. done + 1 \in DOMAIN unique
    BY <1>1
  <2>2. unique[done + 1] \in ToSet(KeysOf(blank))
    BY <1>1, <2>1 DEF ToSet
  <2> QED BY <1>5, <2>2 DEF Signing
<1>9. result' \in {"ok", "signer error"} /\ standing' \in {msg, None}
  BY <1>7, <1>8
<1>10. TypeOK'
  BY <1>5, <1>6, <1>7, <1>9 DEF LegacyInv, TypeOK, Results
<1>11. (WireIsSigned /\ WireIsCompiled /\ SignersAreFound)'
  BY <1>7, <1>9 DEF WireIsSigned, WireIsCompiled, SignersAreFound
<1>12. SignedMessageStands'
  <2>1. Obstacle(after) = "none" /\ MessageOf(after) = msg
    BY <1>1, <1>2, <1>6, CompiledAgain DEF LegacyInv, msg
  <2>2. Obstacle(signatures)' = "none" /\ MessageOf(signatures)' = msg
    BY <1>7, <2>1, SameFields
  <2>3. standing' # None => standing' = msg
    BY <1>9
  <2>4. KeysOf(signatures)' = SignedKeys(msg)
    BY <1>6, <1>7 DEF KeysOf
  <2>5. standing' # None => Aligned(signatures, standing)' = signatures'
    BY <2>3, <2>4 DEF Aligned, SignedKeys, KeysOf, Unsigned
  <2> QED BY <2>2, <2>3, <2>5 DEF SignedMessageStands
<1> QED
  BY <1>10, <1>11, <1>12 DEF LegacyInv
LEMMA SerializeFailsStep ==
  ASSUME LegacyInv, SerializeFails
  PROVE  LegacyInv'
<1>1. Obstacle(signatures) \in {"panic", "no blockhash", "no fee payer", "unknown signer"}
  BY NoObstacle DEF SerializeFails
<1>2. /\ result' = Obstacle(signatures) /\ wire' = None /\ asked' = None
      /\ UNCHANGED <<signatures, standing, edits>>
      /\ UNCHANGED <<ins, feePayer, recentBlockhash, nonceInfo>>
  BY DEF SerializeFails, NoWire, fields
<1>3. result' \in Results /\ SignersAreFound'
  BY <1>1, <1>2 DEF Results, SignersAreFound
<1>4. TypeOK'
  BY <1>2, <1>3 DEF LegacyInv, TypeOK
<1>5. (WireIsSigned /\ WireIsCompiled)'
  BY <1>2 DEF WireIsSigned, WireIsCompiled
<1>6. SignedMessageStands'
  BY <1>2, SameFields DEF LegacyInv, SignedMessageStands, Aligned, KeysOf, Unsigned, SignedKeys
<1> QED
  BY <1>3, <1>4, <1>5, <1>6 DEF LegacyInv

LEMMA SerializeStep ==
  ASSUME LegacyInv, Serialize
  PROVE  LegacyInv'
<1> DEFINE msg      == MessageOf(signatures)
           entries  == Aligned(signatures, msg)
           payer    == Payer(signatures)
           supplied == ToSet(KeysOf(signatures))
           sent     == [signatures |-> entries, message |-> msg]
           request  == [ins |-> AllInstructions, payer |-> payer, promoted |-> Promoted]
<1>1. Obstacle(signatures) = "none" /\ signatures \in Seq(Entry)
  BY DEF Serialize, LegacyInv, TypeOK
<1>2. /\ AllInstructions \in Seq(Instruction) /\ Hash \in Hashes /\ payer \in Keys
      /\ supplied \subseteq Keys /\ Known(AllInstructions, payer, supplied)
  BY <1>1, FieldTypes DEF LegacyInv
<1>3. msg = Compile(AllInstructions, payer, supplied, Hash)
  BY DEF MessageOf
<1>4. entries \in Seq(Entry) /\ KeysOf(entries) = SignedKeys(msg)
  BY <1>1, AlignedType, AlignedEntries DEF LegacyInv
<1>5. msg \in Message
  BY <1>1, <1>4, CompiledAgain DEF LegacyInv
<1>6. Promoted = {k \in supplied : k # payer /\ k \notin Signers(AllInstructions)}
  BY DEF Promoted
<1>7. request \in Request /\ sent \in Transmission
  <2> HIDE DEF msg, entries, payer, supplied
  <2> QED BY <1>2, <1>4, <1>5, <1>6 DEF Request, Transmission
<1>8. /\ signatures' = entries
      /\ UNCHANGED <<standing, edits>>
      /\ UNCHANGED <<ins, feePayer, recentBlockhash, nonceInfo>>
      /\ result' \in {"ok", "too large", "invalid signature", "missing signature"}
      /\ \/ wire' = sent /\ asked' = request
         \/ wire' = None /\ asked' = None
  BY DEF Serialize, NoWire, fields, Signedness
<1> HIDE DEF msg, entries, payer, supplied
<1>9. TypeOK'
  <2>1. result' \in Results /\ signatures' \in Seq(Entry)
    BY <1>4, <1>8 DEF Results
  <2>2. /\ wire' \in Transmission \cup {None} /\ asked' \in Request \cup {None}
        /\ (asked' = None) = (wire' = None)
    <3> HIDE DEF sent, request
    <3> QED BY <1>7, <1>8, NoneAssumption
  <2> QED BY <1>8, <2>1, <2>2 DEF LegacyInv, TypeOK
<1>10. SignersAreFound'
  BY <1>8 DEF SignersAreFound
<1>11. WireIsSigned'
  BY WireStep DEF LegacyInv, Next
<1>12. WireIsCompiled'
  <2>1. CASE wire' = None
    BY <2>1 DEF WireIsCompiled
  <2>2. CASE wire' = sent /\ asked' = request
    <3>1. /\ asked'.ins = AllInstructions /\ asked'.payer = payer
          /\ asked'.promoted = {k \in supplied : k # payer /\ k \notin Signers(AllInstructions)}
          /\ wire'.message = msg
      BY <1>6, <2>2
    <3>2. msg.hash = Hash
      BY <1>3 DEF Compile
    <3>3. /\ Known(asked'.ins, asked'.payer, supplied)
          /\ asked'.promoted = {k \in supplied : k # asked'.payer /\ k \notin Signers(asked'.ins)}
          /\ wire'.message = Compile(asked'.ins, asked'.payer, supplied, wire'.message.hash)
      BY <1>2, <1>3, <3>1, <3>2
    <3>4. supplied \in SUBSET Keys
      BY <1>2
    <3> HIDE DEF sent, request
    <3> QED BY <3>3, <3>4 DEF WireIsCompiled
  <2> QED BY <1>8, <2>1, <2>2
<1>13. SignedMessageStands'
  <2> SUFFICES ASSUME standing # None PROVE SignedMessageStands'
    BY <1>8 DEF SignedMessageStands
  <2>1. msg = standing /\ entries = signatures
    BY DEF LegacyInv, SignedMessageStands, msg, entries
  <2>2. signatures' = signatures /\ standing' = standing
    BY <1>8, <2>1
  <2> QED
    BY <1>8, <2>2, SameFields
       DEF LegacyInv, SignedMessageStands, Aligned, KeysOf, Unsigned, SignedKeys
<1> QED
  BY <1>9, <1>10, <1>11, <1>12, <1>13 DEF LegacyInv

LEMMA PopulateStep ==
  ASSUME LegacyInv, Populate
  PROVE  LegacyInv'
<1> DEFINE msg   == wire.message
           list  == asked.ins
           payer == asked.payer
           given == ToSet(KeysOf(wire.signatures))
           got   == Decompile(msg, given)
<1>1. /\ wire \in Transmission /\ asked \in Request
      /\ msg \in Message /\ wire.signatures \in Seq(Entry)
      /\ list \in Seq(Instruction) /\ payer \in Keys /\ msg.hash \in Hashes
  <2>1. wire \in Transmission /\ asked \in Request
    BY DEF Populate, LegacyInv, TypeOK
  <2>2. msg \in Message
    BY <2>1 DEF Transmission
  <2>3. msg.hash \in Hashes
    BY <2>2 DEF Message
  <2> QED BY <2>1, <2>2, <2>3 DEF Transmission, Request
<1>2. PICK supplied \in SUBSET Keys :
        /\ Known(list, payer, supplied)
        /\ asked.promoted = {k \in supplied : k # payer /\ k \notin Signers(list)}
        /\ msg = Compile(list, payer, supplied, msg.hash)
  BY DEF Populate, LegacyInv, WireIsCompiled
<1> DEFINE signs == Signing(list, payer, supplied)
<1>3. KeysOf(wire.signatures) = SignedKeys(msg)
  BY DEF Populate, LegacyInv, WireIsSigned
<1>4. /\ ins' = got /\ feePayer' = msg.keys[1] /\ recentBlockhash' = msg.hash
      /\ nonceInfo' = None /\ signatures' = wire.signatures /\ result' = "ok"
      /\ standing' = IF asked.promoted = {} THEN msg ELSE None
      /\ wire' = None /\ asked' = None /\ edits' = edits
  BY DEF Populate, NoWire
<1> HIDE DEF msg, list, payer, given, got, signs
<1>5. given = signs /\ msg.keys[1] = payer
  <2> DEFINE m == Compile(list, payer, supplied, msg.hash)
  <2>1. LET s == Signing(list, payer, supplied)
        IN /\ m.hash = msg.hash
           /\ Enumerates(m.keys, Accounts(list) \cup {payer})
           /\ m.required \in 1 .. Len(m.keys)
           /\ m.keys[1] = payer
           /\ \A n \in 1 .. Len(m.keys) : m.keys[n] \in s <=> n <= m.required
           /\ Enumerates(SignedKeys(m), s)
           /\ SignedKeys(m) \in Seq(Keys)
    <3>1. list \in Seq(Instruction) /\ payer \in Keys /\ Known(list, payer, supplied)
      BY <1>1, <1>2
    <3> QED BY <3>1, CompiledKeys, Zenon
  <2>2. Enumerates(SignedKeys(m), signs) /\ m.keys[1] = payer
    BY <2>1 DEF signs
  <2>3. m = msg
    BY <1>2
  <2> HIDE DEF m
  <2>4. ToSet(SignedKeys(msg)) = signs
    BY <2>2, <2>3 DEF Enumerates
  <2> QED BY <1>3, <2>2, <2>3, <2>4 DEF given
<1>6. got \in Seq(Instruction)
  <2>1. Decompile(Compile(list, payer, supplied, msg.hash), given) \in Seq(Instruction)
    BY <1>1, <1>2, Decompiled
  <2> QED BY <1>2, <2>1 DEF got
<1>7. TypeOK'
  BY <1>1, <1>4, <1>5, <1>6 DEF LegacyInv, TypeOK, Results
<1>8. (WireIsSigned /\ WireIsCompiled /\ SignersAreFound)'
  BY <1>4 DEF WireIsSigned, WireIsCompiled, SignersAreFound
<1>9. SignedMessageStands'
  <2> SUFFICES ASSUME asked.promoted = {} PROVE SignedMessageStands'
    BY <1>4 DEF SignedMessageStands
  <2>1. supplied \subseteq Signers(list) \cup {payer}
    BY <1>2
  <2>2. Known(got, payer, signs) /\ Compile(got, payer, signs, msg.hash) = msg
    <3>1. LET m == Compile(list, payer, supplied, msg.hash)
              s == Signing(list, payer, supplied)
              g == Decompile(m, s)
          IN Known(g, payer, s) /\ Compile(g, payer, s, msg.hash) = m
      BY <1>1, <2>1, RoundTrip
    <3> QED BY <1>2, <1>5, <3>1 DEF got, signs
  <2>3. payer # None /\ msg.hash # None
    BY <1>1, NoneAssumption
  <2>4. AllInstructions' = got /\ Hash' = msg.hash /\ Payer(signatures)' = payer
    BY <1>4, <1>5, <2>3 DEF AllInstructions, Hash, Payer
  <2>5. ToSet(KeysOf(signatures))' = signs
    BY <1>4, <1>5 DEF KeysOf, given
  <2>6. MessageOf(signatures)' = msg
    BY <2>2, <2>4, <2>5 DEF MessageOf
  <2>7. Obstacle(signatures)' = "none"
    BY <1>4, <1>5, <2>2, <2>3, <2>4, <2>5 DEF Obstacle
  <2>8. standing' = msg
    BY <1>4
  <2>9. KeysOf(signatures)' = SignedKeys(msg)
    BY <1>3, <1>4 DEF KeysOf
  <2>10. Aligned(signatures, standing)' = signatures'
    BY <2>8, <2>9 DEF Aligned, SignedKeys, KeysOf, Unsigned
  <2> QED BY <2>6, <2>7, <2>8, <2>10 DEF SignedMessageStands
<1> QED
  BY <1>7, <1>8, <1>9 DEF LegacyInv

LEMMA LegacyInductive == Spec => []LegacyInv
<1>1. Init => LegacyInv
  BY DEF Init, LegacyInv, TypeOK, WireIsSigned, WireIsCompiled, SignedMessageStands,
         SignersAreFound, Results
<1>2. LegacyInv /\ [Next]_vars => LegacyInv'
  <2> SUFFICES ASSUME LegacyInv, [Next]_vars PROVE LegacyInv'
    OBVIOUS
  <2>1. CASE \/ \E i \in Instructions : AddInstruction(i)
             \/ \E k \in Wallets : SetFeePayer(k)
             \/ \E h \in Hashes : SetRecentBlockhash(h)
             \/ \E n \in Nonces : SetNonceInfo(n)
    BY <2>1, EditStep
  <2>2. CASE \E signers \in SignerLists : SignFails(signers)
    BY <2>2, SignFailsStep
  <2>3. CASE \E signers \in SignerLists : \E done \in 0 .. MaxSigners : Sign(signers, done)
    BY <2>3, SignStep
  <2>4. CASE SerializeFails
    BY <2>4, SerializeFailsStep
  <2>5. CASE Serialize
    BY <2>5, SerializeStep
  <2>6. CASE Populate
    BY <2>6, PopulateStep
  <2>7. CASE UNCHANGED vars
    BY ZenonT(30), <2>7 DEF vars, LegacyInv, TypeOK, WireIsSigned, WireIsCompiled, SignedMessageStands,
                SignersAreFound, Obstacle, MessageOf, AllInstructions, Hash, Payer,
                KeysOf, Aligned, Unsigned, SignedKeys
  <2> QED BY <2>1, <2>2, <2>3, <2>4, <2>5, <2>6, <2>7 DEF Next
<1> QED
  BY <1>1, <1>2, PTL DEF Spec
LEMMA CompiledAsAsked ==
  ASSUME LegacyInv
  PROVE  WireAsksWhatWasAsked
<1> SUFFICES ASSUME wire # None PROVE WireAsksWhatWasAsked
  BY DEF WireAsksWhatWasAsked
<1> DEFINE msg   == wire.message
           list  == asked.ins
           payer == asked.payer
           got   == Decompile(msg, {})
<1>1. list \in Seq(Instruction) /\ payer \in Keys /\ msg.hash \in Hashes
  <2>1. wire \in Transmission /\ asked \in Request
    BY DEF LegacyInv, TypeOK
  <2>2. msg \in Message
    BY <2>1 DEF Transmission
  <2>3. msg.hash \in Hashes
    BY <2>2 DEF Message
  <2> QED BY <2>1, <2>3 DEF Request
<1>2. PICK supplied \in SUBSET Keys :
        /\ Known(list, payer, supplied)
        /\ asked.promoted = {k \in supplied : k # payer /\ k \notin Signers(list)}
        /\ msg = Compile(list, payer, supplied, msg.hash)
  BY DEF LegacyInv, WireIsCompiled
<1> DEFINE m == Compile(list, payer, supplied, msg.hash)
           nobody == {}
<1>3. msg.keys[1] = payer /\ DOMAIN msg.keys = 1 .. Len(msg.keys)
  <2>1. LET s == Signing(list, payer, supplied)
        IN /\ m.hash = msg.hash
           /\ Enumerates(m.keys, Accounts(list) \cup {payer})
           /\ m.required \in 1 .. Len(m.keys)
           /\ m.keys[1] = payer
           /\ \A n \in 1 .. Len(m.keys) : m.keys[n] \in s <=> n <= m.required
           /\ Enumerates(SignedKeys(m), s)
           /\ SignedKeys(m) \in Seq(Keys)
    <3> HIDE DEF msg, list, payer
    <3> QED BY <1>1, <1>2, CompiledKeys, Zenon
  <2>2. m = msg
    BY <1>2
  <2> HIDE DEF m
  <2>3. Enumerates(msg.keys, Accounts(list) \cup {payer}) /\ msg.keys[1] = payer
    BY <2>1, <2>2
  <2> QED BY <2>3, EnumeratedLength
<1>4. ASSUME asked.promoted = {} PROVE HeaderIsRight
  <2>1. supplied \subseteq Signers(list) \cup {payer}
    BY <1>2, <1>4
  <2>2. \A n \in 1 .. Len(m.keys) :
          /\ IsAccountSigner(m, n) <=> m.keys[n] \in Signers(list) \cup {payer}
          /\ IsAccountWritable(m, n) <=> m.keys[n] \in Writables(list) \cup {payer}
    <3> HIDE DEF msg, list, payer
    <3> QED BY <1>1, <2>1, CompiledHeader
  <2>3. m = msg
    BY <1>2
  <2> HIDE DEF m, msg, list, payer
  <2>4. ASSUME NEW n \in DOMAIN msg.keys
        PROVE  LET k == msg.keys[n] IN
                 /\ IsAccountSigner(msg, n) <=>
                      \/ k \in {payer} \cup asked.promoted
                      \/ SomeMeta(list, k, "signer")
                 /\ IsAccountWritable(msg, n) <=>
                      k = payer \/ SomeMeta(list, k, "writable")
    <3>1. /\ IsAccountSigner(msg, n) <=> msg.keys[n] \in Signers(list) \cup {payer}
          /\ IsAccountWritable(msg, n) <=> msg.keys[n] \in Writables(list) \cup {payer}
      BY <1>3, <2>2, <2>3, <2>4
    <3> QED BY <1>4, <3>1, ByPlace
  <2> QED BY <2>4 DEF HeaderIsRight, msg, list, payer
<1>5. \A n \in DOMAIN list :
        /\ got[n].program = list[n].program
        /\ \A a \in DOMAIN list[n].metas : got[n].metas[a].key = list[n].metas[a].key
  <2>1. LET s == Signing(list, payer, supplied)
            g == Decompile(m, nobody)
        IN /\ g \in Seq(Instruction)
           /\ DOMAIN g = DOMAIN list
           /\ \A n \in DOMAIN list :
                /\ g[n].program = list[n].program
                /\ DOMAIN g[n].metas = DOMAIN list[n].metas
                /\ \A a \in DOMAIN list[n].metas :
                     /\ g[n].metas[a].key = list[n].metas[a].key
                     /\ g[n].metas[a].signer <=> list[n].metas[a].key \in nobody \cup s
                     /\ \E i \in 1 .. Len(m.keys) :
                          /\ m.keys[i] = list[n].metas[a].key
                          /\ g[n].metas[a].writable <=> IsAccountWritable(m, i)
    <3> HIDE DEF msg, list, payer, nobody
    <3>1. /\ list \in Seq(Instruction) /\ payer \in Keys /\ Known(list, payer, supplied)
          /\ msg.hash \in Hashes
      BY <1>1, <1>2
    <3> QED BY <3>1, Decompiled
  <2>2. m = msg
    BY <1>2
  <2> HIDE DEF m, msg, list, payer
  <2> QED BY <2>1, <2>2
<1> QED
  BY <1>3, <1>4, <1>5 DEF WireAsksWhatWasAsked

-----------------------------------------------------------------------------
(* The theorems.                                                           *)

(* The fields, the signatures and the message on the wire are of their      *)
(* types; above all the counts, keys and indices of every compiled message. *)
THEOREM LegacyTypes == Spec => []TypeOK
<1>1. LegacyInv => TypeOK
  BY DEF LegacyInv
<1> QED
  BY <1>1, LegacyInductive, PTL

(* _partialSign finds an entry for every signer it is given, in whatever    *)
(* order and however often they come: "signer not found" is never returned. *)
THEOREM EverySignerIsFound == Spec => []SignersAreFound
<1>1. LegacyInv => SignersAreFound
  BY DEF LegacyInv
<1> QED
  BY <1>1, LegacyInductive, PTL

(* What was signed is compiled again, and the signatures stay in place, by  *)
(* every Serialize until a field changes, and also after the transaction    *)
(* was put on the wire and populated from it.                               *)
THEOREM SignedStands == Spec => []SignedMessageStands
<1>1. LegacyInv => SignedMessageStands
  BY DEF LegacyInv
<1> QED
  BY <1>1, LegacyInductive, PTL

(* The wire says of the accounts what the instructions asked of them, the   *)
(* fee payer is first, and the indices lead to the programs and accounts of *)
(* the instructions.                                                        *)
THEOREM WireAsAsked == Spec => []WireAsksWhatWasAsked
<1>1. LegacyInv => WireAsksWhatWasAsked
  BY CompiledAsAsked
<1> QED
  BY <1>1, LegacyInductive, PTL
=============================================================================
