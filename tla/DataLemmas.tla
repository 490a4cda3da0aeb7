------------------------------ MODULE DataLemmas ------------------------------
(***************************************************************************)
(* Facts about numbers, finite sets and lists that the proofs about        *)
(* several modules rest on.                                                *)
(***************************************************************************)
EXTENDS Selection, SequencesExt, Integers, FiniteSetTheorems, SequenceTheorems,
        WellFoundedInduction, TLAPS

(* Induction, stated of sets of numbers: the numbers that have a property  *)
(* are a set, so each use defines that set.                                *)
LEMMA LeastOf ==
  ASSUME NEW T, T \subseteq Nat, T # {}
  PROVE  \E x \in T : \A y \in T : x <= y
<1> DEFINE R == OpToRel(<, Nat)
<1>1. IsWellFoundedOn(R, Nat)
  BY NatLessThanWellFounded
<1>2. PICK x \in T : \A y \in T : ~ (<<y, x>> \in R)
  <2> HIDE DEF R
  <2> QED BY <1>1, WFMin
<1>3. \A y \in T : ~ (y < x)
  BY <1>2 DEF OpToRel
<1> QED
  BY <1>3

LEMMA SetInduction ==
  ASSUME NEW T, 0 \in T, \A n \in Nat : n \in T => n + 1 \in T
  PROVE  Nat \subseteq T
<1> SUFFICES ASSUME Nat \ T # {} PROVE FALSE
  OBVIOUS
<1>1. PICK x \in Nat \ T : \A y \in Nat \ T : x <= y
  BY LeastOf
<1>2. x - 1 \in Nat /\ x - 1 \in T
  BY <1>1
<1> QED
  BY <1>1, <1>2

-----------------------------------------------------------------------------
(* Ascending lists.                                                        *)

(* s lists the numbers of P in order.                                      *)
Lists(s, P) ==
  /\ s \in [1 .. Cardinality(P) -> P]
  /\ \A i, j \in 1 .. Cardinality(P) : i < j => s[i] < s[j]
  /\ \A k \in P : \E i \in 1 .. Cardinality(P) : s[i] = k

(* The smallest number before the others.                                  *)
LEMMA ListedFromLeast ==
  ASSUME NEW P, P \subseteq Nat, IsFiniteSet(P),
         NEW x \in P, \A y \in P : x <= y,
         NEW s, Lists(s, P \ {x})
  PROVE  \E t : Lists(t, P)
<1> DEFINE n == Cardinality(P \ {x})
           t == [i \in 1 .. n + 1 |-> IF i = 1 THEN x ELSE s[i - 1]]
<1>1. Cardinality(P) = n + 1 /\ n \in Nat
  <2>1. IsFiniteSet(P \ {x}) /\ Cardinality(P \ {x}) = Cardinality(P) - 1
    BY FS_RemoveElement
  <2>2. Cardinality(P) \in Nat /\ Cardinality(P \ {x}) \in Nat
    BY <2>1, FS_CardinalityType
  <2> QED BY <2>1, <2>2
<1>2. /\ \A i \in 1 .. n : s[i] \in P /\ s[i] # x
      /\ \A i, j \in 1 .. n : i < j => s[i] < s[j]
      /\ \A k \in P : k = x \/ \E i \in 1 .. n : s[i] = k
  BY DEF Lists
<1> HIDE DEF n
<1>3. t \in [1 .. n + 1 -> P]
  BY <1>1, <1>2
<1>4. ASSUME NEW i \in 1 .. n + 1, NEW j \in 1 .. n + 1, i < j
      PROVE  t[i] < t[j]
  <2>1. j - 1 \in 1 .. n /\ t[j] = s[j - 1]
    BY <1>1, <1>4
  <2>2. CASE i = 1
    <3>1. s[j - 1] \in P /\ s[j - 1] # x /\ x <= s[j - 1]
      BY <1>2, <2>1
    <3>2. t[i] = x /\ x \in Nat /\ s[j - 1] \in Nat
      BY <1>4, <2>2, <3>1
    <3> QED BY <2>1, <3>1, <3>2
  <2>3. CASE i # 1
    <3>1. i - 1 \in 1 .. n /\ t[i] = s[i - 1] /\ i - 1 < j - 1
      BY <1>1, <1>4, <2>3
    <3> QED BY <1>2, <2>1, <3>1
  <2> QED BY <2>2, <2>3
<1>5. ASSUME NEW k \in P
      PROVE  \E i \in 1 .. n + 1 : t[i] = k
  <2>1. CASE k = x
    BY <1>1, <2>1
  <2>2. CASE k # x
    <3>1. PICK i \in 1 .. n : s[i] = k
      BY <1>2, <2>2
    <3>2. i + 1 \in 1 .. n + 1 /\ t[i + 1] = k
      BY <1>1, <3>1
    <3> QED BY <3>2
  <2> QED BY <2>1, <2>2
<1> HIDE DEF t
<1>6. Lists(t, P)
  BY <1>1, <1>3, <1>4, <1>5 DEF Lists
<1> QED
  BY <1>6

LEMMA ListExists ==
  ASSUME NEW P, P \subseteq Nat, IsFiniteSet(P)
  PROVE  \E s : Lists(s, P)
<1> DEFINE Good(n) == \A Q \in SUBSET P :
                        IsFiniteSet(Q) /\ Cardinality(Q) = n => \E s : Lists(s, Q)
           T == {n \in Nat : Good(n)}
<1>1. 0 \in T
  <2>1. ASSUME NEW Q \in SUBSET P, IsFiniteSet(Q), Cardinality(Q) = 0
        PROVE  Lists(<<>>, Q)
    <3>1. Q = {}
      BY <2>1, FS_EmptySet
    <3> QED BY <2>1, <3>1 DEF Lists
  <2> QED BY <2>1
<1>2. ASSUME NEW n \in Nat, n \in T
      PROVE  n + 1 \in T
  <2>1. ASSUME NEW Q \in SUBSET P, IsFiniteSet(Q), Cardinality(Q) = n + 1
        PROVE  \E s : Lists(s, Q)
    <3>1. Q # {} /\ Q \subseteq Nat
      BY <2>1, FS_EmptySet
    <3>2. PICK x \in Q : \A y \in Q : x <= y
      BY <3>1, LeastOf
    <3>3. IsFiniteSet(Q \ {x}) /\ Cardinality(Q \ {x}) = n
      <4>1. IsFiniteSet(Q \ {x}) /\ Cardinality(Q \ {x}) = Cardinality(Q) - 1
        BY <2>1, FS_RemoveElement
      <4> QED BY <2>1, <4>1
    <3>4. Q \ {x} \in SUBSET P
      OBVIOUS
    <3>5. \E s : Lists(s, Q \ {x})
      BY <1>2, <3>3, <3>4
    <3> QED BY <2>1, <3>1, <3>2, <3>5, ListedFromLeast
  <2> QED BY <1>2, <2>1
<1>3. Nat \subseteq T
  <2> HIDE DEF T
  <2> QED BY <1>1, <1>2, SetInduction
<1>4. Cardinality(P) \in T
  BY <1>3, FS_CardinalityType
<1> QED
  BY <1>4

(* As many numbers are smaller as places come before.                      *)
LEMMA SmallerOnes ==
  ASSUME NEW P, P \subseteq Nat, IsFiniteSet(P), NEW s, Lists(s, P),
         NEW n \in 1 .. Cardinality(P)
  PROVE  Cardinality({j \in P : j < s[n]}) = n - 1
<1> DEFINE before == {j \in P : j < s[n]}
           f == [i \in 1 .. n - 1 |-> s[i]]
<1>1. Cardinality(P) \in Nat /\ n \in Nat
  BY FS_CardinalityType
<1>2. \A i \in 1 .. Cardinality(P) : s[i] \in Nat
  BY DEF Lists
<1>3. f \in [1 .. n - 1 -> before]
  BY <1>1, <1>2 DEF Lists
<1>4. \A i, j \in 1 .. n - 1 : f[i] = f[j] => i = j
  <2> SUFFICES ASSUME NEW i \in 1 .. n - 1, NEW j \in 1 .. n - 1, i < j
               PROVE  f[i] # f[j]
    BY <1>1
  <2>1. i \in 1 .. Cardinality(P) /\ j \in 1 .. Cardinality(P)
    BY <1>1
  <2> QED BY <1>2, <2>1 DEF Lists
<1>5. \A k \in before : \E i \in 1 .. n - 1 : f[i] = k
  <2> SUFFICES ASSUME NEW k \in before PROVE \E i \in 1 .. n - 1 : f[i] = k
    OBVIOUS
  <2>1. PICK i \in 1 .. Cardinality(P) : s[i] = k
    BY DEF Lists
  <2>2. i < n
    BY <1>1, <1>2, <2>1 DEF Lists
  <2> QED BY <1>1, <2>1, <2>2
<1>6. ExistsBijection(1 .. n - 1, before)
  BY <1>3, <1>4, <1>5
  DEF ExistsBijection, Bijection, Injection, Surjection, IsInjective
<1>7. IsFiniteSet(1 .. n - 1) /\ Cardinality(1 .. n - 1) = n - 1
  <2>1. 1 \in Int /\ n - 1 \in Int /\ n - 1 >= 0
    BY <1>1
  <2>2. /\ IsFiniteSet(1 .. n - 1)
        /\ Cardinality(1 .. n - 1) = IF 1 > n - 1 THEN 0 ELSE (n - 1) - 1 + 1
    BY <2>1, FS_Interval
  <2> QED BY <2>1, <2>2
<1> QED
  BY <1>6, <1>7, FS_Bijection

(* What Ascending lists, and how.                                          *)
LEMMA AscendingLists ==
  ASSUME NEW P, P \subseteq Nat, IsFiniteSet(P)
  PROVE  Lists(Ascending(P), P)
<1>1. PICK s : Lists(s, P)
  BY ListExists
<1>2. Cardinality(P) \in Nat
  BY FS_CardinalityType
<1>3. ASSUME NEW n \in 1 .. Cardinality(P)
      PROVE  s[n] = CHOOSE k \in P : Cardinality({j \in P : j < k}) = n - 1
  <2>1. s[n] \in P /\ Cardinality({j \in P : j < s[n]}) = n - 1
    BY ZenonT(30), <1>1, SmallerOnes DEF Lists
  <2>2. ASSUME NEW k \in P, Cardinality({j \in P : j < k}) = n - 1
        PROVE  k = s[n]
    <3>1. PICK i \in 1 .. Cardinality(P) : s[i] = k
      BY <1>1 DEF Lists
    <3>2. Cardinality({j \in P : j < k}) = i - 1
      <4>1. Cardinality({j \in P : j < s[i]}) = i - 1
        BY ZenonT(30), <1>1, SmallerOnes
      <4> QED BY <3>1, <4>1
    <3> QED BY <1>2, <2>2, <3>1, <3>2
  <2> QED BY <2>1, <2>2
<1>4. s = [n \in 1 .. Cardinality(P) |-> s[n]]
  BY <1>1 DEF Lists
<1>5. Ascending(P) = s
  BY <1>3, <1>4 DEF Ascending
<1> QED
  BY <1>1, <1>5

(* The same, as facts about a sequence.                                    *)
LEMMA AscendingSeq ==
  ASSUME NEW P, P \subseteq Nat, IsFiniteSet(P)
  PROVE  /\ Ascending(P) \in Seq(P)
         /\ Len(Ascending(P)) = Cardinality(P)
         /\ Cardinality(P) \in Nat
         /\ DOMAIN Ascending(P) = 1 .. Cardinality(P)
         /\ \A i, j \in 1 .. Cardinality(P) : i < j => Ascending(P)[i] < Ascending(P)[j]
         /\ \A i \in 1 .. Cardinality(P) : Ascending(P)[i] \in P
         /\ ToSet(Ascending(P)) = P
<1>1. Cardinality(P) \in Nat
  BY FS_CardinalityType
<1>2. Lists(Ascending(P), P)
  BY AscendingLists
<1> DEFINE s == Ascending(P)
<1> HIDE DEF s
<1>3. /\ s \in [1 .. Cardinality(P) -> P]
      /\ s \in Seq(P) /\ Len(s) = Cardinality(P) /\ DOMAIN s = 1 .. Cardinality(P)
  BY <1>1, <1>2 DEF Lists, s
<1>4. ToSet(s) = P
  BY <1>2, <1>3 DEF Lists, ToSet, s
<1> QED
  BY <1>1, <1>2, <1>3, <1>4 DEF Lists, s

-----------------------------------------------------------------------------
(* Selections.                                                             *)

(* A selection holds what the positions hold, and nothing else.            *)
LEMMA PickedSeq ==
  ASSUME NEW V, NEW s \in Seq(V), NEW P \in SUBSET (1 .. Len(s))
  PROVE  /\ Picked(s, P) \in Seq(V)
         /\ Len(Picked(s, P)) = Cardinality(P) /\ Cardinality(P) \in Nat
         /\ ToSet(Picked(s, P)) = {s[n] : n \in P}
         /\ \A n \in 1 .. Cardinality(P) :
              Ascending(P)[n] \in P /\ Picked(s, P)[n] = s[Ascending(P)[n]]
<1>1. Len(s) \in Nat /\ P \subseteq Nat /\ IsFiniteSet(P)
  <2>1. Len(s) \in Nat /\ Len(s) \in Int /\ 1 \in Int
    OBVIOUS
  <2>2. IsFiniteSet(1 .. Len(s))
    BY <2>1, FS_Interval
  <2>3. IsFiniteSet(P)
    BY <2>2, FS_Subset
  <2> QED BY <2>1, <2>3
<1> DEFINE a == Ascending(P)
           p == Picked(s, P)
<1>2. /\ DOMAIN a = 1 .. Cardinality(P) /\ Cardinality(P) \in Nat
      /\ \A i \in 1 .. Cardinality(P) : a[i] \in P
      /\ ToSet(a) = P
  BY <1>1, AscendingSeq
<1>3. p = [n \in 1 .. Cardinality(P) |-> s[a[n]]]
  BY <1>2 DEF Picked
<1> HIDE DEF a, p
<1>4. p \in [1 .. Cardinality(P) -> V]
  <2>1. \A n \in 1 .. Len(s) : s[n] \in V
    OBVIOUS
  <2> QED BY <1>2, <1>3, <2>1
<1>5. p \in Seq(V) /\ Len(p) = Cardinality(P) /\ DOMAIN p = 1 .. Cardinality(P)
  BY <1>2, <1>4
<1>6. ToSet(p) = {s[n] : n \in P}
  BY ZenonT(30), <1>2, <1>3, <1>5 DEF ToSet
<1> QED
  BY <1>2, <1>3, <1>5, <1>6 DEF a, p

-----------------------------------------------------------------------------
(* Finite sets.                                                            *)

LEMMA FiniteRange ==
  ASSUME NEW S, IsFiniteSet(S), NEW f, DOMAIN f = S
  PROVE  IsFiniteSet({f[x] : x \in S})
<1> DEFINE T == {f[x] : x \in S}
           g == [x \in S |-> f[x]]
<1>1. g \in [S -> T] /\ \A y \in T : \E x \in S : g[x] = y
  OBVIOUS
<1>2. g \in Surjection(S, T)
  <2> HIDE DEF g, T
  <2> QED BY <1>1 DEF Surjection
<1> QED
  BY <1>2, FS_Surjection

LEMMA FiniteToSet ==
  ASSUME NEW V, NEW s \in Seq(V)
  PROVE  IsFiniteSet(ToSet(s)) /\ ToSet(s) \subseteq V
<1>1. DOMAIN s = 1 .. Len(s) /\ Len(s) \in Nat /\ \A n \in 1 .. Len(s) : s[n] \in V
  OBVIOUS
<1>2. IsFiniteSet(1 .. Len(s))
  BY <1>1, FS_Interval
<1>3. IsFiniteSet({s[n] : n \in 1 .. Len(s)})
  BY <1>1, <1>2, FiniteRange
<1> QED
  BY <1>1, <1>3 DEF ToSet

LEMMA SplitCardinality ==
  ASSUME NEW S, NEW W, IsFiniteSet(S)
  PROVE  /\ IsFiniteSet(S \cap W) /\ IsFiniteSet(S \ W)
         /\ Cardinality(S) \in Nat
         /\ Cardinality(S \cap W) \in Nat /\ Cardinality(S \ W) \in Nat
         /\ Cardinality(S) = Cardinality(S \cap W) + Cardinality(S \ W)
<1>1. IsFiniteSet(S \cap W) /\ IsFiniteSet(S \ W)
  BY FS_Subset
<1>2. /\ Cardinality(S) \in Nat /\ Cardinality(S \cap W) \in Nat
      /\ Cardinality(S \ W) \in Nat
  BY <1>1, FS_CardinalityType
<1>3. Cardinality(S \ W) = Cardinality(S) - Cardinality(S \cap W)
  BY FS_Difference
<1> QED
  BY <1>1, <1>2, <1>3

-----------------------------------------------------------------------------
(* Lists of sets.                                                          *)

(* s has every element of S once, and nothing else.                        *)
Enumerates(s, S) ==
  /\ s \in Seq(S)
  /\ ToSet(s) = S
  /\ \A i, j \in 1 .. Len(s) : s[i] = s[j] => i = j

LEMMA EnumeratedLength ==
  ASSUME NEW s, NEW S, Enumerates(s, S)
  PROVE  /\ Len(s) \in Nat /\ DOMAIN s = 1 .. Len(s)
         /\ IsFiniteSet(S) /\ Cardinality(S) = Len(s)
         /\ \A i \in 1 .. Len(s) : s[i] \in S
         /\ \A x \in S : \E i \in 1 .. Len(s) : s[i] = x
<1>1. /\ Len(s) \in Nat /\ DOMAIN s = 1 .. Len(s)
      /\ \A i \in 1 .. Len(s) : s[i] \in S
  BY DEF Enumerates
<1>2. \A x \in S : \E i \in 1 .. Len(s) : s[i] = x
  BY <1>1 DEF Enumerates, ToSet
<1>3. s \in [1 .. Len(s) -> S]
  BY DEF Enumerates
<1>4. s \in Bijection(1 .. Len(s), S)
  BY <1>2, <1>3 DEF Enumerates, Bijection, Injection, Surjection, IsInjective
<1>5. ExistsBijection(1 .. Len(s), S)
  BY <1>4 DEF ExistsBijection
<1>6. IsFiniteSet(1 .. Len(s)) /\ Cardinality(1 .. Len(s)) = Len(s)
  <2>1. 1 \in Int /\ Len(s) \in Int /\ Len(s) >= 0
    BY <1>1
  <2>2. /\ IsFiniteSet(1 .. Len(s))
        /\ Cardinality(1 .. Len(s)) = IF 1 > Len(s) THEN 0 ELSE Len(s) - 1 + 1
    BY <2>1, FS_Interval
  <2> QED BY <2>1, <2>2
<1>7. IsFiniteSet(S) /\ Cardinality(S) = Len(s)
  BY <1>5, <1>6, FS_Bijection
<1> QED
  BY <1>1, <1>2, <1>7

LEMMA AscendingEnumerates ==
  ASSUME NEW P, P \subseteq Nat, IsFiniteSet(P)
  PROVE  Enumerates(Ascending(P), P)
<1> DEFINE s == Ascending(P)
<1>1. /\ s \in Seq(P) /\ Len(s) = Cardinality(P) /\ Cardinality(P) \in Nat
      /\ ToSet(s) = P
      /\ \A i, j \in 1 .. Cardinality(P) : i < j => s[i] < s[j]
      /\ \A i \in 1 .. Cardinality(P) : s[i] \in P
  BY AscendingSeq
<1> HIDE DEF s
<1>2. ASSUME NEW i \in 1 .. Len(s), NEW j \in 1 .. Len(s), s[i] = s[j]
      PROVE  i = j
  <2>1. s[i] \in Nat /\ s[j] \in Nat
    BY <1>1
  <2>2. ~ i < j /\ ~ j < i
    BY <1>1, <1>2, <2>1
  <2> QED BY <1>1, <2>2
<1>3. Enumerates(s, P)
  BY <1>1, <1>2 DEF Enumerates
<1> QED
  BY <1>3 DEF s

LEMMA ConcatSeqs ==
  ASSUME NEW V, NEW s \in Seq(V), NEW t \in Seq(V)
  PROVE  /\ s \o t \in Seq(V)
         /\ Len(s \o t) = Len(s) + Len(t) /\ Len(s) \in Nat /\ Len(t) \in Nat
         /\ DOMAIN (s \o t) = 1 .. Len(s) + Len(t)
         /\ \A i \in 1 .. Len(s) : (s \o t)[i] = s[i]
         /\ \A i \in 1 .. Len(t) : (s \o t)[Len(s) + i] = t[i]
         /\ \A i \in Len(s) + 1 .. Len(s) + Len(t) :
              i - Len(s) \in 1 .. Len(t) /\ (s \o t)[i] = t[i - Len(s)]
         /\ ToSet(s \o t) = ToSet(s) \cup ToSet(t)
<1> DEFINE u == s \o t
<1>1. /\ u \in Seq(V)
      /\ Len(u) = Len(s) + Len(t) /\ Len(s) \in Nat /\ Len(t) \in Nat
      /\ DOMAIN u = 1 .. Len(s) + Len(t)
      /\ DOMAIN s = 1 .. Len(s) /\ DOMAIN t = 1 .. Len(t)
      /\ \A i \in 1 .. Len(s) + Len(t) :
           u[i] = IF i <= Len(s) THEN s[i] ELSE t[i - Len(s)]
  BY ConcatProperties, LenProperties
<1> HIDE DEF u
<1>2. \A i \in 1 .. Len(s) : u[i] = s[i]
  BY <1>1
<1>3. \A i \in Len(s) + 1 .. Len(s) + Len(t) :
        i - Len(s) \in 1 .. Len(t) /\ u[i] = t[i - Len(s)]
  BY <1>1
<1>4. \A i \in 1 .. Len(t) : u[Len(s) + i] = t[i]
  <2> SUFFICES ASSUME NEW i \in 1 .. Len(t) PROVE u[Len(s) + i] = t[i]
    OBVIOUS
  <2>1. Len(s) + i \in Len(s) + 1 .. Len(s) + Len(t) /\ Len(s) + i - Len(s) = i
    BY <1>1
  <2> QED BY <1>3, <2>1
<1>5. ToSet(u) = ToSet(s) \cup ToSet(t)
  <2>1. ASSUME NEW x \in ToSet(u)
        PROVE  x \in ToSet(s) \cup ToSet(t)
    <3>1. PICK i \in 1 .. Len(s) + Len(t) : x = u[i]
      BY <1>1, <2>1 DEF ToSet
    <3>2. CASE i \in 1 .. Len(s)
      BY <1>1, <1>2, <3>1, <3>2 DEF ToSet
    <3>3. CASE i \in Len(s) + 1 .. Len(s) + Len(t)
      BY <1>1, <1>3, <3>1, <3>3 DEF ToSet
    <3> QED BY <1>1, <3>1, <3>2, <3>3
  <2>2. ASSUME NEW x \in ToSet(s)
        PROVE  x \in ToSet(u)
    BY <1>1, <1>2, <2>2 DEF ToSet
  <2>3. ASSUME NEW x \in ToSet(t)
        PROVE  x \in ToSet(u)
    <3>1. PICK i \in 1 .. Len(t) : x = t[i]
      BY <1>1, <2>3 DEF ToSet
    <3>2. Len(s) + i \in 1 .. Len(s) + Len(t)
      BY <1>1
    <3> QED BY <1>1, <1>4, <3>1, <3>2 DEF ToSet
  <2> QED BY <2>1, <2>2, <2>3
<1> QED
  BY <1>1, <1>2, <1>3, <1>4, <1>5 DEF u

LEMMA ConcatEnumerates ==
  ASSUME NEW s, NEW S, NEW t, NEW T,
         Enumerates(s, S), Enumerates(t, T), S \cap T = {}
  PROVE  Enumerates(s \o t, S \cup T)
<1> DEFINE u == s \o t
<1>1. /\ s \in Seq(S \cup T) /\ t \in Seq(S \cup T)
      /\ ToSet(s) = S /\ ToSet(t) = T
  BY SeqMonotonic DEF Enumerates
<1>2. /\ u \in Seq(S \cup T) /\ ToSet(u) = S \cup T
      /\ Len(u) = Len(s) + Len(t) /\ Len(s) \in Nat /\ Len(t) \in Nat
      /\ \A i \in 1 .. Len(s) : u[i] = s[i]
      /\ \A i \in Len(s) + 1 .. Len(s) + Len(t) :
           i - Len(s) \in 1 .. Len(t) /\ u[i] = t[i - Len(s)]
  BY <1>1, ConcatSeqs
<1> HIDE DEF u
<1>3. /\ \A i \in 1 .. Len(s) : s[i] \in S
      /\ \A i \in 1 .. Len(t) : t[i] \in T
      /\ \A i, j \in 1 .. Len(s) : s[i] = s[j] => i = j
      /\ \A i, j \in 1 .. Len(t) : t[i] = t[j] => i = j
  BY EnumeratedLength DEF Enumerates
<1>4. ASSUME NEW i \in 1 .. Len(u), NEW j \in 1 .. Len(u), u[i] = u[j]
      PROVE  i = j
  <2>1. CASE i \in 1 .. Len(s) /\ j \in 1 .. Len(s)
    BY <1>2, <1>3, <1>4, <2>1
  <2>2. CASE i \in Len(s) + 1 .. Len(s) + Len(t) /\ j \in Len(s) + 1 .. Len(s) + Len(t)
    <3>1. i - Len(s) = j - Len(s)
      BY <1>2, <1>3, <1>4, <2>2
    <3> QED BY <1>2, <3>1
  <2>3. CASE i \in 1 .. Len(s) /\ j \in Len(s) + 1 .. Len(s) + Len(t)
    BY <1>2, <1>3, <1>4, <2>3
  <2>4. CASE i \in Len(s) + 1 .. Len(s) + Len(t) /\ j \in 1 .. Len(s)
    BY <1>2, <1>3, <1>4, <2>4
  <2> QED BY <1>2, <2>1, <2>2, <2>3, <2>4
<1>5. Enumerates(u, S \cup T)
  BY <1>2, <1>4 DEF Enumerates
<1> QED
  BY <1>5 DEF u


(* A sum of the first numbers of a list, defined from the one before.      *)
LEMMA SumsExist ==
  ASSUME NEW N \in Nat, NEW g
  PROVE  \E f : f = [n \in 0 .. N |-> IF n = 0 THEN 0 ELSE f[n - 1] + g[n]]
<1> DEFINE T == {k \in Nat : \E f : f = [n \in 0 .. k |-> IF n = 0 THEN 0 ELSE f[n - 1] + g[n]]}
<1>1. 0 \in T
  <2> DEFINE f == [n \in 0 .. 0 |-> 0]
  <2>1. f = [n \in 0 .. 0 |-> IF n = 0 THEN 0 ELSE f[n - 1] + g[n]]
    OBVIOUS
  <2> HIDE DEF f
  <2> QED BY <2>1
<1>2. ASSUME NEW k \in Nat, k \in T
      PROVE  k + 1 \in T
  <2>1. PICK f : f = [n \in 0 .. k |-> IF n = 0 THEN 0 ELSE f[n - 1] + g[n]]
    BY <1>2
  <2> DEFINE h == [n \in 0 .. k + 1 |-> IF n <= k THEN f[n] ELSE f[k] + g[k + 1]]
  <2>2. ASSUME NEW n \in 0 .. k + 1
        PROVE  h[n] = IF n = 0 THEN 0 ELSE h[n - 1] + g[n]
    <3>1. CASE n = 0
      <4>1. h[n] = f[0]
        BY <3>1
      <4>2. f[0] = 0
        BY <2>1
      <4> QED BY <3>1, <4>1, <4>2
    <3>2. CASE n \in 1 .. k
      <4>1. h[n] = f[n] /\ h[n - 1] = f[n - 1]
        BY <3>2
      <4>2. f[n] = f[n - 1] + g[n]
        BY <2>1, <3>2
      <4> QED BY <3>2, <4>1, <4>2
    <3>3. CASE n = k + 1
      <4>1. h[n] = f[k] + g[k + 1] /\ h[n - 1] = f[k]
        BY <3>3
      <4> QED BY <3>3, <4>1
    <3> QED BY <3>1, <3>2, <3>3
  <2>3. h = [n \in 0 .. k + 1 |-> IF n = 0 THEN 0 ELSE h[n - 1] + g[n]]
    <3>1. h = [n \in 0 .. k + 1 |-> h[n]]
      OBVIOUS
    <3> HIDE DEF h
    <3> QED BY <2>2, <3>1
  <2> HIDE DEF h
  <2> QED BY <2>3
<1> HIDE DEF T
<1>3. Nat \subseteq T
  BY <1>1, <1>2, SetInduction
<1> QED BY <1>3 DEF T

(* The powers of two, counted as the subsets of 1 .. n.                    *)
LEMMA PowerOfNought == 2^0 = 1
<1>1. IsFiniteSet({}) /\ Cardinality({}) = 0
  BY FS_EmptySet
<1>2. Cardinality(SUBSET {}) = 2^Cardinality({})
  BY <1>1, FS_SUBSET
<1>3. Cardinality({{}}) = 1
  BY FS_Singleton
<1>4. SUBSET {} = {{}}
  OBVIOUS
<1> QED BY <1>1, <1>2, <1>3, <1>4

LEMMA PowerDoubles ==
  ASSUME NEW n \in Nat
  PROVE  2^n \in Nat /\ 2^(n + 1) = 2 * 2^n
<1> DEFINE A == 1 .. n
           S == SUBSET A
           T == {x \in SUBSET (1 .. n + 1) : n + 1 \in x}
           f == [x \in S |-> x \cup {n + 1}]
<1>1. /\ IsFiniteSet(1 .. n) /\ Cardinality(1 .. n) = n
      /\ IsFiniteSet(1 .. n + 1) /\ Cardinality(1 .. n + 1) = n + 1
  BY FS_Interval
<1>2. IsFiniteSet(S) /\ Cardinality(S) = 2^n
  BY <1>1, FS_SUBSET
<1>3. Cardinality(SUBSET (1 .. n + 1)) = 2^(n + 1)
  BY <1>1, FS_SUBSET
<1>4. f \in Bijection(S, T)
  <2>0. \A x \in S : n + 1 \notin x
    OBVIOUS
  <2>1. f \in [S -> T]
    <3>1. \A x \in S : x \cup {n + 1} \in T
      OBVIOUS
    <3> QED BY <3>1
  <2>2. \A x, y \in S : f[x] = f[y] => x = y
    <3> SUFFICES ASSUME NEW x \in S, NEW y \in S, f[x] = f[y] PROVE x = y
      OBVIOUS
    <3>1. x \cup {n + 1} = y \cup {n + 1} /\ n + 1 \notin x /\ n + 1 \notin y
      BY <2>0
    <3> HIDE DEF f, S
    <3>2. \A z : z \in x <=> z \in y
      BY <3>1
    <3> QED BY <3>2
  <2>3. \A y \in T : \E x \in S : f[x] = y
    <3> SUFFICES ASSUME NEW y \in T PROVE \E x \in S : f[x] = y
      OBVIOUS
    <3>1. y \ {n + 1} \in S
      <4>1. \A z \in 1 .. n + 1 : z # n + 1 => z \in 1 .. n
        OBVIOUS
      <4> QED BY <4>1
    <3>2. (y \ {n + 1}) \cup {n + 1} = y
      OBVIOUS
    <3>3. f[y \ {n + 1}] = y
      BY <3>1, <3>2
    <3> QED BY <3>1, <3>3
  <2> HIDE DEF f, S, T
  <2> QED BY <2>1, <2>2, <2>3 DEF Bijection, Injection, Surjection, IsInjective
<1>5. IsFiniteSet(T) /\ Cardinality(T) = Cardinality(S)
  BY <1>2, <1>4, FS_Bijection DEF ExistsBijection
<1>6. SUBSET (1 .. n + 1) = S \cup T /\ S \cap T = {}
  <2>1. ASSUME NEW x \in SUBSET (1 .. n + 1), n + 1 \notin x PROVE x \in S
    <3>1. \A z \in 1 .. n + 1 : z # n + 1 => z \in 1 .. n
      OBVIOUS
    <3> QED BY <2>1, <3>1
  <2>2. 1 .. n \subseteq 1 .. n + 1 /\ n + 1 \notin 1 .. n
    OBVIOUS
  <2>3. S \subseteq SUBSET (1 .. n + 1) /\ S \cap T = {}
    BY <2>2
  <2> QED BY <2>1, <2>3
<1> HIDE DEF S, T
<1>7. Cardinality(S \cup T) = Cardinality(S) + Cardinality(T) - Cardinality(S \cap T)
  BY <1>2, <1>5, FS_Union
<1>8. Cardinality(S) \in Nat /\ Cardinality({}) = 0
  BY <1>2, FS_CardinalityType, FS_EmptySet
<1>9. 2^n \in Nat
  BY <1>2, <1>8
<1>10. 2^(n + 1) = 2^n + 2^n
  <2>1. Cardinality(S \cup T) = 2^(n + 1) /\ Cardinality(S \cap T) = 0
    BY <1>3, <1>6, <1>8
  <2>2. Cardinality(S) = 2^n /\ Cardinality(T) = 2^n
    BY <1>2, <1>5
  <2> QED BY <1>7, <1>9, <2>1, <2>2
<1> QED BY <1>9, <1>10

LEMMA PowersAscend ==
  ASSUME NEW m \in Nat, NEW n \in Nat, m <= n
  PROVE  1 <= 2^m /\ 2^m <= 2^n
<1> DEFINE T == {k \in Nat : 2^m <= 2^(m + k)}
           U == {k \in Nat : 1 <= 2^k}
<1>1. 0 \in T
  BY PowerDoubles
<1>2. ASSUME NEW k \in Nat, k \in T PROVE k + 1 \in T
  <2>1. m + k \in Nat /\ (m + k) + 1 = m + (k + 1)
    OBVIOUS
  <2>2. 2^(m + k) \in Nat /\ 2^((m + k) + 1) = 2 * 2^(m + k) /\ 2^m \in Nat
    BY <2>1, PowerDoubles
  <2> QED BY <1>2, <2>1, <2>2
<1>3. 0 \in U
  BY PowerOfNought
<1>4. ASSUME NEW k \in Nat, k \in U PROVE k + 1 \in U
  <2>1. 2^k \in Nat /\ 2^(k + 1) = 2 * 2^k
    BY PowerDoubles
  <2> QED BY <1>4, <2>1
<1> HIDE DEF T, U
<1>5. Nat \subseteq T /\ Nat \subseteq U
  BY <1>1, <1>2, <1>3, <1>4, SetInduction
<1>6. n - m \in T /\ m \in U /\ m + (n - m) = n
  BY <1>5
<1> QED BY <1>6 DEF T, U

(* Every number is between two powers of two.                              *)
LEMMA PowerAbove ==
  ASSUME NEW K \in Nat, NEW n \in Nat, 1 <= n, n <= 2^K
  PROVE  \E k \in 0 .. K : n <= 2^k /\ (k = 0 \/ 2^(k - 1) < n)
<1> DEFINE P == {k \in Nat : n <= 2^k}
<1>1. P \subseteq Nat /\ P # {}
  OBVIOUS
<1>2. PICK k \in P : \A j \in P : k <= j
  BY <1>1, LeastOf
<1>3. k \in 0 .. K /\ n <= 2^k
  BY <1>2
<1>4. k # 0 => 2^(k - 1) < n
  <2> SUFFICES ASSUME k # 0 PROVE 2^(k - 1) < n
    OBVIOUS
  <2>1. k - 1 \in Nat /\ ~ (k <= k - 1)
    BY <1>3
  <2>2. ~ (n <= 2^(k - 1))
    BY <1>2, <2>1
  <2>3. 2^(k - 1) \in Nat
    BY <2>1, PowerDoubles
  <2> QED BY <2>2, <2>3
<1> QED BY <1>3, <1>4

(* The elements at some places, each different, are listed once each.      *)
LEMMA PickedEnumerates ==
  ASSUME NEW s, NEW S, Enumerates(s, S), NEW P \in SUBSET (1 .. Len(s))
  PROVE  Enumerates(Picked(s, P), {s[n] : n \in P})
<1> DEFINE p == Picked(s, P)
           a == Ascending(P)
           E == {s[n] : n \in P}
<1>1. Len(s) \in Nat /\ \A i, j \in 1 .. Len(s) : s[i] = s[j] => i = j
  BY EnumeratedLength DEF Enumerates
<1>2. s \in Seq(S)
  BY DEF Enumerates
<1>3. P \subseteq Nat /\ IsFiniteSet(P)
  <2>1. IsFiniteSet(1 .. Len(s))
    BY <1>1, FS_Interval
  <2>2. IsFiniteSet(P)
    BY <2>1, FS_Subset
  <2>3. P \subseteq Nat
    BY <1>1
  <2> QED BY <2>2, <2>3
<1>4. /\ p \in Seq(S) /\ Len(p) = Cardinality(P) /\ Cardinality(P) \in Nat
      /\ ToSet(p) = E
      /\ \A n \in 1 .. Cardinality(P) : a[n] \in P /\ p[n] = s[a[n]]
  BY <1>2, PickedSeq
<1>5. \A i, j \in 1 .. Cardinality(P) : i < j => a[i] < a[j]
  BY <1>3, AscendingSeq
<1> HIDE DEF p, a
<1>6. p \in Seq(E)
  <2>1. \A n \in 1 .. Len(p) : p[n] \in E
    BY <1>4
  <2> HIDE DEF E
  <2> QED BY <1>4, <2>1
<1>7. ASSUME NEW i \in 1 .. Len(p), NEW j \in 1 .. Len(p), p[i] = p[j]
      PROVE  i = j
  <2>1. a[i] \in P /\ a[j] \in P /\ s[a[i]] = s[a[j]]
    BY <1>4, <1>7
  <2>2. a[i] = a[j]
    BY <1>1, <2>1
  <2>3. i \in 1 .. Cardinality(P) /\ j \in 1 .. Cardinality(P) /\ a[i] \in Nat
    BY <1>3, <1>4, <2>1
  <2>4. i < j => a[i] < a[j]
    BY <1>5, <2>3
  <2>5. j < i => a[j] < a[i]
    BY <1>5, <2>3
  <2>6. ~ (i < j) /\ ~ (j < i)
    BY <2>2, <2>3, <2>4, <2>5
  <2> QED BY <1>4, <2>3, <2>6
<1> QED
  BY <1>4, <1>6, <1>7 DEF Enumerates, p

LEMMA ConcatToSet ==
  ASSUME NEW V, NEW s \in Seq(V), NEW t \in Seq(V)
  PROVE  ToSet(s \o t) = ToSet(s) \cup ToSet(t) /\ ToSet(s \o t) \subseteq V
<1> DEFINE u == s \o t
<1>1. /\ u \in Seq(V) /\ Len(s) \in Nat /\ Len(t) \in Nat
      /\ DOMAIN u = 1 .. Len(s) + Len(t)
      /\ \A i \in 1 .. Len(s) : u[i] = s[i]
      /\ \A i \in 1 .. Len(t) : u[Len(s) + i] = t[i]
  BY ConcatSeqs
<1>2. DOMAIN s = 1 .. Len(s) /\ DOMAIN t = 1 .. Len(t)
  OBVIOUS
<1> HIDE DEF u
<1>3. ToSet(u) \subseteq V
  BY <1>1 DEF ToSet
<1>4. ASSUME NEW x \in ToSet(u) PROVE x \in ToSet(s) \cup ToSet(t)
  <2>1. PICK i \in 1 .. Len(s) + Len(t) : u[i] = x
    BY <1>1 DEF ToSet
  <2>2. CASE i <= Len(s)
    BY <1>1, <1>2, <2>1, <2>2 DEF ToSet
  <2>3. CASE ~ (i <= Len(s))
    <3>1. i - Len(s) \in 1 .. Len(t) /\ Len(s) + (i - Len(s)) = i
      BY <1>1, <2>3
    <3>2. t[i - Len(s)] = x
      BY <1>1, <2>1, <3>1
    <3> QED BY <1>2, <3>1, <3>2 DEF ToSet
  <2> QED BY <2>2, <2>3
<1>5. ToSet(s) \subseteq ToSet(u)
  <2>1. \A i \in 1 .. Len(s) : i \in DOMAIN u
    BY <1>1
  <2> QED BY <1>1, <1>2, <2>1 DEF ToSet
<1>6. ASSUME NEW x \in ToSet(t) PROVE x \in ToSet(u)
  <2>1. PICK i \in 1 .. Len(t) : t[i] = x
    BY <1>2 DEF ToSet
  <2>2. Len(s) + i \in DOMAIN u /\ u[Len(s) + i] = x
    BY <1>1, <2>1
  <2> QED BY <2>2 DEF ToSet
<1> QED BY <1>3, <1>4, <1>5, <1>6 DEF u

(* A place of s \o t is one of s, or one of t behind s.                    *)
LEMMA PlaceInConcat ==
  ASSUME NEW V, NEW s \in Seq(V), NEW t \in Seq(V), NEW i \in 1 .. Len(s \o t)
  PROVE  \/ i \in 1 .. Len(s) /\ (s \o t)[i] = s[i]
         \/ i - Len(s) \in 1 .. Len(t) /\ (s \o t)[i] = t[i - Len(s)]
<1>1. CASE i <= Len(s)
  BY <1>1, ConcatSeqs
<1>2. CASE ~ (i <= Len(s))
  <2>1. i - Len(s) \in 1 .. Len(t) /\ Len(s) + (i - Len(s)) = i
    BY <1>2, ConcatSeqs
  <2> QED BY <2>1, ConcatSeqs
<1> QED BY <1>1, <1>2

-----------------------------------------------------------------------------
(* FlattenSeq: the concatenations it goes through exist, and one more list *)
(* at the end goes behind what there is.                                   *)
LEMMA RunsExist ==
  ASSUME NEW N \in Nat, NEW s
  PROVE  \E f : f = [i \in 1 .. N |-> IF i = 1 THEN s[i] ELSE f[i - 1] \o s[i]]
<1> DEFINE Run(f, k) == f = [i \in 1 .. k |-> IF i = 1 THEN s[i] ELSE f[i - 1] \o s[i]]
           T == {k \in Nat : \E f : Run(f, k)}
<1>1. 0 \in T
  <2> DEFINE f == [i \in 1 .. 0 |-> s[i]]
  <2>1. Run(f, 0)
    OBVIOUS
  <2> HIDE DEF f, Run
  <2> QED BY <2>1
<1>2. ASSUME NEW k \in Nat, k \in T
      PROVE  k + 1 \in T
  <2>1. PICK f : Run(f, k)
    BY <1>2
  <2> DEFINE h == [i \in 1 .. k + 1 |->
                     IF i <= k THEN f[i] ELSE IF i = 1 THEN s[i] ELSE f[k] \o s[i]]
  <2>2. ASSUME NEW i \in 1 .. k + 1
        PROVE  h[i] = IF i = 1 THEN s[i] ELSE h[i - 1] \o s[i]
    <3>1. CASE i <= k
      <4>1. i \in 1 .. k /\ h[i] = f[i] /\ (i # 1 => h[i - 1] = f[i - 1])
        BY <3>1
      <4>2. f[i] = IF i = 1 THEN s[i] ELSE f[i - 1] \o s[i]
        BY <2>1, <4>1
      <4> HIDE DEF h, Run
      <4> QED BY <4>1, <4>2
    <3>2. CASE i = k + 1
      <4>1. h[i] = IF i = 1 THEN s[i] ELSE f[k] \o s[i]
        BY <3>2
      <4>2. i # 1 => h[i - 1] = f[k]
        BY <3>2
      <4> HIDE DEF h, Run
      <4> QED BY <4>1, <4>2
    <3> QED BY <3>1, <3>2
  <2>3. Run(h, k + 1)
    <3>1. h = [i \in 1 .. k + 1 |-> h[i]]
      OBVIOUS
    <3> HIDE DEF h
    <3> QED BY <2>2, <3>1
  <2> HIDE DEF h, Run
  <2> QED BY <2>3
<1> HIDE DEF T
<1>3. Nat \subseteq T
  BY <1>1, <1>2, SetInduction
<1>4. N \in T
  BY <1>3
<1> QED BY <1>4 DEF T, Run

Flattens(f, s, V) ==
  /\ FlattenSeq(s) = f[Len(s)]
  /\ f[1] = s[1]
  /\ \A i \in 2 .. Len(s) : f[i] = f[i - 1] \o s[i]
  /\ \A i \in 1 .. Len(s) : f[i] \in Seq(V)

LEMMA Flattening ==
  ASSUME NEW V, NEW s \in Seq(Seq(V)), s # <<>>
  PROVE  \E f : Flattens(f, s, V)
<1>1. Len(s) \in Nat /\ Len(s) # 0
  BY EmptySeq
<1> DEFINE f == CHOOSE g : g = [i \in 1 .. Len(s) |->
                                  IF i = 1 THEN s[i] ELSE g[i - 1] \o s[i]]
<1>2. FlattenSeq(s) = f[Len(s)]
  BY <1>1 DEF FlattenSeq
<1>3. f = [i \in 1 .. Len(s) |-> IF i = 1 THEN s[i] ELSE f[i - 1] \o s[i]]
  BY <1>1, RunsExist
<1> HIDE DEF f
<1>4. f[1] = s[1] /\ \A i \in 2 .. Len(s) : f[i] = f[i - 1] \o s[i]
  <2>1. \A i \in 1 .. Len(s) : f[i] = IF i = 1 THEN s[i] ELSE f[i - 1] \o s[i]
    BY <1>3
  <2>2. 1 \in 1 .. Len(s)
    BY <1>1
  <2>3. f[1] = s[1]
    BY <2>1, <2>2
  <2>4. ASSUME NEW i \in 2 .. Len(s)
        PROVE  f[i] = f[i - 1] \o s[i]
    <3>1. i \in 1 .. Len(s) /\ i # 1
      BY <1>1
    <3> QED BY <2>1, <3>1
  <2> QED BY <2>3, <2>4
<1> DEFINE T == {k \in Nat : k + 1 <= Len(s) => f[k + 1] \in Seq(V)}
<1>5. 0 \in T
  BY <1>1, <1>4
<1>6. ASSUME NEW k \in Nat, k \in T
      PROVE  k + 1 \in T
  <2>1. CASE (k + 1) + 1 <= Len(s)
    <3>1. f[k + 1] \in Seq(V)
      BY <1>1, <1>6, <2>1
    <3>2. (k + 1) + 1 \in 2 .. Len(s) /\ ((k + 1) + 1) - 1 = k + 1
      BY <1>1, <2>1
    <3>3. f[(k + 1) + 1] = f[k + 1] \o s[(k + 1) + 1]
      BY <1>4, <3>2
    <3>4. s[(k + 1) + 1] \in Seq(V)
      BY <3>2
    <3>5. f[k + 1] \o s[(k + 1) + 1] \in Seq(V)
      BY <3>1, <3>4, ConcatSeqs
    <3>6. f[(k + 1) + 1] \in Seq(V)
      BY <3>3, <3>5
    <3> QED BY <3>6
  <2>2. CASE ~ ((k + 1) + 1 <= Len(s))
    BY <2>2
  <2> QED BY <2>1, <2>2
<1> HIDE DEF T
<1>7. Nat \subseteq T
  BY <1>5, <1>6, SetInduction
<1>8. ASSUME NEW i \in 1 .. Len(s)
      PROVE  f[i] \in Seq(V)
  <2>1. i - 1 \in T /\ (i - 1) + 1 = i
    BY <1>1, <1>7
  <2> QED BY <1>1, <2>1 DEF T
<1> QED BY <1>2, <1>4, <1>8 DEF Flattens

LEMMA FlattenNothing == FlattenSeq(<<>>) = <<>>
  BY DEF FlattenSeq

LEMMA FlattenType ==
  ASSUME NEW V, NEW s \in Seq(Seq(V))
  PROVE  FlattenSeq(s) \in Seq(V)
<1>1. CASE s = <<>>
  <2>1. <<>> \in Seq(V)
    OBVIOUS
  <2> QED BY <1>1, <2>1, FlattenNothing
<1>2. CASE s # <<>>
  <2>1. Len(s) \in 1 .. Len(s)
    BY <1>2, EmptySeq
  <2> QED BY <1>2, <2>1, Flattening DEF Flattens
<1> QED BY <1>1, <1>2

LEMMA FlattenAppend ==
  ASSUME NEW V, NEW s \in Seq(Seq(V)), NEW x \in Seq(V)
  PROVE  FlattenSeq(Append(s, x)) = FlattenSeq(s) \o x
<1> DEFINE t == Append(s, x)
           N == Len(s)
<1>1. /\ t \in Seq(Seq(V)) /\ t # <<>> /\ Len(t) = N + 1 /\ N \in Nat
      /\ t[N + 1] = x /\ \A i \in 1 .. N : t[i] = s[i]
  <2>1. t \in Seq(Seq(V)) /\ Len(t) = N + 1 /\ N \in Nat
    BY AppendProperties
  <2>2. t[N + 1] = x /\ \A i \in 1 .. N : t[i] = s[i]
    BY AppendProperties
  <2>3. t # <<>>
    <3> HIDE DEF t
    <3> QED BY <2>1, EmptySeq
  <2> QED BY <2>1, <2>2, <2>3
<1> HIDE DEF t
<1>2. /\ \E g : Flattens(g, t, V)
      /\ s # <<>> => \E f : Flattens(f, s, V)
  BY <1>1, Flattening
<1>5. PICK g : /\ FlattenSeq(t) = g[Len(t)]
               /\ g[1] = t[1]
               /\ \A i \in 2 .. Len(t) : g[i] = g[i - 1] \o t[i]
  BY <1>2 DEF Flattens
<1>3. CASE s = <<>>
  <2>1. FlattenSeq(t) = x
    BY <1>1, <1>5, <1>3
  <2>2. FlattenSeq(s) = <<>> /\ <<>> \o x = x
    BY <1>3, FlattenNothing
  <2> QED BY <2>1, <2>2 DEF t
<1>4. CASE s # <<>>
  <2>1. PICK f : /\ FlattenSeq(s) = f[N]
                 /\ f[1] = s[1]
                 /\ \A i \in 2 .. N : f[i] = f[i - 1] \o s[i]
    BY <1>2, <1>4 DEF Flattens
  <2>2. N # 0
    BY <1>4, EmptySeq
  <2> DEFINE T == {k \in Nat : k + 1 <= N => g[k + 1] = f[k + 1]}
  <2>3. 0 \in T
    BY <1>1, <1>5, <2>1, <2>2
  <2>4. ASSUME NEW k \in Nat, k \in T
        PROVE  k + 1 \in T
    <3>1. CASE (k + 1) + 1 <= N
      <4>1. /\ (k + 1) + 1 \in 2 .. N /\ (k + 1) + 1 \in 2 .. Len(t)
            /\ ((k + 1) + 1) - 1 = k + 1
        BY <1>1, <3>1
      <4>2. g[k + 1] = f[k + 1] /\ t[(k + 1) + 1] = s[(k + 1) + 1]
        BY <1>1, <2>4, <3>1, <4>1
      <4>3. g[(k + 1) + 1] = g[k + 1] \o t[(k + 1) + 1]
        BY <1>5, <4>1
      <4>4. f[(k + 1) + 1] = f[k + 1] \o s[(k + 1) + 1]
        BY <2>1, <4>1
      <4>5. g[(k + 1) + 1] = f[(k + 1) + 1]
        BY <4>2, <4>3, <4>4
      <4> QED BY <4>5
    <3>2. CASE ~ ((k + 1) + 1 <= N)
      BY <3>2
    <3> QED BY <3>1, <3>2
  <2> HIDE DEF T
  <2>5. Nat \subseteq T
    BY <2>3, <2>4, SetInduction
  <2>6. g[N] = f[N]
    <3>1. N - 1 \in T /\ (N - 1) + 1 = N
      BY <1>1, <2>2, <2>5
    <3> QED BY <1>1, <3>1 DEF T
  <2>7. g[N + 1] = g[N] \o x
    <3>1. N + 1 \in 2 .. Len(t) /\ (N + 1) - 1 = N
      BY <1>1, <2>2
    <3> QED BY <1>1, <1>5, <3>1
  <2> QED BY <1>1, <1>5, <2>1, <2>6, <2>7 DEF t
<1> QED BY <1>3, <1>4

-----------------------------------------------------------------------------
(* Three lists in a row.                                                   *)
LEMMA ThreeInARow ==
  ASSUME NEW V, NEW s \in Seq(V), NEW t \in Seq(V), NEW u \in Seq(V)
  PROVE  /\ s \o t \o u \in Seq(V)
         /\ Len(s) \in Nat /\ Len(t) \in Nat /\ Len(u) \in Nat
         /\ Len(s \o t \o u) = Len(s) + Len(t) + Len(u)
         /\ \A i \in 1 .. Len(s) : (s \o t \o u)[i] = s[i]
         /\ ToSet(s \o t \o u) = ToSet(s) \cup ToSet(t) \cup ToSet(u)
<1> DEFINE p == s \o t
           q == p \o u
<1>1. /\ p \in Seq(V) /\ Len(p) = Len(s) + Len(t)
      /\ Len(s) \in Nat /\ Len(t) \in Nat
      /\ \A i \in 1 .. Len(s) : p[i] = s[i]
      /\ ToSet(p) = ToSet(s) \cup ToSet(t)
  BY ConcatSeqs
<1> HIDE DEF p
<1>2. /\ q \in Seq(V) /\ Len(q) = Len(p) + Len(u) /\ Len(u) \in Nat
      /\ \A i \in 1 .. Len(p) : q[i] = p[i]
      /\ ToSet(q) = ToSet(p) \cup ToSet(u)
  <2>1. p \in Seq(V)
    BY <1>1
  <2> QED BY <2>1, ConcatSeqs
<1> HIDE DEF q
<1>3. \A i \in 1 .. Len(s) : i \in 1 .. Len(p)
  BY <1>1
<1>4. s \o t \o u = q
  BY DEF p, q
<1> QED BY <1>1, <1>2, <1>3, <1>4

LEMMA ElementListed ==
  ASSUME NEW V, NEW s \in Seq(V), NEW n \in 1 .. Len(s)
  PROVE  s[n] \in ToSet(s) /\ n \in DOMAIN s
  BY DEF ToSet
=============================================================================
