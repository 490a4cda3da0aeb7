----------------------- MODULE InstructionBuilderProofs -----------------------
(***************************************************************************)
(* Proofs about InstructionBuilder: what validation means for an           *)
(* instruction in a transaction, and that decoding leads back to what was  *)
(* built, for any packages that satisfy PackagesAssumption and any number  *)
(* of calls.  That the packages of the repository satisfy it, TLC checks.  *)
(***************************************************************************)
EXTENDS InstructionBuilder, DataLemmas

(* An account list for these roles: every place holds its role's account,  *)
(* or is still empty; the last may have passed its signature on to         *)
(* co-signers, and nothing but co-signers follows.                         *)
Filled(s, roles, m) ==
  \/ s[m] = roles[m]
  \/ m = Len(roles) /\ s[m] = Plain(roles[m]) /\ Len(s) > Len(roles)

Cosigner(a) == a.signer /\ ~ a.writable

InPlace(s, roles) ==
  /\ s \in Seq(Slot)
  /\ Len(s) >= Len(roles)
  /\ \A m \in 1 .. Len(roles) : s[m] = Missing \/ Filled(s, roles, m)
  /\ \A m \in Len(roles) + 1 .. Len(s) : Cosigner(s[m])

Whole(s) == \A m \in DOMAIN s : s[m] # Missing

(* kd is what was meant, or carries it.                                    *)
Means(kd, carried, m) ==
  IF carried = NoKind THEN kd = m
  ELSE carried = m /\ kd = Packages[m.package].outer

EntryInv(e) ==
  /\ e.meant \in BuilderKinds /\ e.kind \in BuilderKinds
  /\ Means(e.kind, e.carries, e.meant)
  /\ ~ e.gapped /\ ~ e.missing => InPlace(e.accounts, Roles(e.meant)) /\ Whole(e.accounts)
  /\ (e.checked \/ e.carries # NoKind) /\ ~ e.gapped => ~ e.missing

ObjectInv ==
  /\ meant \in BuilderKinds /\ kind \in BuilderKinds
  /\ Means(kind, carries, meant)
  /\ ~ gapped => InPlace(slots, Roles(meant))
  /\ (held.checked \/ carries # NoKind) /\ ~ gapped => Whole(slots)
  /\ ~ running => gapped \/ Incomplete

AddedInv ==
  /\ added \in Seq(ToSet(added))
  /\ \A n \in DOMAIN added : EntryInv(added[n])

BuilderInv == ObjectInv /\ AddedInv
-----------------------------------------------------------------------------
(* Account lists.                                                          *)

LEMMA Accounts ==
  ASSUME NEW k \in BuilderKinds
  PROVE  /\ Roles(k) \in Seq(Slot)
         /\ Len(Roles(k)) \in Nat
         /\ DOMAIN Roles(k) = 1 .. Len(Roles(k))
         /\ \A n \in 1 .. Len(Roles(k)) :
              /\ Roles(k)[n] \in Slot
              /\ Roles(k)[n] # Missing
              /\ Plain(Roles(k)[n]) \in Slot
              /\ Plain(Roles(k)[n]) # Missing
  <1>1. Roles(k) \in Seq(Account)
    BY PackagesAssumption DEF WellNamed
  <1>2. /\ Len(Roles(k)) \in Nat
        /\ DOMAIN Roles(k) = 1 .. Len(Roles(k))
        /\ \A n \in 1 .. Len(Roles(k)) : Roles(k)[n] \in Account
    BY <1>1
  <1>3. ASSUME NEW a \in Account
        PROVE  a # Missing /\ Plain(a) \in Account /\ Plain(a) # Missing
    BY <1>3 DEF Account, Names, Plain, R, Missing
  <1>4. Account \subseteq Slot
    BY DEF Slot
  <1>5. Roles(k) \in Seq(Slot)
    BY <1>1, <1>4, SeqMonotonic
  <1> QED BY <1>1, <1>2, <1>3, <1>4, <1>5

(* Setting any account keeps the list in place.                            *)
LEMMA SetKeepsPlace ==
  ASSUME NEW k \in BuilderKinds, NEW s, InPlace(s, Roles(k)),
         NEW n \in 1 .. Len(Roles(k))
  PROVE  LET t == [s EXCEPT ![n] = Roles(k)[n]]
         IN InPlace(t, Roles(k)) /\ (Whole(s) => Whole(t))
  <1> DEFINE t == [s EXCEPT ![n] = Roles(k)[n]]
  <1>1. /\ s \in Seq(Slot)
        /\ n \in 1 .. Len(s)
        /\ Roles(k)[n] \in Slot
        /\ Roles(k)[n] # Missing
        /\ Len(Roles(k)) \in Nat
    BY Accounts DEF InPlace
  <1>2. /\ t \in Seq(Slot)
        /\ Len(t) = Len(s)
        /\ \A j \in 1 .. Len(s) : t[j] = IF j = n THEN Roles(k)[n] ELSE s[j]
    BY <1>1, ExceptSeq
  <1>3. InPlace(t, Roles(k))
    BY <1>1, <1>2 DEF InPlace, Filled
  <1>4. Whole(s) => Whole(t)
    BY <1>1, <1>2 DEF Whole
  <1> QED BY <1>3, <1>4

LEMMA EmptyingKeepsPlace ==
  ASSUME NEW k \in BuilderKinds, NEW n \in 1 .. Len(Roles(k))
  PROVE  /\ InPlace(Roles(k), Roles(k))
         /\ InPlace([Roles(k) EXCEPT ![n] = Missing], Roles(k))
  <1> DEFINE t == [Roles(k) EXCEPT ![n] = Missing]
  <1>1. /\ t \in Seq(Slot)
        /\ Len(t) = Len(Roles(k))
        /\ \A j \in 1 .. Len(Roles(k)) : t[j] = IF j = n THEN Missing ELSE Roles(k)[j]
    <2>1. Missing \in Slot
      BY DEF Slot
    <2> QED BY <2>1, Accounts, ExceptSeq
  <1> QED BY <1>1, Accounts DEF InPlace, Filled

(* So does setting the last one, with or without multi-signers.            *)
LEMMA LastKeepsPlace ==
  ASSUME NEW k \in BuilderKinds, NEW s, InPlace(s, Roles(k)), Roles(k) # <<>>,
         NEW ms \in SignerLists
  PROVE  /\ InPlace(LastSet(s, k, ms), Roles(k))
         /\ Whole(s) => Whole(LastSet(s, k, ms))
  <1> DEFINE last == Len(Roles(k))
             plain == R(Roles(k)[last].name)
             t == [s EXCEPT ![last] = plain]
             c == [n \in DOMAIN ms |-> S(ms[n])]
  <1>1. last \in 1 .. Len(Roles(k)) /\ last \in Nat
    <2>1. Len(Roles(k)) \in Nat \ {0}
      BY Accounts, EmptySeq
    <2> QED BY <2>1
  <1>2. CASE ms = <<>>
    <2>1. LastSet(s, k, ms) = [s EXCEPT ![last] = Roles(k)[last]]
      BY <1>2 DEF LastSet
    <2> QED BY ZenonT(30), <1>1, <2>1, SetKeepsPlace
  <1>3. CASE ms # <<>>
    <2>1. /\ c \in Seq(Slot)
          /\ Len(c) \in Nat \ {0}
          /\ \A n \in 1 .. Len(c) : Cosigner(c[n]) /\ c[n] # Missing
      <3>1. /\ ms \in Seq(Names)
            /\ Len(ms) \in Nat \ {0}
            /\ DOMAIN ms = 1 .. Len(ms)
        BY <1>3, SignersAssumption, EmptySeq
      <3>2. \A n \in 1 .. Len(ms) : ms[n] \in Names
        BY <3>1
      <3>3. \A n \in 1 .. Len(ms) : c[n] = S(ms[n])
        BY <3>1
      <3>4. \A x \in Names : /\ S(x) \in Slot
                             /\ Cosigner(S(x))
                             /\ S(x) # Missing
        <4>1. \A x \in Names : S(x) \in Account
          BY DEF S, Account
        <4> QED BY <4>1 DEF S, Slot, Cosigner, Missing, R
      <3>5. c \in [1 .. Len(ms) -> Slot]
        BY <3>1, <3>2, <3>4
      <3>6. c \in Seq(Slot) /\ Len(c) = Len(ms)
        BY <3>1, <3>5
      <3> QED BY <3>1, <3>2, <3>3, <3>4, <3>6
    <2>2. /\ s \in Seq(Slot)
          /\ Len(s) \in Nat
          /\ Len(s) >= last
          /\ last \in 1 .. Len(s)
      BY <1>1 DEF InPlace
    <2>3. plain = Plain(Roles(k)[last]) /\ plain \in Slot /\ plain # Missing
      BY <1>1, Accounts DEF Plain
    <2>4. /\ t \in Seq(Slot)
          /\ Len(t) = Len(s)
          /\ \A j \in 1 .. Len(s) : t[j] = IF j = last THEN plain ELSE s[j]
      BY <2>2, <2>3, ExceptSeq
    <2> DEFINE u == t \o c
    <2>5. /\ u \in Seq(Slot)
          /\ Len(u) = Len(s) + Len(c)
          /\ \A j \in 1 .. Len(s) + Len(c) :
               u[j] = IF j <= Len(s) THEN t[j] ELSE c[j - Len(s)]
      BY <2>1, <2>4, ConcatProperties
    <2>6. LastSet(s, k, ms) = u
      BY <1>3 DEF LastSet
    <2> HIDE DEF u, t, c, plain
    <2>7. Len(u) > last /\ Len(u) >= Len(s)
      BY <1>1, <2>1, <2>2, <2>5
    <2>8. \A m \in 1 .. last : u[m] = IF m = last THEN plain ELSE s[m]
      BY <1>1, <2>1, <2>2, <2>4, <2>5
    <2>9. \A m \in last + 1 .. Len(s) : u[m] = s[m]
      BY <1>1, <2>1, <2>2, <2>4, <2>5
    <2>10. ASSUME NEW m \in Len(s) + 1 .. Len(u)
           PROVE  Cosigner(u[m]) /\ u[m] # Missing
      <3>1. m - Len(s) \in 1 .. Len(c) /\ u[m] = c[m - Len(s)]
        BY <2>1, <2>2, <2>5
      <3> QED BY <2>1, <3>1
    <2>11. \A m \in 1 .. last : u[m] = Missing \/ Filled(u, Roles(k), m)
      BY <1>1, <2>2, <2>3, <2>7, <2>8 DEF InPlace, Filled
    <2>12. \A m \in last + 1 .. Len(u) : Cosigner(u[m])
      BY <1>1, <2>2, <2>5, <2>9, <2>10 DEF InPlace
    <2>13. InPlace(u, Roles(k))
      BY <2>5, <2>7, <2>11, <2>12 DEF InPlace
    <2>14. ASSUME Whole(s), NEW m \in 1 .. Len(u)
           PROVE  u[m] # Missing
      BY <1>1, <2>2, <2>3, <2>8, <2>9, <2>10, <2>14 DEF Whole
    <2>15. Whole(s) => Whole(u)
      BY <2>5, <2>14 DEF Whole
    <2> QED BY <2>6, <2>13, <2>15
  <1> QED BY <1>2, <1>3

(* Validate of a list in place: what passes has every account, and it does *)
(* not panic.                                                              *)
LEMMA ValidMeansWhole ==
  ASSUME NEW k \in BuilderKinds, NEW s, NEW g, InPlace(s, Roles(k))
  PROVE  /\ Validity(k, s, g) # "panics"
         /\ Validity(k, s, g) = "valid" => Whole(s)
  <1>1. /\ s \in Seq(Slot) /\ Len(s) \in Nat /\ DOMAIN s = 1 .. Len(s)
        /\ Len(Roles(k)) \in Nat
        /\ DOMAIN Roles(k) = 1 .. Len(Roles(k))
        /\ Len(s) >= Len(Roles(k))
    BY Accounts DEF InPlace
  <1>2. ~ Short(k, s)
    BY <1>1 DEF Short
  <1>3. ASSUME Validity(k, s, g) = "valid", NEW m \in 1 .. Len(s)
        PROVE  s[m] # Missing
    <2>1. CASE m \in 1 .. Len(Roles(k))
      BY <1>1, <1>3, <2>1 DEF Validity
    <2>2. CASE m \in Len(Roles(k)) + 1 .. Len(s)
      BY <2>2 DEF InPlace, Cosigner, Missing, R
    <2> QED BY <1>1, <2>1, <2>2
  <1> QED BY <1>1, <1>2, <1>3 DEF Validity, Whole

-----------------------------------------------------------------------------
(* The builder and what it adds.                                           *)

LEMMA KindIsMeant ==
  ASSUME ObjectInv
  PROVE  \/ carries = NoKind /\ kind = meant
         \/ carries # NoKind /\ Roles(kind) = <<>>
  <1>1. CASE carries = NoKind
    BY <1>1 DEF ObjectInv, Means
  <1>2. CASE carries # NoKind
    <2>1. kind = Packages[meant.package].outer /\ kind # NoKind
      BY <1>2, PackagesAssumption DEF ObjectInv, Means
    <2>2. CarrierIsBare(meant)
      BY PackagesAssumption DEF ObjectInv
    <2> QED BY <1>2, <2>1, <2>2 DEF CarrierIsBare
  <1> QED BY <1>1, <1>2

LEMMA ValidObject ==
  ASSUME ObjectInv, ~ gapped
  PROVE  /\ Validity(kind, slots, given) # "panics"
         /\ Validity(kind, slots, given) = "valid" => Whole(slots)
  <1>1. meant \in BuilderKinds /\ InPlace(slots, Roles(meant))
    BY DEF ObjectInv
  <1>2. CASE carries = NoKind /\ kind = meant
    BY <1>1, <1>2, ValidMeansWhole
  <1>3. CASE carries # NoKind /\ Roles(kind) = <<>>
    <2>1. Whole(slots)
      BY <1>3 DEF ObjectInv
    <2>2. Len(slots) \in Nat
      BY <1>1 DEF InPlace
    <2>3. ~ Short(kind, slots)
      BY <1>3, <2>2 DEF Short
    <2> QED BY <2>1, <2>3 DEF Validity
  <1> QED BY <1>2, <1>3, KindIsMeant

LEMMA EntryOfObject ==
  ASSUME ObjectInv, NEW h, h.checked /\ ~ gapped => Whole(slots)
  PROVE  EntryInv(Entry(h))
  <1> DEFINE e == Entry(h)
  <1>1. /\ e.kind = kind /\ e.carries = carries /\ e.meant = meant
        /\ e.gapped = gapped /\ e.missing = (Missing \in ToSet(slots))
        /\ e.checked = h.checked /\ e.accounts = Present(slots)
    BY DEF Entry
  <1>2. Whole(slots) <=> ~ e.missing
    BY <1>1 DEF Whole, ToSet
  <1>3. ~ e.missing => e.accounts = slots
    BY <1>1 DEF Present
  <1> HIDE DEF e
  <1>5. ~ e.gapped /\ ~ e.missing => InPlace(e.accounts, Roles(e.meant)) /\ Whole(e.accounts)
    BY <1>1, <1>2, <1>3 DEF ObjectInv
  <1>6. (e.checked \/ e.carries # NoKind) /\ ~ e.gapped => ~ e.missing
    BY <1>1, <1>2 DEF ObjectInv
  <1>7. /\ e.meant \in BuilderKinds /\ e.kind \in BuilderKinds
        /\ Means(e.kind, e.carries, e.meant)
    BY <1>1 DEF ObjectInv
  <1>8. EntryInv(e)
    BY <1>5, <1>6, <1>7 DEF EntryInv
  <1> QED BY <1>8 DEF e

LEMMA Appending ==
  ASSUME AddedInv, NEW e, EntryInv(e), added' = Append(added, e)
  PROVE  AddedInv'
  <1> DEFINE T == ToSet(added) \cup {e}
  <1>1. added \in Seq(T) /\ e \in T
    <2>1. added \in Seq(ToSet(added)) /\ ToSet(added) \subseteq T
      BY DEF AddedInv
    <2> QED BY <2>1, SeqMonotonic
  <1> HIDE DEF T
  <1>2. /\ added' \in Seq(T)
        /\ DOMAIN added' = 1 .. Len(added) + 1
        /\ DOMAIN added = 1 .. Len(added)
        /\ Len(added) \in Nat
        /\ \A n \in 1 .. Len(added) + 1 :
             added'[n] = IF n <= Len(added) THEN added[n] ELSE e
    BY <1>1
  <1>3. ToSet(added') = T
    BY <1>2 DEF T, ToSet
  <1>4. \A n \in DOMAIN added' : EntryInv(added'[n])
    BY <1>2 DEF AddedInv
  <1> QED BY <1>2, <1>3, <1>4 DEF AddedInv

LEMMA BuilderInitInv == BuilderInit => BuilderInv
  <1> SUFFICES ASSUME BuilderInit PROVE BuilderInv
    OBVIOUS
  <1>1. /\ kind \in BuilderKinds /\ meant = kind /\ carries = NoKind
        /\ added = <<>> /\ gapped = FALSE /\ running = TRUE
        /\ held.checked = FALSE
        /\ \/ slots = Roles(kind)
           \/ \E n \in DOMAIN Roles(kind) : slots = [Roles(kind) EXCEPT ![n] = Missing]
    BY DEF BuilderInit, NothingHeld
  <1>2. InPlace(slots, Roles(meant))
    <2>1. CASE slots = Roles(kind)
      BY <1>1, <2>1, Accounts DEF InPlace, Filled
    <2>2. CASE \E n \in DOMAIN Roles(kind) : slots = [Roles(kind) EXCEPT ![n] = Missing]
      BY <1>1, <2>2, Accounts, EmptyingKeepsPlace
    <2> QED BY <1>1, <2>1, <2>2
  <1>3. ObjectInv
    BY <1>1, <1>2 DEF ObjectInv, Means
  <1>4. AddedInv
    BY <1>1 DEF AddedInv
  <1> QED BY <1>3, <1>4 DEF BuilderInv

-----------------------------------------------------------------------------
(* Every step.                                                             *)

LEMMA AccountSetInv ==
  ASSUME BuilderInv, NEW n \in 1 .. Len(Roles(kind)) - 1, SetAccount(n)
  PROVE  BuilderInv'
  <1>1. /\ running /\ UNCHANGED <<kind, carries, given, held, added, meant, gapped>>
        /\ IF n > Len(slots) THEN running' = FALSE /\ slots' = slots
           ELSE slots' = [slots EXCEPT ![n] = Roles(kind)[n]] /\ running' = running
    BY DEF SetAccount, Call, Panic
  <1>2. kind \in BuilderKinds /\ Len(Roles(kind)) \in Nat /\ n \in 1 .. Len(Roles(kind))
    BY Accounts DEF BuilderInv, ObjectInv
  <1>3. carries = NoKind /\ kind = meant
    BY <1>2, KindIsMeant, Len(<<>>) = 0 DEF BuilderInv
  <1>4. CASE gapped
    BY <1>1, <1>4 DEF BuilderInv, ObjectInv, AddedInv
  <1>5. CASE ~ gapped
    <2>1. InPlace(slots, Roles(kind))
      BY <1>3, <1>5 DEF BuilderInv, ObjectInv
    <2>2. Len(slots) \in Nat /\ ~ n > Len(slots)
      BY <1>2, <2>1 DEF InPlace
    <2>3. InPlace(slots', Roles(kind)) /\ (Whole(slots) => Whole(slots'))
      BY <1>1, <1>2, <2>1, <2>2, SetKeepsPlace
    <2> QED BY <1>1, <1>3, <1>5, <2>2, <2>3 DEF BuilderInv, ObjectInv, AddedInv
  <1> QED BY <1>4, <1>5

LEMMA LastSetInv ==
  ASSUME BuilderInv, NEW ms \in SignerLists, Roles(kind) # <<>>, SetLastAccount(ms)
  PROVE  BuilderInv'
  <1>1. /\ running /\ UNCHANGED <<kind, carries, given, held, added, meant, gapped>>
        /\ IF Short(kind, slots) THEN running' = FALSE /\ slots' = slots
           ELSE slots' = LastSet(slots, kind, ms) /\ running' = running
    BY DEF SetLastAccount, Call, Panic
  <1>2. kind \in BuilderKinds /\ Len(Roles(kind)) \in Nat
    BY Accounts DEF BuilderInv, ObjectInv
  <1>3. carries = NoKind /\ kind = meant
    BY KindIsMeant DEF BuilderInv
  <1>4. CASE gapped
    BY <1>1, <1>4 DEF BuilderInv, ObjectInv, AddedInv
  <1>5. CASE ~ gapped
    <2>1. InPlace(slots, Roles(kind))
      BY <1>3, <1>5 DEF BuilderInv, ObjectInv
    <2>2. ~ Short(kind, slots)
      BY <1>2, <2>1 DEF InPlace, Short
    <2>3. InPlace(slots', Roles(kind)) /\ (Whole(slots) => Whole(slots'))
      BY <1>1, <1>2, <2>1, <2>2, LastKeepsPlace
    <2> QED BY <1>1, <1>3, <1>5, <2>2, <2>3 DEF BuilderInv, ObjectInv, AddedInv
  <1> QED BY <1>4, <1>5

(* The two ways through Validate: nothing is taken as checked, and no      *)
(* panic comes out, but of a whole list in place.                          *)
LEMMA BuildingInv ==
  ASSUME BuilderInv, ValidateAndBuild
  PROVE  BuilderInv'
  <1> DEFINE validity == Validity(kind, slots, given)
  <1>1. /\ running /\ UNCHANGED <<kind, carries, slots, given, added, meant, gapped>>
        /\ held' = IF validity = "valid" THEN Handle(TRUE) ELSE held
        /\ running' = (validity # "panics")
    BY DEF ValidateAndBuild, objVars
  <1>2. ~ gapped => validity # "panics" /\ (validity = "valid" => Whole(slots))
    BY ValidObject DEF BuilderInv
  <1> HIDE DEF validity
  <1> QED BY <1>1, <1>2 DEF BuilderInv, ObjectInv, AddedInv

LEMMA AddingInv ==
  ASSUME BuilderInv, NEW e, (~ gapped /\ Whole(slots)) => EntryInv(e),
         gapped => EntryInv(e), AddValidated(e)
  PROVE  BuilderInv'
  <1> DEFINE validity == Validity(kind, slots, given)
  <1>1. /\ running /\ UNCHANGED <<kind, carries, slots, given, held, meant, gapped>>
        /\ added' = IF validity = "valid" THEN Append(added, e) ELSE added
        /\ running' = (validity # "panics")
    BY DEF AddValidated, Room, objVars
  <1>2. ~ gapped => validity # "panics" /\ (validity = "valid" => Whole(slots))
    BY ValidObject DEF BuilderInv
  <1> HIDE DEF validity
  <1>3. ObjectInv'
    BY <1>1, <1>2 DEF BuilderInv, ObjectInv
  <1>4. CASE validity = "valid"
    <2>1. EntryInv(e) /\ added' = Append(added, e)
      BY <1>1, <1>2, <1>4
    <2> QED BY <1>3, <2>1, Appending DEF BuilderInv
  <1>5. CASE validity # "valid"
    BY <1>1, <1>3, <1>5 DEF BuilderInv, AddedInv
  <1> QED BY <1>4, <1>5

LEMMA AddInsBuilderInv ==
  ASSUME BuilderInv, AddInsBuilder
  PROVE  BuilderInv'
  <1>1. gapped \/ Whole(slots) => EntryInv(Entry(Handle(TRUE)))
    BY EntryOfObject DEF BuilderInv
  <1> QED BY <1>1, AddingInv DEF AddInsBuilder

LEMMA NestedInv ==
  ASSUME BuilderInv, Nested
  PROVE  BuilderInv'
  <1> DEFINE carrier == Packages[kind.package].outer
             inner == Entry(Handle(TRUE))
             e == [inner EXCEPT !.kind = carrier, !.carries = kind, !.program = "chosen"]
  <1>1. carrier # NoKind /\ AddValidated(e)
    BY DEF Nested
  <1>2. carries = NoKind /\ kind = meant /\ kind \in BuilderKinds
    <2>1. kind \in BuilderKinds /\ meant \in BuilderKinds
      BY DEF BuilderInv, ObjectInv
    <2>2. ASSUME carries # NoKind
          PROVE  FALSE
      <3>1. kind = Packages[meant.package].outer /\ kind # NoKind
        BY <2>1, <2>2, PackagesAssumption DEF BuilderInv, ObjectInv, Means
      <3>2. CarrierIsBare(meant)
        BY <2>1, PackagesAssumption
      <3> QED BY <1>1, <3>1, <3>2 DEF CarrierIsBare
    <2> QED BY <2>1, <2>2 DEF BuilderInv, ObjectInv, Means
  <1>3. carrier \in BuilderKinds /\ NoKind \notin BuilderKinds
    BY <1>1, <1>2, PackagesAssumption DEF CarrierIsBare
  <1>4. /\ e.kind = carrier /\ e.carries = kind /\ e.meant = inner.meant
        /\ e.gapped = inner.gapped /\ e.missing = inner.missing
        /\ e.checked = inner.checked /\ e.accounts = inner.accounts
        /\ inner.checked = TRUE /\ inner.meant = meant /\ inner.gapped = gapped
    BY DEF Entry, Handle
  <1>5. gapped \/ Whole(slots) => EntryInv(inner)
    BY EntryOfObject DEF BuilderInv
  <1> HIDE DEF e, inner, carrier
  <1>6. gapped \/ Whole(slots) => EntryInv(e)
    <2>1. Means(e.kind, e.carries, e.meant)
      BY <1>2, <1>3, <1>4 DEF Means, carrier
    <2> QED BY <1>2, <1>3, <1>4, <1>5, <2>1 DEF EntryInv
  <1> QED BY <1>1, <1>6, AddingInv

(* The decoder's loop over the variants of a package stops at the kind that*)
(* was encoded or nowhere.                                                 *)
LEMMA LeadsBack ==
  ASSUME NEW k \in BuilderKinds, NEW v \in TakenFor(k)
  PROVE  v = k.index
  <1> DEFINE kinds == Packages[k.package].kinds
             variants == Packages[k.package].variants
  <1>1. k.package \in DOMAIN Packages /\ k.index \in DOMAIN kinds
    <2>1. PICK p \in DOMAIN Packages : \E i \in DOMAIN Packages[p].kinds :
            k = [package |-> p, index |-> i]
      BY DEF BuilderKinds
    <2> QED BY <2>1
  <1>2. v \in DOMAIN variants /\ variants[v] = kinds[k.index].id
    BY DEF TakenFor, Schema
  <1>3. IdsDiffer(k.package) /\ InStep(k.package)
    BY <1>1, PackagesAssumption
  <1>4. v \in DOMAIN kinds /\ variants[v] = kinds[v].id
    BY <1>1, <1>2, <1>3 DEF InStep
  <1> QED BY <1>1, <1>2, <1>3, <1>4 DEF IdsDiffer

LEMMA DecodeInv ==
  ASSUME BuilderInv, NEW n \in DOMAIN added, NEW inside \in BOOLEAN, Decode(n, inside)
  PROVE  BuilderInv'
  <1> DEFINE entry == added[n]
             k == IF inside THEN entry.carries ELSE entry.kind
  <1>1. EntryInv(entry) /\ running
    BY DEF BuilderInv, AddedInv, Decode
  <1>2. k # NoKind /\ k \in BuilderKinds
    <2>1. k # NoKind
      BY DEF Decode
    <2> QED BY <1>1, <2>1 DEF EntryInv, Means
  <1>3. PICK v \in TakenFor(k) : kind' = [k EXCEPT !.index = v]
    BY DEF Decode
  <1>4. v = k.index
    BY <1>2, <1>3, LeadsBack
  <1>5. kind' = k
    <2>1. PICK p \in DOMAIN Packages : \E i \in DOMAIN Packages[p].kinds :
            k = [package |-> p, index |-> i]
      BY <1>2 DEF BuilderKinds
    <2> QED BY <1>3, <1>4, <2>1
  <1>6. /\ carries' = IF inside THEN NoKind ELSE entry.carries
        /\ slots' = entry.accounts
        /\ held'.checked = FALSE
        /\ meant' = entry.meant
        /\ gapped' = (entry.gapped \/ entry.missing)
        /\ running' = running /\ added' = added
    BY DEF Decode, NothingHeld
  <1>7. Means(kind', carries', meant')
    BY <1>1, <1>2, <1>5, <1>6 DEF EntryInv, Means
  <1>8. ~ gapped' => InPlace(slots', Roles(meant')) /\ Whole(slots')
    BY <1>1, <1>6 DEF EntryInv
  <1>9. ObjectInv'
    BY <1>1, <1>2, <1>5, <1>6, <1>7, <1>8 DEF ObjectInv, EntryInv
  <1> QED BY <1>6, <1>9 DEF BuilderInv, AddedInv

LEMMA BuilderStep ==
  ASSUME BuilderInv, [BuilderNext]_builderVars
  PROVE  BuilderInv'
  <1>1. ASSUME NEW p, SetParameter(p)
        PROVE  BuilderInv'
    BY <1>1 DEF SetParameter, Call, BuilderInv, ObjectInv, AddedInv
  <1>2. CASE SetProgramId
    BY <1>2 DEF SetProgramId, Call, BuilderInv, ObjectInv, AddedInv, Incomplete
  <1>3. CASE Build
    BY <1>3 DEF Build, Handle, objVars, BuilderInv, ObjectInv, AddedInv
  <1>4. CASE AddInstructionAny
    <2>1. /\ running /\ UNCHANGED <<kind, carries, slots, given, held, meant, gapped>>
          /\ \/ added' = Append(added, Entry(held)) /\ running' = running
             \/ added' = added /\ (running' = running \/ Incomplete)
      BY <1>4 DEF AddInstructionAny, Room, objVars, Panic
    <2>2. ObjectInv'
      BY <2>1 DEF BuilderInv, ObjectInv, Incomplete
    <2>3. EntryInv(Entry(held))
      <3>1. held.checked /\ ~ gapped => Whole(slots)
        BY DEF BuilderInv, ObjectInv
      <3> QED BY <3>1, EntryOfObject DEF BuilderInv
    <2>4. AddedInv'
      <3>1. CASE added' = Append(added, Entry(held))
        BY <2>3, <3>1, Appending DEF BuilderInv
      <3>2. CASE added' = added
        BY <3>2 DEF BuilderInv, AddedInv
      <3> QED BY <2>1, <3>1, <3>2
    <2> QED BY <2>2, <2>4 DEF BuilderInv
  <1>5. CASE UNCHANGED builderVars
    BY <1>5 DEF builderVars, objVars, BuilderInv, ObjectInv, AddedInv, Incomplete
  <1> QED
    BY <1>1, <1>2, <1>3, <1>4, <1>5, AccountSetInv, LastSetInv, BuildingInv,
       AddInsBuilderInv, NestedInv, DecodeInv
    DEF BuilderNext

-----------------------------------------------------------------------------
(* Types.                                                                  *)

(* GetAccounts leaves nothing that is nil.                                  *)
LEMMA PresentAccounts ==
  ASSUME NEW s \in Seq(Slot)
  PROVE  Present(s) \in Seq(Account)
  <1>1. DOMAIN s = 1 .. Len(s) /\ Len(s) \in Nat /\ \A n \in 1 .. Len(s) : s[n] \in Slot
    OBVIOUS
  <1>2. CASE Missing \notin ToSet(s)
    <2>1. \A n \in 1 .. Len(s) : s[n] \in Account
      BY <1>1, <1>2 DEF ToSet, Slot
    <2>2. s \in Seq(Account)
      BY <1>1, <2>1
    <2> QED BY <1>2, <2>2 DEF Present
  <1>3. CASE Missing \in ToSet(s)
    <2> DEFINE P == {n \in DOMAIN s : s[n] # Missing}
               t == Picked(s, P)
    <2>1. P \in SUBSET (1 .. Len(s))
      BY <1>1
    <2>2. \A n \in P : s[n] \in Account
      BY <1>1 DEF Slot
    <2> HIDE DEF P
    <2>3. /\ t \in Seq(Slot) /\ Len(t) = Cardinality(P)
          /\ \A n \in 1 .. Cardinality(P) : Ascending(P)[n] \in P /\ t[n] = s[Ascending(P)[n]]
      BY <2>1, PickedSeq
    <2> HIDE DEF t
    <2>4. Len(t) \in Nat /\ t \in [1 .. Len(t) -> Slot]
          /\ \A n \in 1 .. Len(t) : t[n] \in Account
      BY <2>2, <2>3
    <2>5. t \in Seq(Account)
      BY <2>4
    <2> QED BY <1>3, <2>5 DEF Present, P, t
  <1> QED BY <1>2, <1>3

LEMMA SettersKeepType ==
  ASSUME NEW s \in Seq(Slot), NEW k \in BuilderKinds
  PROVE  /\ \A n \in 1 .. Len(s) : n <= Len(Roles(k)) =>
              [s EXCEPT ![n] = Roles(k)[n]] \in Seq(Slot)
         /\ \A ms \in SignerLists : Roles(k) # <<>> /\ ~ Short(k, s) =>
              LastSet(s, k, ms) \in Seq(Slot)
  <1>1. /\ Len(s) \in Nat /\ Len(Roles(k)) \in Nat
        /\ DOMAIN Roles(k) = 1 .. Len(Roles(k))
        /\ \A n \in 1 .. Len(Roles(k)) : Roles(k)[n] \in Slot /\ Plain(Roles(k)[n]) \in Slot
    BY Accounts
  <1>2. ASSUME NEW n \in 1 .. Len(s), NEW a \in Slot
        PROVE  [s EXCEPT ![n] = a] \in Seq(Slot)
    BY <1>2, ExceptSeq
  <1>3. ASSUME NEW ms \in SignerLists, Roles(k) # <<>>, ~ Short(k, s)
        PROVE  LastSet(s, k, ms) \in Seq(Slot)
    <2> DEFINE last  == Len(Roles(k))
               whole == [s EXCEPT ![last] = Roles(k)[last]]
               plain == [s EXCEPT ![last] = R(Roles(k)[last].name)]
               more  == [n \in DOMAIN ms |-> S(ms[n])]
    <2>1. last \in 1 .. Len(Roles(k)) /\ last \in 1 .. Len(s)
      <3>1. last # 0
        BY <1>3, Accounts, EmptySeq
      <3> QED BY <1>1, <1>3, <3>1 DEF Short
    <2>2. whole \in Seq(Slot) /\ plain \in Seq(Slot)
      <3>1. R(Roles(k)[last].name) \in Slot /\ Roles(k)[last] \in Slot
        BY <1>1, <2>1 DEF Plain
      <3> HIDE DEF last
      <3> QED BY <1>2, <2>1, <3>1
    <2>3. more \in Seq(Slot)
      <3>1. ms \in Seq(Names)
        BY SignersAssumption
      <3>2. DOMAIN ms = 1 .. Len(ms) /\ Len(ms) \in Nat /\ \A n \in 1 .. Len(ms) : ms[n] \in Names
        BY <3>1
      <3>3. \A x \in Names : S(x) \in Slot
        BY DEF S, Slot, Account
      <3>4. more \in [1 .. Len(ms) -> Slot]
        BY <3>2, <3>3
      <3> HIDE DEF more
      <3> QED BY <3>2, <3>4
    <2>4. LastSet(s, k, ms) = IF ms = <<>> THEN whole ELSE plain \o more
      BY DEF LastSet
    <2> HIDE DEF whole, plain, more
    <2>5. plain \o more \in Seq(Slot)
      BY <2>2, <2>3, ConcatProperties
    <2> QED BY <2>2, <2>4, <2>5
  <1> QED BY <1>1, <1>2, <1>3

(* What is put into a transaction.                                          *)
EntryType(e) ==
  /\ e.kind \in BuilderKinds /\ e.meant \in BuilderKinds
  /\ e.carries \in BuilderKinds \cup {NoKind}
  /\ e.accounts \in Seq(Account)
  /\ e.program \in Programs
  /\ {e.named, e.checked, e.missing, e.gapped} \subseteq BOOLEAN

Handles == [built : BOOLEAN, checked : BOOLEAN, named : BOOLEAN, program : Programs]

LEMMA EntryIsTyped ==
  ASSUME BuilderTypeOK, NEW h \in Handles
  PROVE  EntryType(Entry(h))
  <1>1. Present(slots) \in Seq(Account)
    BY PresentAccounts DEF BuilderTypeOK
  <1>2. /\ Entry(h).kind = kind /\ Entry(h).carries = carries /\ Entry(h).meant = meant
        /\ Entry(h).accounts = Present(slots) /\ Entry(h).program = h.program
        /\ Entry(h).named = h.named /\ Entry(h).checked = h.checked
        /\ Entry(h).missing = (Missing \in ToSet(slots)) /\ Entry(h).gapped = gapped
    BY DEF Entry
  <1>3. /\ h.named \in BOOLEAN /\ h.checked \in BOOLEAN /\ h.program \in Programs
        /\ gapped \in BOOLEAN /\ Entry(h).missing \in BOOLEAN
    BY <1>2 DEF Handles, BuilderTypeOK
  <1> QED BY <1>1, <1>2, <1>3 DEF EntryType, BuilderTypeOK

LEMMA HandlesAreTyped ==
  ASSUME BuilderTypeOK
  PROVE  /\ Handle(TRUE) \in Handles /\ Handle(FALSE) \in Handles /\ held \in Handles
         /\ NothingHeld \in Handles
         /\ [NothingHeld EXCEPT !.built = TRUE] \in Handles
  BY DEF BuilderTypeOK, Handle, Handles, NothingHeld, Programs

(* A builder whose list of instructions grows by one.                       *)
LEMMA AppendingType ==
  ASSUME BuilderTypeOK, AddedInv, NEW e, EntryType(e), added' = Append(added, e)
  PROVE  \A n \in DOMAIN added' : EntryType(added'[n])
  <1> DEFINE T == ToSet(added) \cup {e}
  <1>1. added \in Seq(T) /\ e \in T
    <2>1. added \in Seq(ToSet(added)) /\ ToSet(added) \subseteq T
      BY DEF AddedInv
    <2> QED BY <2>1, SeqMonotonic
  <1> HIDE DEF T
  <1>2. /\ DOMAIN added' = 1 .. Len(added) + 1 /\ DOMAIN added = 1 .. Len(added)
        /\ Len(added) \in Nat
        /\ \A n \in 1 .. Len(added) + 1 :
             added'[n] = IF n <= Len(added) THEN added[n] ELSE e
    BY <1>1
  <1>3. \A n \in DOMAIN added : EntryType(added[n])
    BY DEF BuilderTypeOK, EntryType
  <1> QED BY <1>2, <1>3

(* The types, by the variables a step leaves alone.                         *)
ObjectType ==
  /\ kind \in BuilderKinds /\ meant \in BuilderKinds
  /\ carries \in BuilderKinds \cup {NoKind}
  /\ slots \in Seq(Slot)
  /\ given \subseteq AllParameters(kind, carries)
  /\ program \in Programs
  /\ held \in Handles
  /\ gapped \in BOOLEAN

LEMMA TypeInParts ==
  BuilderTypeOK <=> /\ ObjectType
                    /\ \A n \in DOMAIN added : EntryType(added[n])
                    /\ running \in BOOLEAN
                    /\ calls \in 0 .. MaxCalls
  BY DEF BuilderTypeOK, ObjectType, EntryType, Handles

LEMMA TypeAfter ==
  ASSUME ObjectType', \A n \in DOMAIN added' : EntryType(added'[n]),
         running' \in BOOLEAN, calls' \in 0 .. MaxCalls
  PROVE  BuilderTypeOK'
  BY DEF BuilderTypeOK, ObjectType, EntryType, Handles

LEMMA TypeInit == BuilderInit => BuilderTypeOK
  <1> SUFFICES ASSUME BuilderInit PROVE BuilderTypeOK
    OBVIOUS
  <1>1. /\ kind \in BuilderKinds /\ meant = kind /\ carries = NoKind
        /\ program = "default" /\ held = NothingHeld /\ added = <<>>
        /\ gapped = FALSE /\ running = TRUE /\ calls = 0
        /\ given \subseteq Parameters(kind)
        /\ \/ slots = Roles(kind)
           \/ \E n \in DOMAIN Roles(kind) : slots = [Roles(kind) EXCEPT ![n] = Missing]
    BY DEF BuilderInit
  <1>2. slots \in Seq(Slot)
    <2>1. Missing \in Slot
      BY DEF Slot
    <2> QED BY <1>1, <2>1, Accounts, ExceptSeq
  <1>3. held \in Handles
    BY <1>1 DEF NothingHeld, Handles, Programs
  <1>4. calls \in 0 .. MaxCalls
    BY <1>1, BoundsAssumption
  <1>5. given \subseteq AllParameters(kind, carries)
    BY <1>1 DEF AllParameters
  <1>6. ObjectType /\ running \in BOOLEAN
    BY <1>1, <1>2, <1>3, <1>5 DEF ObjectType, Programs
  <1>7. \A n \in DOMAIN added : EntryType(added[n])
    BY <1>1
  <1> QED BY <1>4, <1>6, <1>7, TypeInParts

LEMMA CallCounts ==
  ASSUME BuilderTypeOK, Call
  PROVE  calls' \in 0 .. MaxCalls
  BY BoundsAssumption DEF BuilderTypeOK, Call

LEMMA SettersType ==
  ASSUME BuilderTypeOK, BuilderInv,
         \/ \E p \in Parameters(kind) : SetParameter(p)
         \/ \E n \in 1 .. Len(Roles(kind)) - 1 : SetAccount(n)
         \/ Roles(kind) # <<>> /\ \E ms \in SignerLists : SetLastAccount(ms)
         \/ SetProgramId
  PROVE  BuilderTypeOK'
  <1>1. /\ ObjectType /\ running \in BOOLEAN
        /\ \A n \in DOMAIN added : EntryType(added[n])
    BY TypeInParts
  <1>2. calls' \in 0 .. MaxCalls /\ running \in BOOLEAN /\ added' = added
    BY <1>1, CallCounts DEF SetParameter, SetAccount, SetLastAccount, SetProgramId
  <1>3. CASE \E p \in Parameters(kind) : SetParameter(p)
    <2>1. PICK p \in Parameters(kind) : SetParameter(p)
      BY <1>3
    <2>2. /\ given' = given \cup {p}
          /\ UNCHANGED <<kind, carries, slots, program, held, meant, gapped, running>>
      BY <2>1 DEF SetParameter
    <2>3. given' \subseteq AllParameters(kind, carries)
      BY <1>1, <2>2 DEF ObjectType, AllParameters
    <2>4. ObjectType' /\ running' \in BOOLEAN
      BY <1>1, <2>2, <2>3 DEF ObjectType
    <2> QED BY <1>1, <1>2, <2>4, TypeAfter
  <1>4. CASE \E n \in 1 .. Len(Roles(kind)) - 1 : SetAccount(n)
    <2>1. PICK n \in 1 .. Len(Roles(kind)) - 1 : SetAccount(n)
      BY <1>4
    <2>2. /\ UNCHANGED <<kind, carries, given, program, held, meant, gapped>>
          /\ IF n > Len(slots) THEN running' = FALSE /\ slots' = slots
             ELSE slots' = [slots EXCEPT ![n] = Roles(kind)[n]] /\ running' = running
      BY <2>1 DEF SetAccount, Panic
    <2>3. slots' \in Seq(Slot) /\ running' \in BOOLEAN
      <3>1. slots \in Seq(Slot) /\ kind \in BuilderKinds
        BY <1>1 DEF ObjectType
      <3>2. n \in Nat \ {0} /\ n <= Len(Roles(kind)) /\ Len(slots) \in Nat
        BY <3>1, Accounts
      <3>3. CASE n > Len(slots)
        BY <2>2, <3>1, <3>3
      <3>4. CASE ~ n > Len(slots)
        BY <1>1, <2>2, <3>1, <3>2, <3>4, SettersKeepType
      <3> QED BY <3>3, <3>4
    <2>4. ObjectType'
      BY <1>1, <2>2, <2>3 DEF ObjectType
    <2> QED BY <1>1, <1>2, <2>3, <2>4, TypeAfter
  <1>5. CASE Roles(kind) # <<>> /\ \E ms \in SignerLists : SetLastAccount(ms)
    <2>1. PICK ms \in SignerLists : SetLastAccount(ms)
      BY <1>5
    <2>2. /\ UNCHANGED <<kind, carries, given, program, held, meant, gapped>>
          /\ IF Short(kind, slots) THEN running' = FALSE /\ slots' = slots
             ELSE slots' = LastSet(slots, kind, ms) /\ running' = running
      BY <2>1 DEF SetLastAccount, Panic
    <2>3. slots' \in Seq(Slot) /\ running' \in BOOLEAN
      <3>1. slots \in Seq(Slot) /\ kind \in BuilderKinds
        BY <1>1 DEF ObjectType
      <3> QED BY <1>1, <1>5, <2>2, <3>1, SettersKeepType
    <2>4. ObjectType'
      BY <1>1, <2>2, <2>3 DEF ObjectType
    <2> QED BY <1>1, <1>2, <2>3, <2>4, TypeAfter
  <1>6. CASE SetProgramId
    <2>1. /\ program' = "chosen"
          /\ UNCHANGED <<kind, carries, slots, given, held, meant, gapped, running>>
      BY <1>6 DEF SetProgramId
    <2>2. ObjectType'
      BY <1>1, <2>1 DEF ObjectType, Programs
    <2> QED BY <1>1, <1>2, <2>1, <2>2, TypeAfter
  <1> QED BY <1>3, <1>4, <1>5, <1>6

LEMMA BuildingType ==
  ASSUME BuilderTypeOK, Build \/ ValidateAndBuild
  PROVE  BuilderTypeOK'
  <1>1. /\ ObjectType /\ running \in BOOLEAN /\ calls \in 0 .. MaxCalls
        /\ \A n \in DOMAIN added : EntryType(added[n])
    BY TypeInParts
  <1>2. /\ held' \in Handles /\ running' \in BOOLEAN
        /\ UNCHANGED <<kind, carries, slots, given, program, added, meant, gapped, calls>>
    BY <1>1, HandlesAreTyped DEF Build, ValidateAndBuild, objVars
  <1>3. ObjectType'
    BY <1>1, <1>2 DEF ObjectType
  <1> QED BY <1>1, <1>2, <1>3, TypeAfter

LEMMA AddingType ==
  ASSUME BuilderTypeOK, BuilderInv, AddInstructionAny \/ AddInsBuilder \/ Nested
  PROVE  BuilderTypeOK'
  <1>1. /\ ObjectType /\ running \in BOOLEAN /\ calls \in 0 .. MaxCalls
        /\ \A n \in DOMAIN added : EntryType(added[n])
    BY TypeInParts
  <1>2. /\ EntryType(Entry(held)) /\ EntryType(Entry(Handle(TRUE)))
    BY EntryIsTyped, HandlesAreTyped
  <1>3. ASSUME NEW e, EntryType(e), AddValidated(e)
        PROVE  BuilderTypeOK'
    <2>1. /\ running' \in BOOLEAN
          /\ added' = Append(added, e) \/ added' = added
          /\ UNCHANGED <<kind, carries, slots, given, program, held, meant, gapped, calls>>
      BY <1>3 DEF AddValidated, objVars
    <2>2. \A n \in DOMAIN added' : EntryType(added'[n])
      BY <1>1, <1>3, <2>1, AppendingType DEF BuilderInv
    <2>3. ObjectType'
      BY <1>1, <2>1 DEF ObjectType
    <2> QED BY <1>1, <2>1, <2>2, <2>3, TypeAfter
  <1>4. CASE AddInstructionAny
    <2>1. /\ running' \in BOOLEAN
          /\ added' = Append(added, Entry(held)) \/ added' = added
          /\ UNCHANGED <<kind, carries, slots, given, program, held, meant, gapped, calls>>
      BY <1>1, <1>4 DEF AddInstructionAny, Panic, objVars
    <2>2. \A n \in DOMAIN added' : EntryType(added'[n])
      BY <1>1, <1>2, <2>1, AppendingType DEF BuilderInv
    <2>3. ObjectType'
      BY <1>1, <2>1 DEF ObjectType
    <2> QED BY <1>1, <2>1, <2>2, <2>3, TypeAfter
  <1>5. CASE AddInsBuilder
    BY <1>2, <1>3, <1>5 DEF AddInsBuilder
  <1>6. CASE Nested
    <2> DEFINE carrier == Packages[kind.package].outer
               inner   == Entry(Handle(TRUE))
               e == [inner EXCEPT !.kind = carrier, !.carries = kind, !.program = "chosen"]
    <2>1. carrier # NoKind /\ AddValidated(e)
      BY <1>6 DEF Nested
    <2>2. kind \in BuilderKinds /\ carrier \in BuilderKinds
      <3>1. kind \in BuilderKinds
        BY <1>1 DEF ObjectType
      <3> QED BY <2>1, <3>1, PackagesAssumption DEF CarrierIsBare
    <2>3. /\ e.kind = carrier /\ e.carries = kind /\ e.program = "chosen"
          /\ e.meant = inner.meant /\ e.accounts = inner.accounts
          /\ e.named = inner.named /\ e.checked = inner.checked
          /\ e.missing = inner.missing /\ e.gapped = inner.gapped
      BY DEF Entry
    <2> HIDE DEF e, inner, carrier
    <2>4. EntryType(inner)
      BY <1>2 DEF inner
    <2>5. EntryType(e)
      BY <2>2, <2>3, <2>4 DEF EntryType, Programs
    <2> QED BY <1>3, <2>1, <2>5
  <1> QED BY <1>4, <1>5, <1>6

LEMMA DecodingType ==
  ASSUME BuilderTypeOK, BuilderInv,
         NEW n \in DOMAIN added, NEW inside \in BOOLEAN, Decode(n, inside)
  PROVE  BuilderTypeOK'
  <1> DEFINE entry == added[n]
  <1>1. /\ EntryType(entry) /\ running \in BOOLEAN /\ calls \in 0 .. MaxCalls
        /\ \A m \in DOMAIN added : EntryType(added[m])
        /\ ObjectType
    BY TypeInParts
  <1>2. kind' \in BuilderKinds /\ meant' \in BuilderKinds
    BY DecodeInv DEF BuilderInv, ObjectInv
  <1>3. /\ carries' = IF inside THEN NoKind ELSE entry.carries
        /\ given' = Required(kind') \cup (entry.given \cap AllParameters(kind', carries'))
        /\ slots' = entry.accounts /\ program' = "default"
        /\ held' = [NothingHeld EXCEPT !.built = TRUE]
        /\ gapped' = (entry.gapped \/ entry.missing)
        /\ added' = added /\ running' = running /\ calls' = calls
    BY DEF Decode
  <1> HIDE DEF entry
  <1>4. given' \subseteq AllParameters(kind', carries')
    BY <1>3 DEF AllParameters, Parameters, Required
  <1>5. slots' \in Seq(Slot)
    <2>1. Account \subseteq Slot
      BY DEF Slot
    <2> QED BY <1>1, <1>3, <2>1, SeqMonotonic DEF EntryType
  <1>6. held' \in Handles
    BY <1>3, HandlesAreTyped
  <1>7. ObjectType'
    BY <1>1, <1>2, <1>3, <1>4, <1>5, <1>6 DEF ObjectType, EntryType, Programs
  <1> QED BY <1>1, <1>3, <1>7, TypeAfter

LEMMA TypeStep ==
  ASSUME BuilderTypeOK, BuilderInv, [BuilderNext]_builderVars
  PROVE  BuilderTypeOK'
  <1>1. CASE UNCHANGED builderVars
    BY <1>1 DEF builderVars, objVars, BuilderTypeOK
  <1> QED BY <1>1, SettersType, BuildingType, AddingType, DecodingType DEF BuilderNext

-----------------------------------------------------------------------------
(* What follows from the invariant.                                        *)

LEMMA EntryMeans ==
  ASSUME NEW e, EntryInv(e)
  PROVE  RolesOf(e) = Roles(e.meant)
  BY DEF EntryInv, Means, RolesOf

LEMMA InvValidatedIsInPlace == BuilderInv => ValidatedIsInPlace
  <1> SUFFICES ASSUME BuilderInv, NEW n \in DOMAIN added,
                      added[n].checked, ~ added[n].gapped
               PROVE  LET entry == added[n]
                          roles == RolesOf(entry)
                      IN /\ Len(entry.accounts) >= Len(roles)
                         /\ \A m \in DOMAIN roles :
                              \/ entry.accounts[m] = roles[m]
                              \/ m = Len(roles) /\ entry.accounts[m] = Plain(roles[m])
                         /\ \A m \in Len(roles) + 1 .. Len(entry.accounts) :
                              entry.accounts[m].signer /\ ~ entry.accounts[m].writable
    BY DEF ValidatedIsInPlace
  <1> DEFINE entry == added[n]
  <1>1. EntryInv(entry)
    BY DEF BuilderInv, AddedInv
  <1>2. RolesOf(entry) = Roles(entry.meant) /\ entry.meant \in BuilderKinds
    BY <1>1, EntryMeans DEF EntryInv
  <1>3. InPlace(entry.accounts, Roles(entry.meant)) /\ Whole(entry.accounts)
    BY <1>1 DEF EntryInv
  <1>4. /\ DOMAIN Roles(entry.meant) = 1 .. Len(Roles(entry.meant))
        /\ Len(Roles(entry.meant)) \in Nat
        /\ DOMAIN entry.accounts = 1 .. Len(entry.accounts)
        /\ Len(entry.accounts) \in Nat
    BY <1>2, <1>3, Accounts DEF InPlace
  <1> QED BY <1>2, <1>3, <1>4 DEF InPlace, Whole, Filled, Cosigner

LEMMA InvSomebodyAuthorizes == BuilderInv => SomebodyAuthorizes
  <1> SUFFICES ASSUME BuilderInv, NEW n \in DOMAIN added,
                      added[n].checked, ~ added[n].gapped,
                      Len(RolesOf(added[n])) > 0,
                      RolesOf(added[n])[Len(RolesOf(added[n]))].signer
               PROVE  \E m \in Len(RolesOf(added[n])) .. Len(added[n].accounts) :
                        added[n].accounts[m].signer
    BY DEF SomebodyAuthorizes
  <1> DEFINE entry == added[n]
             roles == Roles(entry.meant)
             last == Len(roles)
             accounts == entry.accounts
  <1>1. EntryInv(entry)
    BY DEF BuilderInv, AddedInv
  <1>2. RolesOf(entry) = roles /\ entry.meant \in BuilderKinds
    BY <1>1, EntryMeans DEF EntryInv
  <1>3. InPlace(accounts, roles) /\ Whole(accounts)
    BY <1>1 DEF EntryInv
  <1>4. /\ last \in Nat /\ last > 0
        /\ DOMAIN accounts = 1 .. Len(accounts)
        /\ Len(accounts) \in Nat /\ Len(accounts) >= last
    BY <1>2, <1>3, Accounts DEF InPlace
  <1>5. roles[last].signer
    BY <1>2
  <1> HIDE DEF entry, roles, last, accounts
  <1>6. \/ accounts[last] = roles[last]
        \/ Len(accounts) > last /\ Cosigner(accounts[last + 1])
    BY <1>3, <1>4 DEF InPlace, Whole, Filled, last
  <1>7. \E m \in last .. Len(accounts) : accounts[m].signer
    BY <1>4, <1>5, <1>6 DEF Cosigner
  <1> QED BY <1>2, <1>7 DEF last, accounts, entry

(* The builder and everything it added keep to the places of the accounts. *)
THEOREM BuilderInvariance == BuilderSpec => []BuilderInv
  <1>1. BuilderInv /\ [BuilderNext]_builderVars => BuilderInv'
    BY BuilderStep
  <1> QED BY BuilderInitInv, <1>1, PTL DEF BuilderSpec

(* The builder and the transaction hold what their Go types allow, and no  *)
(* account that was put into the transaction is nil.                       *)
THEOREM BuilderTypes == BuilderSpec => []BuilderTypeOK
  <1>1. BuilderInv /\ BuilderTypeOK /\ [BuilderNext]_builderVars => BuilderTypeOK'
    BY TypeStep
  <1> QED BY TypeInit, <1>1, BuilderInvariance, PTL DEF BuilderSpec

(* An instruction that was validated has every account in its place.       *)
THEOREM ValidatedAreInPlace == BuilderSpec => []ValidatedIsInPlace
  BY BuilderInvariance, InvValidatedIsInPlace, PTL

(* No instruction that was validated has nobody to authorize it.           *)
THEOREM AlwaysAuthorized == BuilderSpec => []SomebodyAuthorizes
  BY BuilderInvariance, InvSomebodyAuthorizes, PTL

(* Decoding, however often and however nested, leads back to the kind that *)
(* was built, where no two kinds of a package share a discriminator and the*)
(* decoder's variants are in the order of the kinds (IdsDiffer, InStep).   *)
THEOREM DecodedIsMeant == BuilderSpec => []NeverMistaken
  <1>1. BuilderInv => NeverMistaken
    BY DEF BuilderInv, ObjectInv, Means, NeverMistaken
  <1> QED BY BuilderInvariance, <1>1, PTL

(* A process that ends by a panic left validation out.                     *)
THEOREM OnlyUnvalidatedPanic == BuilderSpec => []PanicsOnlyUnvalidated
  <1>1. BuilderInv => PanicsOnlyUnvalidated
    BY DEF BuilderInv, ObjectInv, PanicsOnlyUnvalidated
  <1> QED BY BuilderInvariance, <1>1, PTL
=============================================================================
