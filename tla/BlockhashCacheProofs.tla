------------------------- MODULE BlockhashCacheProofs -------------------------
(***************************************************************************)
(* Theorems about BlockhashCache, for every value of its constants.        *)
(***************************************************************************)
EXTENDS BlockhashCache, TLAPS

(* The steps of a call, each of which the invariance proofs take in turn.  *)
LEMMA StepCases ==
  ASSUME NEW c \in Callers, Step(c)
  PROVE  \/ WaitPoll(c) \/ ReadClock(c) \/ ReadAge(c) \/ ReadLatest(c)
         \/ StartPoll(c) \/ FetchError(c) \/ FetchSame(c)
         \/ (\E h \in Answers : FetchNew(c, h))
         \/ (\E f \in Fields : StoreField(c, f))
         \/ EndPoll(c) \/ SignError(c) \/ Check(c)
         \/ AppendRead(c) \/ AppendWrite(c) \/ Submit(c) \/ SubmitLost(c)
  BY DEF Step, Poll

-----------------------------------------------------------------------------
(* Type correctness.                                                       *)

LEMMA NoLocalsType == NoLocals \in Locals
  BY BoundAssumption
  DEF Locals, NoLocals, Kinds, Lists, Times, NoHash, Hashes, Fields

(* The ways in which the steps edit a caller's local variables.            *)
LEMMA LocalsEdits ==
  ASSUME NEW r \in Locals
  PROVE  /\ \A h \in Hashes \cup {NoHash} : [r EXCEPT !.hash = h] \in Locals
         /\ \A h \in Hashes \cup {NoHash} :
              [r EXCEPT !.snapshot = h, !.tries = 0] \in Locals
         /\ \A n \in 0 .. MaxTries : [r EXCEPT !.tries = n] \in Locals
         /\ \A h \in Hashes, t \in Times :
              [r EXCEPT !.hash = h, !.stamp = t, !.unstored = Fields] \in Locals
         /\ \A k \in Kinds, m \in Messages :
              [r EXCEPT !.kind = k, !.msg = m] \in Locals
<1>1. \A h \in Hashes \cup {NoHash} : [r EXCEPT !.hash = h] \in Locals
  BY DEF Locals
<1>2. \A h \in Hashes \cup {NoHash} :
        [r EXCEPT !.snapshot = h, !.tries = 0] \in Locals
  <2>1. 0 \in 0 .. MaxTries
    BY BoundAssumption
  <2> QED BY <2>1 DEF Locals
<1>3. \A n \in 0 .. MaxTries : [r EXCEPT !.tries = n] \in Locals
  BY DEF Locals
<1>4. \A h \in Hashes, t \in Times :
        [r EXCEPT !.hash = h, !.stamp = t, !.unstored = Fields] \in Locals
  BY DEF Locals
<1>5. \A k \in Kinds, m \in Messages :
        [r EXCEPT !.kind = k, !.msg = m] \in Locals
  BY DEF Locals
<1> QED
  BY <1>1, <1>2, <1>3, <1>4, <1>5

LEMMA TypeInit == Init => TypeInv
<1> SUFFICES ASSUME Init PROVE TypeInv
  OBVIOUS
<1>1. pc \in [Callers -> Pcs] /\ loc \in [Callers -> Locals]
  BY NoLocalsType DEF Init, Pcs
<1>2. tip \in Hashes /\ now \in Times /\ lastFetch \in Times
  BY BoundAssumption DEF Init, Hashes, Times
<1>3. fetchedAt \in [Hashes -> Times] /\ sent \in [Signatures -> Nat]
  BY BoundAssumption DEF Init, Times
<1>4. seen \in [Lists -> SUBSET Signatures]
  BY DEF Init
<1>5. \A c \in Callers : CallOK(c)
  BY DEF Init, CallOK
<1> QED
  BY <1>1, <1>2, <1>3, <1>4, <1>5 DEF Init, TypeInv, TypeOK

LEMMA TypeStep ==
  ASSUME TypeInv, NEW c \in Callers, Step(c)
  PROVE  TypeOK'
<1> USE DEF TypeInv, CallOK, TypeOK, Pcs, PollPcs, Goto, Return, world, shared
<1>1. CASE WaitPoll(c)
  BY <1>1 DEF WaitPoll
<1>2. CASE ReadClock(c)
  BY <1>2 DEF ReadClock, Locals
<1>3. CASE ReadAge(c)
  BY <1>3 DEF ReadAge
<1>4. CASE ReadLatest(c)
  BY <1>4, LocalsEdits DEF ReadLatest
<1>5. CASE StartPoll(c)
  BY <1>5, LocalsEdits DEF StartPoll
<1>6. CASE FetchError(c)
  BY <1>6, NoLocalsType DEF FetchError
<1>7. CASE FetchSame(c)
  <2>1. CASE MayRetry(c)
    <3>1. loc[c].tries + 1 \in 0 .. MaxTries
      BY <2>1, BoundAssumption DEF MayRetry, Locals
    <3>2. [loc[c] EXCEPT !.tries = loc[c].tries + 1] \in Locals
      BY <3>1, LocalsEdits
    <3> QED BY <1>7, <2>1, <3>2 DEF FetchSame
  <2>2. CASE ~MayRetry(c)
    BY <1>7, <2>2, NoLocalsType DEF FetchSame
  <2> QED BY <2>1, <2>2
<1>8. CASE \E h \in Answers : FetchNew(c, h)
  <2>1. PICK h \in Answers : FetchNew(c, h)
    BY <1>8
  <2>2. h \in Hashes
    BY DEF Answers
  <2> QED BY <2>1, <2>2, LocalsEdits DEF FetchNew
<1>9. CASE \E f \in Fields : StoreField(c, f)
  <2>1. PICK f \in Fields : StoreField(c, f)
    BY <1>9
  <2>2. loc' \in [Callers -> Locals] /\ pc' \in [Callers -> Pcs]
    BY <2>1 DEF StoreField, Locals
  <2>3. latest' \in Hashes \cup {NoHash} /\ lastFetch' \in Times
    BY <2>1 DEF StoreField, Locals
  <2>4. seen' \in [Lists -> SUBSET Signatures]
    BY <2>1 DEF StoreField
  <2> QED BY <2>1, <2>2, <2>3, <2>4 DEF StoreField
<1>10. CASE EndPoll(c)
  BY <1>10 DEF EndPoll
<1>11. CASE SignError(c)
  BY <1>11, NoLocalsType DEF SignError
<1>12. CASE Check(c)
  BY <1>12 DEF Check, OnDuplicate
<1>13. CASE AppendRead(c)
  <2>1. loc[c].kind \in Lists
    BY <1>13 DEF AppendRead
  <2>2. seen[loc[c].kind] \in SUBSET Signatures
    BY <2>1
  <2>3. [loc[c] EXCEPT !.list = seen[loc[c].kind]] \in Locals
    BY <2>2 DEF Locals
  <2>4. loc' \in [Callers -> Locals]
    BY <1>13, <2>3 DEF AppendRead
  <2> QED BY <1>13, <2>4 DEF AppendRead
<1>14. CASE AppendWrite(c)
  <2>1. Signature(c) \in Signatures /\ loc[c].kind \in Lists
    BY <1>14 DEF AppendWrite, Signature, Signatures
  <2> QED BY <1>14, <2>1 DEF AppendWrite, Locals
<1>15. CASE Submit(c)
  <2>1. loc[c].kind = "send" => Signature(c) \in Signatures
    BY <1>15 DEF Submit, Signature, Signatures
  <2> QED BY <1>15, <2>1, NoLocalsType DEF Submit
<1>16. CASE SubmitLost(c)
  BY <1>16, NoLocalsType DEF SubmitLost
<1> QED
  BY StepCases, <1>1, <1>2, <1>3, <1>4, <1>5, <1>6, <1>7, <1>8, <1>9, <1>10,
     <1>11, <1>12, <1>13, <1>14, <1>15, <1>16

(* A step of c leaves the other callers where they are.                    *)
LEMMA StepFrame ==
  ASSUME TypeInv, NEW c \in Callers, Step(c), NEW d \in Callers, d # c
  PROVE  pc'[d] = pc[d] /\ loc'[d] = loc[d]
<1> USE DEF TypeInv, TypeOK, Goto, Return, shared, world
<1>1. CASE WaitPoll(c) \/ ReadClock(c) \/ ReadAge(c) \/ ReadLatest(c)
  BY <1>1 DEF WaitPoll, ReadClock, ReadAge, ReadLatest
<1>2. CASE StartPoll(c) \/ FetchError(c) \/ FetchSame(c) \/ EndPoll(c)
  BY <1>2 DEF StartPoll, FetchError, FetchSame, EndPoll
<1>3. CASE \E h \in Answers : FetchNew(c, h)
  BY <1>3 DEF FetchNew
<1>4. CASE \E f \in Fields : StoreField(c, f)
  BY <1>4 DEF StoreField
<1>5. CASE SignError(c) \/ Check(c) \/ AppendRead(c) \/ AppendWrite(c)
  BY <1>5 DEF SignError, Check, AppendRead, AppendWrite
<1>6. CASE Submit(c) \/ SubmitLost(c)
  BY <1>6 DEF Submit, SubmitLost
<1> QED
  BY StepCases, <1>1, <1>2, <1>3, <1>4, <1>5, <1>6

LEMMA CallOKStep ==
  ASSUME TypeInv, NEW c \in Callers, Step(c)
  PROVE  CallOK(c)'
<1> USE DEF TypeInv, TypeOK, CallOK, Goto, Return
<1>1. CASE ReadLatest(c)
  BY <1>1 DEF ReadLatest, Locals
<1>2. CASE \E h \in Answers : FetchNew(c, h)
  BY <1>2 DEF FetchNew, Answers, Locals
<1>3. CASE \E f \in Fields : StoreField(c, f)
  BY <1>3 DEF StoreField, Locals
<1>4. CASE Check(c)
  BY <1>4 DEF Check, OnDuplicate, Locals, Kinds
<1>5. CASE FetchSame(c)
  BY <1>5 DEF FetchSame, Locals
<1>6. CASE WaitPoll(c) \/ ReadAge(c) \/ EndPoll(c)
  BY <1>6 DEF WaitPoll, ReadAge, EndPoll
<1>7. CASE ReadClock(c) \/ AppendRead(c)
  BY SMTT(30), <1>7 DEF ReadClock, AppendRead, Locals
<1>10. CASE StartPoll(c)
  BY <1>10 DEF StartPoll, Locals
<1>8. CASE AppendWrite(c)
  BY <1>8 DEF AppendWrite, Locals
<1>9. CASE FetchError(c) \/ SignError(c) \/ Submit(c) \/ SubmitLost(c)
  BY <1>9 DEF FetchError, SignError, Submit, SubmitLost
<1> QED
  BY StepCases, <1>1, <1>2, <1>3, <1>4, <1>5, <1>6, <1>7, <1>8, <1>9,
     <1>10

LEMMA TypeNext == TypeInv /\ [Next]_vars => TypeInv'
<1> SUFFICES ASSUME TypeInv, [Next]_vars
             PROVE  TypeInv'
  OBVIOUS
<1>1. CASE Finalize
  BY <1>1, BoundAssumption
  DEF Finalize, TypeInv, CallOK, TypeOK, shared, Hashes
<1>2. CASE Tick
  BY <1>2, BoundAssumption DEF Tick, TypeInv, CallOK, TypeOK, shared, Times
<1>3. ASSUME NEW c \in Callers, Step(c)
      PROVE  TypeInv'
  BY <1>3, TypeStep, StepFrame, CallOKStep DEF TypeInv, CallOK
<1>4. ASSUME NEW c \in Callers, NEW k \in Kinds, NEW m \in Messages,
             Call(c, k, m)
      PROVE  TypeInv'
  <2> USE <1>4 DEF Call, Goto, TypeInv, CallOK, TypeOK, shared, world
  <2>1. [loc[c] EXCEPT !.kind = k, !.msg = m] \in Locals
    BY LocalsEdits
  <2>2. \A d \in Callers : CallOK(d)'
    BY DEF Locals
  <2> QED BY <2>1, <2>2 DEF Pcs, PollPcs
<1>5. CASE UNCHANGED vars
  BY <1>5 DEF vars, TypeInv, CallOK, TypeOK
<1> QED
  BY <1>1, <1>2, <1>3, <1>4, <1>5 DEF Next

LEMMA TypeInvariance == Spec => []TypeInv
<1>1. Init => TypeInv
  BY TypeInit
<1>2. TypeInv /\ [Next]_vars => TypeInv'
  BY TypeNext
<1> QED
  BY <1>1, <1>2, PTL DEF Spec

(* Every variable keeps its type, however calls interleave.                *)
THEOREM TypeCorrect == Spec => []TypeOK
<1>1. TypeInv => TypeOK
  BY DEF TypeInv
<1> QED
  BY <1>1, TypeInvariance, PTL

-----------------------------------------------------------------------------
(* The polling flag.                                                       *)

LEMMA FlagStep ==
  ASSUME TypeInv, FlagHasPoller, NEW c \in Callers, Step(c)
  PROVE  FlagHasPoller'
<1> USE DEF TypeInv, TypeOK, Goto, Return, PollPcs
<1>1. CASE polling' = FALSE
  BY <1>1 DEF FlagHasPoller
<1>2. CASE pc'[c] \in PollPcs
  BY <1>2 DEF FlagHasPoller
<1>3. CASE polling' = polling /\ pc[c] \notin PollPcs
  BY <1>3, StepFrame DEF FlagHasPoller
<1>4. WaitPoll(c) \/ ReadClock(c) \/ ReadAge(c) \/ ReadLatest(c)
        => polling' = polling /\ pc[c] \notin PollPcs
  BY DEF WaitPoll, ReadClock, ReadAge, ReadLatest, shared
<1>5. SignError(c) \/ Check(c) \/ AppendRead(c) \/ AppendWrite(c)
        => polling' = polling /\ pc[c] \notin PollPcs
  BY DEF SignError, Check, AppendRead, AppendWrite, shared
<1>6. Submit(c) \/ SubmitLost(c) => polling' = polling /\ pc[c] \notin PollPcs
  BY DEF Submit, SubmitLost, shared
<1>7. StartPoll(c) => pc'[c] \in PollPcs
  BY DEF StartPoll
<1>8. FetchError(c) \/ EndPoll(c) => polling' = FALSE
  BY DEF FetchError, EndPoll
<1>9. FetchSame(c) => polling' = FALSE \/ pc'[c] \in PollPcs
  BY DEF FetchSame
<1>10. (\E h \in Answers : FetchNew(c, h)) => pc'[c] \in PollPcs
  BY DEF FetchNew
<1>11. (\E f \in Fields : StoreField(c, f)) => pc'[c] \in PollPcs
  BY DEF StoreField
<1> QED
  BY StepCases, <1>1, <1>2, <1>3, <1>4, <1>5, <1>6, <1>7, <1>8, <1>9, <1>10,
     <1>11

(* However many goroutines use the connection, pollingBlockhash is raised  *)
(* only while one of them is inside _pollNewBlockhash.                     *)
THEOREM FlagNeverStuck == Spec => []FlagHasPoller
<1>1. Init => FlagHasPoller
  BY DEF Init, FlagHasPoller
<1>2. TypeInv /\ FlagHasPoller /\ [Next]_vars => FlagHasPoller'
  <2> SUFFICES ASSUME TypeInv, FlagHasPoller, [Next]_vars
               PROVE  FlagHasPoller'
    OBVIOUS
  <2>1. CASE Finalize \/ Tick \/ UNCHANGED vars
    BY <2>1 DEF Finalize, Tick, vars, shared, FlagHasPoller
  <2>2. ASSUME NEW c \in Callers, Step(c)
        PROVE  FlagHasPoller'
    BY <2>2, FlagStep
  <2>3. ASSUME NEW c \in Callers, NEW k \in Kinds, NEW m \in Messages,
               Call(c, k, m)
        PROVE  FlagHasPoller'
    BY <2>3
    DEF Call, Goto, shared, FlagHasPoller, PollPcs, TypeInv, TypeOK
  <2> QED
    BY <2>1, <2>2, <2>3 DEF Next
<1> QED
  BY <1>1, <1>2, TypeInvariance, PTL DEF Spec

-----------------------------------------------------------------------------
(* Exclusive callers, and nodes that answer with the tip.                  *)

LEMMA StepActive == \A c \in Callers : Step(c) => pc[c] # "idle"
  BY StepCases
  DEF WaitPoll, ReadClock, ReadAge, ReadLatest, StartPoll, FetchError,
      FetchSame, FetchNew, StoreField, EndPoll, SignError, Check, AppendRead,
      AppendWrite, Submit, SubmitLost, Goto, Return

(* While c runs alone, the others are idle before and after its step.      *)
LEMMA OthersIdle ==
  ASSUME TypeInv, Solo, NEW c \in Callers, Step(c)
  PROVE  /\ \A d \in Callers : d # c => pc[d] = "idle" /\ pc'[d] = "idle"
         /\ Solo'
         /\ \A d \in Callers : d # c => PollOK(d)' /\ SignOK(d)'
<1>1. \A d \in Callers : d # c => pc[d] = "idle" /\ pc'[d] = "idle"
  BY StepActive, StepFrame DEF Solo
<1>2. Solo'
  BY <1>1 DEF Solo
<1>3. \A d \in Callers : d # c => PollOK(d)' /\ SignOK(d)'
  BY <1>1 DEF PollOK, SignOK
<1> QED
  BY <1>1, <1>2, <1>3

(* Steps that leave cache and submissions alone keep what relates them.    *)
LEMMA QuietStep ==
  ASSUME LedgerInv, NEW c \in Callers, Step(c), pc[c] # "store",
         UNCHANGED <<tip, latest, seen, sent>>
  PROVE  /\ latest' <= tip'
         /\ \A s \in Signatures : sent'[s] > 0 => s[2] <= latest'
         /\ ListOK'
<1>1. \A d \in Callers : pc[d] # "store"
  BY OthersIdle DEF LedgerInv
<1> QED
  BY <1>1 DEF LedgerInv, ListOK

(* Before it has a blockhash, a caller has nothing to keep in step.        *)
LEMMA EarlyPcs ==
  ASSUME NEW c \in Callers,
         pc'[c] \in {"idle", "wait", "clock", "age", "hit", "poll"}
  PROVE  PollOK(c)' /\ SignOK(c)'
  BY DEF PollOK, SignOK

LEMMA LedgerQuiet ==
  ASSUME LedgerInv, NEW c \in Callers,
         \/ WaitPoll(c) \/ ReadClock(c) \/ ReadAge(c) \/ ReadLatest(c)
         \/ StartPoll(c) \/ FetchError(c) \/ FetchSame(c)
         \/ EndPoll(c) \/ SignError(c) \/ Check(c)
         \/ AppendRead(c) \/ SubmitLost(c)
  PROVE  /\ UNCHANGED <<tip, latest, seen, sent>>
         /\ pc[c] # "store"
         /\ PollOK(c)'
         /\ SignOK(c)'
<1> USE DEF LedgerInv, TypeInv, TypeOK, Goto, Return, world, shared
<1>1. CASE WaitPoll(c) \/ ReadClock(c) \/ ReadAge(c)
  BY <1>1, EarlyPcs DEF WaitPoll, ReadClock, ReadAge
<1>2. CASE FetchError(c) \/ SignError(c) \/ SubmitLost(c)
  BY <1>2, EarlyPcs DEF FetchError, SignError, SubmitLost
<1>3. CASE ReadLatest(c)
  <2>1. loc'[c].hash = latest
    BY <1>3 DEF ReadLatest, Locals
  <2>2. pc'[c] \in {"poll", "check"}
    BY <1>3 DEF ReadLatest
  <2> QED BY <1>3, <2>1, <2>2 DEF ReadLatest, PollOK, SignOK
<1>4. CASE StartPoll(c)
  <2>1. loc'[c].snapshot = latest
    BY <1>4 DEF StartPoll, Locals
  <2> QED BY <1>4, <2>1 DEF StartPoll, PollOK, SignOK
<1>5. CASE FetchSame(c)
  <2>1. CASE MayRetry(c)
    <3>1. pc'[c] = "fetch" /\ loc'[c].snapshot = latest
      BY <1>5, <2>1 DEF FetchSame, PollOK, Locals
    <3> QED BY <1>5, <3>1 DEF FetchSame, PollOK, SignOK
  <2>2. CASE ~MayRetry(c)
    BY <1>5, <2>2, EarlyPcs DEF FetchSame
  <2> QED BY <2>1, <2>2
<1>6. CASE EndPoll(c)
  BY <1>6 DEF EndPoll, PollOK, SignOK
<1>7. CASE Check(c)
  <2>1. UNCHANGED <<loc, sent, seen, latest>> /\ loc[c].hash = latest
    BY <1>7 DEF Check, SignOK
  <2>2. CASE pc'[c] = "append" /\ loc[c].kind = "send"
    <3>1. Signature(c) \in Signatures /\ Signature(c)[2] = latest
      BY <1>7, <2>1 DEF CallOK, Check, Signature, Signatures
    <3>2. Signature(c) \notin seen["send"]
      BY <1>7, <2>2 DEF Check, AlreadySeen, OnDuplicate
    <3>3. \A d \in Callers : pc[d] # "store"
      BY <1>7 DEF Check, Solo
    <3>4. sent[Signature(c)] = 0
      BY <3>1, <3>2, <3>3 DEF ListOK
    <3> QED BY <1>7, <2>1, <2>2, <3>4 DEF Check, PollOK, SignOK, Signature
  <2>3. CASE pc'[c] = "append" /\ loc[c].kind # "send"
    BY <1>7, <2>1, <2>3 DEF Check, PollOK, SignOK
  <2>4. CASE pc'[c] = "submit"
    <3>1. loc[c].kind = "preview"
      BY <1>7, <2>4 DEF Check, OnDuplicate
    <3> QED BY <1>7, <2>1, <2>4, <3>1 DEF Check, PollOK, SignOK
  <2>5. pc'[c] \in {"poll", "append", "submit"}
    BY <1>7 DEF Check, OnDuplicate
  <2>6. CASE pc'[c] = "poll"
    BY <1>7, <2>6, EarlyPcs DEF Check
  <2> QED BY <2>2, <2>3, <2>4, <2>5, <2>6
<1>8. CASE AppendRead(c)
  <2>1. /\ loc'[c].hash = loc[c].hash /\ loc'[c].msg = loc[c].msg
        /\ loc'[c].kind = loc[c].kind /\ loc'[c].list = seen[loc[c].kind]
    BY <1>8 DEF AppendRead, Locals
  <2> QED BY <1>8, <2>1 DEF AppendRead, PollOK, SignOK, Signature
<1> QED
  BY <1>1, <1>2, <1>3, <1>4, <1>5, <1>6, <1>7, <1>8

(* A poll that was answered with a new blockhash: the answer is ahead of   *)
(* the cached blockhash, hence of every submitted signature.               *)
LEMMA LedgerFetch ==
  ASSUME MaxLag = 0, LedgerInv, NEW c \in Callers, NEW h \in Answers,
         FetchNew(c, h)
  PROVE  /\ UNCHANGED <<tip, latest, seen, sent>>
         /\ pc[c] # "store"
         /\ PollOK(c)'
         /\ SignOK(c)'
<1> USE DEF LedgerInv, TypeInv, TypeOK, Goto, world, shared
<1>1. h = tip
  BY BoundAssumption DEF Answers, Hashes
<1>2. latest < h
  BY <1>1 DEF FetchNew, IsNewFor, PollOK, Hashes, NoHash
<1>3. /\ pc'[c] = "store" /\ loc'[c].hash = h /\ loc'[c].unstored = Fields
      /\ UNCHANGED <<tip, latest, seen, sent>>
  BY DEF FetchNew, Locals
<1>4. \A s \in Signatures : sent[s] > 0 => s[2] < h
  BY <1>1, <1>2 DEF Signatures, Hashes, NoHash
<1>5. PollOK(c)'
  BY <1>1, <1>2, <1>3, <1>4 DEF PollOK, Fields, Hashes
<1>6. SignOK(c)'
  BY <1>3 DEF SignOK
<1> QED
  BY <1>3, <1>5, <1>6 DEF FetchNew

(* One field of the struct is stored.                                      *)
LEMMA LedgerStore ==
  ASSUME LedgerInv, NEW c \in Callers, NEW f \in Fields, StoreField(c, f)
  PROVE  /\ latest' <= tip'
         /\ \A s \in Signatures : sent'[s] > 0 => s[2] <= latest'
         /\ ListOK'
         /\ PollOK(c)'
         /\ SignOK(c)'
<1> USE DEF LedgerInv, TypeInv, TypeOK, Goto, world
<1> DEFINE h == loc[c].hash
           rest == loc[c].unstored \ {f}
<1>1. /\ pc[c] = "store" /\ f \in loc[c].unstored
      /\ pc'[c] = IF rest = {} THEN "endpoll" ELSE "store"
      /\ loc'[c].unstored = rest /\ loc'[c].hash = h
      /\ loc'[c].kind = loc[c].kind
      /\ UNCHANGED <<tip, sent>>
  BY DEF StoreField, Locals
<1>2. /\ h \in Hashes /\ latest \in Int /\ h \in Int /\ h <= tip
      /\ latest' = IF f = "latest" THEN h ELSE latest
      /\ seen' = [l \in Lists |-> IF f = l THEN {} ELSE seen[l]]
  BY <1>1 DEF StoreField, PollOK, CallOK, Hashes, NoHash
<1>3. \A s \in Signatures : sent'[s] > 0 => s[2] < h
  BY <1>1 DEF PollOK
<1>4. latest <= h /\ latest' <= h /\ (f = "latest" => latest' = h)
  BY <1>1, <1>2 DEF PollOK
<1>5. "latest" \notin rest => latest' = h
  BY <1>1, <1>2 DEF PollOK
<1>6. "latest" \in rest => latest' < h
  BY <1>1, <1>2 DEF PollOK
<1>7. \A l \in Lists : l \notin rest => seen'[l] = {}
  BY <1>1, <1>2 DEF PollOK
<1>8. latest' <= tip'
  BY <1>1, <1>2, <1>4 DEF Hashes
<1>9. \A s \in Signatures : sent'[s] > 0 => s[2] <= latest'
  BY <1>1, <1>2, <1>3 DEF Signatures, Hashes
<1>10. PollOK(c)'
  BY <1>1, <1>2, <1>3, <1>5, <1>6, <1>7 DEF PollOK
<1>11. SignOK(c)'
  BY <1>1, <1>5 DEF SignOK
<1>12. ListOK'
  <2>1. CASE rest = {}
    <3>1. latest' = h
      BY <2>1, <1>5
    <3>2. \A l \in Lists : seen'[l] = {}
      BY <2>1, <1>7
    <3>3. \A s \in Signatures : sent'[s] > 0 => s[2] # latest'
      BY <3>1, <1>2, <1>3 DEF Signatures, Hashes
    <3> QED BY <3>2, <3>3 DEF ListOK
  <2>2. CASE rest # {}
    BY <2>2, <1>1 DEF ListOK
  <2> QED BY <2>1, <2>2
<1> QED
  BY <1>8, <1>9, <1>10, <1>11, <1>12

(* The signature is recorded.                                              *)
LEMMA LedgerRecord ==
  ASSUME LedgerInv, NEW c \in Callers, AppendWrite(c)
  PROVE  /\ UNCHANGED <<tip, latest, sent>>
         /\ ListOK'
         /\ PollOK(c)'
         /\ SignOK(c)'
<1> USE DEF LedgerInv, TypeInv, TypeOK, Goto, world
<1> DEFINE k == loc[c].kind
<1>1. /\ pc[c] = "record" /\ pc'[c] = "submit" /\ k \in Lists
      /\ UNCHANGED <<tip, latest, sent, loc>>
      /\ loc[c].list = seen[k] /\ loc[c].hash = latest
  BY DEF AppendWrite, SignOK, CallOK
<1>2. /\ seen'[k] = seen[k] \cup {Signature(c)}
      /\ \A l \in Lists : l # k => seen'[l] = seen[l]
  BY <1>1 DEF AppendWrite
<1>3. Signature(c)[2] = latest
  BY <1>1 DEF Signature
<1>4. \A d \in Callers : pc[d] # "store"
  BY <1>1 DEF Solo
<1>5. \A s \in Signatures : sent[s] > 0 /\ s[2] = latest => s \in seen'["send"]
  BY <1>1, <1>2, <1>4 DEF ListOK, Lists
<1>6. \A l \in Lists : \A s \in seen'[l] : s[2] = latest
  BY <1>1, <1>2, <1>3, <1>4 DEF ListOK
<1>7. PollOK(c)'
  BY <1>1 DEF PollOK
<1>8. SignOK(c)'
  BY <1>1, <1>2 DEF SignOK, Signature
<1> QED
  BY <1>1, <1>5, <1>6, <1>7, <1>8 DEF ListOK

(* The signature is submitted.                                             *)
LEMMA LedgerSubmit ==
  ASSUME LedgerInv, NEW c \in Callers, Submit(c)
  PROVE  /\ UNCHANGED <<tip, latest, seen>>
         /\ \A s \in Signatures : sent'[s] > 0 => s[2] <= latest'
         /\ ListOK'
         /\ PollOK(c)'
         /\ SignOK(c)'
<1> USE DEF LedgerInv, TypeInv, TypeOK, Goto, Return, world, shared
<1>1. /\ pc[c] = "submit" /\ pc'[c] = "idle"
      /\ UNCHANGED <<tip, latest, seen>>
      /\ Signature(c)[2] = latest
      /\ loc[c].kind = "send" => Signature(c) \in seen["send"]
  BY DEF Submit, SignOK, Signature
<1>2. \A s \in Signatures : sent'[s] > 0 =>
        sent[s] > 0 \/ (s = Signature(c) /\ loc[c].kind = "send")
  BY DEF Submit
<1>3. \A d \in Callers : pc[d] # "store"
  BY <1>1 DEF Solo
<1>4. \A s \in Signatures : sent'[s] > 0 => s[2] <= latest
  BY <1>1, <1>2 DEF Hashes, NoHash
<1>5. ListOK'
  BY <1>1, <1>2, <1>3 DEF ListOK
<1> QED
  BY <1>1, <1>4, <1>5, EarlyPcs

LEMMA LedgerStep ==
  ASSUME MaxLag = 0, LedgerInv, NEW c \in Callers, Step(c)
  PROVE  LedgerInv'
<1>1. /\ TypeInv' /\ Solo'
      /\ \A d \in Callers : d # c => PollOK(d)' /\ SignOK(d)'
  BY TypeNext, OthersIdle DEF LedgerInv, Next
<1>2. CASE \E f \in Fields : StoreField(c, f)
  BY <1>1, <1>2, LedgerStore DEF LedgerInv
<1>3. CASE AppendWrite(c)
  BY <1>1, <1>3, LedgerRecord DEF LedgerInv
<1>4. CASE Submit(c)
  BY <1>1, <1>4, LedgerSubmit DEF LedgerInv
<1>5. CASE ~AppendWrite(c) /\ ~Submit(c) /\ ~\E f \in Fields : StoreField(c, f)
  <2>1. /\ UNCHANGED <<tip, latest, seen, sent>> /\ pc[c] # "store"
        /\ PollOK(c)' /\ SignOK(c)'
    BY <1>5, StepCases, LedgerFetch, LedgerQuiet
  <2> QED BY <1>1, <2>1, QuietStep DEF LedgerInv
<1> QED
  BY <1>2, <1>3, <1>4, <1>5

LEMMA LedgerNext ==
  ASSUME Exclusive, MaxLag = 0, LedgerInv, [Next]_vars
  PROVE  LedgerInv'
<1>1. TypeInv'
  BY TypeNext DEF LedgerInv
<1>2. CASE Finalize
  BY <1>1, <1>2
  DEF Finalize, shared, LedgerInv, TypeInv, TypeOK, Solo, ListOK, PollOK,
      SignOK, CallOK, Signature, Hashes, NoHash, Locals
<1>3. CASE Tick \/ UNCHANGED vars
  BY <1>1, <1>3
  DEF Tick, vars, shared, LedgerInv, Solo, ListOK, PollOK, SignOK, Signature
<1>4. ASSUME NEW c \in Callers, NEW k \in Kinds, NEW m \in Messages,
             Call(c, k, m)
      PROVE  LedgerInv'
  <2>1. \A d \in Callers : pc[d] = "idle" /\ (d # c => pc'[d] = "idle")
    BY <1>4 DEF Call, Goto, LedgerInv, TypeInv, TypeOK
  <2>2. pc'[c] = "wait" /\ UNCHANGED <<tip, latest, seen, sent>>
    BY <1>4 DEF Call, Goto, world, shared, LedgerInv, TypeInv, TypeOK
  <2>3. Solo'
    BY <2>1 DEF Solo
  <2>4. \A d \in Callers : PollOK(d)' /\ SignOK(d)'
    BY <2>1, <2>2, EarlyPcs
  <2> QED BY <1>1, <2>1, <2>2, <2>3, <2>4 DEF LedgerInv, ListOK
<1>5. ASSUME NEW c \in Callers, Step(c)
      PROVE  LedgerInv'
  BY <1>5, LedgerStep
<1> QED
  BY <1>2, <1>3, <1>4, <1>5 DEF Next

LEMMA LedgerInit == Init => LedgerInv
  BY TypeInit
  DEF Init, LedgerInv, Solo, ListOK, PollOK, SignOK, NoHash

(* Callers that never overlap, served by nodes that answer with the tip,   *)
(* keep cache, lists and submissions in step.                              *)
THEOREM LedgerInvariance ==
  Exclusive /\ MaxLag = 0 => (Spec => []LedgerInv)
<1> SUFFICES ASSUME Exclusive, MaxLag = 0
             PROVE  Spec => []LedgerInv
  OBVIOUS
<1>1. Init => LedgerInv
  BY LedgerInit
<1>2. LedgerInv /\ [Next]_vars => LedgerInv'
  BY LedgerNext
<1> QED
  BY <1>1, <1>2, PTL DEF Spec

-----------------------------------------------------------------------------
(* The cache implements the ledger.                                        *)

Admitted == {Signature(c) : c \in {d \in Callers :
               pc[d] = "submit" /\ loc[d].kind = "send"}}

(* Alone, a caller that neither arrives at nor leaves the submission of a  *)
(* "send" leaves the set of admitted signatures alone.                     *)
LEMMA AdmittedFrame ==
  ASSUME LedgerInv, NEW c \in Callers, Step(c),
         pc[c] # "submit", pc'[c] # "submit" \/ loc'[c].kind # "send"
  PROVE  Admitted' = Admitted
<1>1. \A d \in Callers : d # c => pc[d] = "idle" /\ pc'[d] = "idle"
  BY OthersIdle DEF LedgerInv
<1>2. Admitted = {}
  BY <1>1 DEF Admitted
<1>3. Admitted' = {}
  BY <1>1 DEF Admitted
<1> QED
  BY <1>2, <1>3

LEMMA LedgerSimulates ==
  ASSUME MaxLag = 0, LedgerInv, LedgerInv', NEW c \in Callers, Step(c)
  PROVE  Ledger!Next \/ UNCHANGED <<latest, Admitted, sent>>
<1> USE DEF LedgerInv, TypeInv, TypeOK, Goto, Return, world, shared
<1>1. \A d \in Callers : d # c => pc[d] = "idle" /\ pc'[d] = "idle"
  BY OthersIdle
<1>2. CASE \E f \in Fields : StoreField(c, f)
  <2>1. PICK f \in Fields : StoreField(c, f)
    BY <1>2
  <2>2. UNCHANGED <<Admitted, sent>>
    BY <2>1, AdmittedFrame DEF StoreField
  <2>3. CASE f = "latest"
    <3>1. loc[c].hash > latest /\ latest' = loc[c].hash /\ loc[c].hash \in Hashes
      BY <2>1, <2>3 DEF StoreField, PollOK, CallOK, Hashes, NoHash
    <3>2. Ledger!Advance(loc[c].hash)
      BY <3>1, <2>2 DEF Ledger!Advance, Admitted
    <3> QED BY <3>1, <3>2 DEF Ledger!Next, Hashes
  <2>4. CASE f # "latest"
    BY <2>1, <2>2, <2>4 DEF StoreField
  <2> QED BY <2>3, <2>4
<1>3. CASE AppendWrite(c)
  <2>1. UNCHANGED <<latest, sent, loc>> /\ pc[c] = "record" /\ pc'[c] = "submit"
    BY <1>3 DEF AppendWrite
  <2>2. CASE loc[c].kind = "send"
    <3>1. Signature(c) \in Signatures /\ Signature(c)[2] = latest
          /\ sent[Signature(c)] = 0
      BY <2>1, <2>2 DEF SignOK, CallOK, Signature, Signatures
    <3>2. Admitted = {}
      BY <1>1, <2>1 DEF Admitted
    <3>3. Admitted' = {Signature(c)}
      BY <1>1, <2>1, <2>2 DEF Admitted, Signature
    <3>4. PICK s \in Ledger!Signed : s = Signature(c)
      BY <3>1 DEF Ledger!Signed, Signatures, Hashes
    <3>5. Ledger!Admit(s)
      BY <2>1, <3>1, <3>2, <3>3, <3>4 DEF Ledger!Admit, Admitted
    <3> QED BY <3>5 DEF Ledger!Next
  <2>3. CASE loc[c].kind # "send"
    BY <2>1, <2>3, AdmittedFrame
  <2> QED BY <2>2, <2>3
<1>4. CASE Submit(c) \/ SubmitLost(c)
  <2>1. UNCHANGED latest /\ pc[c] = "submit" /\ pc'[c] = "idle"
    BY <1>4 DEF Submit, SubmitLost
  <2>2. Admitted' = {}
    BY <1>1, <2>1 DEF Admitted
  <2>3. CASE loc[c].kind # "send"
    <3>1. Admitted = {}
      BY <1>1, <2>3 DEF Admitted
    <3> QED BY <1>4, <2>1, <2>2, <2>3, <3>1 DEF Submit, SubmitLost
  <2>4. CASE loc[c].kind = "send"
    <3>1. Admitted = {Signature(c)}
      BY <1>1, <2>1, <2>4 DEF Admitted
    <3>2. Signature(c) \in Ledger!Signed /\ sent[Signature(c)] = 0
      BY <2>1, <2>4 DEF SignOK, CallOK, Signature, Ledger!Signed, Hashes
    <3> PICK s \in Ledger!Signed : s = Signature(c)
      BY <3>2
    <3>3. CASE Submit(c)
      <4>1. Ledger!Submit(s)
        BY <2>1, <2>2, <2>4, <3>1, <3>2, <3>3
        DEF Submit, Ledger!Submit, Admitted, Ledger!Signed, Signatures, Hashes
      <4> QED BY <4>1 DEF Ledger!Next
    <3>4. CASE SubmitLost(c)
      <4>1. Ledger!Drop(s)
        BY <2>1, <2>2, <3>1, <3>4 DEF SubmitLost, Ledger!Drop, Admitted
      <4> QED BY <4>1 DEF Ledger!Next
    <3> QED BY <1>4, <3>3, <3>4
  <2> QED BY <2>3, <2>4
<1>5. CASE Check(c)
  <2>1. UNCHANGED <<latest, sent, loc>> /\ pc[c] = "check"
        /\ (pc'[c] = "submit" => loc[c].kind = "preview")
    BY <1>5 DEF Check, OnDuplicate
  <2> QED BY <2>1, AdmittedFrame
<1>6. CASE \/ WaitPoll(c) \/ ReadClock(c) \/ ReadAge(c) \/ ReadLatest(c)
           \/ StartPoll(c) \/ FetchError(c) \/ FetchSame(c)
           \/ (\E h \in Answers : FetchNew(c, h))
           \/ EndPoll(c) \/ SignError(c) \/ AppendRead(c)
  <2>1. UNCHANGED <<latest, sent>> /\ pc[c] # "submit" /\ pc'[c] # "submit"
    BY <1>6
    DEF WaitPoll, ReadClock, ReadAge, ReadLatest, StartPoll, FetchError,
        FetchSame, FetchNew, EndPoll, SignError, AppendRead
  <2> QED BY <2>1, AdmittedFrame
<1> QED
  BY StepCases, <1>2, <1>3, <1>4, <1>5, <1>6

(* Callers that never overlap, served by nodes that answer with the tip:   *)
(* the cache keeps the ledger's promise, so no signature is submitted      *)
(* twice and every admission is under the current blockhash.               *)
THEOREM CacheImplementsLedger ==
  Exclusive /\ MaxLag = 0 => (Spec => ImplementsLedger)
<1> SUFFICES ASSUME Exclusive, MaxLag = 0
             PROVE  Spec => ImplementsLedger
  OBVIOUS
<1>1. Init => Ledger!Init
  BY DEF Init, Ledger!Init, NoHash, Ledger!Signed, Signatures, Hashes
<1>2. LedgerInv /\ [Next]_vars
        => [Ledger!Next]_<<latest, Admitted, sent>>
  <2> SUFFICES ASSUME LedgerInv, [Next]_vars
               PROVE  Ledger!Next \/ UNCHANGED <<latest, Admitted, sent>>
    OBVIOUS
  <2>1. LedgerInv'
    BY LedgerNext
  <2>2. CASE Finalize \/ Tick \/ UNCHANGED vars
    BY <2>2 DEF Finalize, Tick, vars, shared, Admitted, Signature
  <2>3. ASSUME NEW c \in Callers, NEW k \in Kinds, NEW m \in Messages,
               Call(c, k, m)
        PROVE  UNCHANGED <<latest, Admitted, sent>>
    <3>1. \A d \in Callers : pc[d] # "submit" /\ pc'[d] # "submit"
      BY <2>3 DEF Call, Goto, LedgerInv, TypeInv, TypeOK
    <3>2. Admitted = {} /\ Admitted' = {}
      BY <3>1 DEF Admitted
    <3> QED BY <2>3, <3>2 DEF Call, shared
  <2>4. ASSUME NEW c \in Callers, Step(c)
        PROVE  Ledger!Next \/ UNCHANGED <<latest, Admitted, sent>>
    BY <2>1, <2>4, LedgerSimulates
  <2> QED
    BY <2>2, <2>3, <2>4 DEF Next
<1> QED
  BY <1>1, <1>2, LedgerInvariance, PTL
  DEF Spec, ImplementsLedger, Ledger!Spec, Admitted

(* In particular no signature is submitted twice.                          *)
THEOREM NoDuplicates ==
  Exclusive /\ MaxLag = 0 => (Spec => []NoDuplicateSubmission)
<1> SUFFICES ASSUME Exclusive, MaxLag = 0
             PROVE  Spec => []NoDuplicateSubmission
  OBVIOUS
<1>1. Init => NoDuplicateSubmission
  BY DEF Init, NoDuplicateSubmission
<1>2. LedgerInv /\ NoDuplicateSubmission /\ [Next]_vars
        => NoDuplicateSubmission'
  <2> SUFFICES ASSUME LedgerInv, NoDuplicateSubmission, [Next]_vars
               PROVE  NoDuplicateSubmission'
    OBVIOUS
  <2>1. CASE UNCHANGED sent
    BY <2>1 DEF NoDuplicateSubmission
  <2>2. ASSUME NEW c \in Callers, Submit(c)
        PROVE  NoDuplicateSubmission'
    BY <2>2
    DEF Submit, Goto, Return, LedgerInv, TypeInv, TypeOK, SignOK,
        NoDuplicateSubmission
  <2>3. Next => UNCHANGED sent \/ \E c \in Callers : Submit(c)
    BY StepCases
    DEF Next, Finalize, Tick, Call, WaitPoll, ReadClock, ReadAge, ReadLatest,
        StartPoll, FetchError, FetchSame, FetchNew, StoreField, EndPoll,
        SignError, Check, AppendRead, AppendWrite, SubmitLost
  <2> QED
    BY <2>1, <2>2, <2>3 DEF vars
<1> QED
  BY <1>1, <1>2, LedgerInvariance, PTL DEF Spec

-----------------------------------------------------------------------------
(* The age of a blockhash taken from the cache.                            *)

(* What the clock, LastFetch and the history of the fetches have to do     *)
(* with each other.  Between the fields of a store they may disagree, but  *)
(* then the only caller is in the store.                                   *)
AgeOK(c) ==
  /\ pc[c] = "fetch" => loc[c].snapshot = latest
  /\ pc[c] = "store" =>
       /\ fetchedAt[loc[c].hash] = loc[c].stamp
       /\ loc[c].stamp <= now
       /\ "latest" \notin loc[c].unstored => latest = loc[c].hash
       /\ "lastFetch" \notin loc[c].unstored => lastFetch = loc[c].stamp
  /\ pc[c] \in {"age", "hit"} => lastFetch <= loc[c].stamp /\ loc[c].stamp <= now
  /\ pc[c] = "hit" => loc[c].stamp - lastFetch < Timeout

StoredWhenFetched ==
  \/ \E c \in Callers : pc[c] = "store"
  \/ latest # NoHash => fetchedAt[latest] = lastFetch

AgeInv ==
  /\ TypeInv
  /\ Solo
  /\ lastFetch <= now
  /\ StoredWhenFetched
  /\ \A c \in Callers : AgeOK(c)

(* What a step touches decides what is left to show of it.                 *)
LEMMA AgeFrame ==
  ASSUME TypeInv, Solo, NEW c \in Callers, Step(c)
  PROVE  \A d \in Callers : d # c => AgeOK(d)'
  BY OthersIdle DEF AgeOK

(* The arithmetic of Expired: LastFetch is never ahead of the clock a lone *)
(* caller has read, so its age does not wrap around.                       *)
LEMMA NotExpired ==
  ASSUME TypeInv, NEW t \in Times, lastFetch <= t, ~ Expired(t)
  PROVE  t - lastFetch < Timeout
<1>1. t - lastFetch \in 0 .. Word - 1 /\ Word \in Nat /\ Word > 0
  BY BoundAssumption DEF Times, TypeInv, TypeOK
<1>2. (t - lastFetch) % Word = t - lastFetch
  BY <1>1
<1>3. Timeout \in Nat /\ t - lastFetch \in Int
  BY <1>1, BoundAssumption
<1> QED
  BY <1>2, <1>3 DEF Expired

LEMMA AgeStore ==
  ASSUME AgeInv, NEW c \in Callers, NEW f \in Fields, StoreField(c, f)
  PROVE  lastFetch' <= now' /\ StoredWhenFetched' /\ AgeOK(c)'
<1> USE DEF AgeInv, TypeInv, TypeOK, Goto, world
<1> DEFINE h == loc[c].hash
           rest == loc[c].unstored \ {f}
<1>1. /\ pc[c] = "store" /\ h \in Hashes
      /\ pc'[c] = IF rest = {} THEN "endpoll" ELSE "store"
      /\ loc'[c].unstored = rest /\ loc'[c].hash = h
      /\ loc'[c].stamp = loc[c].stamp
      /\ UNCHANGED <<now, fetchedAt>>
  BY DEF StoreField, CallOK, Locals
<1>2. /\ latest' = IF f = "latest" THEN h ELSE latest
      /\ lastFetch' = IF f = "lastFetch" THEN loc[c].stamp ELSE lastFetch
  BY DEF StoreField
<1>3. fetchedAt[h] = loc[c].stamp /\ loc[c].stamp <= now
  BY <1>1 DEF AgeOK
<1>4. "latest" \notin rest => latest' = h
  BY <1>1, <1>2 DEF AgeOK
<1>5. "lastFetch" \notin rest => lastFetch' = loc[c].stamp
  BY <1>1, <1>2 DEF AgeOK
<1>6. lastFetch' <= now'
  BY <1>1, <1>2, <1>3
<1>7. AgeOK(c)'
  BY <1>1, <1>3, <1>4, <1>5 DEF AgeOK
<1>8. StoredWhenFetched'
  <2>1. CASE rest = {}
    BY <1>1, <1>3, <1>4, <1>5, <2>1 DEF StoredWhenFetched
  <2>2. CASE rest # {}
    BY <1>1, <2>2 DEF StoredWhenFetched
  <2> QED BY <2>1, <2>2
<1> QED
  BY <1>6, <1>7, <1>8

LEMMA AgeStep ==
  ASSUME AgeInv, NEW c \in Callers, Step(c)
  PROVE  lastFetch' <= now' /\ StoredWhenFetched' /\ AgeOK(c)'
<1> USE DEF AgeInv, TypeInv, TypeOK, Goto, Return, world, shared
<1>1. ASSUME UNCHANGED <<now, latest, lastFetch, fetchedAt>>, pc[c] # "store"
      PROVE  lastFetch' <= now' /\ StoredWhenFetched'
  <2>1. \A d \in Callers : pc[d] # "store"
    BY <1>1, OthersIdle
  <2> QED BY <1>1, <2>1 DEF StoredWhenFetched
<1>2. CASE WaitPoll(c) \/ EndPoll(c) \/ Check(c) \/ AppendRead(c) \/ AppendWrite(c)
  <2>1. /\ UNCHANGED <<now, latest, lastFetch, fetchedAt>> /\ pc[c] # "store"
        /\ pc'[c] \notin {"fetch", "store", "age", "hit"}
    BY <1>2 DEF WaitPoll, EndPoll, Check, OnDuplicate, AppendRead, AppendWrite
  <2> QED BY <1>1, <2>1 DEF AgeOK
<1>3. CASE FetchError(c) \/ SignError(c) \/ Submit(c) \/ SubmitLost(c)
  <2>1. /\ UNCHANGED <<now, latest, lastFetch, fetchedAt>> /\ pc[c] # "store"
        /\ pc'[c] = "idle"
    BY <1>3 DEF FetchError, SignError, Submit, SubmitLost
  <2> QED BY <1>1, <2>1 DEF AgeOK
<1>4. CASE ReadClock(c)
  <2>1. /\ UNCHANGED <<now, latest, lastFetch, fetchedAt>> /\ pc[c] # "store"
        /\ pc'[c] = "age" /\ loc'[c].stamp = now
    BY <1>4 DEF ReadClock, Locals
  <2> QED BY <1>1, <2>1 DEF AgeOK, Times
<1>5. CASE ReadAge(c)
  <2>1. /\ UNCHANGED <<now, latest, lastFetch, fetchedAt, loc>> /\ pc[c] = "age"
        /\ pc'[c] = IF Expired(loc[c].stamp) THEN "poll" ELSE "hit"
    BY <1>5 DEF ReadAge
  <2>2. loc[c].stamp \in Times /\ lastFetch <= loc[c].stamp /\ loc[c].stamp <= now
    BY <2>1 DEF AgeOK, Locals
  <2>3. pc'[c] = "hit" => loc[c].stamp - lastFetch < Timeout
    BY <2>1, <2>2, NotExpired
  <2> QED BY <1>1, <2>1, <2>2, <2>3 DEF AgeOK
<1>6. CASE ReadLatest(c)
  <2>1. /\ UNCHANGED <<now, latest, lastFetch, fetchedAt>> /\ pc[c] # "store"
        /\ pc'[c] \in {"poll", "check"}
    BY <1>6 DEF ReadLatest
  <2> QED BY <1>1, <2>1 DEF AgeOK
<1>7. CASE StartPoll(c)
  <2>1. /\ UNCHANGED <<now, latest, lastFetch, fetchedAt>> /\ pc[c] # "store"
        /\ pc'[c] = "fetch" /\ loc'[c].snapshot = latest
    BY <1>7 DEF StartPoll, Locals
  <2> QED BY <1>1, <2>1 DEF AgeOK
<1>8. CASE FetchSame(c)
  <2>1. /\ UNCHANGED <<now, latest, lastFetch, fetchedAt>> /\ pc[c] = "fetch"
        /\ \/ pc'[c] = "fetch" /\ loc'[c].snapshot = loc[c].snapshot
           \/ pc'[c] = "idle"
    BY <1>8 DEF FetchSame, Locals
  <2> QED BY <1>1, <2>1 DEF AgeOK
<1>9. CASE \E h \in Answers : FetchNew(c, h)
  <2>1. PICK h \in Answers : FetchNew(c, h)
    BY <1>9
  <2>2. /\ UNCHANGED <<now, latest, lastFetch>> /\ h \in Hashes
        /\ pc'[c] = "store" /\ loc'[c].hash = h /\ loc'[c].stamp = now
        /\ loc'[c].unstored = Fields /\ fetchedAt'[h] = now
    BY <2>1 DEF FetchNew, Locals, Answers
  <2>3. AgeOK(c)'
    BY <2>2 DEF AgeOK, Fields, Times
  <2> QED BY <2>2, <2>3 DEF StoredWhenFetched
<1>10. CASE \E f \in Fields : StoreField(c, f)
  BY <1>10, AgeStore
<1> QED
  BY StepCases, <1>2, <1>3, <1>4, <1>5, <1>6, <1>7, <1>8, <1>9, <1>10

LEMMA AgeNext ==
  ASSUME Exclusive, AgeInv, [Next]_vars
  PROVE  AgeInv'
<1>1. TypeInv'
  BY TypeNext DEF AgeInv
<1>2. CASE Finalize \/ UNCHANGED vars
  BY <1>1, <1>2
  DEF Finalize, vars, shared, AgeInv, Solo, StoredWhenFetched, AgeOK
<1>3. CASE Tick
  <2>1. UNCHANGED <<latest, lastFetch, fetchedAt, pc, loc>> /\ now' = now + 1
    BY <1>3 DEF Tick, shared
  <2>2. now \in Nat /\ lastFetch \in Nat /\ \A c \in Callers : loc[c].stamp \in Nat
    BY DEF AgeInv, TypeInv, TypeOK, Times, Locals
  <2> QED BY <1>1, <2>1, <2>2 DEF AgeInv, Solo, StoredWhenFetched, AgeOK
<1>4. ASSUME NEW c \in Callers, NEW k \in Kinds, NEW m \in Messages,
             Call(c, k, m)
      PROVE  AgeInv'
  <2>1. /\ \A d \in Callers : pc[d] = "idle" /\ (d # c => pc'[d] = "idle")
        /\ pc'[c] = "wait" /\ UNCHANGED <<now, latest, lastFetch, fetchedAt>>
    BY <1>4 DEF Call, Goto, world, shared, AgeInv, TypeInv, TypeOK
  <2>2. Solo' /\ \A d \in Callers : AgeOK(d)'
    BY <2>1 DEF Solo, AgeOK
  <2> QED BY <1>1, <2>1, <2>2 DEF AgeInv, StoredWhenFetched
<1>5. ASSUME NEW c \in Callers, Step(c)
      PROVE  AgeInv'
  <2>1. Solo' /\ \A d \in Callers : d # c => AgeOK(d)'
    BY <1>5, OthersIdle, AgeFrame DEF AgeInv
  <2>2. lastFetch' <= now' /\ StoredWhenFetched' /\ AgeOK(c)'
    BY <1>5, AgeStep
  <2> QED BY <1>1, <2>1, <2>2 DEF AgeInv
<1> QED
  BY <1>2, <1>3, <1>4, <1>5 DEF Next

(* Callers that never overlap take from the cache only a blockhash that    *)
(* was fetched less than blockhashCacheTimeoutMs before, whether or not    *)
(* the nodes lag behind the tip.                                           *)
THEOREM HitsAreYoung == Exclusive => (Spec => HitIsYoung)
<1> SUFFICES ASSUME Exclusive PROVE Spec => HitIsYoung
  OBVIOUS
<1>1. Init => AgeInv
  BY TypeInit, BoundAssumption
  DEF Init, AgeInv, Solo, AgeOK, StoredWhenFetched
<1>2. AgeInv /\ [Next]_vars => AgeInv'
  BY AgeNext
<1>3. AgeInv /\ [Next]_vars
        => [\A c \in Callers :
              (pc[c] = "hit" /\ pc'[c] = "check")
                => loc[c].stamp - fetchedAt[latest] < Timeout]_vars
  <2> SUFFICES ASSUME AgeInv, [Next]_vars, NEW c \in Callers,
                      pc[c] = "hit", pc'[c] = "check"
               PROVE  loc[c].stamp - fetchedAt[latest] < Timeout
    OBVIOUS
  <2>1. \A d \in Callers : pc[d] # "store"
    BY DEF AgeInv, Solo
  <2>2. Step(c)
    <3>1. ASSUME NEW d \in Callers, Step(d), d # c
          PROVE  FALSE
      BY <3>1, StepFrame DEF AgeInv
    <3>2. ASSUME NEW d \in Callers, NEW k \in Kinds, NEW m \in Messages,
                 Call(d, k, m)
          PROVE  FALSE
      BY <3>2 DEF Call, Goto, AgeInv, TypeInv, TypeOK
    <3> QED BY <3>1, <3>2 DEF Next, Finalize, Tick, vars
  <2>3. ReadLatest(c)
    BY <2>2, StepCases
    DEF WaitPoll, ReadClock, ReadAge, StartPoll, FetchError, FetchSame,
        FetchNew, StoreField, EndPoll, SignError, Check, AppendRead,
        AppendWrite, Submit, SubmitLost, Goto, Return
  <2>4. latest # NoHash
    BY <2>3 DEF ReadLatest, Goto, AgeInv, TypeInv, TypeOK
  <2> QED BY <2>1, <2>4 DEF AgeInv, StoredWhenFetched, AgeOK
<1> QED
  BY <1>1, <1>2, <1>3, PTL DEF Spec, HitIsYoung

=============================================================================
