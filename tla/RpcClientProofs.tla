---------------------------- MODULE RpcClientProofs ----------------------------
(***************************************************************************)
(* Proofs about RpcClient, for any number of requests and buffers and any  *)
(* limit of retries: calls never share a buffer, and with an eager         *)
(* transport no request carries the bytes of another.                      *)
(***************************************************************************)
EXTENDS RpcClient, TLAPS

(* Extending a sequence of bodies, or changing one of them.                *)
LEMMA BodiesEdits ==
  ASSUME NEW s \in Seq(Bodies), NEW x \in Bodies, NEW n \in 1 .. Len(s)
  PROVE  /\ [s EXCEPT ![n] = x] \in Seq(Bodies)
         /\ Len([s EXCEPT ![n] = x]) = Len(s)
OBVIOUS

(* Appending a body: its length and its elements.                          *)
LEMMA BodiesAppend ==
  ASSUME NEW s \in Seq(Bodies), NEW x \in Bodies
  PROVE  /\ Append(s, x) \in Seq(Bodies)
         /\ Len(Append(s, x)) = Len(s) + 1
         /\ \A n \in 1 .. Len(s) : Append(s, x)[n] = s[n]
         /\ Append(s, x)[Len(s) + 1] = x
OBVIOUS

(* The invariant holds initially.                                          *)
LEMMA RpcInit == Init => RpcInv
BY RetriesAssumption, NoneAssumption
   DEF Init, RpcInv, TypeOK, CallInv, BuffersExclusive, Holds, EagerInv, BodiesAreOwn,
       Bodies

(* Taking a buffer: nobody holds it, whether it is pooled or new.          *)
LEMMA GetStep ==
  ASSUME RpcInv, NEW r \in Requests, NEW b \in Buffers, Get(r, b)
  PROVE  RpcInv'
<1> USE DEF RpcInv
<1>1. \A q \in Requests : ~Holds(q, b)
  BY DEF Get, InUse, BuffersExclusive, Holds
<1>2. TypeOK'
  BY DEF Get, TypeOK
<1>3. CallInv'
  BY DEF Get, TypeOK, CallInv
<1>4. BuffersExclusive'
  BY <1>1 DEF Get, TypeOK, BuffersExclusive, Holds
<1>5. EagerInv' /\ BodiesAreOwn'
  BY DEF Get, TypeOK, CallInv, EagerInv, BodiesAreOwn
<1> QED BY <1>2, <1>3, <1>4, <1>5

(* The pool forgets a buffer.                                              *)
LEMMA ForgetStep ==
  ASSUME RpcInv, NEW b \in Buffers, Forget(b)
  PROVE  RpcInv'
BY DEF RpcInv, Forget, TypeOK, CallInv, BuffersExclusive, Holds, EagerInv,
       BodiesAreOwn

(* A call writes its own bytes into a buffer that is nobody else's, or     *)
(* gives up and puts the buffer back.                                      *)
LEMMA EncodeStep ==
  ASSUME RpcInv, NEW r \in Requests, Encode(r) \/ EncodeFails(r)
  PROVE  RpcInv'
<1> USE DEF RpcInv
<1>1. PICK u \in {r, None} :
        /\ pc[r] = "encode"
        /\ unread' = [unread EXCEPT ![writer[r]] = u]
        /\ \/ pc' = [pc EXCEPT ![r] = "send"] /\ pool' = pool
           \/ pc' = [pc EXCEPT ![r] = "done"] /\ pool' = pool \cup {writer[r]}
        /\ UNCHANGED <<eager, disabled, writer, bodies>>
  BY DEF Encode, EncodeFails, Return
<1>2. writer[r] \in Buffers /\ Holds(r, writer[r]) /\ writer[r] \notin pool
  BY <1>1 DEF CallInv, Holds, BuffersExclusive
<1>3. TypeOK'
  BY <1>1, <1>2 DEF TypeOK
<1>4. CallInv'
  BY <1>1, RetriesAssumption DEF TypeOK, CallInv
<1>5. BuffersExclusive'
  <2>1. CASE pc' = [pc EXCEPT ![r] = "send"] /\ pool' = pool
    BY <2>1, <1>1 DEF TypeOK, BuffersExclusive, Holds
  <2>2. CASE pc' = [pc EXCEPT ![r] = "done"] /\ pool' = pool \cup {writer[r]}
    BY <2>2, <1>1, <1>2 DEF TypeOK, BuffersExclusive, Holds
  <2> QED BY <1>1, <2>1, <2>2
<1>6. EagerInv'
  <2> SUFFICES ASSUME eager, NEW q \in Requests
               PROVE  /\ pc'[q] \in {"send", "exchange", "backoff"}
                           => unread'[writer[q]] \in {q, None}
                      /\ \A n \in DOMAIN bodies[q] :
                           bodies[q][n] = Pending
                             => pc'[q] = "exchange" /\ n = Len(bodies[q])
    BY <1>1 DEF EagerInv
  <2>1. CASE q = r
    BY <2>1, <1>1, <1>2 DEF TypeOK, CallInv
  <2>2. CASE q # r
    <3>1. pc[q] \in {"send", "exchange", "backoff"} => writer[q] # writer[r]
      BY <2>2, <1>2 DEF BuffersExclusive, Holds
    <3>2. pc[q] \in {"send", "exchange", "backoff"} => writer[q] \in Buffers
      BY DEF CallInv
    <3>3. pc'[q] = pc[q]
      BY <2>2, <1>1 DEF TypeOK
    <3>4. pc[q] \in {"send", "exchange", "backoff"}
            => unread'[writer[q]] = unread[writer[q]]
      BY <3>1, <3>2, <1>1 DEF TypeOK
    <3> QED BY <3>3, <3>4 DEF EagerInv
  <2> QED BY <2>1, <2>2
<1>7. BodiesAreOwn'
  BY <1>1 DEF BodiesAreOwn
<1> QED BY <1>3, <1>4, <1>5, <1>6, <1>7

(* A new attempt is the last one, and within the limit.                    *)
LEMMA AttemptStep ==
  ASSUME RpcInv, NEW r \in Requests, Attempt(r)
  PROVE  RpcInv'
<1> USE DEF RpcInv
<1> DEFINE x == IF unread[writer[r]] = None THEN Empty ELSE Pending
           s == bodies[r]
<1>1. /\ pc[r] = "send" /\ s \in Seq(Bodies) /\ x \in Bodies
      /\ pc' = [pc EXCEPT ![r] = "exchange"]
      /\ bodies' = [bodies EXCEPT ![r] = Append(s, x)]
      /\ UNCHANGED <<eager, pool, unread, writer>>
  BY DEF Attempt, TypeOK, Bodies
<1>2. /\ Append(s, x) \in Seq(Bodies)
      /\ Len(Append(s, x)) = Len(s) + 1
      /\ \A n \in 1 .. Len(s) : Append(s, x)[n] = s[n]
      /\ Append(s, x)[Len(s) + 1] = x
  BY <1>1, BodiesAppend
<1>3. bodies'[r] = Append(s, x) /\ pc'[r] = "exchange"
  BY <1>1 DEF TypeOK
<1> HIDE DEF x, s
<1>4. \A q \in Requests : q # r => bodies'[q] = bodies[q] /\ pc'[q] = pc[q]
  BY <1>1 DEF TypeOK
<1>5. Len(s) < MaxRetries /\ Len(s) \in Nat
  BY <1>1 DEF CallInv, s
<1>6. TypeOK'
  <2>1. bodies' \in [Requests -> Seq(Bodies)]
    BY <1>1, <1>2 DEF TypeOK
  <2>2. \A q \in Requests : Len(bodies'[q]) <= MaxRetries
    <3>1. Len(bodies'[r]) <= MaxRetries
      BY <1>2, <1>3, <1>5, RetriesAssumption
    <3>2. \A q \in Requests : q # r => Len(bodies'[q]) <= MaxRetries
      BY <1>4 DEF TypeOK
    <3> QED BY <3>1, <3>2
  <2> QED BY <2>1, <2>2, <1>1 DEF TypeOK, Attempt
<1>7. CallInv'
  BY <1>1, <1>2, <1>3, <1>4, <1>5 DEF CallInv
<1>8. BuffersExclusive'
  BY <1>1, <1>3, <1>4 DEF BuffersExclusive, Holds
<1>9. EagerInv'
  <2> SUFFICES ASSUME eager
               PROVE  \A q \in Requests :
                 /\ pc'[q] \in {"send", "exchange", "backoff"}
                      => unread[writer[q]] \in {q, None}
                 /\ \A n \in DOMAIN bodies'[q] :
                      bodies'[q][n] = Pending
                        => pc'[q] = "exchange" /\ n = Len(bodies'[q])
    BY <1>1 DEF EagerInv
  <2>1. unread[writer[r]] \in {r, None}
    BY <1>1 DEF EagerInv
  <2>2. \A n \in 1 .. Len(s) : s[n] # Pending
    BY <1>1 DEF EagerInv, s
  <2>3. \A n \in DOMAIN bodies'[r] : n \in 1 .. Len(s) \/ n = Len(s) + 1
    BY <1>2, <1>3, <1>5
  <2> QED BY <2>1, <2>2, <2>3, <1>2, <1>3, <1>4 DEF EagerInv
<1>10. BodiesAreOwn'
  <2>1. \A n \in DOMAIN bodies'[r] : n \in 1 .. Len(s) \/ n = Len(s) + 1
    BY <1>2, <1>3, <1>5
  <2> QED BY <2>1, <1>1, <1>2, <1>3, <1>4 DEF BodiesAreOwn, x, s
<1> QED BY <1>6, <1>7, <1>8, <1>9, <1>10

(* The transport of r changes one body of r: the other parts of the state  *)
(* do not tell.                                                            *)
LEMMA ReadStep ==
  ASSUME RpcInv, NEW r \in Requests, NEW n \in 1 .. MaxRetries, TransportReads(r, n)
  PROVE  RpcInv'
<1> USE DEF RpcInv
<1> DEFINE found == unread[writer[r]]
           x == IF found = None THEN Broken ELSE found
           s == bodies[r]
<1>1. /\ s \in Seq(Bodies) /\ n \in 1 .. Len(s) /\ s[n] = Pending
      /\ bodies' = [bodies EXCEPT ![r] = [s EXCEPT ![n] = x]]
      /\ unread' = [unread EXCEPT ![writer[r]] = None]
      /\ UNCHANGED <<eager, disabled, pool, pc, writer>>
  BY DEF TransportReads, TypeOK
<1>2. pc[r] # "idle" /\ writer[r] \in Buffers
  BY <1>1 DEF CallInv
<1>3. x \in Bodies
  BY <1>2 DEF TypeOK, Bodies
<1>4. [s EXCEPT ![n] = x] \in Seq(Bodies) /\ Len([s EXCEPT ![n] = x]) = Len(s)
  BY <1>1, <1>3, BodiesEdits
<1>5. eager => /\ pc[r] = "exchange" /\ n = Len(s) /\ Holds(r, writer[r])
               /\ x \in {r, Broken}
  BY <1>1 DEF EagerInv, Holds
<1>6. /\ \A m \in DOMAIN s : m # n => bodies'[r][m] = s[m]
      /\ DOMAIN bodies'[r] = DOMAIN s
      /\ bodies'[r][n] = x
      /\ \A q \in Requests : q # r => bodies'[q] = bodies[q]
      /\ Len(bodies'[r]) = Len(s)
  BY <1>1, <1>4 DEF TypeOK
<1>7. TypeOK'
  <2>1. bodies' \in [Requests -> Seq(Bodies)]
    BY <1>1, <1>4 DEF TypeOK
  <2>2. \A q \in Requests : Len(bodies'[q]) <= MaxRetries
    BY <1>6 DEF TypeOK
  <2> QED BY <2>1, <2>2, <1>1 DEF TypeOK
<1>8. CallInv'
  BY <1>1, <1>2, <1>6 DEF CallInv
<1>9. BuffersExclusive'
  BY <1>1 DEF BuffersExclusive, Holds
<1>10. ASSUME eager, NEW q \in Requests
       PROVE  /\ pc[q] \in {"send", "exchange", "backoff"}
                   => unread'[writer[q]] \in {q, None}
              /\ \A m \in DOMAIN bodies'[q] :
                   bodies'[q][m] = Pending
                     => pc[q] = "exchange" /\ m = Len(bodies'[q])
  <2>1. pc[q] \in {"send", "exchange", "backoff"}
          => unread'[writer[q]] \in {unread[writer[q]], None}
    BY <1>1 DEF CallInv, TypeOK
  <2>2. CASE q = r
    BY <2>1, <2>2, <1>10, <1>5, <1>6 DEF EagerInv
  <2>3. CASE q # r
    BY <2>1, <2>3, <1>10, <1>6 DEF EagerInv
  <2> QED BY <2>2, <2>3
<1>11. EagerInv'
  BY <1>1, <1>10 DEF EagerInv
<1>12. BodiesAreOwn'
  <2> SUFFICES ASSUME eager, NEW q \in Requests, NEW m \in DOMAIN bodies'[q]
               PROVE  bodies'[q][m] \in {q, Empty, Pending, Broken}
    BY <1>1 DEF BodiesAreOwn
  <2>1. CASE q = r /\ m = n
    BY <2>1, <1>5, <1>6
  <2>2. CASE q # r \/ m # n
    BY <2>2, <1>6 DEF BodiesAreOwn
  <2> QED BY <2>1, <2>2
<1> QED BY <1>7, <1>8, <1>9, <1>11, <1>12

(* A call that returns puts back a buffer nobody else holds, and one that  *)
(* waits keeps it.                                                         *)
LEMMA ReturnStep ==
  ASSUME RpcInv, NEW r \in Requests,
         \/ AttemptFails(r) \/ Answered(r) \/ RateLimited(r) \/ BackoffEnds(r)
         \/ Cancelled(r)
  PROVE  RpcInv'
<1> USE DEF RpcInv
<1>1. PICK to \in {"done", "backoff", "send"} :
        /\ pc[r] \in {"send", "exchange", "backoff"}
        /\ pc[r] = "exchange" => (eager => Last(r) # Pending)
        /\ pc' = [pc EXCEPT ![r] = to]
        /\ pool' = IF to = "done" THEN pool \cup {writer[r]} ELSE pool
        /\ to = "send" => Len(bodies[r]) < MaxRetries
        /\ UNCHANGED <<eager, disabled, unread, writer, bodies>>
  BY DEF AttemptFails, Answered, Answerable, RateLimited, BackoffEnds, Cancelled, Return
<1>2. writer[r] \in Buffers /\ Holds(r, writer[r]) /\ writer[r] \notin pool
  BY <1>1 DEF CallInv, Holds, BuffersExclusive
<1>3. TypeOK'
  BY <1>1, <1>2 DEF TypeOK
<1>4. CallInv'
  BY <1>1 DEF TypeOK, CallInv
<1>5. BuffersExclusive'
  BY <1>1, <1>2 DEF TypeOK, BuffersExclusive, Holds
<1>6. eager => \A n \in DOMAIN bodies[r] : bodies[r][n] # Pending
  BY <1>1 DEF EagerInv, Last
<1>7. EagerInv'
  BY <1>1, <1>6 DEF TypeOK, EagerInv
<1>8. BodiesAreOwn'
  BY <1>1 DEF BodiesAreOwn
<1> QED BY <1>3, <1>4, <1>5, <1>7, <1>8

(* A call whose exchange fails gives the body up.                          *)
LEMMA DialStep ==
  ASSUME RpcInv, NEW r \in Requests, DialFails(r)
  PROVE  RpcInv'
<1> USE DEF RpcInv
<1> DEFINE s == bodies[r]
           n == Len(bodies[r])
<1>1. /\ pc[r] = "exchange" /\ s \in Seq(Bodies) /\ s[n] = Pending
      /\ pc' = [pc EXCEPT ![r] = "done"]
      /\ pool' = pool \cup {writer[r]}
      /\ bodies' = [bodies EXCEPT ![r] = [s EXCEPT ![n] = Broken]]
      /\ UNCHANGED <<eager, disabled, unread, writer>>
  BY DEF DialFails, Return, TypeOK, Last
<1>2. writer[r] \in Buffers /\ Holds(r, writer[r]) /\ writer[r] \notin pool
  BY <1>1 DEF CallInv, Holds, BuffersExclusive
<1>3. [s EXCEPT ![n] = Broken] \in Seq(Bodies)
      /\ Len([s EXCEPT ![n] = Broken]) = Len(s)
  BY <1>1, BodiesEdits DEF Bodies, CallInv
<1>4. /\ \A m \in DOMAIN s : m # n => bodies'[r][m] = s[m]
      /\ DOMAIN bodies'[r] = DOMAIN s
      /\ n \in DOMAIN s => bodies'[r][n] = Broken
      /\ \A q \in Requests : q # r => bodies'[q] = bodies[q] /\ pc'[q] = pc[q]
      /\ Len(bodies'[r]) = Len(s)
      /\ pc'[r] = "done"
  BY <1>1, <1>3 DEF TypeOK
<1>5. TypeOK'
  <2>1. bodies' \in [Requests -> Seq(Bodies)]
    BY <1>1, <1>3 DEF TypeOK
  <2>2. \A q \in Requests : Len(bodies'[q]) <= MaxRetries
    BY <1>4 DEF TypeOK
  <2> QED BY <2>1, <2>2, <1>1, <1>2 DEF TypeOK
<1>6. CallInv'
  BY <1>1, <1>2, <1>4 DEF CallInv
<1>7. BuffersExclusive'
  BY <1>1, <1>2, <1>4 DEF BuffersExclusive, Holds
<1>8. EagerInv'
  <2> SUFFICES ASSUME eager, NEW q \in Requests
               PROVE  /\ pc'[q] \in {"send", "exchange", "backoff"}
                           => unread[writer[q]] \in {q, None}
                      /\ \A m \in DOMAIN bodies'[q] :
                           bodies'[q][m] = Pending
                             => pc'[q] = "exchange" /\ m = Len(bodies'[q])
    BY <1>1 DEF EagerInv
  <2>1. CASE q = r
    <3>1. \A m \in DOMAIN s : m # n => s[m] # Pending
      BY DEF EagerInv
    <3>2. Broken # Pending
      BY DEF Broken, Pending
    <3> QED BY <2>1, <3>1, <3>2, <1>4
  <2>2. CASE q # r
    BY <2>2, <1>4 DEF EagerInv
  <2> QED BY <2>1, <2>2
<1>9. BodiesAreOwn'
  <2> SUFFICES ASSUME eager, NEW q \in Requests, NEW m \in DOMAIN bodies'[q]
               PROVE  bodies'[q][m] \in {q, Empty, Pending, Broken}
    BY <1>1 DEF BodiesAreOwn
  <2>1. CASE q = r /\ m = n
    BY <2>1, <1>4
  <2>2. CASE q # r \/ m # n
    BY <2>2, <1>4 DEF BodiesAreOwn
  <2> QED BY <2>1, <2>2
<1> QED BY <1>5, <1>6, <1>7, <1>8, <1>9

(* Every step preserves the invariant.                                     *)
LEMMA RpcNext == RpcInv /\ [Next]_vars => RpcInv'
<1> SUFFICES ASSUME RpcInv, [Next]_vars
             PROVE  RpcInv'
  OBVIOUS
<1>1. CASE \E r \in Requests, b \in Buffers : Get(r, b)
  BY <1>1, GetStep
<1>2. CASE \E b \in Buffers : Forget(b)
  BY <1>2, ForgetStep
<1>3. ASSUME NEW r \in Requests, Progress(r) \/ Trouble(r)
      PROVE  RpcInv'
  BY <1>3, EncodeStep, AttemptStep, ReadStep, ReturnStep, DialStep
     DEF Progress, Trouble
<1>4. CASE UNCHANGED vars
  BY <1>4 DEF vars, RpcInv, TypeOK, CallInv, BuffersExclusive, Holds, EagerInv,
              BodiesAreOwn
<1> QED BY <1>1, <1>2, <1>3, <1>4 DEF Next

(* The inductive invariant holds in every reachable state.                 *)
LEMMA RpcInvariance == Spec => []RpcInv
BY RpcInit, RpcNext, PTL DEF Spec

(* For any requests and buffers the state keeps its types, and no call     *)
(* makes more attempts than the limit.                                     *)
THEOREM RpcTypes == Spec => []TypeOK
<1>1. RpcInv => TypeOK
  BY DEF RpcInv
<1> QED BY <1>1, RpcInvariance, PTL


(* A buffer is never in the pool while a call uses it, and never used by   *)
(* two calls.                                                              *)
THEOREM BuffersAreExclusive == Spec => []BuffersExclusive
<1>1. RpcInv => BuffersExclusive
  BY DEF RpcInv
<1> QED BY <1>1, RpcInvariance, PTL

(* With an eager transport no request carries the bytes of another.        *)
THEOREM BodiesAreOwned == Spec => []BodiesAreOwn
<1>1. RpcInv => BodiesAreOwn
  BY DEF RpcInv
<1> QED BY <1>1, RpcInvariance, PTL

=============================================================================
