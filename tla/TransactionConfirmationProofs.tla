--------------------- MODULE TransactionConfirmationProofs ---------------------
(***************************************************************************)
(* Proofs about TransactionConfirmation, for every LastValid and MaxHeight *)
(* and every set of strategies and commitments.                            *)
(*                                                                         *)
(* One inductive invariant, ConfirmationInv, carries everything: the order *)
(* of the cluster's heights, what the confirmer has in hand, and what an   *)
(* expiry rests on.  It is proved action by action, the cluster first.     *)
(***************************************************************************)
EXTENDS TransactionConfirmation, TLAPS

(* The levels are the numbers 1 to 3 and a commitment asks for one of them.*)
LEMMA WantedLevel ==
  ASSUME TypeOK
  PROVE  Wanted \in Levels
BY DEF TypeOK, Wanted, Levels, AllCommitments, Processed, Confirmed, Finalized

(* What a node has confirmed or finalized it has also processed.           *)
LEMMA HigherLevels ==
  ASSUME TypeOK, ClusterInv, NEW block \in Heights
  PROVE  /\ IsAt(Finalized, block, height) => IsAt(Confirmed, block, height)
         /\ IsAt(Confirmed, block, height) => IsAt(Processed, block, height)
BY HeightsAssumption
   DEF TypeOK, ClusterInv, IsAt, Heights, Levels, Processed, Confirmed, Finalized

(* The invariant holds initially.                                          *)
LEMMA ConfirmationInit == Init => ConfirmationInv
<1> SUFFICES ASSUME Init PROVE ConfirmationInv
  OBVIOUS
<1>1. 0 \in Heights
  BY HeightsAssumption DEF Heights
<1>2. NoAnswer \in Answers
  BY DEF NoAnswer, Answers, Errors
<1>3. TypeOK
  BY <1>1, <1>2, StrategiesAssumption, CommitmentsAssumption
     DEF Init, TypeOK, Outcomes
<1>4. ClusterInv
  BY DEF Init, ClusterInv, IsAt, Levels, Processed, Confirmed, Finalized
<1>5. VerdictInv /\ ExpiryInv
  BY DEF Init, VerdictInv, ExpiryInv, NoAnswer
<1> QED BY <1>3, <1>4, <1>5 DEF ConfirmationInv

(* Blocks come and go: the heights stay ordered and only that of processed *)
(* blocks goes back, and the history of the transaction only grows.        *)
LEMMA ClusterStep ==
  ASSUME ConfirmationInv, Cluster
  PROVE  ConfirmationInv'
<1> USE DEF ConfirmationInv
<1>1. CASE \E holds, other \in BOOLEAN : NewBlock(holds, other)
  <2>1. PICK holds \in BOOLEAN, other \in BOOLEAN : NewBlock(holds, other)
    BY <1>1
  <2>2. TypeOK'
    <3>1. height[Processed] + 1 \in Heights
      BY <2>1, HeightsAssumption
         DEF TypeOK, NewBlock, Heights, Levels, Processed
    <3>2. height' \in [Levels -> Heights]
      BY <2>1, <3>1 DEF TypeOK, NewBlock
    <3>3. landed' \in Heights /\ nonceUsed' \in Heights
      BY <2>1, <3>1 DEF TypeOK, NewBlock
    <3>4. reached' \subseteq Levels
      BY <2>1 DEF TypeOK, NewBlock, Observe
    <3> QED BY <2>1, <3>2, <3>3, <3>4 DEF TypeOK, NewBlock, request
  <2>3. ClusterInv'
    BY <2>1, HeightsAssumption
       DEF TypeOK, ClusterInv, NewBlock, Observe, IsAt, Heights, Levels,
           Processed, Confirmed, Finalized
  <2>4. VerdictInv'
    BY <2>1 DEF VerdictInv, NewBlock, Observe, request, Wanted, Verdict, HasErr,
                HasErrPanics
  <2>5. ExpiryInv'
    BY <2>1, HeightsAssumption
       DEF TypeOK, ExpiryInv, Exceeded, Wanted, NewBlock, request, Heights, Levels,
           Processed, Confirmed, Finalized
  <2> QED BY <2>2, <2>3, <2>4, <2>5
<1>2. CASE \E l \in Levels : Advance(l)
  <2>1. PICK l \in Levels : Advance(l)
    BY <1>2
  <2>2. TypeOK'
    <3>1. height[l] + 1 \in Heights
      BY <2>1, HeightsAssumption
         DEF TypeOK, Advance, Heights, Levels, Processed, Confirmed, Finalized
    <3>2. height' \in [Levels -> Heights]
      BY <2>1, <3>1 DEF TypeOK, Advance
    <3>3. reached' \subseteq Levels
      BY <2>1 DEF TypeOK, Advance, Observe
    <3> QED BY <2>1, <3>2, <3>3 DEF TypeOK, Advance, request
  <2>3. ClusterInv'
    BY <2>1, HeightsAssumption
       DEF TypeOK, ClusterInv, Advance, Observe, IsAt, Heights, Levels,
           Processed, Confirmed, Finalized
  <2>4. VerdictInv'
    BY <2>1 DEF VerdictInv, Advance, Observe, request, Wanted, Verdict, HasErr,
                HasErrPanics
  <2>5. ExpiryInv'
    BY <2>1, HeightsAssumption
       DEF TypeOK, ExpiryInv, Exceeded, Wanted, Advance, request, Heights, Levels,
           Processed, Confirmed, Finalized
  <2> QED BY <2>2, <2>3, <2>4, <2>5
<1>3. CASE \E h \in Heights : Reorganize(h)
  <2>1. PICK h \in Heights : Reorganize(h)
    BY <1>3
  <2>2. TypeOK' /\ ClusterInv'
    BY <2>1, HeightsAssumption
       DEF TypeOK, ClusterInv, Reorganize, request, IsAt, Heights, Levels,
           Processed, Confirmed, Finalized
  <2>3. VerdictInv'
    BY <2>1 DEF VerdictInv, Reorganize, request, Wanted, Verdict, HasErr, HasErrPanics
  <2>4. \A l \in Levels \ {Processed} : height'[l] = height[l]
    BY <2>1 DEF TypeOK, Reorganize, Levels, Processed, Confirmed, Finalized
  <2>5. ExpiryInv'
    BY <2>1, <2>4, WantedLevel DEF ExpiryInv, Exceeded, Wanted, Reorganize, request
  <2> QED BY <2>2, <2>3, <2>5
<1> QED BY <1>1, <1>2, <1>3 DEF Cluster

(* The confirmer: what it has in hand comes from a level that satisfies    *)
(* the commitment, or from an empty status.                                *)
LEMMA ConfirmerStep ==
  ASSUME ConfirmationInv, Confirmer
  PROVE  ConfirmationInv'
<1> USE DEF ConfirmationInv
<1>1. /\ UNCHANGED <<request, cluster, submitted, main, expirer, outcome>>
      /\ confirmer # "exit"
      /\ confirmer' \in {"deliver", "subscribe", "receive"}
  BY DEF Confirmer, QueryStatus, QueryFails, Subscribe, SocketFails, Notify,
         Confirmation
<1>2. Wanted' = Wanted
  BY <1>1 DEF Wanted, request
<1>3. \/ answer' = answer
      \/ answer' = NoAnswer
      \/ answer' = [via |-> "status", level |-> Unseen, err |-> "none"]
      \/ \E via \in {"status", "socket"}, l \in Levels :
           /\ answer' = [via |-> via, level |-> l, err |-> txErr]
           /\ Wanted \in reached
  <2>1. CASE \E l \in Levels \cup {Unseen} : QueryStatus(l)
    <3>1. PICK l \in Levels \cup {Unseen} : QueryStatus(l)
      BY <2>1
    <3>2. CASE l = Unseen
      BY <3>1, <3>2 DEF QueryStatus
    <3>3. CASE l # Unseen /\ l \in Accepted
      <4>1. IsAt(l, landed, height)
        BY <3>1, <3>3 DEF QueryStatus
      <4>2. IsAt(Wanted, landed, height)
        BY <4>1, <3>3, HigherLevels
           DEF TypeOK, Accepted, Wanted, AllCommitments, Unseen, Processed,
               Confirmed, Finalized
      <4>3. Wanted \in reached
        BY <4>2, WantedLevel DEF ClusterInv
      <4>4. answer' = [via |-> "status", level |-> l, err |-> txErr]
        BY <3>1, <3>3 DEF QueryStatus
      <4> QED BY <4>3, <4>4, <3>3
    <3>4. CASE l \notin Accepted
      BY <3>1, <3>4 DEF QueryStatus
    <3> QED BY <3>2, <3>3, <3>4
  <2>2. CASE Notify
    BY <2>2, WantedLevel DEF Notify, ClusterInv
  <2>3. CASE QueryFails \/ Subscribe \/ SocketFails
    BY <2>3 DEF QueryFails, Subscribe, SocketFails
  <2> QED BY <2>1, <2>2, <2>3 DEF Confirmer
<1>4. TypeOK'
  <2>1. answer' \in Answers
    BY <1>3 DEF TypeOK, Answers, NoAnswer, Errors, Levels
  <2> QED BY <2>1, <1>1 DEF TypeOK, request, cluster
<1>5. VerdictInv'
  <2>1. outcome' \notin {"ok", "failed"}
    BY <1>1 DEF VerdictInv
  <2>2. txErr' = txErr /\ reached' = reached
    BY <1>1 DEF request, cluster
  <2>3. /\ answer'.level # Unseen =>
             answer'.via # "error" /\ Wanted \in reached /\ answer'.err = txErr
        /\ answer'.level = Unseen => answer'.err = "none"
    BY <1>3 DEF VerdictInv, NoAnswer, Levels, Unseen, Processed, Confirmed,
                Finalized
  <2> QED BY <2>1, <2>2, <2>3, <1>2 DEF VerdictInv
<1>6. ClusterInv' /\ ExpiryInv'
  BY <1>1, <1>2 DEF ClusterInv, ExpiryInv, Exceeded, request, cluster, IsAt
<1> QED BY <1>4, <1>5, <1>6

(* The expirer signals an expiry only past the last valid height.          *)
LEMMA ExpirerStep ==
  ASSUME ConfirmationInv, Expirer
  PROVE  ConfirmationInv'
<1> USE DEF ConfirmationInv
<1>1. CASE NonceMissing
  BY <1>1 DEF NonceMissing, Finish, TypeOK, ClusterInv, VerdictInv, ExpiryInv,
              Exceeded, request, cluster, Wanted, IsAt, Outcomes
<1>2. CASE PollExpired \/ PollValid \/ PollFails \/ Wake
  <2>1. /\ UNCHANGED <<request, cluster, submitted, main, confirmer, answer,
                       outcome>>
        /\ expirer # "none"
        /\ expirer' \in {"poll", "sleep", "deliver"}
        /\ expirer' = "deliver" => Expired
    BY <1>2 DEF PollExpired, PollValid, PollFails, Wake, Expiry
  <2>2. TypeOK' /\ ClusterInv'
    BY <2>1 DEF TypeOK, ClusterInv, request, cluster, IsAt
  <2>3. VerdictInv'
    BY <2>1 DEF VerdictInv, request, cluster, Wanted, Verdict, HasErr,
                HasErrPanics
  <2>4. strategy # "nonce" /\ Expired => Exceeded
    BY WantedLevel, HeightsAssumption DEF TypeOK, Expired, Exceeded, Heights
  <2>5. Exceeded' = Exceeded
    BY <2>1 DEF Exceeded, Wanted, request, cluster
  <2>6. ExpiryInv'
    BY <2>1, <2>4, <2>5 DEF ExpiryInv, request, cluster
  <2> QED BY <2>2, <2>3, <2>6
<1> QED BY <1>1, <1>2 DEF Expirer

(* The caller: it returns what it received.                                *)
LEMMA CallerStep ==
  ASSUME ConfirmationInv, Caller
  PROVE  ConfirmationInv'
<1> USE DEF ConfirmationInv
<1>1. /\ UNCHANGED <<request, cluster, answer>>
      /\ main # "done"
      /\ Wanted' = Wanted
  BY DEF Caller, Send, SendFails, ReceiveConfirmation, ReceiveExpiry, TimeOut,
         StatusAnswered, StatusAgain, StatusFails, Wanted, request
<1>2. outcome = "none"
  BY <1>1 DEF TypeOK
<1>3. ClusterInv'
  BY <1>1 DEF ClusterInv, cluster, IsAt
<1>4. Verdict(answer) \in Outcomes \ {"none", "expired"}
  BY DEF Verdict, Outcomes
<1>5. TypeOK'
  <2>1. main' \in {"select", "status", "again", "done"}
        /\ submitted' \in BOOLEAN
        /\ confirmer' \in {confirmer, "query", "exit"}
        /\ expirer' \in {expirer, "none", "poll", "exit"}
        /\ outcome' \in Outcomes
        /\ (main' = "done") = (outcome' # "none")
    BY <1>2, <1>4
       DEF TypeOK, Caller, Send, SendFails, ReceiveConfirmation, ReceiveExpiry,
           TimeOut, StatusAnswered, StatusAgain, StatusFails, Finish, Outcomes
  <2> QED BY <2>1, <1>1 DEF TypeOK, request, cluster
<1>6. VerdictInv'
  <2>1. outcome' \in {"ok", "failed"} =>
          confirmer' = "exit" /\ outcome' = Verdict(answer)
    BY <1>2 DEF Caller, Send, SendFails, ReceiveConfirmation, ReceiveExpiry,
                TimeOut, StatusAnswered, StatusAgain, StatusFails, Finish
  <2>2. Verdict(answer)' = Verdict(answer)
    BY <1>1 DEF Verdict, HasErr, HasErrPanics, request
  <2> QED BY <2>1, <2>2, <1>1 DEF VerdictInv, request, cluster
<1>7. ExpiryInv'
  <2>1. expirer' = "deliver" => expirer = "deliver"
    BY DEF Caller, Send, SendFails, ReceiveConfirmation, ReceiveExpiry, TimeOut,
           StatusAnswered, StatusAgain, StatusFails
  <2>2. expirer' # "none" => strategy \in {"blockheight", "nonce"}
    BY DEF TypeOK, AllStrategies, ExpiryInv, Caller, Send, SendFails,
           ReceiveConfirmation, ReceiveExpiry, TimeOut, StatusAnswered,
           StatusAgain, StatusFails
  <2>3. outcome' = "expired" =>
          expirer = "deliver" /\ strategy # "nonce"
    BY <1>2, <1>4
       DEF Caller, Send, SendFails, ReceiveConfirmation, ReceiveExpiry, TimeOut,
           StatusAnswered, StatusAgain, StatusFails, Finish
  <2> QED BY <2>1, <2>2, <2>3, <1>1 DEF ExpiryInv, Exceeded, request, cluster
<1> QED BY <1>3, <1>5, <1>6, <1>7

(* Every step preserves the invariant.                                     *)
LEMMA ConfirmationNext == ConfirmationInv /\ [Next]_vars => ConfirmationInv'
<1> SUFFICES ASSUME ConfirmationInv, [Next]_vars
             PROVE  ConfirmationInv'
  OBVIOUS
<1>1. CASE Next
  BY <1>1, ClusterStep, CallerStep, ConfirmerStep, ExpirerStep DEF Next
<1>2. CASE UNCHANGED vars
  BY <1>2 DEF vars, ConfirmationInv, TypeOK, ClusterInv, VerdictInv, ExpiryInv,
              Exceeded, IsAt, Wanted, Verdict, HasErr, HasErrPanics
<1> QED BY <1>1, <1>2

(* The inductive invariant holds in every reachable state.                 *)
THEOREM ConfirmationInvariance == Spec => []ConfirmationInv
<1> QED BY ConfirmationInit, ConfirmationNext, PTL DEF Spec

(* Whatever the three goroutines do, the state keeps its types.            *)
THEOREM ConfirmationTypes == Spec => []TypeOK
<1>1. ConfirmationInv => TypeOK
  BY DEF ConfirmationInv
<1> QED BY <1>1, ConfirmationInvariance, PTL

(* A success that does not come from an empty status is backed by a        *)
(* transaction that reached the commitment asked for.                      *)
THEOREM SeenIsCommitted == Spec => []SeenMeansCommitted
<1>1. ConfirmationInv => SeenMeansCommitted
  BY DEF ConfirmationInv, VerdictInv, SeenMeansCommitted
<1> QED BY <1>1, ConfirmationInvariance, PTL

(* The doubly inverted error test reports a transaction that was seen as   *)
(* what it was, over either path.                                          *)
THEOREM VerdictsAreRight == Spec => []RightVerdict
<1>1. ConfirmationInv => RightVerdict
  BY DEF ConfirmationInv, VerdictInv, RightVerdict, Verdict, HasErr, HasErrPanics
<1> QED BY <1>1, ConfirmationInvariance, PTL

(* After an expiry at a level whose height does not go back, whatever fork *)
(* the cluster takes, the transaction enters no block any more.            *)
THEOREM ExpiryIsFinal == Spec => ExpiredIsFinal
<1>1. ConfirmationInv /\ [Next]_vars =>
        [outcome = "expired" /\ Wanted # Processed => landed' \in {landed, 0}]_vars
  <2> SUFFICES ASSUME ConfirmationInv, [Next]_vars, outcome = "expired",
                      Wanted # Processed
               PROVE  landed' \in {landed, 0}
    OBVIOUS
  <2>1. ASSUME NEW holds \in BOOLEAN, NEW other \in BOOLEAN, NewBlock(holds, other)
        PROVE  landed' \in {landed, 0}
    <3>1. strategy = "blockheight" /\ LastValid < height[Wanted]
      BY DEF ConfirmationInv, ExpiryInv, Exceeded
    <3>2. height[Wanted] <= height[Processed]
      BY WantedLevel, HeightsAssumption
         DEF ConfirmationInv, TypeOK, ClusterInv, Heights, Levels, Processed,
             Confirmed, Finalized
    <3>3. ~ ValidAt(height[Processed] + 1)
      BY <3>1, <3>2, WantedLevel, HeightsAssumption
         DEF ConfirmationInv, TypeOK, ValidAt, Heights, Levels, Processed
    <3>4. ~ holds
      BY <2>1, <3>3 DEF NewBlock
    <3> QED BY <2>1, <3>4 DEF NewBlock
  <2>2. ASSUME NEW h \in Heights, Reorganize(h) PROVE landed' \in {landed, 0}
    BY <2>2 DEF Reorganize
  <2>3. CASE \E l \in Levels : Advance(l)
    BY <2>3 DEF Advance
  <2>4. CASE Caller \/ Confirmer \/ Expirer \/ UNCHANGED vars
    BY <2>4
       DEF Caller, Confirmer, Expirer, Send, SendFails, ReceiveConfirmation,
           ReceiveExpiry, TimeOut, StatusAnswered, StatusAgain, StatusFails,
           QueryStatus, QueryFails, Subscribe, SocketFails, Notify, Confirmation,
           PollExpired, PollValid, PollFails, Wake, NonceMissing, Expiry,
           cluster, vars
  <2> QED BY <2>1, <2>2, <2>3, <2>4 DEF Next, Cluster
<1> QED BY <1>1, ConfirmationInvariance, PTL DEF Spec, ExpiredIsFinal

=============================================================================
