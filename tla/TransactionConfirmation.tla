------------------------ MODULE TransactionConfirmation ------------------------
(***************************************************************************)
(* Connection.SendAndConfirmTransaction and ConfirmTransaction             *)
(* (web3/connection.go): one call, from the submission of the transaction  *)
(* to its verdict.                                                         *)
(*                                                                         *)
(* Up to three goroutines take part: the caller, which waits in a select;  *)
(* the confirmer, which asks for the status of the signature and then      *)
(* listens on the web socket; and the expirer, which polls the block       *)
(* height or the nonce.  They meet on unbuffered channels, so a receive is *)
(* one step of the caller and of the goroutine that was blocked sending.   *)
(* When the caller has returned, the other goroutine is left where it is.  *)
(*                                                                         *)
(* The cluster is the environment: blocks are processed, confirmed and     *)
(* finalized in order, the transaction may enter one of them while it is   *)
(* valid, and blocks that are only processed may be abandoned for a fork:  *)
(* the processed height goes back, and the transaction may enter a block   *)
(* that takes the place of one it was not in.                              *)
(***************************************************************************)
EXTENDS Integers

CONSTANTS
  Strategies,   (* strategies a call may use                                *)
  Commitments,  (* commitments a call may ask for                           *)
  LastValid,    (* lastValidBlockHeight of the transaction's blockhash      *)
  MaxHeight     (* bound: blocks the cluster produces                       *)

(* "untyped" is what SendAndConfirmTransaction passes when it has neither a *)
(* blockhash with its last height nor a nonce with its slot: a             *)
(* TransactionSignature.  "timeout" is ConfirmTransaction with a string.   *)
AllStrategies  == {"blockheight", "nonce", "timeout", "untyped"}
AllCommitments == {"unset", "processed", "confirmed", "finalized"}

ASSUME StrategiesAssumption == Strategies \subseteq AllStrategies
ASSUME CommitmentsAssumption == Commitments \subseteq AllCommitments
ASSUME HeightsAssumption == LastValid \in Nat /\ MaxHeight \in Nat

VARIABLES
  strategy, commitment,  (* of the call                                      *)
  txErr,      (* what executing the transaction yields                       *)
  height,     (* block height at each commitment level                       *)
  landed,     (* height of the block that holds the transaction, or 0        *)
  nonceUsed,  (* height of the block that advanced the nonce, or 0           *)
  reached,    (* history: levels the transaction has reached                 *)
  submitted,  (* the cluster has received the transaction                    *)
  main, confirmer, expirer,  (* where the three goroutines are               *)
  answer,     (* what the confirmer has to deliver                           *)
  outcome     (* what the call returned                                      *)

request == <<strategy, commitment, txErr>>
cluster == <<height, landed, nonceUsed, reached>>
vars == <<strategy, commitment, txErr, height, landed, nonceUsed, reached,
          submitted, main, confirmer, expirer, answer, outcome>>

Unseen    == 0       (* level of a transaction the node knows nothing of     *)
Processed == 1
Confirmed == 2
Finalized == 3
Levels    == {Processed, Confirmed, Finalized}
Heights   == 0 .. MaxHeight

(* "object" is an error the node encodes as a JSON object, "string" one it *)
(* encodes as a string.                                                    *)
Errors == {"none", "object", "string"}

Answers == [via : {"status", "socket", "error"}, level : Levels \cup {Unseen},
            err : Errors]
NoAnswer == [via |-> "error", level |-> Unseen, err |-> "none"]

Outcomes == {"none", "ok", "failed", "error", "expired", "timeout", "unsent",
             "invalid", "panic", "crash"}

(* The level the node works with.  Without a commitment it is finalized.   *)
Wanted == CASE commitment = "processed" -> Processed
            [] commitment = "confirmed" -> Confirmed
            [] OTHER                    -> Finalized

IsAt(l, block, at) == block # 0 /\ block <= at[l]

Init ==
  /\ strategy \in Strategies
  /\ commitment \in Commitments
  /\ txErr \in Errors
  /\ height = [l \in Levels |-> 0]
  /\ landed = 0
  /\ nonceUsed = 0
  /\ reached = {}
  /\ submitted = FALSE
  /\ main = "send"
  /\ confirmer = "none"
  /\ expirer = "none"
  /\ answer = NoAnswer
  /\ outcome = "none"

-----------------------------------------------------------------------------
(* Faulty forms of definitions below, to test that the properties can fail.*)

AcceptsUnlessProcessed ==
  IF commitment \in {"confirmed", "finalized"}
  THEN {Unseen, Confirmed, Finalized} ELSE {}
HasErrCorrected(a) == a.err # "none"
ErrorEndsPolling ==
  /\ expirer = "poll"
  /\ expirer' = "deliver"
  /\ UNCHANGED <<request, cluster, submitted, main, confirmer, answer, outcome>>
ErrorEndsGoroutine ==
  /\ expirer = "poll"
  /\ expirer' = "exit"
  /\ UNCHANGED <<request, cluster, submitted, main, confirmer, answer, outcome>>

StatusErrorIsIgnored ==
  /\ main = "status"
  /\ main' = "done"
  /\ UNCHANGED <<request, cluster, submitted, confirmer, expirer, answer, outcome>>

-----------------------------------------------------------------------------
(* The cluster.                                                            *)

(* The transaction can enter block h: its blockhash is not too old, or its *)
(* nonce has not been used.                                                *)
ValidAt(h) == IF strategy = "nonce" THEN nonceUsed = 0 ELSE h <= LastValid

Observe(block, at) == reached' = reached \cup {l \in Levels : IsAt(l, block, at)}

(* A new block, with or without the transaction; a transaction that holds  *)
(* the nonce uses it up even when it fails, and so may another.            *)
NewBlock(holds, other) ==
  LET h == height[Processed] + 1 IN
  /\ h <= MaxHeight
  /\ holds => submitted /\ landed = 0 /\ ValidAt(h)
  /\ other => ~holds /\ strategy = "nonce" /\ nonceUsed = 0
  /\ height' = [height EXCEPT ![Processed] = h]
  /\ landed' = IF holds THEN h ELSE landed
  /\ nonceUsed' = IF other \/ (holds /\ strategy = "nonce") THEN h ELSE nonceUsed
  /\ Observe(landed', height')
  /\ UNCHANGED <<request, submitted, main, confirmer, expirer, answer, outcome>>

(* The oldest processed block is confirmed, or the oldest confirmed one    *)
(* finalized.                                                              *)
Advance(l) ==
  /\ l \in {Confirmed, Finalized}
  /\ height[l] < height[l - 1]
  /\ height' = [height EXCEPT ![l] = @ + 1]
  /\ Observe(landed, height')
  /\ UNCHANGED <<request, landed, nonceUsed, submitted, main, confirmer,
                 expirer, answer, outcome>>

(* The cluster goes over to a fork that leaves the chain at block h: what  *)
(* is above it is abandoned, and the blocks of the fork come one by one    *)
(* (NewBlock).  What is confirmed stays.                                   *)
Reorganize(h) ==
  LET kept(block) == IF block > h THEN 0 ELSE block IN
  /\ height[Confirmed] <= h /\ h < height[Processed]
  /\ height' = [height EXCEPT ![Processed] = h]
  /\ landed' = kept(landed)
  /\ nonceUsed' = kept(nonceUsed)
  /\ UNCHANGED <<request, reached, submitted, main, confirmer, expirer, answer,
                 outcome>>

-----------------------------------------------------------------------------
(* The caller: SendTransaction, then the dispatch on the strategy.         *)

Finish(result) ==
  /\ main' = "done"
  /\ outcome' = result

(* An untyped signature is no strategy ConfirmTransaction knows: it fails, *)
(* with the transaction on its way.                                        *)
Send ==
  /\ main = "send"
  /\ submitted' = TRUE
  /\ \/ /\ strategy = "untyped"
        /\ Finish("invalid")
        /\ UNCHANGED <<confirmer, expirer>>
     \/ /\ strategy # "untyped"
        /\ main' = "select"
        /\ confirmer' = "query"
        /\ expirer' = IF strategy = "timeout" THEN "none" ELSE "poll"
        /\ UNCHANGED outcome
  /\ UNCHANGED <<request, cluster, answer>>

(* The submission returns an error; the cluster may still have it.         *)
SendFails ==
  /\ main = "send"
  /\ submitted' \in BOOLEAN
  /\ Finish("unsent")
  /\ UNCHANGED <<request, cluster, confirmer, expirer, answer>>

-----------------------------------------------------------------------------
(* The confirmer: Connection.confirmation.                                 *)

Confirmation(from, to) ==
  /\ confirmer = from
  /\ confirmer' = to
  /\ UNCHANGED <<request, cluster, submitted, main, expirer, outcome>>

(* The levels at which the answer to getSignatureStatuses is returned at   *)
(* once.  A signature the node does not know has an empty status, which is *)
(* none of those the code waits for.                                       *)
Accepted ==
  CASE commitment = "confirmed" -> {Unseen, Confirmed, Finalized}
    [] commitment = "finalized" -> {Unseen, Finalized}
    [] OTHER                    -> {}

(* A node answers with any level it has seen so far.                       *)
QueryStatus(l) ==
  /\ l # Unseen => IsAt(l, landed, height)
  /\ \/ /\ l \in Accepted
        /\ answer' = [via |-> "status", level |-> l,
                      err |-> IF l = Unseen THEN "none" ELSE txErr]
        /\ Confirmation("query", "deliver")
     \/ /\ l \notin Accepted
        /\ Confirmation("query", "subscribe")
        /\ UNCHANGED answer

QueryFails == Confirmation("query", "subscribe") /\ UNCHANGED answer

Subscribe == Confirmation("subscribe", "receive") /\ UNCHANGED answer

(* The subscription fails, the socket closes, or the context is cancelled. *)
SocketFails ==
  /\ \E from \in {"subscribe", "receive"} : Confirmation(from, "deliver")
  /\ answer' = NoAnswer

Notify ==
  /\ IsAt(Wanted, landed, height)
  /\ answer' = [via |-> "socket", level |-> Wanted, err |-> txErr]
  /\ Confirmation("receive", "deliver")

-----------------------------------------------------------------------------
(* The expirer: the second goroutine of two of the strategies.             *)

Expiry(from, to) ==
  /\ expirer = from
  /\ expirer' = to
  /\ UNCHANGED <<request, cluster, submitted, main, confirmer, answer, outcome>>

Expired == IF strategy = "nonce" THEN IsAt(Wanted, nonceUsed, height)
                                 ELSE height[Wanted] > LastValid

PollExpired == Expired /\ Expiry("poll", "deliver")

PollValid == ~Expired /\ Expiry("poll", "sleep")

(* getBlockHeight or getAccountInfo fails: as if nothing had changed.      *)
PollFails == Expiry("poll", "sleep")

Wake == Expiry("sleep", "poll")

(* The nonce account does not exist: its nil value is dereferenced.        *)
NonceMissing ==
  /\ strategy = "nonce"
  /\ expirer = "poll"
  /\ Finish("crash")
  /\ confirmer' = "exit"
  /\ expirer' = "exit"
  /\ UNCHANGED <<request, cluster, submitted, answer>>

-----------------------------------------------------------------------------
(* The caller's select, and what it makes of what it receives.             *)

(* SignatureResult.HasErr: TRUE when there is no error.  A string from the *)
(* socket is not a value reflect's IsNil can be asked about.               *)
HasErr(a) == a.err = "none"
HasErrPanics(a) == a.via = "socket" /\ a.err = "string"

(* SendAndConfirmTransaction fails when HasErr is FALSE.  A call of         *)
(* ConfirmTransaction hands the error, or its absence, to its own caller.  *)
Verdict(a) ==
  CASE a.via = "error" -> "error"
    [] strategy = "timeout" /\ a.via # "error" ->
         IF a.err = "none" THEN "ok" ELSE "failed"
    [] strategy # "timeout" /\ HasErrPanics(a) -> "panic"
    [] OTHER -> IF HasErr(a) THEN "ok" ELSE "failed"

ReceiveConfirmation ==
  /\ main = "select"
  /\ confirmer = "deliver"
  /\ confirmer' = "exit"
  /\ Finish(Verdict(answer))
  /\ UNCHANGED <<request, cluster, submitted, expirer, answer>>

(* With a nonce the caller goes on to ask for the status.                  *)
ReceiveExpiry ==
  /\ main = "select"
  /\ expirer = "deliver"
  /\ expirer' = "exit"
  /\ \/ strategy = "nonce" /\ main' = "status" /\ UNCHANGED outcome
     \/ strategy # "nonce" /\ Finish("expired")
  /\ UNCHANGED <<request, cluster, submitted, confirmer, answer>>

TimeOut ==
  /\ main = "select"
  /\ strategy = "timeout"
  /\ Finish("timeout")
  /\ UNCHANGED <<request, cluster, submitted, confirmer, expirer, answer>>

(* The status is answered, at a slot that is too old or recent enough: in  *)
(* either case the loop goes round, since only a nil answer leaves it and  *)
(* GetSignatureStatus never returns one without an error.                  *)
StatusAnswered ==
  /\ main = "status"
  /\ main' = "again"
  /\ UNCHANGED <<request, cluster, submitted, confirmer, expirer, answer, outcome>>

StatusAgain ==
  /\ main = "again"
  /\ main' = "status"
  /\ UNCHANGED <<request, cluster, submitted, confirmer, expirer, answer, outcome>>

StatusFails ==
  /\ main = "status"
  /\ Finish("error")
  /\ UNCHANGED <<request, cluster, submitted, confirmer, expirer, answer>>

-----------------------------------------------------------------------------
Cluster ==
  \/ \E holds, other \in BOOLEAN : NewBlock(holds, other)
  \/ \E l \in Levels : Advance(l)
  \/ \E h \in Heights : Reorganize(h)

Caller ==
  \/ Send
  \/ SendFails
  \/ ReceiveConfirmation
  \/ ReceiveExpiry
  \/ TimeOut
  \/ StatusAnswered
  \/ StatusAgain
  \/ StatusFails

Confirmer ==
  \/ \E l \in Levels \cup {Unseen} : QueryStatus(l)
  \/ QueryFails
  \/ Subscribe
  \/ SocketFails
  \/ Notify

Expirer ==
  \/ PollExpired
  \/ PollValid
  \/ PollFails
  \/ Wake
  \/ NonceMissing

Next == Cluster \/ Caller \/ Confirmer \/ Expirer

Spec == Init /\ [][Next]_vars

(* Goroutines run, timers fire, and a poll that is repeated for ever is    *)
(* answered in the end.  The cluster makes blocks, and does not abandon    *)
(* them for ever: one that waits to be confirmed again and again is        *)
(* followed by one that is.  Nothing is assumed of the web socket.         *)
FairSpec ==
  /\ Spec
  /\ WF_vars(Caller)
  /\ WF_vars(Expirer)
  /\ SF_vars(PollExpired)
  /\ WF_vars(\E holds, other \in BOOLEAN : NewBlock(holds, other))
  /\ \A l \in Levels : SF_vars(Advance(l))

-----------------------------------------------------------------------------
(* Properties.                                                             *)

TypeOK ==
  /\ strategy \in AllStrategies
  /\ commitment \in AllCommitments
  /\ txErr \in Errors
  /\ height \in [Levels -> Heights]
  /\ landed \in Heights
  /\ nonceUsed \in Heights
  /\ reached \subseteq Levels
  /\ submitted \in BOOLEAN
  /\ main \in {"send", "select", "status", "again", "done"}
  /\ confirmer \in {"none", "query", "subscribe", "receive", "deliver", "exit"}
  /\ expirer \in {"none", "poll", "sleep", "deliver", "exit"}
  /\ answer \in Answers
  /\ outcome \in Outcomes
  /\ (main = "done") = (outcome # "none")

(* "Desired commitment level" (ConfirmOptions.Commitment): a call that     *)
(* returns success has seen the transaction reach the level it asked for.  *)
OkMeansCommitted == outcome = "ok" => Wanted \in reached

(* The same where the code does keep to it: the success does not come from *)
(* an empty status.  The status lookup and the notification agree on what  *)
(* each commitment waits for.                                              *)
SeenMeansCommitted ==
  outcome = "ok" /\ answer.level # Unseen => Wanted \in reached

(* The two inversions, HasErr and its negation at the only place that uses *)
(* it, cancel out on both paths: a transaction that was seen is reported   *)
(* successful when it succeeded and failed only when it failed.            *)
RightVerdict ==
  /\ outcome = "ok" /\ answer.level # Unseen => txErr = "none"
  /\ outcome = "failed" => txErr # "none"

(* "Signature has expired: block height exceeded": when a call that waited *)
(* for a confirmed or finalized transaction returns this, a transaction    *)
(* that is in no block never enters one, on whatever fork, and one whose   *)
(* block is abandoned enters no other.  A poll that fails, or whose answer *)
(* is late, must not be taken for an expiry.  At the processed level it is *)
(* not so: the height that was seen may be that of an abandoned fork.      *)
ExpiredIsFinal ==
  [][outcome = "expired" /\ Wanted # Processed => landed' \in {landed, 0}]_vars

(* Every call returns, even when the socket never says anything and polls  *)
(* fail now and then.                                                      *)
ConfirmReturns == strategy # "nonce" => <>(main = "done")

(* "Signature has expired: the nonce is no longer valid": a call that      *)
(* learns that its nonce is used up ends, with that error or the status.   *)
NonceExpiryReturns == main = "status" ~> main = "done"

-----------------------------------------------------------------------------
(* The inductive invariants of the proofs (TransactionConfirmationProofs). *)

(* The cluster's own order, and the history of the transaction in it.      *)
ClusterInv ==
  /\ height[Finalized] <= height[Confirmed]
  /\ height[Confirmed] <= height[Processed]
  /\ \A l \in Levels : IsAt(l, landed, height) => l \in reached

(* What the confirmer holds, and what became of it.                        *)
VerdictInv ==
  /\ answer.level # Unseen =>
       answer.via # "error" /\ Wanted \in reached /\ answer.err = txErr
  /\ answer.level = Unseen => answer.err = "none"
  /\ outcome \in {"ok", "failed"} => confirmer = "exit" /\ outcome = Verdict(answer)

(* What an expiry rests on: a height that does not go back, unless it was  *)
(* that of a processed block.                                              *)
Exceeded == Wanted # Processed => LastValid < height[Wanted]

ExpiryInv ==
  /\ strategy = "blockheight" /\ expirer = "deliver" => Exceeded
  /\ expirer # "none" => strategy \in {"blockheight", "nonce"}
  /\ outcome = "expired" => strategy = "blockheight" /\ Exceeded

ConfirmationInv == TypeOK /\ ClusterInv /\ VerdictInv /\ ExpiryInv

=============================================================================
