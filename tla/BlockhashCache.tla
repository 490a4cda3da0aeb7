---------------------------- MODULE BlockhashCache ----------------------------
(***************************************************************************)
(* Connection.blockhashInfo and Connection.pollingBlockhash                *)
(* (web3/connection.go): the recent-blockhash cache that SendTransaction   *)
(* and SimulateTransaction share, and the lists of signatures with which   *)
(* they avoid submitting the same transaction twice under one blockhash.   *)
(*                                                                         *)
(* A caller is a goroutine inside one of the two methods.  Nothing in the  *)
(* code protects the fields, so every access to one of them is a step of   *)
(* its own and steps of different callers interleave.  The assignment of   *)
(* the whole struct is several word stores whose order the memory model    *)
(* leaves open: the stores are separate steps, taken in any order.  A      *)
(* slice header is abstracted to one word.                                 *)
(*                                                                         *)
(* The blockhashes of the chain are numbered 1, 2, ... in the order in     *)
(* which they are finalized.  A signature is determined by the message and *)
(* the blockhash, so it is represented by that pair.                       *)
(***************************************************************************)
EXTENDS Integers, FiniteSets

CONSTANTS
  Callers,     (* goroutines that use the connection                         *)
  Messages,    (* contents a transaction can have, blockhash apart           *)
  NoMessage,   (* the message of a caller that has no call in progress       *)
  Exclusive,   (* TRUE: the client never overlaps two calls                  *)
  MaxLag,      (* how many blocks behind the tip an RPC node may answer      *)
  Timeout,     (* blockhashCacheTimeoutMs                                    *)
  Word,        (* 2^64: the modulus of the uint64 age of the cache           *)
  MaxTries,    (* 50: fetches before a poll gives up                         *)
  MaxBlock,    (* bound: blockhashes the chain produces                      *)
  MaxTime,     (* bound: the clock                                           *)
  MaxCalls     (* bound: calls made                                          *)

ASSUME CallersAssumption == NoMessage \notin Messages
ASSUME ModeAssumption == Exclusive \in BOOLEAN
ASSUME BoundAssumption ==
  /\ MaxLag \in Nat
  /\ Timeout \in Nat \ {0}
  /\ MaxTries \in Nat \ {0}
  /\ MaxBlock \in Nat \ {0}
  /\ MaxTime \in Nat
  /\ MaxCalls \in Nat
  /\ Word \in Nat
  /\ Word > MaxTime + Timeout

VARIABLES
  tip,        (* newest finalized blockhash of the cluster                   *)
  now,        (* time.Now().UnixMilli()                                      *)
  latest,     (* blockhashInfo.LatestBlockhash                               *)
  lastFetch,  (* blockhashInfo.LastFetch                                     *)
  seen,       (* blockhashInfo.TransactionSignatures, .SimulatedSignatures   *)
  polling,    (* pollingBlockhash                                            *)
  pc,         (* where each caller is                                        *)
  loc,        (* the local variables of each caller                          *)
  calls,      (* calls made so far                                           *)
  fetchedAt,  (* history: when a poll last brought each blockhash            *)
  sent        (* history: how often each signature reached the cluster       *)

shared == <<latest, lastFetch, seen, polling>>
world  == <<tip, now>>
vars   == <<tip, now, latest, lastFetch, seen, polling, pc, loc, calls,
            fetchedAt, sent>>

NoHash     == 0                     (* a nil *BlockhashWithExpiryBlockHeight *)
Hashes     == 1 .. MaxBlock
Signatures == Messages \X Hashes
Times      == 0 .. MaxTime

(***************************************************************************)
(* "send" is SendTransaction with signers, "simulate" SimulateTransaction  *)
(* with signers and "preview" SimulateTransaction without.  Each of the    *)
(* first two has its own list.  The paths that never touch the cache       *)
(* (versioned, nonce and presigned transactions) are not calls here.       *)
(***************************************************************************)
Lists == {"send", "simulate"}
Kinds == Lists \cup {"preview"}

(* A faulty form of Fields: the assignment forgets a list.                 *)
FieldsButSimulated == {"latest", "lastFetch", "send"}
Fields == {"latest", "lastFetch"} \cup Lists     (* of blockhashInfo         *)

PollPcs == {"fetch", "store", "endpoll"}
Pcs == PollPcs \cup {"idle", "wait", "clock", "age", "hit", "poll", "check",
                     "append", "record", "submit"}

Locals ==
  [kind     : Kinds,
   msg      : Messages \cup {NoMessage},
   stamp    : Times,                (* time read by this caller              *)
   hash     : Hashes \cup {NoHash}, (* latestBlockhash                       *)
   snapshot : Hashes \cup {NoHash}, (* cachedBlockhash                       *)
   tries    : 0 .. MaxTries,        (* i of the polling loop                 *)
   unstored : SUBSET Fields,        (* fields the assignment has yet to store*)
   list     : SUBSET Signatures]    (* slice header append() has read        *)

NoLocals == [kind |-> "send", msg |-> NoMessage, stamp |-> 0, hash |-> NoHash,
             snapshot |-> NoHash, tries |-> 0, unstored |-> {}, list |-> {}]

Init ==
  /\ tip = 1
  /\ now = 0
  /\ latest = NoHash
  /\ lastFetch = 0
  /\ seen = [l \in Lists |-> {}]
  /\ polling = FALSE
  /\ pc = [c \in Callers |-> "idle"]
  /\ loc = [c \in Callers |-> NoLocals]
  /\ calls = 0
  /\ fetchedAt = [h \in Hashes |-> 0]
  /\ sent = [s \in Signatures |-> 0]

-----------------------------------------------------------------------------
(* Helpers of the caller's steps.                                          *)

Goto(c, from, to) ==
  /\ pc[c] = from
  /\ pc' = [pc EXCEPT ![c] = to]

(* The method returns to its caller. *)
Return(c, from) ==
  /\ Goto(c, from, "idle")
  /\ loc' = [loc EXCEPT ![c] = NoLocals]

Signature(c) == <<loc[c].msg, loc[c].hash>>

(* Faulty forms of definitions below, to test that the properties can fail.*)
ExpiredOffByOne(stamp) == (stamp - lastFetch) % Word > Timeout
FetchErrorKeepsFlag(c) ==
  /\ Return(c, "fetch")
  /\ UNCHANGED <<world, shared, calls, fetchedAt, sent>>
EndPollKeepsFlag(c) ==
  /\ Goto(c, "endpoll", "check")
  /\ UNCHANGED <<world, shared, loc, calls, fetchedAt, sent>>
RetriesWithoutEnd(c) == TRUE
AcceptsCached(c, h) == TRUE
OnDuplicateUseCache == "wait"

(* timeSinceFetch >= blockhashCacheTimeoutMs, in uint64 arithmetic: a       *)
(* LastFetch stored after the clock was read makes a huge age.             *)
Expired(stamp) == (stamp - lastFetch) % Word >= Timeout

(* What a node of the cluster answers to getLatestBlockhash.               *)
Answers == {h \in Hashes : h <= tip /\ h + MaxLag >= tip}

-----------------------------------------------------------------------------
(* The cluster and the clock.                                              *)

Finalize ==
  /\ tip < MaxBlock
  /\ tip' = tip + 1
  /\ UNCHANGED <<now, shared, pc, loc, calls, fetchedAt, sent>>

Tick ==
  /\ now < MaxTime
  /\ now' = now + 1
  /\ UNCHANGED <<tip, shared, pc, loc, calls, fetchedAt, sent>>

-----------------------------------------------------------------------------
(* _blockhashWithExpiryBlockHeight(false).                                 *)

Call(c, k, m) ==
  /\ calls < MaxCalls
  /\ Exclusive => \A d \in Callers : pc[d] = "idle"
  /\ Goto(c, "idle", "wait")
  /\ loc' = [loc EXCEPT ![c] = [@ EXCEPT !.kind = k, !.msg = m]]
  /\ calls' = calls + 1
  /\ UNCHANGED <<world, shared, fetchedAt, sent>>

WaitPoll(c) ==
  /\ ~polling
  /\ Goto(c, "wait", "clock")
  /\ UNCHANGED <<world, shared, loc, calls, fetchedAt, sent>>

ReadClock(c) ==
  /\ Goto(c, "clock", "age")
  /\ loc' = [loc EXCEPT ![c].stamp = now]
  /\ UNCHANGED <<world, shared, calls, fetchedAt, sent>>

ReadAge(c) ==
  /\ Goto(c, "age", IF Expired(loc[c].stamp) THEN "poll" ELSE "hit")
  /\ UNCHANGED <<world, shared, loc, calls, fetchedAt, sent>>

(* LatestBlockhash is read twice, for the comparison with nil and for the  *)
(* result: one step, since it is never nil again.                          *)
ReadLatest(c) ==
  /\ Goto(c, "hit", IF latest = NoHash THEN "poll" ELSE "check")
  /\ loc' = [loc EXCEPT ![c].hash = latest]
  /\ UNCHANGED <<world, shared, calls, fetchedAt, sent>>

-----------------------------------------------------------------------------
(* _pollNewBlockhash.                                                      *)

(* The flag is raised and LatestBlockhash is read, one after the other:    *)
(* one step, as a store in between could as well have come before it, and  *)
(* a lowering of the flag after it.                                        *)
StartPoll(c) ==
  /\ Goto(c, "poll", "fetch")
  /\ polling' = TRUE
  /\ loc' = [loc EXCEPT ![c] = [@ EXCEPT !.snapshot = latest, !.tries = 0]]
  /\ UNCHANGED <<world, latest, lastFetch, seen, calls, fetchedAt, sent>>

(* GetLatestBlockhash fails; the deferred function lowers the flag.        *)
FetchError(c) ==
  /\ Return(c, "fetch")
  /\ polling' = FALSE
  /\ UNCHANGED <<world, latest, lastFetch, seen, calls, fetchedAt, sent>>

MayRetry(c) == loc[c].tries + 1 < MaxTries

(* The answer is still the cached blockhash: sleep half a slot and ask     *)
(* again, or give up after MaxTries.                                       *)
FetchSame(c) ==
  /\ loc[c].snapshot \in Answers
  /\ \/ /\ MayRetry(c)
        /\ Goto(c, "fetch", "fetch")
        /\ loc' = [loc EXCEPT ![c].tries = @ + 1]
        /\ UNCHANGED polling
     \/ /\ ~MayRetry(c)
        /\ Return(c, "fetch")
        /\ polling' = FALSE
  /\ UNCHANGED <<world, latest, lastFetch, seen, calls, fetchedAt, sent>>

IsNewFor(c, h) == h # loc[c].snapshot

(* The answer and the reading of the clock for LastFetch are one step: the *)
(* age of a blockhash is counted from that reading, not from the answer.   *)
FetchNew(c, h) ==
  /\ IsNewFor(c, h)
  /\ Goto(c, "fetch", "store")
  /\ loc' = [loc EXCEPT ![c] = [@ EXCEPT !.hash = h, !.stamp = now,
                                         !.unstored = Fields]]
  /\ fetchedAt' = [fetchedAt EXCEPT ![h] = now]
  /\ UNCHANGED <<world, shared, calls, sent>>

(* c.blockhashInfo = struct{...}{...}, one field at a time.                *)
StoreField(c, f) ==
  /\ f \in loc[c].unstored
  /\ LET rest == loc[c].unstored \ {f} IN
       /\ Goto(c, "store", IF rest = {} THEN "endpoll" ELSE "store")
       /\ loc' = [loc EXCEPT ![c].unstored = rest]
  /\ latest' = IF f = "latest" THEN loc[c].hash ELSE latest
  /\ lastFetch' = IF f = "lastFetch" THEN loc[c].stamp ELSE lastFetch
  /\ seen' = [l \in Lists |-> IF f = l THEN {} ELSE seen[l]]
  /\ UNCHANGED <<world, polling, calls, fetchedAt, sent>>

EndPoll(c) ==
  /\ Goto(c, "endpoll", "check")
  /\ polling' = FALSE
  /\ UNCHANGED <<world, latest, lastFetch, seen, loc, calls, fetchedAt, sent>>

-----------------------------------------------------------------------------
(* The loop of SendTransaction and of SimulateTransaction.                 *)

(* Sign refuses the signers.                                               *)
SignError(c) ==
  /\ loc[c].kind # "preview"
  /\ Return(c, "check")
  /\ UNCHANGED <<world, shared, calls, fetchedAt, sent>>

AlreadySeen(c) ==
  /\ loc[c].kind # "preview"
  /\ Signature(c) \in seen[loc[c].kind]

(* A duplicate goes round the loop with disableCache set, which skips the  *)
(* cache and polls at once.                                                *)
OnDuplicate == "poll"

(* The transaction is signed with the blockhash; its signature is looked   *)
(* up.                                                                     *)
Check(c) ==
  /\ Goto(c, "check", CASE AlreadySeen(c)           -> OnDuplicate
                        [] loc[c].kind = "preview" -> "submit"
                        [] OTHER                   -> "append")
  /\ UNCHANGED <<world, shared, loc, calls, fetchedAt, sent>>

AppendRead(c) ==
  /\ Goto(c, "append", "record")
  /\ loc' = [loc EXCEPT ![c].list = seen[loc[c].kind]]
  /\ UNCHANGED <<world, shared, calls, fetchedAt, sent>>

AppendWrite(c) ==
  /\ Goto(c, "record", "submit")
  /\ seen' = [seen EXCEPT ![loc[c].kind] = loc[c].list \cup {Signature(c)}]
  /\ UNCHANGED <<world, latest, lastFetch, polling, loc, calls, fetchedAt,
                 sent>>

(* SendRawTransaction or the simulateTransaction request; the caller       *)
(* returns whether or not the answer is an error.                          *)
Submit(c) ==
  /\ Return(c, "submit")
  /\ sent' = IF loc[c].kind = "send"
             THEN [sent EXCEPT ![Signature(c)] = @ + 1]
             ELSE sent
  /\ UNCHANGED <<world, shared, calls, fetchedAt>>

(* Serialize fails, or the request does not reach the cluster.             *)
SubmitLost(c) ==
  /\ Return(c, "submit")
  /\ UNCHANGED <<world, shared, calls, fetchedAt, sent>>

-----------------------------------------------------------------------------
Poll(c) ==
  \/ StartPoll(c)
  \/ FetchError(c)
  \/ FetchSame(c)
  \/ \E h \in Answers : FetchNew(c, h)
  \/ \E f \in Fields : StoreField(c, f)
  \/ EndPoll(c)

(* A step of a call in progress.                                           *)
Step(c) ==
  \/ WaitPoll(c)
  \/ ReadClock(c)
  \/ ReadAge(c)
  \/ ReadLatest(c)
  \/ Poll(c)
  \/ SignError(c)
  \/ Check(c)
  \/ AppendRead(c)
  \/ AppendWrite(c)
  \/ Submit(c)
  \/ SubmitLost(c)

Next ==
  \/ Finalize
  \/ Tick
  \/ \E c \in Callers : Step(c)
  \/ \E c \in Callers, k \in Kinds, m \in Messages : Call(c, k, m)

Spec == Init /\ [][Next]_vars

(* The Go scheduler runs every runnable goroutine and an RPC request is    *)
(* answered or fails.                                                      *)
FairSpec == Spec /\ \A c \in Callers : WF_vars(Step(c))

-----------------------------------------------------------------------------
(* Properties.                                                             *)

TypeOK ==
  /\ tip \in Hashes
  /\ now \in Times
  /\ latest \in Hashes \cup {NoHash}
  /\ lastFetch \in Times
  /\ seen \in [Lists -> SUBSET Signatures]
  /\ polling \in BOOLEAN
  /\ pc \in [Callers -> Pcs]
  /\ loc \in [Callers -> Locals]
  /\ calls \in Nat
  /\ fetchedAt \in [Hashes -> Times]
  /\ sent \in [Signatures -> Nat]

(* "The signature of this transaction has not been seen before with the    *)
(* current recentBlockhash" (SendTransaction): no signature is submitted   *)
(* twice.  The cluster would drop the second submission, while its caller  *)
(* is told that it was sent.                                               *)
NoDuplicateSubmission == \A s \in Signatures : sent[s] <= 1

(* "Attempt to use a recent blockhash for up to 30 seconds": a blockhash   *)
(* taken from the cache was fetched less than Timeout before the caller    *)
(* read the clock.                                                         *)
HitIsYoung ==
  [][\A c \in Callers :
       (pc[c] = "hit" /\ pc'[c] = "check")
         => loc[c].stamp - fetchedAt[latest] < Timeout]_vars

(* With exclusive callers and nodes that do not lag, the cache implements  *)
(* the ledger: a signature is admitted when AppendWrite has recorded it,   *)
(* and the current blockhash is LatestBlockhash.                           *)
Ledger == INSTANCE SubmissionLedger WITH
  epoch     <- latest,
  admitted  <- {Signature(c) : c \in {d \in Callers :
                  pc[d] = "submit" /\ loc[d].kind = "send"}},
  submitted <- sent
ImplementsLedger == Ledger!Spec

(* The polling flag is up only while some caller is inside a poll: no exit *)
(* of _pollNewBlockhash leaves it up, which would block every later caller *)
(* for ever.                                                               *)
FlagHasPoller == polling => \E c \in Callers : pc[c] \in PollPcs

(* Every call returns: a duplicate signature, a full round of polls and    *)
(* another caller's poll delay it, none of them for ever.                  *)
CallsReturn == \A c \in Callers : pc[c] # "idle" ~> pc[c] = "idle"

-----------------------------------------------------------------------------
(* The inductive invariants of the proofs (BlockhashCacheProofs).          *)

(* What a caller has in hand where: it is needed to know that the maps of  *)
(* the module are applied inside their domains.                            *)
CallOK(c) ==
  /\ pc[c] # "idle" => loc[c].msg \in Messages
  /\ pc[c] \in {"store", "endpoll", "check", "append", "record", "submit"}
       => loc[c].hash \in Hashes
  /\ pc[c] \in {"append", "record"} => loc[c].kind \in Lists

TypeInv == TypeOK /\ \A c \in Callers : CallOK(c)

(* No two calls overlap.                                                   *)
Solo == \A c, d \in Callers : pc[c] # "idle" /\ pc[d] # "idle" => c = d

(* How what c has in hand relates to the cache.                            *)
PollOK(c) ==
  /\ pc[c] = "fetch" => loc[c].snapshot = latest
  /\ pc[c] = "store" =>
       /\ loc[c].hash <= tip
       /\ "latest" \in loc[c].unstored => latest < loc[c].hash
       /\ "latest" \notin loc[c].unstored => latest = loc[c].hash
       /\ \A s \in Signatures : sent[s] > 0 => s[2] < loc[c].hash
       /\ \A l \in Lists : l \notin loc[c].unstored => seen[l] = {}

SignOK(c) ==
  /\ pc[c] \in {"endpoll", "check", "append", "record", "submit"}
       => loc[c].hash = latest
  /\ pc[c] = "record" => loc[c].list = seen[loc[c].kind]
  /\ pc[c] \in {"append", "record", "submit"} /\ loc[c].kind = "send"
       => sent[Signature(c)] = 0
  /\ pc[c] = "submit" /\ loc[c].kind = "send"
       => Signature(c) \in seen["send"]

(* Outside a store, every signature submitted under the cached blockhash   *)
(* is in the list, and the lists hold nothing older.                       *)
ListOK ==
  \/ \E c \in Callers : pc[c] = "store"
  \/ /\ \A s \in Signatures : sent[s] > 0 /\ s[2] = latest => s \in seen["send"]
     /\ \A l \in Lists : \A s \in seen[l] : s[2] = latest

(* With exclusive callers and nodes that do not lag.                       *)
LedgerInv ==
  /\ TypeInv
  /\ Solo
  /\ latest <= tip
  /\ \A s \in Signatures : sent[s] > 0 => s[2] <= latest
  /\ ListOK
  /\ \A c \in Callers : PollOK(c) /\ SignOK(c)

=============================================================================
