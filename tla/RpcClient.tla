------------------------------- MODULE RpcClient -------------------------------
(***************************************************************************)
(* CustomClient.SendRequest (web3/connection.go) and requestBytesPool      *)
(* (web3/pool.go): JSON-RPC requests over HTTP, their buffers and the      *)
(* retries after status 429.                                               *)
(*                                                                         *)
(* A request is encoded into a pooled buffer, and every attempt to send it *)
(* is given that buffer as its body.  The HTTP transport reads the body on *)
(* a goroutine of its own.  An eager transport has read it when the answer *)
(* arrives; a lazy one may still read it later, as the contract of         *)
(* http.RoundTripper allows.                                               *)
(***************************************************************************)
EXTENDS Integers, Sequences

CONSTANTS
  Requests,     (* calls of SendRequest, by any number of goroutines        *)
  Buffers,      (* the buffers there is memory for                          *)
  None,         (* no request, and no buffer                                *)
  MaxRetries    (* 5: attempts per request                                  *)

ASSUME NoneAssumption == None \notin Requests \cup Buffers
ASSUME RetriesAssumption == MaxRetries \in Nat \ {0}

VARIABLES
  eager,      (* the transport reads a body before the answer arrives        *)
  disabled,   (* disableRetryOnRateLimit                                     *)
  pool,       (* requestBytesPool: the buffers that wait to be used again    *)
  unread,     (* the request whose bytes are left in each buffer             *)
  pc,         (* where each call is                                          *)
  writer,     (* the buffer of each call                                     *)
  bodies      (* what each attempt of a request carried                      *)

vars == <<eager, disabled, pool, unread, pc, writer, bodies>>

Empty   == "empty"     (* http.NoBody                                        *)
Pending == "pending"   (* the transport has not read the body yet            *)
Broken  == "broken"    (* fewer bytes than announced: the request fails      *)
Bodies  == Requests \cup {Empty, Pending, Broken}

Last(r) == bodies[r][Len(bodies[r])]

Init ==
  /\ eager \in BOOLEAN
  /\ disabled \in BOOLEAN
  /\ pool = {}
  /\ unread = [b \in Buffers |-> None]
  /\ pc = [r \in Requests |-> "idle"]
  /\ writer = [r \in Requests |-> None]
  /\ bodies = [r \in Requests |-> <<>>]

-----------------------------------------------------------------------------
(* Faulty forms of definitions below, to test that the properties can fail.*)

EncodeWithoutReset(r) ==
  /\ pc[r] = "encode"
  /\ pc' = [pc EXCEPT ![r] = "send"]
  /\ unread' = [unread EXCEPT ![writer[r]] = IF @ = None THEN r ELSE @]
  /\ UNCHANGED <<eager, disabled, pool, writer, bodies>>
PutAfterEveryAttempt(r) ==
  /\ pc[r] = "backoff"
  /\ pc' = [pc EXCEPT ![r] = IF Len(bodies[r]) < MaxRetries THEN "send" ELSE "done"]
  /\ pool' = pool \cup {writer[r]}
  /\ UNCHANGED <<eager, disabled, unread, writer, bodies>>
WaitsAtLimit(r) ==
  /\ pc[r] = "backoff"
  /\ Len(bodies[r]) < MaxRetries
  /\ pc' = [pc EXCEPT ![r] = "send"]
  /\ UNCHANGED <<eager, disabled, pool, unread, writer, bodies>>
LimitOffByOne(r) ==
  /\ pc[r] = "backoff"
  /\ \/ /\ Len(bodies[r]) <= MaxRetries
        /\ pc' = [pc EXCEPT ![r] = "send"]
        /\ UNCHANGED pool
     \/ /\ Len(bodies[r]) > MaxRetries
        /\ pc' = [pc EXCEPT ![r] = "done"]
        /\ pool' = pool \cup {writer[r]}
  /\ UNCHANGED <<eager, disabled, unread, writer, bodies>>

-----------------------------------------------------------------------------
(* The pool and the buffer.                                                *)

InUse == pool \cup {writer[r] : r \in {q \in Requests : pc[q] # "done"
                                         \/ \E n \in 1 .. Len(bodies[q]) :
                                              bodies[q][n] = Pending}}

(* requestBytesPool.Get: a pooled buffer or a new one.                     *)
Get(r, b) ==
  /\ pc[r] = "idle"
  /\ b \in pool \/ b \notin InUse
  /\ pc' = [pc EXCEPT ![r] = "encode"]
  /\ writer' = [writer EXCEPT ![r] = b]
  /\ pool' = pool \ {b}
  /\ UNCHANGED <<eager, disabled, unread, bodies>>

(* A sync.Pool may forget what it holds.                                   *)
Forget(b) ==
  /\ b \in pool
  /\ pool' = pool \ {b}
  /\ UNCHANGED <<eager, disabled, unread, pc, writer, bodies>>

(* The call returns, with the response or an error; the deferred function  *)
(* puts the buffer back.                                                   *)
Return(r, from) ==
  /\ pc[r] = from
  /\ pc' = [pc EXCEPT ![r] = "done"]
  /\ pool' = pool \cup {writer[r]}

(* writer.Reset() and the encoding of the request.                         *)
Encode(r) ==
  /\ pc[r] = "encode"
  /\ pc' = [pc EXCEPT ![r] = "send"]
  /\ unread' = [unread EXCEPT ![writer[r]] = r]
  /\ UNCHANGED <<eager, disabled, pool, writer, bodies>>

EncodeFails(r) ==
  /\ Return(r, "encode")
  /\ unread' = [unread EXCEPT ![writer[r]] = None]
  /\ UNCHANGED <<eager, disabled, writer, bodies>>

-----------------------------------------------------------------------------
(* The attempts.                                                           *)

(* http.NewRequestWithContext announces as many bytes as the buffer has    *)
(* left: a buffer that was read to its end is no body at all.              *)
Attempt(r) ==
  /\ pc[r] = "send"
  /\ pc' = [pc EXCEPT ![r] = "exchange"]
  /\ bodies' = [bodies EXCEPT ![r] =
                  Append(@, IF unread[writer[r]] = None THEN Empty ELSE Pending)]
  /\ UNCHANGED <<eager, disabled, pool, unread, writer>>

(* It refuses a URL that it cannot parse.                                  *)
AttemptFails(r) ==
  /\ Return(r, "send")
  /\ UNCHANGED <<eager, disabled, unread, writer, bodies>>

(* The transport reads the body of attempt n, whatever it is by now.       *)
TransportReads(r, n) ==
  /\ n \in 1 .. Len(bodies[r])
  /\ bodies[r][n] = Pending
  /\ LET found == unread[writer[r]] IN
       bodies' = [bodies EXCEPT ![r][n] = IF found = None THEN Broken ELSE found]
  /\ unread' = [unread EXCEPT ![writer[r]] = None]
  /\ UNCHANGED <<eager, disabled, pool, pc, writer>>

(* Do fails before the body has been read, which is then given up.         *)
DialFails(r) ==
  /\ Return(r, "exchange")
  /\ Last(r) = Pending
  /\ bodies' = [bodies EXCEPT ![r][Len(bodies[r])] = Broken]
  /\ UNCHANGED <<eager, disabled, unread, writer>>

Answerable(r) == pc[r] = "exchange" /\ (eager => Last(r) # Pending)

(* The answer is final: any status but 429, a 429 that the client was told *)
(* not to retry, or an error of Do.                                        *)
Answered(r) ==
  /\ Answerable(r)
  /\ Return(r, "exchange")
  /\ UNCHANGED <<eager, disabled, unread, writer, bodies>>

(* Status 429: wait, twice as long each time.                              *)
RateLimited(r) ==
  /\ Answerable(r)
  /\ ~disabled
  /\ pc' = [pc EXCEPT ![r] = "backoff"]
  /\ UNCHANGED <<eager, disabled, pool, unread, writer, bodies>>

(* The wait is over: the next attempt, or the error after the last.        *)
BackoffEnds(r) ==
  /\ \/ /\ Len(bodies[r]) < MaxRetries
        /\ pc[r] = "backoff"
        /\ pc' = [pc EXCEPT ![r] = "send"]
        /\ UNCHANGED pool
     \/ Len(bodies[r]) >= MaxRetries /\ Return(r, "backoff")
  /\ UNCHANGED <<eager, disabled, unread, writer, bodies>>

(* The context is done while the call waits.                               *)
Cancelled(r) ==
  /\ Return(r, "backoff")
  /\ UNCHANGED <<eager, disabled, unread, writer, bodies>>

-----------------------------------------------------------------------------
(* What a call does when nothing goes wrong.                               *)
Progress(r) ==
  \/ Encode(r)
  \/ Attempt(r)
  \/ \E n \in 1 .. MaxRetries : TransportReads(r, n)
  \/ Answered(r)
  \/ BackoffEnds(r)

Trouble(r) ==
  \/ EncodeFails(r)
  \/ AttemptFails(r)
  \/ DialFails(r)
  \/ RateLimited(r)
  \/ Cancelled(r)

Next ==
  \/ \E r \in Requests, b \in Buffers : Get(r, b)
  \/ \E b \in Buffers : Forget(b)
  \/ \E r \in Requests : Progress(r) \/ Trouble(r)

Spec == Init /\ [][Next]_vars

(* Goroutines run, timers fire, and an exchange that is not answered with  *)
(* status 429 is answered otherwise.                                       *)
FairSpec == Spec /\ \A r \in Requests : WF_vars(Progress(r))

-----------------------------------------------------------------------------
(* Properties.                                                             *)

TypeOK ==
  /\ eager \in BOOLEAN
  /\ disabled \in BOOLEAN
  /\ pool \subseteq Buffers
  /\ unread \in [Buffers -> Requests \cup {None}]
  /\ pc \in [Requests -> {"idle", "encode", "send", "exchange", "backoff", "done"}]
  /\ writer \in [Requests -> Buffers \cup {None}]
  /\ bodies \in [Requests -> Seq(Bodies)]
  /\ \A r \in Requests : Len(bodies[r]) <= MaxRetries

Holds(r, b) == pc[r] \notin {"idle", "done"} /\ writer[r] = b

(* A buffer that a call is using is not in the pool, and no two calls use  *)
(* the same one: no exit of SendRequest, and no retry, returns it early or *)
(* twice.                                                                  *)
BuffersExclusive ==
  \A b \in Buffers : \A q, r \in Requests :
    /\ Holds(r, b) => b \notin pool
    /\ Holds(q, b) /\ Holds(r, b) => q = r

(* With a transport that has read the body when the answer arrives, no     *)
(* request carries the bytes of another, although their buffers are shared *)
(* through the pool and may come back with bytes left in them.             *)
BodiesAreOwn ==
  eager => \A r \in Requests : \A n \in DOMAIN bodies[r] :
             bodies[r][n] \in {r, Empty, Pending, Broken}

(* "Retrying after %dms delay": a retry sends the request.                 *)
RetryCarriesRequest ==
  \A r \in Requests : \A n \in DOMAIN bodies[r] : bodies[r][n] # Empty

(* Every call returns, however often the server answers 429.               *)
CallsReturn == \A r \in Requests : pc[r] # "idle" ~> pc[r] = "done"

-----------------------------------------------------------------------------
(* The inductive invariant of the proofs (RpcClientProofs).                *)

(* A call that has begun has or had a buffer, and an attempt is only made  *)
(* within the limit.                                                       *)
CallInv ==
  \A r \in Requests :
    /\ pc[r] # "idle" => writer[r] \in Buffers
    /\ pc[r] \in {"idle", "encode"} => bodies[r] = <<>>
    /\ pc[r] = "send" => Len(bodies[r]) < MaxRetries
    /\ pc[r] = "exchange" => Len(bodies[r]) > 0

(* With an eager transport only the last attempt of a call can be waiting  *)
(* to be read, and the buffer of a call holds its own bytes or none.       *)
EagerInv ==
  eager => \A r \in Requests :
    /\ pc[r] \in {"send", "exchange", "backoff"} => unread[writer[r]] \in {r, None}
    /\ \A n \in DOMAIN bodies[r] :
         bodies[r][n] = Pending => pc[r] = "exchange" /\ n = Len(bodies[r])

RpcInv == TypeOK /\ CallInv /\ BuffersExclusive /\ EagerInv /\ BodiesAreOwn

=============================================================================
