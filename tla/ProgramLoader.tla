----------------------------- MODULE ProgramLoader -----------------------------
(***************************************************************************)
(* LoaderImpl.Load (web3/loader.go): it prepares the account of a program, *)
(* writes the program into it in chunks, one goroutine for each, and       *)
(* finalizes it.  A caller may call it again when it fails.                *)
(*                                                                         *)
(* The chain is external: a transaction lands as a whole or not at all;    *)
(* its confirmation may fail although it landed, and may answer success    *)
(* before it has landed, as an empty status is taken for one               *)
(* (TransactionConfirmation).  An account's balance is abstracted to       *)
(* whether it is exempt from rent.                                         *)
(***************************************************************************)
EXTENDS Naturals, FiniteSets

CONSTANTS
  DataLengths,  (* lengths of programs                                        *)
  ChunkSize,    (* CHUNK_SIZE                                                 *)
  MaxLoads      (* bound: calls of Load                                       *)

ASSUME DataLengthsAssumption == DataLengths \subseteq Nat
ASSUME ChunkSizeAssumption == ChunkSize \in Nat \ {0}

VARIABLES
  load,      (* where Load is                                                 *)
  length,    (* len(data)                                                     *)
  account,   (* the program's account on the chain                            *)
  setup,     (* the instructions of the first transaction                     *)
  inFlight,  (* the first transactions that may still land, each with its call*)
  flying,    (* the chunks goroutines are sending                             *)
  written,   (* the chunks that landed                                        *)
  waiting,   (* the counter of the WaitGroup                                  *)
  foreign,   (* history: the account was found with another owner             *)
  loads      (* calls of Load                                                 *)

loaderVars ==
  <<load, length, account, setup, inFlight, flying, written, waiting,
    foreign, loads>>

NoAccount == [exists |-> FALSE, size |-> 0, owner |-> "system",
              exempt |-> FALSE, executable |-> FALSE]
Owners == {"system", "loader", "program"}

-----------------------------------------------------------------------------
(* Faulty forms of definitions below, to test that the properties can fail.*)

LaterIfNeeded(a) ==
  IF ~ a.exists THEN {"create"} ELSE IF a.size < length THEN {"allocate"} ELSE {}
DoneOnlyIfSent(sent) == waiting' = IF sent THEN waiting - 1 ELSE waiting

-----------------------------------------------------------------------------
(* What the account lacks.                                                 *)
Needed(a) ==
  IF ~ a.exists THEN {"create"}
  ELSE {i \in {"allocate", "assign", "transfer"} :
          \/ i = "allocate" /\ a.size # length
          \/ i = "assign" /\ a.owner # "loader"
          \/ i = "transfer" /\ ~ a.exempt}

(* An account can be created where there is none, and nothing else done.   *)
Applies(a, instructions) == "create" \in instructions <=> ~ a.exists

(* What the instructions do to it.  The one that assigns the account names *)
(* the program's own key where the loader's is meant.                      *)
Prepared(a, instructions) ==
  [exists |-> TRUE,
   size   |-> IF "create" \in instructions \/ "allocate" \in instructions
                THEN length ELSE a.size,
   owner  |-> IF "create" \in instructions THEN "loader"
              ELSE IF "assign" \in instructions THEN "program" ELSE a.owner,
   exempt |-> a.exempt \/ "create" \in instructions \/ "transfer" \in instructions,
   executable |-> a.executable]

LoaderInit ==
  /\ load = "rent"
  /\ length \in DataLengths
  /\ account \in {NoAccount} \cup
       [exists : {TRUE}, size : DataLengths, owner : Owners, exempt : BOOLEAN,
        executable : BOOLEAN]
  /\ setup = {}
  /\ inFlight = {}
  /\ flying = {}
  /\ written = {}
  /\ waiting = 0
  /\ foreign = FALSE
  /\ loads = 1

GetRent ==
  /\ load = "rent"
  /\ load' \in {"info", "failed"}
  /\ UNCHANGED <<length, account, setup, inFlight, flying, written, waiting, foreign,
                 loads>>

GetProgramInfo ==
  /\ load = "info"
  /\ \/ load' = "failed" /\ UNCHANGED <<setup, foreign>>
     \/ /\ setup' = IF account.executable THEN {} ELSE Needed(account)
        /\ load' = IF account.executable THEN "refused"
                   ELSE IF setup' # {} THEN "setup" ELSE "cut"
        /\ foreign' = (foreign \/ "assign" \in setup')
  /\ UNCHANGED <<length, account, inFlight, flying, written, waiting, loads>>

(* SendAndConfirmTransaction: the call goes on to the chunks whenever it   *)
(* returns no error.                                                       *)
SendSetup ==
  /\ load = "setup"
  /\ \/ /\ Applies(account, setup)
        /\ account' = Prepared(account, setup)
        /\ load' \in {"cut", "failed"}
        /\ UNCHANGED inFlight
     \/ /\ inFlight' = inFlight \cup {<<loads, setup>>}
        /\ load' \in {"cut", "failed"}
        /\ UNCHANGED account
     \/ load' = "failed" /\ UNCHANGED <<account, inFlight>>
  /\ UNCHANGED <<length, setup, flying, written, waiting, foreign, loads>>

(* A first transaction lands after its call went on or failed.             *)
SetupLands(t) ==
  /\ t \in inFlight
  /\ Applies(account, t[2])
  /\ account' = Prepared(account, t[2])
  /\ inFlight' = inFlight \ {t}
  /\ UNCHANGED <<load, length, setup, flying, written, waiting, foreign, loads>>

(* Each chunk is a slice of the full size: a rest is a slice out of range. *)
Cut ==
  /\ load = "cut"
  /\ IF length % ChunkSize # 0
       THEN load' = "panicked" /\ UNCHANGED <<flying, waiting>>
       ELSE /\ flying' = 1 .. (length \div ChunkSize)
            /\ waiting' = length \div ChunkSize
            /\ load' = "sending"
  /\ UNCHANGED <<length, account, setup, inFlight, written, foreign, loads>>

(* A goroutine: what SendAndConfirmTransaction returned is dropped.        *)
Done(sent) == waiting' = waiting - 1

SendChunk(c) ==
  /\ load = "sending"
  /\ c \in flying
  /\ flying' = flying \ {c}
  /\ \/ account.exists /\ written' = written \cup {c} /\ Done(TRUE)
     \/ UNCHANGED written /\ Done(FALSE)
  /\ UNCHANGED <<load, length, account, setup, inFlight, foreign, loads>>

(* wg.Wait, then SendTransaction is given the list of the chunks' own      *)
(* transactions, which it knows no case for: Load always ends here.        *)
Finalize ==
  /\ load = "sending"
  /\ waiting = 0
  /\ load' = "failed"
  /\ UNCHANGED <<length, account, setup, inFlight, flying, written, waiting, foreign,
                 loads>>

LoadAgain ==
  /\ load = "failed"
  /\ loads < MaxLoads
  /\ loads' = loads + 1
  /\ load' = "rent"
  /\ setup' = {}
  /\ UNCHANGED <<length, account, inFlight, flying, written, waiting, foreign>>

Loading ==
  \/ GetRent \/ GetProgramInfo \/ SendSetup \/ Cut \/ Finalize
  \/ \E c \in flying : SendChunk(c)

LoaderNext == Loading \/ LoadAgain \/ \E t \in inFlight : SetupLands(t)

(* Every call of Connection returns.                                       *)
LoaderFairness == WF_loaderVars(Loading)

LoaderSpec == LoaderInit /\ [][LoaderNext]_loaderVars /\ LoaderFairness
-----------------------------------------------------------------------------
(* Properties.                                                             *)

(* While chunks are written the account is as Load wants it, whatever was  *)
(* found there, whichever call before failed half way and however late its *)
(* transaction lands, once the first transaction of the call, if it needed *)
(* one, has landed: it exists, has the length of the program, room for each*)
(* chunk, is exempt from rent, and is not yet a program.  It belongs to the*)
(* loader unless it was found with another owner.                          *)
ChunksFit ==
  flying # {} /\ <<loads, setup>> \notin inFlight =>
    /\ account.exists /\ account.size = length /\ account.exempt
    /\ ~ account.executable
    /\ \A c \in flying : c * ChunkSize <= account.size
    /\ account.owner = "loader" \/ foreign

(* Load ends, however many of the chunks fail (wg.Done).                   *)
LoadsEnd == load = "rent" ~> load \in {"failed", "refused", "panicked"}
=============================================================================
