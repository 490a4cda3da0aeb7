------------------------------ MODULE IrysFunding ------------------------------
(***************************************************************************)
(* Uploading a logo and its metadata through an Irys node that is paid     *)
(* from the uploader's wallet: UploadLogoAndMetadata (irys/cmd.go) over    *)
(* UploadImage, UploadJson, FundByBytes, Fund, submitTransaction and       *)
(* postTransaction (irys/irys.go).  Several goroutines of one process may  *)
(* upload with one wallet; the node keeps one balance for it.              *)
(*                                                                         *)
(* A file has the price of its length, the same whenever the node is asked.*)
(* The node (its balance, what it stores, which of its answers get through)*)
(* and the chain are external: a transfer that was sent may land, late or  *)
(* never, whatever the confirmation answered, and an accepted submission   *)
(* (200 or 202) tells the node of it, which adds it to the balance once it *)
(* finds it on the chain.                                                  *)
(***************************************************************************)
EXTENDS Naturals, FiniteSets

CONSTANTS
  Uploaders,   (* goroutines that upload                                      *)
  PriceLists,  (* prices of the two files of an uploader                      *)
  Deposits,    (* balances the wallet may have at the node before             *)
  MaxAttempts  (* submitTransaction's attempts: 5 in the code                 *)

ASSUME UploadersAssumption == IsFiniteSet(Uploaders)
ASSUME PriceListsAssumption == PriceLists \subseteq [{"image", "json"} -> Nat]
ASSUME DepositsAssumption == Deposits \subseteq Nat
ASSUME AttemptsAssumption == MaxAttempts \in Nat

Files == {"image", "json"}
Stages == {"price", "balance", "bundler", "transfer", "submit", "post", "done"}

VARIABLES
  alive,     (* FALSE after a panic                                           *)
  cancelled, (* ctx.Done() is closed                                          *)
  stage,     (* where each uploader is                                        *)
  file,      (* what it uploads: the image, then the metadata                 *)
  attempt,   (* submitTransaction's idx                                       *)
  outcome,   (* what UploadLogoAndMetadata returned                           *)
  tooBig,    (* the uploaders whose image is over the limit                   *)
  price,     (* the price list of each                                        *)
  sent,      (* the transfers given to the cluster, by uploader and file      *)
  balance,   (* at the node                                                   *)
  told,      (* the transfers the node was told of                            *)
  credited,  (* those it has found on the chain and added to the balance      *)
  stored,    (* the files the node has taken                                  *)
  charged    (* history: what it took since an uploader's payment was added   *)

wares == <<tooBig, price>>
nodeVars == <<balance, told, credited, stored, charged>>
irysVars ==
  <<alive, cancelled, stage, file, attempt, outcome, sent, wares, nodeVars>>

-----------------------------------------------------------------------------
(* Faulty forms of definitions below, to test that the properties can fail.*)

JustThePrice(p) == p
StartsOver(u) ==
  attempt' = [attempt EXCEPT ![u] = (@ + 1) % MaxAttempts] /\ UNCHANGED stage

-----------------------------------------------------------------------------
(* FundByBytes pays five times the price of the file.                      *)
Payment(p) == 5 * p

IrysInit ==
  /\ alive = TRUE
  /\ cancelled = FALSE
  /\ stage = [u \in Uploaders |-> "price"]
  /\ file = [u \in Uploaders |-> "image"]
  /\ attempt = [u \in Uploaders |-> 0]
  /\ outcome = [u \in Uploaders |-> "none"]
  /\ tooBig \in SUBSET Uploaders
  /\ price \in [Uploaders -> PriceLists]
  /\ sent = {}
  /\ balance \in Deposits
  /\ told = {}
  /\ credited = {}
  /\ stored = {}
  /\ charged = [u \in Uploaders |-> 0]

At(u, s) == alive /\ stage[u] = s

Goto(u, s) ==
  /\ stage' = [stage EXCEPT ![u] = s]
  /\ UNCHANGED <<alive, outcome>>

Return(u, result) ==
  /\ stage' = [stage EXCEPT ![u] = "done"]
  /\ outcome' = [outcome EXCEPT ![u] = result]
  /\ UNCHANGED alive

(* An error on the way to the payment: UploadData panics with it and does  *)
(* not recover, UploadJson returns it.                                     *)
Throw(u) ==
  IF file[u] = "image" THEN alive' = FALSE /\ UNCHANGED <<stage, outcome>>
  ELSE Return(u, "error")

Own(u) == <<u, file[u]>>
Cost(u) == price[u][file[u]]

(* A faulty form, to test that the properties can fail.                    *)
GoOnAnyway(u) ==
  /\ At(u, "submit")
  /\ cancelled \/ attempt[u] = MaxAttempts
  /\ Goto(u, "post")
  /\ UNCHANGED <<cancelled, file, attempt, sent, wares, nodeVars>>

(* UploadImage: a format that is not known is an error before anything.    *)
SniffImage(u) ==
  /\ At(u, "price") /\ file[u] = "image"
  /\ Return(u, "error")
  /\ UNCHANGED <<cancelled, file, attempt, sent, wares, nodeVars>>

(* UploadLogoAndMetadata without a logo.                                   *)
NoLogo(u) ==
  /\ At(u, "price") /\ file[u] = "image"
  /\ file' = [file EXCEPT ![u] = "json"]
  /\ UNCHANGED <<alive, cancelled, stage, attempt, outcome, sent, wares, nodeVars>>

GetPrice(u) ==
  /\ At(u, "price")
  /\ Goto(u, "balance") \/ Throw(u)
  /\ UNCHANGED <<cancelled, file, attempt, sent, wares, nodeVars>>

(* checkBalance.                                                           *)
GetBalance(u) ==
  /\ At(u, "balance")
  /\ \/ balance >= Cost(u) /\ Goto(u, "post")
     \/ balance < Cost(u) /\ Goto(u, "bundler")
     \/ Throw(u)
  /\ UNCHANGED <<cancelled, file, attempt, sent, wares, nodeVars>>

GetBundlerAddress(u) ==
  /\ At(u, "bundler")
  /\ Goto(u, "transfer") \/ Throw(u)
  /\ UNCHANGED <<cancelled, file, attempt, sent, wares, nodeVars>>

(* Token.Transfer with confirmation: its failure may follow a transfer that*)
(* lands, and its success one that has not landed (TransactionConfirmation).*)
Transfer(u) ==
  /\ At(u, "transfer")
  /\ sent' = sent \cup {Own(u)}
  /\ Goto(u, "submit") \/ Throw(u)
  /\ attempt' = [attempt EXCEPT ![u] = 0]
  /\ UNCHANGED <<cancelled, file, wares, nodeVars>>

TransferFails(u) ==
  /\ At(u, "transfer")
  /\ Throw(u)
  /\ UNCHANGED <<cancelled, file, attempt, sent, wares, nodeVars>>

(* submitTransaction tells the node of the transfer, up to MaxAttempts     *)
(* times, until an answer of 200 or 202 arrives.                           *)
TryAgain(u) ==
  /\ attempt' = [attempt EXCEPT ![u] = @ + 1]
  /\ UNCHANGED stage

Submit(u) ==
  /\ At(u, "submit") /\ ~ cancelled /\ attempt[u] < MaxAttempts
  /\ \/ told' = told \cup {Own(u)} /\ Goto(u, "post") /\ UNCHANGED attempt
     \/ told' = told \cup {Own(u)} /\ TryAgain(u) /\ UNCHANGED <<alive, outcome>>
     \/ TryAgain(u) /\ UNCHANGED <<alive, outcome, told>>
  /\ UNCHANGED <<cancelled, file, sent, wares, balance, credited, stored, charged>>

(* The context is done or the attempts are used up: Must1 panics before    *)
(* Fund could tell the caller to keep the id of the payment.               *)
GiveUp(u) ==
  /\ At(u, "submit")
  /\ cancelled \/ attempt[u] = MaxAttempts
  /\ Throw(u)
  /\ UNCHANGED <<cancelled, file, attempt, sent, wares, nodeVars>>

(* Upload and postTransaction: the size is looked at only now; the node    *)
(* takes the file and its price, or answers 402 when the balance does not  *)
(* cover it; every other status counts as an error, and an answer may be   *)
(* lost.                                                                   *)
Uploaded(u) ==
  /\ stored' = stored \cup {Own(u)}
  /\ balance' = balance - Cost(u)
  /\ charged' = [v \in Uploaders |->
                   IF v # u /\ stage[v] # "done" /\ Own(v) \in credited
                     THEN charged[v] + Cost(u) ELSE 0]

GoOn(u) ==
  IF file[u] = "image"
    THEN file' = [file EXCEPT ![u] = "json"] /\ Goto(u, "price")
    ELSE Return(u, "ok") /\ UNCHANGED file

IsTooBig(u) == file[u] = "image" /\ u \in tooBig

PostAccepted(u) ==
  /\ At(u, "post") /\ ~ IsTooBig(u) /\ balance >= Cost(u)
  /\ Uploaded(u)
  /\ \/ GoOn(u)
     \/ Return(u, "error") /\ UNCHANGED file
  /\ UNCHANGED <<cancelled, attempt, sent, wares, told, credited>>

PostRefused(u) ==
  /\ At(u, "post") /\ ~ IsTooBig(u) /\ balance < Cost(u)
  /\ Return(u, "payment required")
  /\ UNCHANGED <<cancelled, file, attempt, sent, wares, nodeVars>>

PostFails(u) ==
  /\ At(u, "post")
  /\ Return(u, "error")
  /\ UNCHANGED <<cancelled, file, attempt, sent, wares, nodeVars>>

Cancel ==
  /\ alive /\ ~ cancelled
  /\ cancelled' = TRUE
  /\ UNCHANGED <<alive, stage, file, attempt, outcome, sent, wares, nodeVars>>

(* The node finds a transfer it was told of on the chain.                  *)
NodeCredits(t) ==
  /\ alive /\ t \in told \ credited
  /\ credited' = credited \cup {t}
  /\ balance' = balance + Payment(price[t[1]][t[2]])
  /\ UNCHANGED <<alive, cancelled, stage, file, attempt, outcome, sent, wares,
                 told, stored, charged>>

Uploading(u) ==
  \/ SniffImage(u) \/ NoLogo(u) \/ GetPrice(u) \/ GetBalance(u)
  \/ GetBundlerAddress(u) \/ Transfer(u) \/ TransferFails(u)
  \/ Submit(u) \/ GiveUp(u)
  \/ PostAccepted(u) \/ PostRefused(u) \/ PostFails(u)

IrysNext ==
  \/ Cancel
  \/ \E t \in Uploaders \X Files : NodeCredits(t)
  \/ \E u \in Uploaders : Uploading(u)

(* Each request of an uploader ends: HttpClient has a timeout, and the     *)
(* transfer is confirmed or given up (TransactionConfirmation).            *)
IrysFairness == \A u \in Uploaders : WF_irysVars(Uploading(u))

IrysSpec == IrysInit /\ [][IrysNext]_irysVars /\ IrysFairness
-----------------------------------------------------------------------------
(* Properties.                                                             *)

(* Whoever is told that the upload succeeded has the metadata at the node, *)
(* and the logo unless there is none, and the node was told of every       *)
(* transfer sent for them: a payment that never reached it is reported     *)
(* (Fund, Upload).  Whether the transfer lands is not known to them.       *)
SuccessIsCovered ==
  \A u \in Uploaders : outcome[u] = "ok" =>
    /\ <<u, "json">> \in stored
    /\ \A f \in Files : <<u, f>> \in sent => <<u, f>> \in told /\ <<u, f>> \in stored

(* An uploader whose payment for a file was added to the balance is        *)
(* refused that file for want of balance only after the node took more than*)
(* four times its price from the others, who spend from the same balance   *)
(* between the payment and the upload (FundByBytes, price*5): never, when  *)
(* nobody else uploads.                                                    *)
Refused(u) == outcome[u] = "payment required"
PaymentLasts ==
  [][\A u \in Uploaders :
       ~ Refused(u) /\ Refused(u)' /\ Own(u) \in credited => charged[u] > 4 * Cost(u)]_irysVars

(* Every upload comes to an end, or the process does (submitTransaction).  *)
UploadsEnd == <>(~ alive \/ \A u \in Uploaders : stage[u] = "done")
=============================================================================
