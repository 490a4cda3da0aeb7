----------------------------- MODULE ToolkitProofs -----------------------------
(***************************************************************************)
(* Proofs about the tools of Toolkit, each on its own and then together.   *)
(***************************************************************************)
EXTENDS Toolkit, InstructionBuilderProofs

-----------------------------------------------------------------------------
(* IrysFunding: a success is covered, and a payment lasts as long as it    *)
(* should, for any number of uploaders, whatever the prices of their files,*)
(* whatever was deposited and however often submitTransaction tries.       *)

IrysTypes ==
  /\ alive \in BOOLEAN /\ cancelled \in BOOLEAN
  /\ stage \in [Uploaders -> Stages]
  /\ file \in [Uploaders -> Files]
  /\ attempt \in [Uploaders -> Nat]
  /\ outcome \in [Uploaders -> {"none", "ok", "error", "payment required"}]
  /\ price \in [Uploaders -> [Files -> Nat]]
  /\ balance \in Nat
  /\ charged \in [Uploaders -> Nat]
  /\ sent \subseteq Uploaders \X Files
  /\ told \subseteq Uploaders \X Files
  /\ credited \subseteq Uploaders \X Files
  /\ stored \subseteq Uploaders \X Files

(* What an uploader has not come to yet has not happened.                  *)
NotYet(u) ==
  /\ stage[u] # "done" => outcome[u] = "none" /\ Own(u) \notin stored
  /\ file[u] = "image" => <<u, "json">> \notin sent \cup told \cup credited \cup stored
  /\ alive /\ stage[u] \in {"price", "balance", "bundler", "transfer"} =>
       Own(u) \notin sent

(* What an uploader has left behind counts.                                *)
Settled(u, f) == <<u, f>> \in sent => <<u, f>> \in told /\ <<u, f>> \in stored

LeftBehind(u) ==
  /\ file[u] = "json" => Settled(u, "image")
  /\ stage[u] = "post" => (Own(u) \in sent => Own(u) \in told)
  /\ outcome[u] = "ok" => file[u] = "json" /\ <<u, "json">> \in stored
                            /\ Settled(u, "json")

(* The balance and what was taken of it since are at least the payment.    *)
Lasting(u) ==
  Own(u) \in credited /\ stage[u] # "done" => balance + charged[u] >= 5 * Cost(u)

IrysInv ==
  IrysTypes /\ \A u \in Uploaders : NotYet(u) /\ LeftBehind(u) /\ Lasting(u)

-----------------------------------------------------------------------------
LEMMA IrysInitially == IrysInit => IrysInv
<1> SUFFICES ASSUME IrysInit PROVE IrysInv
  OBVIOUS
<1>1. balance \in Nat
  BY DepositsAssumption DEF IrysInit
<1>2. price \in [Uploaders -> [Files -> Nat]]
  BY PriceListsAssumption DEF IrysInit, Files
<1>3. IrysTypes
  <2>1. /\ sent = {} /\ told = {} /\ credited = {} /\ stored = {}
        /\ alive = TRUE /\ cancelled = FALSE
    BY DEF IrysInit
  <2>2. /\ stage \in [Uploaders -> Stages] /\ file \in [Uploaders -> Files]
        /\ attempt \in [Uploaders -> Nat] /\ charged \in [Uploaders -> Nat]
        /\ outcome \in [Uploaders -> {"none", "ok", "error", "payment required"}]
    BY DEF IrysInit, Stages, Files
  <2> QED BY <1>1, <1>2, <2>1, <2>2 DEF IrysTypes
<1>4. ASSUME NEW u \in Uploaders PROVE NotYet(u) /\ LeftBehind(u) /\ Lasting(u)
  BY DEF IrysInit, NotYet, LeftBehind, Settled, Lasting, Own
<1> QED
  BY <1>3, <1>4 DEF IrysInv

LEMMA OwnIsOne ==
  ASSUME IrysTypes, NEW u \in Uploaders
  PROVE  Own(u) \in Uploaders \X Files /\ Cost(u) \in Nat
<1>1. file[u] \in Files /\ price[u] \in [Files -> Nat]
  BY DEF IrysTypes
<1> QED
  BY <1>1 DEF Own, Cost

(* One uploader's step.                                                    *)
LEMMA UploadedTypes ==
  ASSUME IrysTypes, NEW u \in Uploaders, PostAccepted(u)
  PROVE  /\ balance' = balance - Cost(u) /\ balance' \in Nat
         /\ stored' \subseteq Uploaders \X Files
         /\ charged' \in [Uploaders -> Nat]
         /\ \A v \in Uploaders : v # u /\ stage[v] # "done" /\ Own(v) \in credited =>
                                   charged'[v] = charged[v] + Cost(u)
<1>1. balance \in Nat /\ Cost(u) \in Nat /\ balance >= Cost(u)
      /\ Own(u) \in Uploaders \X Files
  BY OwnIsOne DEF IrysTypes, PostAccepted
<1>2. balance' = balance - Cost(u) /\ stored' = stored \cup {Own(u)}
  BY DEF PostAccepted, Uploaded
<1>3. charged' = [v \in Uploaders |->
                    IF v # u /\ stage[v] # "done" /\ Own(v) \in credited
                      THEN charged[v] + Cost(u) ELSE 0]
  BY DEF PostAccepted, Uploaded
<1>0. \A v \in Uploaders : charged[v] \in Nat
  BY DEF IrysTypes
<1>4. \A v \in Uploaders : charged[v] + Cost(u) \in Nat
  BY <1>0, <1>1
<1> HIDE DEF Cost, Own
<1>5. charged' \in [Uploaders -> Nat]
  BY <1>3, <1>4
<1>6. balance - Cost(u) \in Nat
  BY <1>1
<1>7. stored' \subseteq Uploaders \X Files
  BY <1>1, <1>2 DEF IrysTypes
<1> QED
  BY <1>2, <1>3, <1>5, <1>6, <1>7

LEMMA IrysTypesStep ==
  ASSUME IrysTypes, NEW u \in Uploaders, Uploading(u)
  PROVE  IrysTypes'
<1>0. Own(u) \in Uploaders \X Files
  BY OwnIsOne
<1>a. attempt[u] \in Nat
  BY DEF IrysTypes
<1>b. attempt[u] + 1 \in Nat
  BY <1>a
<1> USE DEF IrysTypes, Stages, At, Goto, Return, Throw, wares, nodeVars
<1>1. CASE SniffImage(u) BY <1>1 DEF SniffImage
<1>2. CASE NoLogo(u) BY <1>2 DEF NoLogo, Files
<1>3. CASE GetPrice(u) BY <1>3 DEF GetPrice
<1>4. CASE GetBalance(u) BY <1>4 DEF GetBalance
<1>5. CASE GetBundlerAddress(u) BY <1>5 DEF GetBundlerAddress
<1>6. CASE Transfer(u)
  <2>1. sent' \subseteq Uploaders \X Files
    BY <1>0, <1>6 DEF Transfer
  <2> QED BY <1>6, <2>1 DEF Transfer
<1>7. CASE TransferFails(u) BY <1>7 DEF TransferFails
<1>8. CASE Submit(u)
  <2>1. told' \subseteq Uploaders \X Files
    BY <1>0, <1>8 DEF Submit
  <2> QED BY <1>8, <1>b, <2>1 DEF Submit, TryAgain
<1>9. CASE GiveUp(u) BY <1>9 DEF GiveUp
<1>10. CASE PostAccepted(u)
  <2>1. file' \in [Uploaders -> Files]
    BY <1>10 DEF PostAccepted, GoOn, Files
  <2>2. /\ balance' \in Nat /\ stored' \subseteq Uploaders \X Files
        /\ charged' \in [Uploaders -> Nat]
    BY <1>10, UploadedTypes
  <2> QED
    BY <1>10, <2>1, <2>2 DEF PostAccepted, GoOn
<1>11. CASE PostRefused(u) BY <1>11 DEF PostRefused
<1>12. CASE PostFails(u) BY <1>12 DEF PostFails
<1> QED
  BY <1>1, <1>2, <1>3, <1>4, <1>5, <1>6, <1>7, <1>8, <1>9, <1>10, <1>11, <1>12
  DEF Uploading

(* A step of one uploader leaves what the others have and wait for alone.  *)
Alike(v) ==
  /\ stage'[v] = stage[v] /\ file'[v] = file[v] /\ outcome'[v] = outcome[v]
  /\ price' = price
  /\ \A f \in Files : /\ <<v, f>> \in sent' <=> <<v, f>> \in sent
                      /\ <<v, f>> \in told' <=> <<v, f>> \in told
                      /\ <<v, f>> \in credited' <=> <<v, f>> \in credited
                      /\ <<v, f>> \in stored' <=> <<v, f>> \in stored

LEMMA OthersStay ==
  ASSUME IrysTypes, NEW u \in Uploaders, Uploading(u),
         NEW v \in Uploaders, v # u
  PROVE  Alike(v)
<1> USE DEF IrysTypes, Stages, Files, At, Goto, Return, Throw, Own, wares,
            nodeVars, Alike
<1>1. CASE SniffImage(u) BY <1>1 DEF SniffImage
<1>2. CASE NoLogo(u) BY <1>2 DEF NoLogo
<1>3. CASE GetPrice(u) BY <1>3 DEF GetPrice
<1>4. CASE GetBalance(u) BY <1>4 DEF GetBalance
<1>5. CASE GetBundlerAddress(u) BY <1>5 DEF GetBundlerAddress
<1>6. CASE Transfer(u)
  <2>1. \A f \in Files : <<v, f>> # Own(u)
    OBVIOUS
  <2>2. sent' = sent \cup {Own(u)} /\ UNCHANGED <<file, price, told, credited, stored>>
    BY <1>6 DEF Transfer
  <2>3. stage'[v] = stage[v] /\ outcome'[v] = outcome[v]
    BY <1>6 DEF Transfer
  <2> QED
    BY <2>1, <2>2, <2>3
<1>7. CASE TransferFails(u) BY <1>7 DEF TransferFails
<1>8. CASE Submit(u) BY <1>8 DEF Submit, TryAgain
<1>9. CASE GiveUp(u) BY <1>9 DEF GiveUp
<1>10. CASE PostAccepted(u) BY <1>10 DEF PostAccepted, Uploaded, GoOn
<1>11. CASE PostRefused(u) BY <1>11 DEF PostRefused
<1>12. CASE PostFails(u) BY <1>12 DEF PostFails
<1> QED
  BY <1>1, <1>2, <1>3, <1>4, <1>5, <1>6, <1>7, <1>8, <1>9, <1>10, <1>11, <1>12
  DEF Uploading

(* The uploader's own part of the invariant.                               *)
LEMMA OwnStep ==
  ASSUME IrysTypes, NEW u \in Uploaders, NotYet(u), LeftBehind(u), Uploading(u)
  PROVE  NotYet(u)' /\ LeftBehind(u)'
<1> USE DEF IrysTypes, Stages, Files, At, Goto, Return, Throw, Own, wares,
            nodeVars, NotYet, LeftBehind, Settled
<1>1. CASE SniffImage(u) BY <1>1 DEF SniffImage
<1>2. CASE NoLogo(u) BY <1>2 DEF NoLogo
<1>3. CASE GetPrice(u) BY <1>3 DEF GetPrice
<1>4. CASE GetBalance(u) BY <1>4 DEF GetBalance
<1>5. CASE GetBundlerAddress(u) BY <1>5 DEF GetBundlerAddress
<1>6. CASE Transfer(u)
  <2>1. /\ sent' = sent \cup {<<u, file[u]>>}
        /\ UNCHANGED <<file, told, credited, stored>>
    BY <1>6 DEF Transfer
  <2>2. stage[u] = "transfer" /\ outcome'[u] # "ok" /\ stage'[u] # "post"
    BY <1>6 DEF Transfer
  <2>3. stage'[u] # "done" => outcome'[u] = "none"
    BY <1>6 DEF Transfer
  <2>4. alive' => stage'[u] \in {"submit", "done"}
    BY <1>6 DEF Transfer
  <2> QED
    BY <2>1, <2>2, <2>3, <2>4
<1>7. CASE TransferFails(u) BY <1>7 DEF TransferFails
<1>8. CASE Submit(u) BY <1>8 DEF Submit, TryAgain
<1>9. CASE GiveUp(u) BY <1>9 DEF GiveUp
<1>10. CASE PostAccepted(u) BY <1>10 DEF PostAccepted, Uploaded, GoOn
<1>11. CASE PostRefused(u) BY <1>11 DEF PostRefused
<1>12. CASE PostFails(u) BY <1>12 DEF PostFails
<1> QED
  BY <1>1, <1>2, <1>3, <1>4, <1>5, <1>6, <1>7, <1>8, <1>9, <1>10, <1>11, <1>12
  DEF Uploading

(* What an upload takes of the balance is charged to whoever has paid; an  *)
(* uploader that goes on to the next file has not paid for it.             *)
LEMMA LastingStep ==
  ASSUME IrysTypes, NEW u \in Uploaders, NotYet(u), Uploading(u),
         NEW v \in Uploaders, Lasting(v)
  PROVE  Lasting(v)'
<1>1. balance \in Nat /\ charged[v] \in Nat /\ Cost(v) \in Nat /\ Cost(u) \in Nat
  BY OwnIsOne DEF IrysTypes
<1>2. CASE PostAccepted(u)
  <2>1. /\ balance' = balance - Cost(u)
        /\ v # u /\ stage[v] # "done" /\ Own(v) \in credited =>
             charged'[v] = charged[v] + Cost(u)
    BY <1>2, UploadedTypes
  <2>2. CASE v # u
    <3>1. stage'[v] = stage[v] /\ file'[v] = file[v] /\ price' = price /\ credited' = credited
      BY <1>2, <2>2, OthersStay DEF Alike, PostAccepted
    <3>2. Own(v)' = Own(v) /\ Cost(v)' = Cost(v)
      BY <3>1 DEF Own, Cost
    <3> HIDE DEF Own, Cost
    <3> QED BY <1>1, <2>1, <2>2, <3>1, <3>2 DEF Lasting
  <2>3. CASE v = u
    <3>0. file \in [Uploaders -> Files] /\ stage \in [Uploaders -> Stages]
      BY DEF IrysTypes
    <3>1. stage'[u] = "done" \/ (file[u] = "image" /\ file'[u] = "json")
      <4>1. Return(u, "ok") \/ Return(u, "error") => stage'[u] = "done"
        BY <3>0 DEF Return
      <4>2. GoOn(u) => Return(u, "ok") \/ (file[u] = "image" /\ file'[u] = "json")
        BY <3>0 DEF GoOn
      <4> QED BY <1>2, <4>1, <4>2 DEF PostAccepted
    <3>2. file[u] = "image" => <<u, "json">> \notin credited'
      BY <1>2 DEF PostAccepted, NotYet
    <3> QED BY <2>3, <3>1, <3>2 DEF Lasting, Own
  <2> QED BY <2>2, <2>3
<1>3. CASE NoLogo(u)
  <2>1. /\ UNCHANGED <<stage, balance, charged, credited, price>>
        /\ file' = [file EXCEPT ![u] = "json"] /\ file[u] = "image"
    BY <1>3 DEF NoLogo, nodeVars, wares
  <2>2. CASE v = u
    BY <2>1, <2>2 DEF Lasting, Own, NotYet, IrysTypes
  <2>3. CASE v # u
    BY <2>1, <2>3 DEF Lasting, Own, Cost, IrysTypes
  <2> QED BY <2>2, <2>3
<1>4. CASE /\ UNCHANGED <<file, balance, charged, credited, price>>
           /\ stage'[v] = stage[v] \/ stage[v] # "done"
  <2>1. Own(v)' = Own(v) /\ Cost(v)' = Cost(v)
    BY <1>4 DEF Own, Cost
  <2> QED BY <1>4, <2>1 DEF Lasting
<1>5. stage'[v] = stage[v] \/ stage[v] # "done"
  <2>1. CASE v = u
    BY <2>1 DEF Uploading, SniffImage, NoLogo, GetPrice, GetBalance,
                GetBundlerAddress, Transfer, TransferFails, Submit, GiveUp,
                PostAccepted, PostRefused, PostFails, At
  <2>2. CASE v # u
    BY <2>2, OthersStay DEF Alike
  <2> QED BY <2>1, <2>2
<1> QED
  BY <1>2, <1>3, <1>4, <1>5
  DEF Uploading, SniffImage, GetPrice, GetBalance, GetBundlerAddress, Transfer,
      TransferFails, Submit, GiveUp, PostRefused, PostFails, nodeVars, wares

(* The node adds a payment of the price of the file it was made for.       *)
LEMMA CreditStep ==
  ASSUME IrysInv, NEW t \in Uploaders \X Files, NodeCredits(t)
  PROVE  IrysInv'
<1> DEFINE cost == price[t[1]][t[2]]
<1>1. /\ t \in told /\ credited' = credited \cup {t} /\ balance' = balance + 5 * cost
      /\ UNCHANGED <<alive, cancelled, stage, file, attempt, outcome, sent, tooBig,
                     price, told, stored, charged>>
  BY DEF NodeCredits, Payment, wares
<1>2. balance \in Nat /\ cost \in Nat
  BY DEF IrysInv, IrysTypes
<1>3. IrysTypes'
  <2>0. credited \subseteq Uploaders \X Files
    BY DEF IrysInv, IrysTypes
  <2> HIDE DEF cost
  <2>1. balance' \in Nat /\ credited' \subseteq Uploaders \X Files
    BY <1>1, <1>2, <2>0
  <2> QED BY <1>1, <2>1 DEF IrysInv, IrysTypes
<1>4. ASSUME NEW v \in Uploaders PROVE NotYet(v)' /\ LeftBehind(v)' /\ Lasting(v)'
  <2>1. NotYet(v) /\ LeftBehind(v) /\ Lasting(v) /\ charged[v] \in Nat /\ Cost(v) \in Nat
    BY OwnIsOne DEF IrysInv, IrysTypes
  <2>2. NotYet(v)' /\ LeftBehind(v)'
    BY <1>1, <2>1 DEF NotYet, LeftBehind, Settled, Own
  <2>3. Own(v)' = Own(v) /\ Cost(v)' = Cost(v)
    BY <1>1 DEF Own, Cost
  <2>4. CASE Own(v) = t
    <3>1. cost = Cost(v)
      BY <2>4 DEF Own, Cost
    <3> HIDE DEF cost
    <3> QED BY <1>1, <1>2, <2>1, <2>2, <2>3, <3>1 DEF Lasting
  <2>5. CASE Own(v) # t
    <3> HIDE DEF cost
    <3> QED BY <1>1, <1>2, <2>1, <2>2, <2>3, <2>5 DEF Lasting
  <2> QED BY <2>4, <2>5
<1> QED
  BY <1>3, <1>4 DEF IrysInv

LEMMA IrysStep == IrysInv /\ [IrysNext]_irysVars => IrysInv'
<1> SUFFICES ASSUME IrysInv, [IrysNext]_irysVars PROVE IrysInv'
  OBVIOUS
<1>1. CASE \E u \in Uploaders : Uploading(u)
  <2>1. PICK u \in Uploaders : Uploading(u)
    BY <1>1
  <2>2. IrysTypes'
    BY <2>1, IrysTypesStep DEF IrysInv
  <2>3. NotYet(u)' /\ LeftBehind(u)'
    BY <2>1, OwnStep DEF IrysInv
  <2>4. ASSUME NEW v \in Uploaders, v # u PROVE NotYet(v)' /\ LeftBehind(v)'
    <3>1. Alike(v)
      BY <2>1, <2>4, OthersStay DEF IrysInv
    <3>2. file[v] \in Files /\ NotYet(v) /\ LeftBehind(v)
      BY DEF IrysInv, IrysTypes
    <3>3. alive
      BY <2>1 DEF Uploading, SniffImage, NoLogo, GetPrice, GetBalance,
                  GetBundlerAddress, Transfer, TransferFails, Submit, GiveUp,
                  PostAccepted, PostRefused, PostFails, At
    <3> QED
      BY <3>1, <3>2, <3>3 DEF Alike, NotYet, LeftBehind, Settled, Own, Files
  <2>5. ASSUME NEW v \in Uploaders PROVE Lasting(v)'
    BY <2>1, LastingStep DEF IrysInv
  <2> QED
    BY <2>2, <2>3, <2>4, <2>5 DEF IrysInv
<1>2. CASE Cancel
  BY <1>2 DEF Cancel, IrysInv, IrysTypes, NotYet, LeftBehind, Settled, Lasting, Own,
              Cost, wares, nodeVars
<1>3. CASE \E t \in Uploaders \X Files : NodeCredits(t)
  BY <1>3, CreditStep
<1>4. CASE UNCHANGED irysVars
  BY <1>4 DEF irysVars, IrysInv, IrysTypes, NotYet, LeftBehind, Settled, Lasting, Own,
              Cost, wares, nodeVars
<1> QED
  BY <1>1, <1>2, <1>3, <1>4 DEF IrysNext

(* IrysInv is inductive.                                                   *)
THEOREM IrysInvariance == IrysSpec => []IrysInv
  BY IrysInitially, IrysStep, PTL DEF IrysSpec

LEMMA InvSuccessIsCovered == IrysInv => SuccessIsCovered
  BY DEF IrysInv, LeftBehind, Settled, SuccessIsCovered, Files

(* UploadLogoAndMetadata never reports success with a file missing or with *)
(* a transfer the node was not told of, for any number of uploaders that   *)
(* share a wallet.                                                         *)
THEOREM SuccessAlwaysCovered == IrysSpec => []SuccessIsCovered
  BY InvSuccessIsCovered, IrysInvariance, PTL

(* Only the answer 402 refuses, and then the balance does not cover the    *)
(* file, so that what was taken of the payment is more than the rest of it.*)
LastsNow ==
  \A u \in Uploaders :
    ~ Refused(u) /\ Refused(u)' /\ Own(u) \in credited => charged[u] > 4 * Cost(u)

LEMMA RefusalStep ==
  ASSUME IrysInv, [IrysNext]_irysVars PROVE LastsNow
<1> SUFFICES ASSUME NEW u \in Uploaders, ~ Refused(u), Refused(u)', Own(u) \in credited
             PROVE  charged[u] > 4 * Cost(u)
  BY DEF LastsNow
<1>1. PICK w \in Uploaders : Uploading(w)
  BY DEF IrysNext, Cancel, NodeCredits, irysVars, Refused
<1>2. w = u
  BY <1>1, OthersStay DEF IrysInv, Alike, Refused
<1>3. PostRefused(u)
  BY <1>1, <1>2
  DEF IrysInv, IrysTypes, Uploading, SniffImage, NoLogo, GetPrice, GetBalance,
      GetBundlerAddress, Transfer, TransferFails, Submit, GiveUp, Refused,
      PostAccepted, GoOn, PostFails, At, Goto, Return, Throw, TryAgain
<1>4. balance < Cost(u) /\ stage[u] # "done"
  BY <1>3 DEF PostRefused, At
<1>5. balance \in Nat /\ charged[u] \in Nat /\ Cost(u) \in Nat
  BY OwnIsOne DEF IrysInv, IrysTypes
<1>6. balance + charged[u] >= 5 * Cost(u)
  BY <1>4 DEF IrysInv, Lasting
<1> HIDE DEF Cost
<1> QED
  BY <1>4, <1>5, <1>6

LEMMA LastsByUploading ==
  IrysInit /\ [][IrysNext]_irysVars => PaymentLasts
<1>1. IrysInv /\ [IrysNext]_irysVars => LastsNow
  BY RefusalStep
<1> QED
  BY <1>1, IrysInitially, IrysStep, PTL DEF PaymentLasts, LastsNow

(* However many share a wallet and whatever their files cost, whoever has  *)
(* a payment credited is refused only after the node took more than four   *)
(* times the file's price from the others since.                           *)
THEOREM PaymentAlwaysLasts == IrysSpec => PaymentLasts
  BY LastsByUploading, PTL DEF IrysSpec
-----------------------------------------------------------------------------
(* ProgramLoader: once its first transaction has landed, a call writes     *)
(* chunks only to an account that is as Load wants it, for every length of *)
(* the program and of a chunk, however often Load is called and however    *)
(* late the transactions of the calls before land.                         *)

ProgramAccounts ==
  [exists : BOOLEAN, size : Nat, owner : Owners, exempt : BOOLEAN,
   executable : BOOLEAN]

LoaderTypes ==
  /\ length \in Nat
  /\ account \in ProgramAccounts
  /\ flying \subseteq 1 .. (length \div ChunkSize)

(* The goroutines wg.Wait waits for.                                       *)
Counted ==
  /\ IsFiniteSet(flying) /\ waiting = Cardinality(flying)
  /\ load # "sending" => flying = {}

(* The account as Load wants it; once so, always so.                       *)
Fits(a) ==
  /\ a.exists /\ a.size = length /\ a.exempt
  /\ ~ a.executable
  /\ a.owner = "loader" \/ foreign

(* The instructions do what an account lacks.                              *)
Suffices(instructions, a) ==
  /\ ~ a.executable
  /\ \/ instructions = {"create"}
     \/ /\ a.exists
        /\ "allocate" \in instructions \/ a.size = length
        /\ "assign" \in instructions \/ a.owner = "loader" \/ foreign
        /\ "transfer" \in instructions \/ a.exempt

Ready == load \in {"cut", "sending"}
Pending == <<loads, setup>> \in inFlight

SetupSuffices ==
  load = "setup" \/ (Ready /\ Pending) => Suffices(setup, account)

(* A transaction in flight assigns an account only that was foreign.       *)
Sound(instructions) == "assign" \in instructions => foreign
AllSound == Sound(setup) /\ \A t \in inFlight : Sound(t[2])

FitsFromCut == Ready /\ ~ Pending => Fits(account)

LoaderInv == LoaderTypes /\ Counted /\ SetupSuffices /\ AllSound /\ FitsFromCut

-----------------------------------------------------------------------------
(* Chunk number c ends within the program.                                 *)
LEMMA ChunkEnds ==
  ASSUME NEW n \in Nat, NEW c \in 1 .. (n \div ChunkSize)
  PROVE  c * ChunkSize <= n
<1> DEFINE d == n \div ChunkSize
<1>1. ChunkSize \in Nat /\ ChunkSize > 0
  BY ChunkSizeAssumption
<1>2. d \in Nat /\ d * ChunkSize <= n
  BY <1>1, Z3
<1>3. c \in Nat /\ d - c \in Nat
  BY <1>2
<1>4. (d - c) * ChunkSize >= 0
  BY <1>1, <1>3
<1>5. (d - c) * ChunkSize = d * ChunkSize - c * ChunkSize
  BY <1>1, <1>2, <1>3
<1> QED
  BY <1>1, <1>2, <1>3, <1>4, <1>5

(* What a prepared account has.                                            *)
HasBeenPrepared(p, a, instructions) ==
  /\ p.exists
  /\ p.size = IF "create" \in instructions \/ "allocate" \in instructions
                THEN length ELSE a.size
  /\ p.owner = IF "create" \in instructions THEN "loader"
               ELSE IF "assign" \in instructions THEN "program" ELSE a.owner
  /\ p.exempt = (a.exempt \/ "create" \in instructions \/ "transfer" \in instructions)
  /\ p.executable = a.executable

LEMMA PreparedFields ==
  ASSUME LoaderTypes, NEW instructions, NEW a \in ProgramAccounts
  PROVE  /\ Prepared(a, instructions) \in ProgramAccounts
         /\ HasBeenPrepared(Prepared(a, instructions), a, instructions)
<1>1. /\ a.size \in Nat /\ a.owner \in Owners /\ a.exempt \in BOOLEAN
      /\ a.executable \in BOOLEAN /\ length \in Nat
      /\ "loader" \in Owners /\ "program" \in Owners
  BY DEF ProgramAccounts, LoaderTypes, Owners
<1>2. HasBeenPrepared(Prepared(a, instructions), a, instructions)
  BY Zenon DEF Prepared, HasBeenPrepared
<1>3. Prepared(a, instructions) \in ProgramAccounts
  BY <1>1 DEF Prepared, ProgramAccounts
<1> QED
  BY <1>2, <1>3

(* Instructions that do what an account lacks make it as Load wants it.    *)
LEMMA SetupHelps ==
  ASSUME LoaderTypes, NEW instructions, Suffices(instructions, account),
         Sound(instructions)
  PROVE  Fits(Prepared(account, instructions))
<1> DEFINE p == Prepared(account, instructions)
<1>1. account \in ProgramAccounts
  BY DEF LoaderTypes
<1>2. HasBeenPrepared(p, account, instructions)
  BY <1>1, PreparedFields
<1> HIDE DEF p
<1>3. Fits(p)
  BY <1>2 DEF HasBeenPrepared, Suffices, Sound, Fits
<1> QED
  BY <1>3 DEF p

(* A late transaction leaves an account that fits as it should be, and what*)
(* would do what the account lacks still does.                             *)
LEMMA LandingKeeps ==
  ASSUME LoaderTypes, NEW instructions, Sound(instructions),
         Applies(account, instructions)
  PROVE  /\ Fits(account) => Fits(Prepared(account, instructions))
         /\ \A s : Suffices(s, account) =>
                     Suffices(s, Prepared(account, instructions))
<1> DEFINE p == Prepared(account, instructions)
<1>1. account \in ProgramAccounts
  BY DEF LoaderTypes
<1>2. HasBeenPrepared(p, account, instructions)
  BY <1>1, PreparedFields
<1> HIDE DEF p
<1>3. Fits(account) => Fits(p)
  BY <1>2 DEF HasBeenPrepared, Sound, Fits
<1>4. ASSUME NEW s, Suffices(s, account) PROVE Suffices(s, p)
  BY <1>2, <1>4 DEF HasBeenPrepared, Sound, Suffices
<1> QED
  BY <1>3, <1>4 DEF p

LEMMA LoaderInitially == LoaderInit => LoaderInv
<1> SUFFICES ASSUME LoaderInit PROVE LoaderInv
  OBVIOUS
<1>1. length \in Nat
  BY DataLengthsAssumption DEF LoaderInit
<1>2. account \in ProgramAccounts
  <2>1. CASE account = NoAccount
    BY <2>1 DEF NoAccount, Owners, ProgramAccounts
  <2>2. CASE account \in [exists : {TRUE}, size : DataLengths, owner : Owners,
                          exempt : BOOLEAN, executable : BOOLEAN]
    <3>1. PICK b \in {TRUE}, s \in DataLengths, o \in Owners, x \in BOOLEAN,
               y \in BOOLEAN :
            account = [exists |-> b, size |-> s, owner |-> o, exempt |-> x,
                       executable |-> y]
      BY <2>2
    <3>2. s \in Nat
      BY DataLengthsAssumption
    <3> QED
      BY <3>1, <3>2 DEF ProgramAccounts
  <2> QED
    BY <2>1, <2>2 DEF LoaderInit
<1>3. Counted
  BY FS_EmptySet DEF LoaderInit, Counted
<1> QED
  BY <1>1, <1>2, <1>3
  DEF LoaderInit, LoaderInv, LoaderTypes, SetupSuffices, AllSound, Sound,
      FitsFromCut, Ready

(* The counter of the WaitGroup follows the goroutines.                    *)
LEMMA CountedStep == LoaderInv /\ [LoaderNext]_loaderVars => Counted'
<1> SUFFICES ASSUME LoaderInv, [LoaderNext]_loaderVars PROVE Counted'
  OBVIOUS
<1>1. /\ IsFiniteSet(flying) /\ waiting = Cardinality(flying)
      /\ load # "sending" => flying = {}
  BY DEF LoaderInv, Counted
<1>2. CASE Cut
  <2>1. length \div ChunkSize \in Nat
    BY ChunkSizeAssumption, Z3 DEF LoaderInv, LoaderTypes
  <2>2. CASE length % ChunkSize # 0
    <3>1. UNCHANGED <<flying, waiting>> /\ load = "cut"
      BY <1>2, <2>2 DEF Cut
    <3> QED BY <1>1, <3>1 DEF Counted
  <2>3. CASE ~ (length % ChunkSize # 0)
    <3> DEFINE d == length \div ChunkSize
    <3>1. flying' = 1 .. d /\ waiting' = d /\ load' = "sending"
      BY <1>2, <2>3 DEF Cut
    <3> HIDE DEF d
    <3>2. d \in Nat
      BY <2>1 DEF d
    <3>3. IsFiniteSet(1 .. d) /\ Cardinality(1 .. d) = d
      BY <3>2, FS_Interval
    <3> QED BY <3>1, <3>3 DEF Counted
  <2> QED BY <2>2, <2>3
<1>3. CASE \E c \in flying : SendChunk(c)
  <2>1. PICK c \in flying : SendChunk(c)
    BY <1>3
  <2>2. flying' = flying \ {c} /\ waiting' = waiting - 1 /\ load' = load /\ load = "sending"
    BY <2>1 DEF SendChunk, Done
  <2>3. IsFiniteSet(flying \ {c}) /\ Cardinality(flying \ {c}) = Cardinality(flying) - 1
    BY <1>1, FS_RemoveElement
  <2> QED BY <1>1, <2>2, <2>3 DEF Counted
<1>4. CASE Finalize
  <2>1. waiting = 0 /\ UNCHANGED <<flying, waiting>>
    BY <1>4 DEF Finalize
  <2>2. flying = {}
    BY <1>1, <2>1, FS_EmptySet
  <2> QED BY <1>1, <2>1, <2>2 DEF Counted
<1>5. CASE UNCHANGED <<flying, waiting>> /\ (load # "sending" \/ load' = load)
  BY <1>1, <1>5 DEF Counted
<1>6. CASE GetRent \/ GetProgramInfo \/ SendSetup \/ LoadAgain \/ UNCHANGED loaderVars
           \/ \E t \in inFlight : SetupLands(t)
  BY <1>5, <1>6 DEF GetRent, GetProgramInfo, SendSetup, LoadAgain, loaderVars, SetupLands
<1> QED
  BY <1>2, <1>3, <1>4, <1>6 DEF LoaderNext, Loading

LEMMA LoaderStep == LoaderInv /\ [LoaderNext]_loaderVars => LoaderInv'
<1> SUFFICES ASSUME LoaderInv, [LoaderNext]_loaderVars PROVE LoaderInv'
  OBVIOUS
<1>c. Counted'
  BY CountedStep
<1>t. LoaderTypes /\ SetupSuffices /\ AllSound /\ FitsFromCut /\ account \in ProgramAccounts
      /\ (load # "sending" => flying = {})
  BY DEF LoaderInv, LoaderTypes, Counted
<1> SUFFICES LoaderTypes' /\ SetupSuffices' /\ AllSound' /\ FitsFromCut'
  BY <1>c DEF LoaderInv
<1>1. CASE GetRent
  BY <1>1, <1>t DEF GetRent, LoaderTypes, SetupSuffices, AllSound, Sound, FitsFromCut,
                    Ready
<1>2. CASE GetProgramInfo
  <2>1. /\ load = "info" /\ load' # "sending"
        /\ UNCHANGED <<length, account, inFlight, flying, loads>>
    BY <1>2 DEF GetProgramInfo
  <2>2. CASE load' = "failed" /\ UNCHANGED <<setup, foreign>>
    BY <1>t, <2>1, <2>2 DEF LoaderTypes, SetupSuffices, AllSound, Sound, FitsFromCut,
                            Ready
  <2>3. CASE /\ setup' = IF account.executable THEN {} ELSE Needed(account)
             /\ load' = IF account.executable THEN "refused"
                        ELSE IF setup' # {} THEN "setup" ELSE "cut"
             /\ foreign' = (foreign \/ "assign" \in setup')
    <3>1. LoaderTypes' /\ AllSound'
      BY <1>t, <2>1, <2>3 DEF LoaderTypes, AllSound, Sound
    <3>2. CASE account.executable
      BY <2>1, <2>3, <3>1, <3>2 DEF SetupSuffices, FitsFromCut, Ready
    <3>3. CASE ~ account.executable
      <4>1. setup' = Needed(account)
        BY <2>3, <3>3
      <4>2. \/ ~ account.exists /\ setup' = {"create"}
            \/ /\ account.exists
               /\ "allocate" \in setup' <=> account.size # length
               /\ "assign" \in setup' <=> account.owner # "loader"
               /\ "transfer" \in setup' <=> ~ account.exempt
        <5>1. CASE ~ account.exists
          BY <4>1, <5>1 DEF Needed
        <5>2. CASE account.exists
          BY <4>1, <5>2 DEF Needed
        <5> QED BY <5>1, <5>2
      <4>3. Suffices(setup, account)'
        BY <2>1, <3>3, <4>2 DEF Suffices
      <4>4. ASSUME setup' = {} PROVE Fits(account)'
        BY <2>1, <3>3, <4>2, <4>4 DEF Fits
      <4>5. load' = "cut" => setup' = {}
        BY <2>3, <3>3
      <4> QED BY <2>1, <3>1, <4>3, <4>4, <4>5 DEF SetupSuffices, FitsFromCut, Ready
    <3> QED BY <3>2, <3>3
  <2> QED BY <1>2, <2>2, <2>3 DEF GetProgramInfo
<1>3. CASE SendSetup
  <2>1. /\ load = "setup" /\ load' \in {"cut", "failed"}
        /\ UNCHANGED <<length, setup, foreign, flying, loads>>
    BY <1>3 DEF SendSetup
  <2>2. Suffices(setup, account) /\ Sound(setup)
    BY <1>t, <2>1 DEF SetupSuffices, AllSound
  <2>3. CASE account' = Prepared(account, setup) /\ UNCHANGED inFlight
    <3> DEFINE p == Prepared(account, setup)
    <3>1. Fits(p) /\ p \in ProgramAccounts
      BY <1>t, <2>2, SetupHelps, PreparedFields
    <3>2. \A s : Suffices(s, account) => Suffices(s, p)
      BY <2>2, <3>1 DEF Suffices, Fits
    <3> HIDE DEF p
    <3>3. account' = p
      BY <2>3 DEF p
    <3>4. LoaderTypes' /\ AllSound'
      BY <1>t, <2>1, <2>3, <3>1, <3>3 DEF LoaderTypes, AllSound, Sound
    <3>5. Fits(account)' /\ Suffices(setup, account)'
      BY <2>1, <2>2, <3>1, <3>2, <3>3 DEF Fits, Suffices
    <3> QED BY <3>4, <3>5 DEF SetupSuffices, FitsFromCut
  <2>4. CASE inFlight' = inFlight \cup {<<loads, setup>>} /\ UNCHANGED account
    <3>1. LoaderTypes' /\ AllSound'
      BY <1>t, <2>1, <2>2, <2>4 DEF LoaderTypes, AllSound, Sound
    <3>2. Pending' /\ Suffices(setup, account)'
      BY <2>1, <2>2, <2>4 DEF Pending, Suffices
    <3> QED BY <3>1, <3>2 DEF SetupSuffices, FitsFromCut
  <2>5. CASE load' = "failed" /\ UNCHANGED <<account, inFlight>>
    BY <1>t, <2>1, <2>5 DEF LoaderTypes, AllSound, Sound, SetupSuffices, FitsFromCut,
                            Ready
  <2> QED
    BY <1>3, <2>3, <2>4, <2>5 DEF SendSetup
<1>4. CASE Cut
  <2>1. /\ load = "cut" /\ UNCHANGED <<length, account, setup, inFlight, foreign, loads>>
        /\ load' \in {"panicked", "sending"}
        /\ flying' = flying \/ flying' = 1 .. (length \div ChunkSize)
    BY <1>4 DEF Cut
  <2> QED BY <1>t, <2>1 DEF LoaderTypes, AllSound, Sound, SetupSuffices, FitsFromCut,
                            Ready, Pending, Fits, Suffices
<1>5. CASE \E c \in flying : SendChunk(c)
  <2>1. /\ UNCHANGED <<load, length, account, setup, inFlight, foreign, loads>>
        /\ flying' \subseteq flying
    BY <1>5 DEF SendChunk
  <2> QED BY <1>t, <2>1 DEF LoaderTypes, AllSound, Sound, SetupSuffices, FitsFromCut,
                            Ready, Pending, Fits, Suffices
<1>6. CASE Finalize
  BY <1>6, <1>t DEF Finalize, LoaderTypes, SetupSuffices, AllSound, Sound, FitsFromCut,
                    Ready
<1>7. CASE LoadAgain
  BY <1>7, <1>t DEF LoadAgain, LoaderTypes, SetupSuffices, AllSound, Sound, FitsFromCut,
                    Ready
<1>8. CASE \E t \in inFlight : SetupLands(t)
  <2>1. PICK t \in inFlight : SetupLands(t)
    BY <1>8
  <2> DEFINE p == Prepared(account, t[2])
  <2>2. /\ Applies(account, t[2]) /\ account' = p /\ inFlight' = inFlight \ {t}
        /\ UNCHANGED <<load, length, setup, flying, foreign, loads>>
    BY <2>1 DEF SetupLands
  <2>3. Sound(t[2])
    BY <1>t DEF AllSound
  <2>4. /\ p \in ProgramAccounts
        /\ Fits(account) => Fits(p)
        /\ \A s : Suffices(s, account) => Suffices(s, p)
    BY <1>t, <2>2, <2>3, PreparedFields, LandingKeeps
  <2>5. ASSUME Ready, Pending, ~ Pending' PROVE Fits(p)
    <3>1. t = <<loads, setup>>
      BY <2>2, <2>5 DEF Pending
    <3>2. t[2] = setup
      BY <3>1
    <3>3. Suffices(setup, account) /\ Sound(setup)
      BY <1>t, <2>5 DEF SetupSuffices, AllSound
    <3> QED BY <1>t, <3>2, <3>3, SetupHelps
  <2> HIDE DEF p
  <2>6. LoaderTypes' /\ AllSound'
    BY <1>t, <2>2, <2>4 DEF LoaderTypes, AllSound, Sound
  <2>7. ASSUME Fits(p) PROVE Fits(account)'
    BY <2>2, <2>7 DEF Fits
  <2>8. ASSUME Suffices(setup, p) PROVE Suffices(setup, account)'
    BY <2>2, <2>8 DEF Suffices
  <2>9. Pending' => Pending
    BY <2>2 DEF Pending
  <2>10. FitsFromCut'
    BY <1>t, <2>2, <2>4, <2>5, <2>7 DEF FitsFromCut, Ready
  <2>11. SetupSuffices'
    BY <1>t, <2>2, <2>4, <2>8, <2>9 DEF SetupSuffices, Ready
  <2> QED BY <2>6, <2>10, <2>11
<1>9. CASE UNCHANGED loaderVars
  BY <1>9, <1>t DEF loaderVars, LoaderTypes, AllSound, Sound, SetupSuffices, FitsFromCut,
                    Ready, Pending, Fits, Suffices
<1> QED
  BY <1>1, <1>2, <1>3, <1>4, <1>5, <1>6, <1>7, <1>8, <1>9 DEF LoaderNext, Loading

(* LoaderInv is inductive.                                                 *)
THEOREM LoaderInvariance == LoaderSpec => []LoaderInv
  BY LoaderInitially, LoaderStep, PTL DEF LoaderSpec

LEMMA InvChunksFit == LoaderInv => ChunksFit
<1> SUFFICES ASSUME LoaderInv, flying # {}, <<loads, setup>> \notin inFlight
             PROVE  ChunksFit
  BY DEF ChunksFit
<1>1. load = "sending"
  BY DEF LoaderInv, Counted
<1>2. Fits(account)
  BY <1>1 DEF LoaderInv, FitsFromCut, Ready, Pending
<1>3. \A c \in flying : c * ChunkSize <= length
  BY ChunkEnds DEF LoaderInv, LoaderTypes
<1> QED
  BY <1>2, <1>3 DEF Fits, ChunksFit

(* Once the first transaction of a call has landed, or it needed none, Load*)
(* writes chunks only into an account that has room for them, is paid for  *)
(* and is the loader's, for every program, every number of calls and       *)
(* whatever of the calls before lands late.                                *)
THEOREM ChunksAlwaysFit == LoaderSpec => []ChunksFit
  BY InvChunksFit, LoaderInvariance, PTL
-----------------------------------------------------------------------------
(* EpochSchedule: the ways of counting agree, for every schedule that has  *)
(* its short epochs where a cluster has them, and every slot.              *)

(* The epoch of 32 * 2^e slots is the one between these powers.            *)
LEMMA PowersOfEpoch ==
  ASSUME NEW e \in Nat
  PROVE  /\ 2^e \in Nat /\ 1 <= 2^e
         /\ 2^(e + 5) = 32 * 2^e /\ 2^(e + 6) = 64 * 2^e
         /\ 2^(e + 1) = 2 * 2^e
<1>1. 2^e \in Nat /\ 2^(e + 1) = 2 * 2^e
  BY PowerDoubles
<1>2. 2^(e + 2) = 4 * 2^e
  <2>1. e + 1 \in Nat /\ (e + 1) + 1 = e + 2
    OBVIOUS
  <2>2. 2^((e + 1) + 1) = 2 * 2^(e + 1)
    BY <2>1, PowerDoubles
  <2> QED BY <1>1, <2>1, <2>2
<1>3. 2^(e + 3) = 8 * 2^e
  <2>1. e + 2 \in Nat /\ (e + 2) + 1 = e + 3
    OBVIOUS
  <2>2. 2^((e + 2) + 1) = 2 * 2^(e + 2)
    BY <2>1, PowerDoubles
  <2> QED BY <1>1, <1>2, <2>1, <2>2
<1>4. 2^(e + 4) = 16 * 2^e
  <2>1. e + 3 \in Nat /\ (e + 3) + 1 = e + 4
    OBVIOUS
  <2>2. 2^((e + 3) + 1) = 2 * 2^(e + 3)
    BY <2>1, PowerDoubles
  <2> QED BY <1>1, <1>3, <2>1, <2>2
<1>5. 2^(e + 5) = 32 * 2^e
  <2>1. e + 4 \in Nat /\ (e + 4) + 1 = e + 5
    OBVIOUS
  <2>2. 2^((e + 4) + 1) = 2 * 2^(e + 4)
    BY <2>1, PowerDoubles
  <2> QED BY <1>1, <1>4, <2>1, <2>2
<1>6. 2^(e + 6) = 64 * 2^e
  <2>1. e + 5 \in Nat /\ (e + 5) + 1 = e + 6
    OBVIOUS
  <2>2. 2^((e + 5) + 1) = 2 * 2^(e + 5)
    BY <2>1, PowerDoubles
  <2> QED BY <1>1, <1>5, <2>1, <2>2
<1>7. 1 <= 2^e
  BY PowersAscend
<1> QED BY <1>1, <1>5, <1>6, <1>7

(* trailingZeros undoes a power.                                           *)
LEMMA ZerosOfPower ==
  ASSUME NEW k \in 0 .. WordBits
  PROVE  trailingZeros(2^k) = k
<1> USE DEF WordBits
<1>1. 2^k <= 2^k /\ 2^k < 2^(k + 1)
  <2>1. 2^k \in Nat /\ 1 <= 2^k /\ 2^(k + 1) = 2 * 2^k
    BY PowersAscend, PowerDoubles
  <2> QED BY <2>1
<1>2. ASSUME NEW j \in 0 .. WordBits, 2^j <= 2^k, 2^k < 2^(j + 1)
      PROVE  j = k
  <2>1. /\ 2^j \in Nat /\ 2^k \in Nat /\ 2^(j + 1) \in Nat /\ 2^(k + 1) \in Nat
        /\ 2^(k + 1) = 2 * 2^k /\ 1 <= 2^k
    BY PowersAscend, PowerDoubles
  <2>2. CASE j < k
    <3>1. 2^(j + 1) <= 2^k
      BY <2>2, PowersAscend
    <3> QED BY <1>2, <2>1, <3>1
  <2>3. CASE k < j
    <3>1. 2^(k + 1) <= 2^j
      BY <2>3, PowersAscend
    <3> QED BY <1>2, <2>1, <3>1
  <2> QED BY <2>2, <2>3
<1>3. trailingZeros(2^k) = CHOOSE j \in 0 .. WordBits : 2^j <= 2^k /\ 2^k < 2^(j + 1)
  BY DEF trailingZeros
<1> QED BY <1>1, <1>2, <1>3, Zenon

(* nextPowerOfTwo is the power that n is just not above.                   *)
LEMMA NextPower ==
  ASSUME NEW k \in 1 .. WordBits, NEW n \in Nat, 2^(k - 1) < n, n <= 2^k
  PROVE  nextPowerOfTwo(n) = 2^k
<1> USE DEF WordBits
<1>1. ASSUME NEW j \in 0 .. WordBits, n <= 2^j, j = 0 \/ 2^(j - 1) < n
      PROVE  j = k
  <2>1. 2^k \in Nat /\ 2^(k - 1) \in Nat /\ 2^j \in Nat
    BY PowerDoubles
  <2>2. CASE j < k
    <3>1. 2^j <= 2^(k - 1)
      BY <2>2, PowersAscend
    <3> QED BY <1>1, <2>1, <3>1
  <2>3. CASE k < j
    <3>1. 2^k <= 2^(j - 1) /\ j # 0 /\ 2^(j - 1) \in Nat
      BY <2>3, PowersAscend, PowerDoubles
    <3> QED BY <1>1, <2>1, <3>1
  <2> QED BY <2>2, <2>3
<1>2. k \in 0 .. WordBits /\ n <= 2^k /\ (k = 0 \/ 2^(k - 1) < n)
  OBVIOUS
<1>3. (CHOOSE j \in 0 .. WordBits : n <= 2^j /\ (j = 0 \/ 2^(j - 1) < n)) = k
  BY <1>1, <1>2, Zenon
<1> QED BY <1>3, Zenon DEF nextPowerOfTwo

(* A slot of a short epoch is in the epoch between its powers.             *)
LEMMA WarmupIsBetween ==
  ASSUME NEW s \in Nat, NEW e \in Nat, e + 6 <= WordBits,
         2^(e + 5) <= s + 32, s + 32 < 2^(e + 6)
  PROVE  WarmupEpoch(s) = e
<1> USE DEF WordBits
<1>1. e + 6 \in 1 .. WordBits /\ (e + 6) - 1 = e + 5 /\ s + 32 + 1 \in Nat
  OBVIOUS
<1>2. 2^(e + 5) \in Nat /\ 2^(e + 6) \in Nat
  BY PowerDoubles
<1>3. 2^((e + 6) - 1) < s + 32 + 1 /\ s + 32 + 1 <= 2^(e + 6)
  BY <1>1, <1>2
<1>4. nextPowerOfTwo(s + 32 + 1) = 2^(e + 6)
  BY <1>1, <1>3, NextPower
<1>5. trailingZeros(2^(e + 6)) = e + 6
  <2>1. e + 6 \in 0 .. WordBits
    BY <1>1
  <2> HIDE DEF WordBits
  <2> QED BY <2>1, ZerosOfPower
<1>6. trailingZeros(MINIMUM_SLOT_PER_EPOCH) = 5
  <2>1. 2^(0 + 5) = 32 * 2^0
    BY PowersOfEpoch
  <2>2. 2^5 = 32
    BY <2>1, PowerOfNought
  <2>3. 5 \in 0 .. WordBits
    OBVIOUS
  <2> QED BY <2>2, <2>3, ZerosOfPower DEF MINIMUM_SLOT_PER_EPOCH
<1>7. WarmupEpoch(s) = (e + 6) - 5 - 1
  BY <1>4, <1>5, <1>6 DEF WarmupEpoch, MINIMUM_SLOT_PER_EPOCH
<1> QED BY <1>7

LEMMA ShortSlots ==
  ASSUME NEW es, IsSchedule(es), NEW e \in Nat, e < es.FirstNormalEpoch
  PROVE  GetSlotsInEpoch(es, e) = 32 * 2^e
<1>1. trailingZeros(MINIMUM_SLOT_PER_EPOCH) = 5
  <2>1. 2^(0 + 5) = 32 * 2^0
    BY PowersOfEpoch
  <2>2. 2^5 = 32
    BY <2>1, PowerOfNought
  <2>3. 5 \in 0 .. WordBits
    BY DEF WordBits
  <2> QED BY <2>2, <2>3, ZerosOfPower DEF MINIMUM_SLOT_PER_EPOCH
<1>2. GetSlotsInEpoch(es, e) = 2^(e + 5)
  BY <1>1 DEF GetSlotsInEpoch
<1> QED BY <1>2, PowersOfEpoch

(* Where a slot of the short epochs is.                                    *)
LEMMA ShortPlace ==
  ASSUME NEW es, IsSchedule(es), NEW s \in Nat, NEW e \in Nat, e < es.FirstNormalEpoch,
         32 * 2^e <= s + 32, s + 32 < 64 * 2^e
  PROVE  GetEpochAndSlotIndex(es, s) = [epoch |-> e, index |-> s + 32 - 32 * 2^e]
<1>1. e + 6 <= WordBits /\ es.FirstNormalEpoch \in Nat
  BY DEF IsSchedule, WordBits
<1>2. 2^e \in Nat /\ 2^(e + 5) = 32 * 2^e /\ 2^(e + 6) = 64 * 2^e /\ 2^(e + 1) = 2 * 2^e
  BY PowersOfEpoch
<1>3. WarmupEpoch(s) = e
  BY <1>1, <1>2, WarmupIsBetween
<1>4. s < es.FirstNormalSlot
  <2>1. 2^(e + 1) <= 2^es.FirstNormalEpoch
    BY <1>1, PowersAscend
  <2>2. 2^es.FirstNormalEpoch \in Nat
    BY <1>1, PowerDoubles
  <2> DEFINE p == 2^es.FirstNormalEpoch
             q == 2^e
  <2>3. p \in Nat /\ q \in Nat /\ 2 * q <= p /\ es.FirstNormalSlot = (p - 1) * 32
        /\ s + 32 < 64 * q
    BY <1>2, <2>1, <2>2 DEF IsSchedule, MINIMUM_SLOT_PER_EPOCH
  <2> HIDE DEF p, q
  <2> QED BY <2>3
<1>5. GetSlotsInEpoch(es, e) = 32 * 2^e
  BY ShortSlots
<1>6. GetEpochAndSlotIndex(es, s) =
        [epoch |-> e, index |-> s - (32 * 2^e - MINIMUM_SLOT_PER_EPOCH)]
  BY <1>3, <1>4, <1>5 DEF GetEpochAndSlotIndex
<1>7. s - (32 * 2^e - MINIMUM_SLOT_PER_EPOCH) = s + 32 - 32 * 2^e
  BY <1>2 DEF MINIMUM_SLOT_PER_EPOCH
<1> QED BY <1>6, <1>7

LEMMA ShortEpochExists ==
  ASSUME NEW es, IsSchedule(es), NEW s \in Nat, s < es.FirstNormalSlot
  PROVE  \E e \in Nat : /\ e < es.FirstNormalEpoch
                        /\ 32 * 2^e <= s + 32 /\ s + 32 < 64 * 2^e
<1> DEFINE F == es.FirstNormalEpoch
           n == s + 32 + 1
<1>1. F \in Nat /\ 2^F \in Nat /\ 2^(F + 5) = 32 * 2^F
  <2>1. F \in Nat
    BY DEF IsSchedule, WordBits
  <2> QED BY <2>1, PowersOfEpoch
<1>2. n \in Nat /\ 1 <= n /\ n <= 2^(F + 5)
  BY <1>1 DEF IsSchedule, MINIMUM_SLOT_PER_EPOCH
<1> HIDE DEF n, F
<1>3. PICK k \in 0 .. F + 5 : n <= 2^k /\ (k = 0 \/ 2^(k - 1) < n)
  <2>1. F + 5 \in Nat
    BY <1>1
  <2> QED BY <1>2, <2>1, PowerAbove
<1>4. 2^5 = 32
  <2>1. 2^(0 + 5) = 32 * 2^0
    BY PowersOfEpoch
  <2> QED BY <2>1, PowerOfNought
<1>5. k >= 6
  <2> SUFFICES ASSUME k <= 5 PROVE FALSE
    BY <1>1
  <2>1. k \in Nat
    BY <1>1
  <2>2. 2^k <= 2^5 /\ 2^k \in Nat
    BY <2>1, PowersAscend, PowerDoubles
  <2> QED BY <1>2, <1>3, <1>4, <2>2 DEF n
<1> DEFINE e == k - 6
<1>6. e \in Nat /\ e < F /\ e + 6 = k /\ e + 5 = k - 1
  BY <1>1, <1>5
<1>7. 2^e \in Nat /\ 2^(e + 5) = 32 * 2^e /\ 2^(e + 6) = 64 * 2^e
  BY <1>6, PowersOfEpoch
<1> HIDE DEF e
<1>8. 32 * 2^e < n /\ n <= 64 * 2^e
  BY <1>3, <1>5, <1>6, <1>7
<1>9. 32 * 2^e <= s + 32 /\ s + 32 < 64 * 2^e
  BY <1>7, <1>8 DEF n
<1> QED BY <1>6, <1>9 DEF F

-----------------------------------------------------------------------------
(* Counting on in a normal epoch.                                          *)
LEMMA DivideNext ==
  ASSUME NEW d \in Nat, NEW p \in Nat \ {0}
  PROVE  /\ d \div p \in Nat /\ d % p \in 0 .. p - 1 /\ d = p * (d \div p) + (d % p)
         /\ (d % p) + 1 < p => (d + 1) \div p = d \div p /\ (d + 1) % p = (d % p) + 1
         /\ (d % p) + 1 = p => (d + 1) \div p = d \div p + 1 /\ (d + 1) % p = 0
<1>1. /\ d \div p \in Nat /\ d % p \in 0 .. p - 1 /\ d = p * (d \div p) + (d % p)
      /\ (d + 1) \div p \in Nat /\ (d + 1) % p \in 0 .. p - 1
      /\ d + 1 = p * ((d + 1) \div p) + ((d + 1) % p)
  BY Z3
<1> DEFINE q == d \div p
           r == d % p
           t == (d + 1) \div p
           u == (d + 1) % p
<1> HIDE DEF q, r, t, u
<1>2. /\ q \in Nat /\ r \in 0 .. p - 1 /\ d = p * q + r
      /\ t \in Nat /\ u \in 0 .. p - 1 /\ d + 1 = p * t + u
  BY <1>1 DEF q, r, t, u
<1>3. p * (t - q) = p * t - p * q
  BY <1>2
<1>4. p * (t - q) = r + 1 - u
  <2>1. p * t \in Int /\ p * q \in Int
    BY <1>2
  <2> QED BY <1>2, <1>3, <2>1
<1>5. t - q = 0 \/ t - q = 1
  <2>1. CASE t - q >= 2
    <3>1. p * (t - q) >= p * 2
      BY <1>2, <2>1
    <3> QED BY <1>2, <1>4, <3>1
  <2>2. CASE t - q <= -1
    <3>1. p * (q - t) >= p
      BY <1>2, <2>2
    <3>2. p * (q - t) = 0 - p * (t - q)
      BY <1>2
    <3> QED BY <1>2, <1>4, <3>1, <3>2
  <2> QED BY <1>2, <2>1, <2>2
<1>6. t = q => u = r + 1
  BY <1>2, <1>4
<1>7. t = q + 1 => r + 1 - u = p
  <2> SUFFICES ASSUME t = q + 1 PROVE r + 1 - u = p
    OBVIOUS
  <2>1. t - q = 1
    BY <1>2
  <2>2. p * 1 = p
    OBVIOUS
  <2> QED BY <1>4, <2>1, <2>2
<1>8. ASSUME r + 1 < p PROVE t = q /\ u = r + 1
  <2>1. t # q + 1
    BY <1>2, <1>7, <1>8
  <2> QED BY <1>2, <1>5, <1>6, <2>1
<1>9. ASSUME r + 1 = p PROVE t = q + 1 /\ u = 0
  <2>1. t # q
    BY <1>2, <1>6, <1>9
  <2>2. t = q + 1
    BY <1>2, <1>5, <2>1
  <2> QED BY <1>2, <1>7, <1>9, <2>2
<1> QED BY <1>1, <1>8, <1>9 DEF q, r, t, u

(* The last slot of an epoch, and the first of the next.                   *)
LEMMA ShortEpochEnds ==
  ASSUME NEW es, IsSchedule(es), NEW e \in Nat, e < es.FirstNormalEpoch
  PROVE  /\ GetLastSlotInEpoch(es, e) = 64 * 2^e - 33
         /\ GetFirstSlotInEpoch(es, e + 1) = 64 * 2^e - 32
<1>1. es.FirstNormalEpoch \in Nat /\ e <= es.FirstNormalEpoch /\ e + 1 <= es.FirstNormalEpoch
  BY DEF IsSchedule, WordBits
<1>2. 2^e \in Nat /\ 2^(e + 1) = 2 * 2^e
  BY PowersOfEpoch
<1>3. /\ GetFirstSlotInEpoch(es, e) = (2^e - 1) * 32
      /\ GetFirstSlotInEpoch(es, e + 1) = (2^(e + 1) - 1) * 32
  BY <1>1 DEF GetFirstSlotInEpoch, MINIMUM_SLOT_PER_EPOCH
<1>4. GetSlotsInEpoch(es, e) = 32 * 2^e
  BY ShortSlots
<1>5. (2^e - 1) * 32 + 32 * 2^e - 1 = 64 * 2^e - 33 /\ (2 * 2^e - 1) * 32 = 64 * 2^e - 32
  BY <1>2
<1> QED BY <1>2, <1>3, <1>4, <1>5 DEF GetLastSlotInEpoch

LEMMA NormalEpochEnds ==
  ASSUME NEW es, IsSchedule(es), NEW q \in Nat
  PROVE  /\ GetFirstSlotInEpoch(es, es.FirstNormalEpoch + q)
              = es.FirstNormalSlot + es.SlotsPerEpoch * q
         /\ GetLastSlotInEpoch(es, es.FirstNormalEpoch + q)
              = es.FirstNormalSlot + es.SlotsPerEpoch * q + es.SlotsPerEpoch - 1
<1> DEFINE F == es.FirstNormalEpoch
           p == es.SlotsPerEpoch
           first == es.FirstNormalSlot
<1>1. F \in Nat /\ p \in Nat /\ first = (2^F - 1) * 32 /\ 2^F \in Nat
  BY PowersOfEpoch DEF IsSchedule, WordBits, MINIMUM_SLOT_PER_EPOCH
<1>2. GetFirstSlotInEpoch(es, F + q) = first + p * q
  <2>1. CASE q = 0
    <3>1. F + q = F /\ p * q = 0 /\ first + 0 = first
      BY <1>1, <2>1
    <3>2. GetFirstSlotInEpoch(es, F) = (2^F - 1) * 32
      BY <1>1 DEF GetFirstSlotInEpoch, MINIMUM_SLOT_PER_EPOCH
    <3> QED BY <1>1, <3>1, <3>2
  <2>2. CASE q # 0
    <3>1. ~ (F + q <= F) /\ (F + q) - F = q
      BY <1>1, <2>2
    <3>2. GetFirstSlotInEpoch(es, F + q) = q * p + first
      BY <3>1 DEF GetFirstSlotInEpoch
    <3>3. q * p = p * q /\ p * q \in Nat /\ first \in Int
      BY <1>1
    <3> HIDE DEF p, first
    <3> QED BY <3>2, <3>3
  <2> QED BY <2>1, <2>2
<1>3. GetSlotsInEpoch(es, F + q) = p
  BY <1>1 DEF GetSlotsInEpoch
<1> QED BY <1>2, <1>3 DEF GetLastSlotInEpoch

(* One slot further, in a short epoch and in a normal one.                 *)
LEMMA ShortFollows ==
  ASSUME schedule \in Schedules, slot \in Nat, slot' = slot + 1, schedule' = schedule,
         slot < schedule.FirstNormalSlot
  PROVE  Follows
<1> DEFINE es == schedule
           F == es.FirstNormalEpoch
<1>1. IsSchedule(es)
  BY SchedulesAssumption
<1>2. PICK e \in Nat : e < F /\ 32 * 2^e <= slot + 32 /\ slot + 32 < 64 * 2^e
  BY <1>1, ShortEpochExists
<1>3. 2^e \in Nat /\ 1 <= 2^e /\ 2^(e + 1) = 2 * 2^e /\ F \in Nat /\ slot' \in Nat
  BY <1>1, PowersOfEpoch DEF IsSchedule, WordBits
<1>4. GetEpochAndSlotIndex(es, slot) = [epoch |-> e, index |-> slot + 32 - 32 * 2^e]
  BY <1>1, <1>2, ShortPlace
<1>5. CASE slot' + 32 < 64 * 2^e
  <2>1. 32 * 2^e <= slot' + 32
    BY <1>2, <1>3
  <2>2. GetEpochAndSlotIndex(es, slot') = [epoch |-> e, index |-> slot' + 32 - 32 * 2^e]
    BY <1>1, <1>2, <1>3, <1>5, <2>1, ShortPlace
  <2>3. slot' + 32 - 32 * 2^e = (slot + 32 - 32 * 2^e) + 1
    BY <1>3
  <2>4. GetEpochAndSlotIndex(es, slot') =
          [epoch |-> e, index |-> (slot + 32 - 32 * 2^e) + 1]
    BY <2>2, <2>3
  <2> QED BY <1>4, <2>4 DEF Follows
<1>6. CASE ~ (slot' + 32 < 64 * 2^e)
  <2>1. slot' + 32 = 64 * 2^e /\ slot = 64 * 2^e - 33 /\ slot' = 64 * 2^e - 32
    BY <1>2, <1>3, <1>6
  <2>2. slot = GetLastSlotInEpoch(es, e) /\ slot' = GetFirstSlotInEpoch(es, e + 1)
    BY <1>1, <1>2, <2>1, ShortEpochEnds
  <2>3. GetEpochAndSlotIndex(es, slot') = [epoch |-> e + 1, index |-> 0]
    <3>1. CASE e + 1 < F
      <4>1. 32 * 2^(e + 1) <= slot' + 32 /\ slot' + 32 < 64 * 2^(e + 1) /\ e + 1 \in Nat
        BY <1>3, <2>1
      <4>2. GetEpochAndSlotIndex(es, slot') =
              [epoch |-> e + 1, index |-> slot' + 32 - 32 * 2^(e + 1)]
        BY <1>1, <1>3, <3>1, <4>1, ShortPlace
      <4>3. slot' + 32 - 32 * 2^(e + 1) = 0
        BY <1>3, <2>1
      <4> QED BY <4>2, <4>3
    <3>2. CASE ~ (e + 1 < F)
      <4>1. e + 1 = F
        BY <1>2, <1>3, <3>2
      <4>2. es.FirstNormalSlot = (2 * 2^e - 1) * 32
        BY <1>1, <1>3, <4>1 DEF IsSchedule, MINIMUM_SLOT_PER_EPOCH
      <4>3. slot' = es.FirstNormalSlot /\ slot' - es.FirstNormalSlot = 0
            /\ ~ (slot' < es.FirstNormalSlot)
        BY <1>3, <2>1, <4>2
      <4>4. es.SlotsPerEpoch \in Nat \ {0}
        BY <1>1 DEF IsSchedule
      <4>5. 0 \div es.SlotsPerEpoch = 0 /\ 0 % es.SlotsPerEpoch = 0
        <5> DEFINE p == es.SlotsPerEpoch
        <5>1. p \in Nat \ {0}
          BY <4>4
        <5> HIDE DEF p
        <5>2. 0 \div p = 0 /\ 0 % p = 0
          BY <5>1, Z3
        <5> QED BY <5>2 DEF p
      <4>6. GetEpochAndSlotIndex(es, slot') = [epoch |-> F + 0, index |-> 0]
        BY <4>3, <4>5 DEF GetEpochAndSlotIndex
      <4> QED BY <1>3, <4>1, <4>6
    <3> QED BY <3>1, <3>2
  <2> QED BY <1>4, <2>2, <2>3 DEF Follows
<1> QED BY <1>5, <1>6

LEMMA NormalFollows ==
  ASSUME schedule \in Schedules, slot \in Nat, slot' = slot + 1, schedule' = schedule,
         ~ (slot < schedule.FirstNormalSlot)
  PROVE  Follows
<1> DEFINE es == schedule
           F == es.FirstNormalEpoch
           first == es.FirstNormalSlot
           p == es.SlotsPerEpoch
           d == slot - first
           q == d \div p
           r == d % p
<1>1. IsSchedule(es)
  BY SchedulesAssumption
<1>2. F \in Nat /\ first \in Nat /\ p \in Nat \ {0} /\ d \in Nat /\ slot' - first = d + 1
      /\ ~ (slot' < first) /\ slot = first + d
  <2>1. F \in Nat /\ p \in Nat \ {0} /\ first = (2^F - 1) * 32 /\ 2^F \in Nat /\ 1 <= 2^F
    BY <1>1, PowersOfEpoch DEF IsSchedule, WordBits, MINIMUM_SLOT_PER_EPOCH
  <2>2. first \in Nat
    BY <2>1
  <2> QED BY <2>1, <2>2
<1>3. /\ GetEpochAndSlotIndex(es, slot) = [epoch |-> F + q, index |-> r]
      /\ GetEpochAndSlotIndex(es, slot') =
           [epoch |-> F + ((d + 1) \div p), index |-> (d + 1) % p]
  BY <1>2 DEF GetEpochAndSlotIndex
<1> HIDE DEF d, p
<1>4. /\ q \in Nat /\ r \in 0 .. p - 1 /\ d = p * q + r
      /\ r + 1 < p => (d + 1) \div p = q /\ (d + 1) % p = r + 1
      /\ r + 1 = p => (d + 1) \div p = q + 1 /\ (d + 1) % p = 0
  BY <1>2, DivideNext
<1> HIDE DEF q, r
<1>5. CASE r + 1 < p
  BY <1>3, <1>4, <1>5 DEF Follows
<1>6. CASE ~ (r + 1 < p)
  <2>1. r + 1 = p
    BY <1>2, <1>4, <1>6
  <2>2. /\ GetFirstSlotInEpoch(es, F + (q + 1)) = first + p * (q + 1)
        /\ GetLastSlotInEpoch(es, F + q) = first + p * q + p - 1
    BY <1>1, <1>4, NormalEpochEnds DEF p
  <2>3. p * (q + 1) = p * q + p /\ F + (q + 1) = (F + q) + 1 /\ p * q \in Nat
    <3>1. p \in Nat /\ q \in Nat /\ F \in Nat
      BY <1>2, <1>4
    <3> HIDE DEF F
    <3>2. p * (q + 1) = p * q + p /\ p * q \in Nat
      BY <3>1
    <3> QED BY <3>1, <3>2
  <2>4. slot = first + p * q + p - 1 /\ slot' = first + p * (q + 1)
    BY <1>2, <1>4, <2>1, <2>3
  <2>5. GetEpochAndSlotIndex(es, slot') = [epoch |-> (F + q) + 1, index |-> 0]
    BY <1>3, <1>4, <2>1, <2>3
  <2>6. slot = GetLastSlotInEpoch(es, F + q) /\ slot' = GetFirstSlotInEpoch(es, (F + q) + 1)
    BY <2>2, <2>3, <2>4
  <2> QED BY <1>3, <2>5, <2>6 DEF Follows
<1> QED BY <1>5, <1>6

SlotIsCounted == schedule \in Schedules /\ slot \in Nat

(* The two ways of counting agree on every slot of every schedule, also    *)
(* where short epochs end and normal ones begin (GetEpochAndSlotIndex,     *)
(* GetFirstSlotInEpoch, GetLastSlotInEpoch).                               *)
THEOREM EpochsAlwaysFollow == EpochSpec => EpochsFollow
<1>1. EpochInit => SlotIsCounted
  BY DEF EpochInit, SlotIsCounted
<1>2. SlotIsCounted /\ [NextSlot]_epochVars => SlotIsCounted'
  BY DEF SlotIsCounted, NextSlot, epochVars
<1>3. SlotIsCounted /\ [NextSlot]_epochVars => [Follows]_epochVars
  <2> SUFFICES ASSUME SlotIsCounted, NextSlot PROVE Follows
    OBVIOUS
  <2>1. schedule \in Schedules /\ slot \in Nat /\ slot' = slot + 1 /\ schedule' = schedule
    BY DEF SlotIsCounted, NextSlot
  <2> QED BY <2>1, ShortFollows, NormalFollows
<1> QED BY <1>1, <1>2, <1>3, PTL DEF EpochSpec, EpochsFollow
-----------------------------------------------------------------------------
(* MintAccount: what was created can be read, for every list of extensions *)
(* and every size of metadata.                                             *)

(* A list of extensions with their sizes.                                  *)
Measured(entries) ==
  /\ Len(entries) \in Nat /\ DOMAIN entries = 1 .. Len(entries)
  /\ \A n \in DOMAIN entries : entries[n].length \in Nat

(* Each entry ends behind the one before it, by what its header and its    *)
(* data take.                                                              *)
LEMMA EndsOfEntries ==
  ASSUME NEW entries, Measured(entries)
  PROVE  /\ TlvEnds(entries)[0] = 0
         /\ \A n \in 1 .. Len(entries) :
              TlvEnds(entries)[n] =
                TlvEnds(entries)[n - 1] + AddTypeAndLengthToLen(entries[n].length)
         /\ \A n \in 0 .. Len(entries) : TlvEnds(entries)[n] \in Nat
<1> DEFINE N == Len(entries)
           g == [n \in 1 .. N |-> AddTypeAndLengthToLen(entries[n].length)]
           e == TlvEnds(entries)
<1>1. PICK f : f = [n \in 0 .. N |-> IF n = 0 THEN 0 ELSE f[n - 1] + g[n]]
  <2>1. N \in Nat
    BY DEF Measured
  <2> QED BY <2>1, SumsExist
<1>2. f = [n \in 0 .. N |-> IF n = 0 THEN 0
                            ELSE f[n - 1] + AddTypeAndLengthToLen(entries[n].length)]
  <2>1. \A n \in 0 .. N : n = 0 \/ g[n] = AddTypeAndLengthToLen(entries[n].length)
    BY DEF Measured
  <2> HIDE DEF g
  <2> QED BY <1>1, <2>1
<1>3. e = [n \in 0 .. N |-> IF n = 0 THEN 0
                            ELSE e[n - 1] + AddTypeAndLengthToLen(entries[n].length)]
  BY <1>2 DEF TlvEnds
<1> HIDE DEF e
<1>4. N \in Nat
  BY DEF Measured
<1>5. /\ e[0] = 0
      /\ \A n \in 1 .. N : e[n] = e[n - 1] + AddTypeAndLengthToLen(entries[n].length)
  BY <1>3, <1>4
<1> DEFINE T == {k \in Nat : k <= N => e[k] \in Nat}
<1>6. 0 \in T
  BY <1>5
<1>7. ASSUME NEW k \in Nat, k \in T PROVE k + 1 \in T
  <2>1. CASE k + 1 <= N
    <3>1. e[k] \in Nat /\ k + 1 \in 1 .. N
      BY <1>4, <1>7, <2>1
    <3>2. e[k + 1] = e[k] + AddTypeAndLengthToLen(entries[k + 1].length)
      <4>1. (k + 1) - 1 = k
        OBVIOUS
      <4> QED BY <1>5, <3>1, <4>1
    <3>3. entries[k + 1].length \in Nat
      BY <3>1 DEF Measured
    <3> QED BY SMTT(30), <3>1, <3>2, <3>3 DEF AddTypeAndLengthToLen, TYPE_SIZE, LENGTH_SIZE
  <2>2. CASE ~ (k + 1 <= N)
    BY <2>2
  <2> QED BY <2>1, <2>2
<1> HIDE DEF T
<1>8. Nat \subseteq T
  BY <1>6, <1>7, SetInduction
<1>9. \A n \in 0 .. N : e[n] \in Nat
  BY <1>4, <1>8 DEF T
<1> QED BY <1>5, <1>9 DEF e

(* What comes later ends later.                                            *)
LEMMA EndsAscend ==
  ASSUME NEW entries, Measured(entries)
  PROVE  \A m, n \in 0 .. Len(entries) :
           m <= n => TlvEnds(entries)[m] <= TlvEnds(entries)[n]
<1> DEFINE N == Len(entries)
           e == TlvEnds(entries)
           T == {k \in Nat : \A m \in 0 .. N : m <= k /\ k <= N => e[m] <= e[k]}
<1>1. /\ N \in Nat /\ \A n \in 0 .. N : e[n] \in Nat
      /\ \A n \in 1 .. N : e[n - 1] <= e[n]
  <2>1. /\ N \in Nat /\ \A n \in 1 .. N : entries[n].length \in Nat
    BY DEF Measured
  <2>2. /\ \A n \in 0 .. N : e[n] \in Nat
        /\ \A n \in 1 .. N : e[n] = e[n - 1] + AddTypeAndLengthToLen(entries[n].length)
    BY EndsOfEntries
  <2> HIDE DEF e, N
  <2>3. ASSUME NEW n \in 1 .. N PROVE e[n - 1] <= e[n]
    <3>1. n - 1 \in 0 .. N
      BY <2>1
    <3>2. e[n - 1] \in Nat /\ entries[n].length \in Nat
      BY <2>1, <2>2, <3>1
    <3>3. e[n] = e[n - 1] + AddTypeAndLengthToLen(entries[n].length)
      BY <2>2
    <3> QED BY <3>2, <3>3 DEF AddTypeAndLengthToLen, TYPE_SIZE, LENGTH_SIZE
  <2> QED BY <2>1, <2>2, <2>3
<1> HIDE DEF e, N
<1>2. 0 \in T
  BY <1>1
<1>3. ASSUME NEW k \in Nat, k \in T PROVE k + 1 \in T
  <2> SUFFICES ASSUME NEW m \in 0 .. N, m <= k + 1, k + 1 <= N PROVE e[m] <= e[k + 1]
    OBVIOUS
  <2>1. k + 1 \in 1 .. N /\ (k + 1) - 1 = k
    BY <1>1
  <2>2. e[k] <= e[k + 1]
    BY <1>1, <2>1
  <2>3. CASE m = k + 1
    <3>1. e[k + 1] \in Nat
      BY <1>1, <2>1
    <3> QED BY <2>3, <3>1
  <2>4. CASE m <= k
    <3>1. e[m] <= e[k]
      BY <1>3, <2>1, <2>4, <1>1
    <3>2. e[m] \in Nat /\ e[k] \in Nat /\ e[k + 1] \in Nat
      BY <1>1, <2>1
    <3> QED BY <2>2, <3>1, <3>2
  <2> QED BY <1>1, <2>3, <2>4
<1> HIDE DEF T
<1>4. Nat \subseteq T
  BY <1>2, <1>3, SetInduction
<1>5. \A k \in Nat : \A m \in 0 .. N : m <= k /\ k <= N => e[m] <= e[k]
  BY <1>4 DEF T
<1>6. \A m, n \in 0 .. N : m <= n => e[m] <= e[n]
  BY <1>1, <1>5
<1> QED BY <1>6 DEF e, N

(* One entry more.                                                         *)
LEMMA LengthOfMore ==
  ASSUME NEW entries, Measured(entries), NEW x, x.length \in Nat,
         NEW V, entries \in Seq(V), x \in V
  PROVE  /\ Measured(Append(entries, x))
         /\ TlvLen(Append(entries, x)) = TlvLen(entries) + AddTypeAndLengthToLen(x.length)
<1> DEFINE N == Len(entries)
           more == Append(entries, x)
           e == TlvEnds(entries)
           d == TlvEnds(more)
<1>1. /\ N \in Nat /\ Len(more) = N + 1 /\ DOMAIN more = 1 .. N + 1 /\ DOMAIN entries = 1 .. N
      /\ \A n \in 1 .. N : more[n] = entries[n]
      /\ more[N + 1] = x
  OBVIOUS
<1>2. Measured(more)
  <2> HIDE DEF more
  <2>1. ASSUME NEW n \in DOMAIN more PROVE more[n].length \in Nat
    <3>1. CASE n \in 1 .. N
      BY <1>1, <3>1 DEF Measured
    <3>2. CASE n = N + 1
      BY <1>1, <3>2
    <3> QED BY <1>1, <3>1, <3>2
  <2> QED BY <1>1, <2>1 DEF Measured
<1>3. /\ e[0] = 0
      /\ \A n \in 1 .. N : e[n] = e[n - 1] + AddTypeAndLengthToLen(entries[n].length)
  BY EndsOfEntries
<1>4. /\ d[0] = 0
      /\ \A n \in 1 .. Len(more) : d[n] = d[n - 1] + AddTypeAndLengthToLen(more[n].length)
  <2> HIDE DEF more
  <2> QED BY <1>2, EndsOfEntries
<1> HIDE DEF more, d, e
<1> DEFINE T == {k \in Nat : k <= N => d[k] = e[k]}
<1>5. 0 \in T
  BY <1>3, <1>4
<1>6. ASSUME NEW k \in Nat, k \in T PROVE k + 1 \in T
  <2> SUFFICES ASSUME k + 1 <= N PROVE d[k + 1] = e[k + 1]
    OBVIOUS
  <2>1. k + 1 \in 1 .. N /\ (k + 1) - 1 = k /\ d[k] = e[k] /\ k + 1 \in 1 .. Len(more)
    BY <1>1, <1>6
  <2>2. /\ d[k + 1] = d[k] + AddTypeAndLengthToLen(more[k + 1].length)
        /\ e[k + 1] = e[k] + AddTypeAndLengthToLen(entries[k + 1].length)
    BY <1>3, <1>4, <2>1
  <2> QED BY <1>1, <2>1, <2>2
<1> HIDE DEF T
<1>7. Nat \subseteq T
  BY <1>5, <1>6, SetInduction
<1>8. d[N] = e[N]
  BY <1>1, <1>7 DEF T
<1>9. d[N + 1] = d[N] + AddTypeAndLengthToLen(x.length)
  <2>1. N + 1 \in 1 .. Len(more) /\ (N + 1) - 1 = N
    BY <1>1
  <2> QED BY <1>1, <1>4, <2>1
<1>10. TlvLen(more) = d[N + 1] /\ TlvLen(entries) = e[N]
  BY <1>1 DEF TlvLen, d, e
<1> QED BY <1>2, <1>8, <1>9, <1>10 DEF more

TlvType == [type : ExtensionType, length : Nat]

LEMMA ExtensionSizes ==
  \A x \in DOMAIN GetTypeLen : x \in ExtensionType /\ GetTypeLen[x] \in Nat
<1>1. DOMAIN GetTypeLen \subseteq ExtensionType
  BY DEF GetTypeLen, ExtensionType
<1>2. ASSUME NEW x \in DOMAIN GetTypeLen PROVE GetTypeLen[x] \in Nat
  BY DEF GetTypeLen
<1> QED BY <1>1, <1>2

LEMMA EntriesOfExtensions ==
  ASSUME NEW types \in Seq(DOMAIN GetTypeLen)
  PROVE  /\ TlvEntries(types) \in Seq(TlvType) /\ Measured(TlvEntries(types))
         /\ TlvLen(TlvEntries(types)) \in Nat
<1> DEFINE entries == TlvEntries(types)
<1>1. /\ DOMAIN types = 1 .. Len(types) /\ Len(types) \in Nat
      /\ \A n \in 1 .. Len(types) : types[n] \in DOMAIN GetTypeLen
  OBVIOUS
<1>2. /\ DOMAIN entries = 1 .. Len(types)
      /\ \A n \in 1 .. Len(types) :
           entries[n] \in TlvType /\ entries[n].length \in Nat
  <2>1. ASSUME NEW n \in 1 .. Len(types)
        PROVE  entries[n] \in TlvType /\ entries[n].length \in Nat
    <3>1. types[n] \in ExtensionType /\ GetTypeLen[types[n]] \in Nat
      BY <1>1, ExtensionSizes
    <3>2. entries[n] = [type |-> types[n], length |-> GetTypeLen[types[n]]]
      BY <1>1 DEF TlvEntries, TlvEntry
    <3> HIDE DEF entries
    <3> QED BY <3>1, <3>2 DEF TlvType
  <2> QED BY <1>1, <2>1 DEF TlvEntries
<1>3. entries \in [1 .. Len(types) -> TlvType]
  <2>1. entries = [n \in DOMAIN types |-> entries[n]]
    BY DEF TlvEntries
  <2> HIDE DEF entries
  <2> QED BY <1>1, <1>2, <2>1
<1> HIDE DEF entries
<1>4. entries \in Seq(TlvType) /\ Len(entries) = Len(types)
  BY <1>1, <1>3
<1>5. Measured(entries)
  BY <1>1, <1>2, <1>4 DEF Measured
<1>6. TlvLen(entries) \in Nat
  <2>1. \A n \in 0 .. Len(entries) : TlvEnds(entries)[n] \in Nat
    BY <1>5, EndsOfEntries
  <2>2. Len(entries) \in 0 .. Len(entries)
    BY <1>1, <1>4
  <2> QED BY <2>1, <2>2 DEF TlvLen
<1> QED BY <1>4, <1>5, <1>6 DEF entries

(* What is as long as its entries need, or longer, can be read.            *)
LEMMA LongEnoughReads ==
  ASSUME NEW m, Measured(m.tlv), TlvLen(m.tlv) \in Nat, m.exists,
         m.length \in Nat, m.length # MULTISIG_SIZE,
         m.length >= ACCOUNT_SIZE + ACCOUNT_TYPE_SIZE + TlvLen(m.tlv)
  PROVE  /\ Unpackable(m)
         /\ TlvRoom(m) = m.length - (ACCOUNT_SIZE + ACCOUNT_TYPE_SIZE)
         /\ \A x \in ToSet(TypesOf(m.tlv)) : Readable(m, x)
<1> DEFINE entries == m.tlv
           N == Len(entries)
           e == TlvEnds(entries)
<1> USE DEF ACCOUNT_SIZE, ACCOUNT_TYPE_SIZE, MINT_SIZE
<1>1. TlvRoom(m) = m.length - (ACCOUNT_SIZE + ACCOUNT_TYPE_SIZE)
  BY DEF TlvRoom
<1>2. Unpackable(m)
  BY DEF Unpackable
<1>3. ASSUME NEW x \in ToSet(TypesOf(entries))
      PROVE  Readable(m, x)
  <2>1. PICK n \in DOMAIN entries : entries[n].type = x
    BY <1>3 DEF ToSet, TypesOf
  <2>2. N \in Nat /\ n \in 1 .. N /\ n - 1 \in 0 .. N /\ n \in 0 .. N /\ N \in 0 .. N /\ n <= N
    <3>1. N \in Nat /\ DOMAIN entries = 1 .. N
      BY DEF Measured
    <3> QED BY <2>1, <3>1
  <2>3. e[n] = e[n - 1] + AddTypeAndLengthToLen(entries[n].length) /\ e[n - 1] \in Nat
    BY <2>2, EndsOfEntries
  <2>4. e[n] <= e[N]
    BY <2>2, EndsAscend
  <2>5. entries[n].length \in Nat
    BY <2>1 DEF Measured
  <2>6. TlvLen(m.tlv) = e[N] /\ EntryAt(m, n) = e[n - 1]
    BY DEF TlvLen, EntryAt
  <2> HIDE DEF entries, e, N
  <2>7. AddTypeAndLengthToLen(e[n - 1]) <= TlvRoom(m)
    <3>1. e[N] <= TlvRoom(m) /\ TlvRoom(m) \in Nat /\ e[N] \in Nat
      BY <1>1, <2>6
    <3>2. /\ AddTypeAndLengthToLen(e[n - 1]) = e[n - 1] + 4
          /\ e[n] = e[n - 1] + (entries[n].length + 4)
      BY <2>3, <2>5 DEF AddTypeAndLengthToLen, TYPE_SIZE, LENGTH_SIZE
    <3> QED BY <2>3, <2>4, <2>5, <3>1, <3>2
  <2> QED BY <2>1, <2>6, <2>7 DEF Readable, entries
<1> QED BY <1>1, <1>2, <1>3 DEF entries

-----------------------------------------------------------------------------
(* What CreateMint asks for is not empty where somebody provides metadata. *)
Extended ==
  exts \in Seq(DOMAIN GetTypeLen) /\ (request.provider # "neither" => exts # <<>>)

(* The account is as the extensions and the provider have it.              *)
MintInv ==
  /\ request \in MintRequests
  /\ step \in {"rent", "sign", "send", "created"} \/ mint.exists => Extended
  /\ step \in {"sign", "send", "created"} \/ mint.exists => request.provider # "neither"
  /\ mint.exists => mint = Laid /\ step \in {"created", "error"}
  /\ info # NoInfo =>
       /\ mint.exists
       /\ info = [read |-> Unpackable(mint),
                  listed |-> IF Unpackable(mint) THEN Listed(mint) ELSE <<>>]

LEMMA AllAreDistinct ==
  ASSUME NEW types \in Seq(ExtensionType)
  PROVE  /\ DeDup(types) \in Seq(ToSet(types))
         /\ types # <<>> => DeDup(types) # <<>>
<1> DEFINE P == {n \in DOMAIN types : \A m \in 1 .. n - 1 : types[m] # types[n]}
<1>1. /\ DOMAIN types = 1 .. Len(types) /\ Len(types) \in Nat
      /\ types \in Seq(ToSet(types))
  <2>1. DOMAIN types = 1 .. Len(types) /\ Len(types) \in Nat
    OBVIOUS
  <2>2. \A n \in 1 .. Len(types) : types[n] \in ToSet(types)
    BY <2>1 DEF ToSet
  <2>3. types \in [1 .. Len(types) -> ToSet(types)]
    BY <2>1, <2>2
  <2> QED BY <2>1, <2>3
<1>2. P \in SUBSET (1 .. Len(types))
  BY <1>1
<1>3. DeDup(types) = Picked(types, P)
  BY DEF DeDup, FirstOfEach
<1> HIDE DEF P
<1>4. /\ Picked(types, P) \in Seq(ToSet(types))
      /\ ToSet(Picked(types, P)) = {types[n] : n \in P}
  BY <1>1, <1>2, PickedSeq
<1>5. ASSUME types # <<>> PROVE Picked(types, P) # <<>>
  <2>1. 1 \in 1 .. Len(types)
    <3>1. Len(types) # 0
      BY <1>5, EmptySeq
    <3> QED BY <1>1, <3>1
  <2>2. 1 \in P
    BY <1>1, <2>1 DEF P
  <2>3. types[1] \in ToSet(Picked(types, P))
    BY <1>4, <2>2
  <2>4. ToSet(<<>>) = {}
    BY DEF ToSet
  <2> QED BY <2>3, <2>4
<1> QED BY <1>3, <1>4, <1>5

LEMMA WhatIsAdded ==
  ASSUME request \in MintRequests
  PROVE  /\ Wanted \in Seq(ExtensionType) /\ Added[request.provider] \in Seq(ExtensionType)
         /\ request.provider \in {"plex", "token2022", "neither"}
         /\ request.provider # "neither" => Added[request.provider] # <<>>
<1>1. request.provider \in {"plex", "token2022", "neither"}
  BY MintRequestsAssumption DEF Added
<1>2. /\ Added["plex"] = <<"MintCloseAuthority", "MetadataPointer">>
      /\ Added["token2022"] = <<"MetadataPointer">>
      /\ Added["neither"] = <<>>
      /\ "MintCloseAuthority" \in ExtensionType /\ "MetadataPointer" \in ExtensionType
  BY DEF Added, ExtensionType
<1>5. /\ Added["plex"] \in Seq(ExtensionType) /\ Added["plex"] # <<>>
      /\ Added["token2022"] \in Seq(ExtensionType) /\ Added["token2022"] # <<>>
      /\ Added["neither"] \in Seq(ExtensionType)
  <2> DEFINE x == "MintCloseAuthority"
             y == "MetadataPointer"
  <2>1. /\ x \in ExtensionType /\ y \in ExtensionType
        /\ Added["plex"] = <<x, y>> /\ Added["token2022"] = <<y>>
        /\ Added["neither"] = <<>>
    BY <1>2
  <2> HIDE DEF x, y
  <2>2. /\ <<x, y>> \in Seq(ExtensionType) /\ <<y>> \in Seq(ExtensionType)
        /\ <<x, y>> # <<>> /\ <<y>> # <<>>
    BY <2>1
  <2>3. <<>> \in Seq(ExtensionType)
    OBVIOUS
  <2> HIDE DEF Added
  <2> QED BY <2>1, <2>2, <2>3, Zenon
<1>3. /\ Added[request.provider] \in Seq(ExtensionType)
      /\ request.provider # "neither" => Added[request.provider] # <<>>
  <2>1. CASE request.provider = "plex"
    BY <1>5, <2>1, Zenon
  <2>2. CASE request.provider = "token2022"
    BY <1>5, <2>2, Zenon
  <2>3. CASE request.provider = "neither"
    BY <1>5, <2>3, Zenon
  <2> QED BY <1>1, <2>1, <2>2, <2>3
<1>4. Wanted \in Seq(ExtensionType)
  <2>1. CASE request.by = "CreateToken"
    <3> DEFINE a == IF request.args.whitelist THEN <<"DefaultAccountState">> ELSE <<>>
               b == IF request.args.force THEN <<"PermanentDelegate">> ELSE <<>>
               c == IF request.args.fee THEN <<"TransferFeeConfig">> ELSE <<>>
    <3>1. a \in Seq(ExtensionType) /\ b \in Seq(ExtensionType) /\ c \in Seq(ExtensionType)
      <4>1. /\ "DefaultAccountState" \in ExtensionType /\ "PermanentDelegate" \in ExtensionType
            /\ "TransferFeeConfig" \in ExtensionType
        BY DEF ExtensionType
      <4> QED BY <4>1
    <3>2. Wanted = a \o b \o c
      BY <2>1 DEF Wanted, ExtensionsOf
    <3> HIDE DEF a, b, c
    <3> QED BY <3>1, <3>2, ConcatProperties
  <2>2. CASE request.by # "CreateToken"
    <3> DEFINE asked == request.extensions
    <3>1. asked \in Seq(Params) /\ Wanted = [n \in DOMAIN asked |-> TypeReported(asked[n])]
      BY <2>2, MintRequestsAssumption DEF Wanted
    <3> HIDE DEF asked
    <3>2. DOMAIN asked = 1 .. Len(asked) /\ Len(asked) \in Nat
          /\ \A n \in DOMAIN asked : asked[n] \in Params
      BY <3>1
    <3>3. \A q \in Params : TypeReported(q) \in ExtensionType
      BY DEF TypeReported, Params, ExtensionType
    <3>4. Wanted \in [1 .. Len(asked) -> ExtensionType]
      BY <3>1, <3>2, <3>3
    <3> QED BY <3>2, <3>4
  <2> QED BY <2>1, <2>2
<1> QED BY <1>1, <1>3, <1>4

LEMMA MintInitially == MintInit => MintInv
<1> SUFFICES ASSUME MintInit PROVE MintInv
  OBVIOUS
<1>1. ~ mint.exists /\ info = NoInfo /\ request \in MintRequests
  BY DEF MintInit, NoMint
<1>2. step \in {"uri", "check"}
  BY DEF MintInit
<1> QED BY <1>1, <1>2 DEF MintInv

LEMMA MintStep == MintInv /\ [MintNext]_mintVars => MintInv'
<1> SUFFICES ASSUME MintInv, [MintNext]_mintVars PROVE MintInv'
  OBVIOUS
<1> USE DEF MintInv
<1>1. CASE MetadataURI
  BY <1>1 DEF MetadataURI
<1>2. CASE CheckExtensions
  <2>1. /\ step = "check" /\ UNCHANGED <<request, mint, info>> /\ ~ mint.exists
        /\ step' = "error" \/ step' = "rent"
    BY <1>2 DEF CheckExtensions
  <2>2. CASE step' = "error"
    BY <2>1, <2>2
  <2>3. CASE step' = "rent"
    <3> DEFINE types == Added[request.provider] \o Wanted
    <3>1. exts' = DeDup(types) /\ ToSet(DeDup(types)) \subseteq DOMAIN GetTypeLen
      BY <1>2, <2>3 DEF CheckExtensions
    <3>2. /\ types \in Seq(ExtensionType)
          /\ request.provider # "neither" => types # <<>>
      <4>1. /\ Wanted \in Seq(ExtensionType) /\ Added[request.provider] \in Seq(ExtensionType)
            /\ request.provider # "neither" => Added[request.provider] # <<>>
        BY WhatIsAdded
      <4>2. types \in Seq(ExtensionType) /\ Len(types) = Len(Added[request.provider]) + Len(Wanted)
        BY <4>1, ConcatProperties
      <4>3. ASSUME Added[request.provider] # <<>> PROVE types # <<>>
        <5>1. /\ Len(Added[request.provider]) # 0
              /\ Len(Added[request.provider]) \in Nat /\ Len(Wanted) \in Nat
          BY <4>1, <4>3, EmptySeq
        <5>2. Len(<<>>) = 0
          OBVIOUS
        <5> HIDE DEF types
        <5> QED BY <4>2, <5>1, <5>2
      <4> QED BY <4>1, <4>2, <4>3
    <3> HIDE DEF types
    <3>3. /\ DeDup(types) \in Seq(ToSet(types))
          /\ types # <<>> => DeDup(types) # <<>>
      BY <3>2, AllAreDistinct
    <3>4. DeDup(types) \in Seq(DOMAIN GetTypeLen)
      <4> DEFINE s == DeDup(types)
      <4> HIDE DEF s
      <4>1. s \in Seq(ToSet(types)) /\ ToSet(s) \subseteq DOMAIN GetTypeLen
        BY <3>1, <3>3 DEF s
      <4>2. DOMAIN s = 1 .. Len(s) /\ Len(s) \in Nat
        BY <4>1
      <4>3. \A n \in 1 .. Len(s) : s[n] \in DOMAIN GetTypeLen
        BY <4>1, <4>2 DEF ToSet
      <4>4. s = [n \in DOMAIN s |-> s[n]]
        BY <4>1
      <4>5. s \in [1 .. Len(s) -> DOMAIN GetTypeLen]
        BY <4>2, <4>3, <4>4
      <4>6. s \in Seq(DOMAIN GetTypeLen)
        BY <4>2, <4>5
      <4> QED BY <4>6 DEF s
    <3>5. Extended'
      BY <2>1, <3>1, <3>2, <3>3, <3>4 DEF Extended
    <3> QED BY <2>1, <2>3, <3>5
  <2> QED BY <2>1, <2>2, <2>3
<1>3. CASE BuildMint
  BY <1>3 DEF BuildMint, Extended
<1>4. CASE SignMint
  BY <1>4 DEF SignMint, Extended
<1>5. CASE Sent
  <2>1. /\ step = "send" /\ UNCHANGED <<request, exts, info>> /\ step' \in {"created", "error"}
        /\ mint' = mint \/ mint' = Laid
    BY <1>5 DEF Sent
  <2>2. Extended /\ Extended' /\ request.provider # "neither" /\ ~ mint.exists /\ info = NoInfo
    BY <2>1 DEF Extended
  <2>3. Laid' = Laid
    BY <2>1 DEF Laid
  <2> QED BY <2>1, <2>2, <2>3
<1>6. CASE GetMint
  <2>1. /\ mint.exists /\ UNCHANGED <<request, step, exts, mint>>
        /\ info' = [read |-> Unpackable(mint),
                    listed |-> IF Unpackable(mint) THEN Listed(mint) ELSE <<>>]
    BY <1>6 DEF GetMint
  <2>2. Laid' = Laid /\ Unpackable(mint)' = Unpackable(mint) /\ Listed(mint)' = Listed(mint)
    BY <2>1 DEF Laid, Unpackable, Listed, TlvRoom
  <2> QED BY <2>1, <2>2 DEF Extended
<1>7. CASE UNCHANGED mintVars
  <2>1. UNCHANGED <<request, step, exts, mint, info>>
    BY <1>7 DEF mintVars
  <2>2. Laid' = Laid /\ Unpackable(mint)' = Unpackable(mint) /\ Listed(mint)' = Listed(mint)
    BY <2>1 DEF Laid, Unpackable, Listed, TlvRoom
  <2> QED BY <2>1, <2>2 DEF Extended
<1> QED BY <1>1, <1>2, <1>3, <1>4, <1>5, <1>6, <1>7 DEF MintNext

(* Why a mint can be read: it has room for its entries, and it is never as *)
(* long as a multi-signature's account.                                    *)
LEMMA LaidReads ==
  ASSUME MintInv, mint.exists
  PROVE  /\ Unpackable(mint)
         /\ \A x \in ToSet(TypesOf(mint.tlv)) : Readable(mint, x)
         /\ \/ TlvRoom(mint) = TlvLen(mint.tlv)
            \/ MULTISIG_SIZE + TYPE_SIZE \in {GetMintLen(exts), mint.length}
<1> DEFINE entries == TlvEntries(exts)
           n == ACCOUNT_SIZE + ACCOUNT_TYPE_SIZE + TlvLen(entries)
           size == request.metadata.written
           header == ACCOUNT_SIZE + ACCOUNT_TYPE_SIZE
<1>1. /\ exts \in Seq(DOMAIN GetTypeLen) /\ exts # <<>>
      /\ mint = Laid /\ size \in Nat
  BY MintRequestsAssumption DEF MintInv, Extended
<1>2. /\ entries \in Seq(TlvType) /\ Measured(entries) /\ TlvLen(entries) \in Nat
      /\ GetMintLen(exts) = NotMultisig(n)
  BY <1>1, EntriesOfExtensions DEF GetMintLen
<1> HIDE DEF entries
<1>3. /\ n \in Nat /\ NotMultisig(n) \in Nat /\ NotMultisig(n) >= n
      /\ NotMultisig(n) # MULTISIG_SIZE
      /\ NotMultisig(n) = n \/ NotMultisig(n) = MULTISIG_SIZE + TYPE_SIZE
  BY <1>2 DEF NotMultisig, MULTISIG_SIZE, TYPE_SIZE, ACCOUNT_SIZE, ACCOUNT_TYPE_SIZE
<1>4. CASE request.provider # "token2022"
  <2>1. /\ mint.exists /\ mint.tlv = entries /\ mint.length = NotMultisig(n)
        /\ mint.length = GetMintLen(exts)
    BY <1>1, <1>2, <1>4 DEF Laid, entries
  <2>2. /\ Unpackable(mint)
        /\ TlvRoom(mint) = mint.length - header
        /\ \A x \in ToSet(TypesOf(mint.tlv)) : Readable(mint, x)
    <3>1. /\ mint.length \in Nat /\ mint.length # MULTISIG_SIZE
          /\ mint.length >= ACCOUNT_SIZE + ACCOUNT_TYPE_SIZE + TlvLen(mint.tlv)
          /\ Measured(mint.tlv) /\ TlvLen(mint.tlv) \in Nat
      BY <1>2, <1>3, <2>1
    <3> QED BY <2>1, <3>1, LongEnoughReads
  <2>3. ASSUME NotMultisig(n) = n
        PROVE  TlvRoom(mint) = TlvLen(mint.tlv)
    BY <1>2, <2>1, <2>2, <2>3 DEF ACCOUNT_SIZE, ACCOUNT_TYPE_SIZE
  <2> QED BY <1>3, <2>1, <2>2, <2>3
<1>5. CASE request.provider = "token2022"
  <2> DEFINE x == TlvEntry("TokenMetadata", size)
             all == Append(entries, x)
             longer == GetMintLen(exts) + AddTypeAndLengthToLen(size)
  <2>1. mint.exists /\ mint.tlv = all /\ mint.length = NotMultisig(longer)
    BY <1>1, <1>5 DEF Laid, entries
  <2>2. x \in TlvType /\ x.length = size
    BY <1>1 DEF TlvType, TlvEntry, ExtensionType
  <2> HIDE DEF x
  <2>3. /\ Measured(all)
        /\ TlvLen(all) = TlvLen(entries) + AddTypeAndLengthToLen(size)
    BY <1>1, <1>2, <2>2, LengthOfMore
  <2> HIDE DEF all
  <2>4. AddTypeAndLengthToLen(size) \in Nat
    BY <1>1 DEF AddTypeAndLengthToLen, TYPE_SIZE, LENGTH_SIZE
  <2>5. /\ longer \in Nat /\ longer >= header + TlvLen(all) /\ TlvLen(all) \in Nat
        /\ NotMultisig(n) = n => longer = header + TlvLen(all)
    BY <1>2, <1>3, <2>3, <2>4 DEF ACCOUNT_SIZE, ACCOUNT_TYPE_SIZE
  <2> HIDE DEF longer
  <2>6. /\ mint.length \in Nat /\ mint.length >= longer /\ mint.length # MULTISIG_SIZE
        /\ mint.length = longer \/ mint.length = MULTISIG_SIZE + TYPE_SIZE
    BY <2>1, <2>5 DEF NotMultisig, MULTISIG_SIZE, TYPE_SIZE
  <2>7. /\ Unpackable(mint)
        /\ TlvRoom(mint) = mint.length - header
        /\ \A y \in ToSet(TypesOf(mint.tlv)) : Readable(mint, y)
    <3>1. mint.length >= header + TlvLen(mint.tlv)
      BY <2>1, <2>5, <2>6 DEF ACCOUNT_SIZE, ACCOUNT_TYPE_SIZE
    <3> QED BY <2>1, <2>3, <2>5, <2>6, <3>1, LongEnoughReads
  <2>8. ASSUME NotMultisig(n) = n, mint.length = longer
        PROVE  TlvRoom(mint) = TlvLen(mint.tlv)
    BY <2>1, <2>5, <2>7, <2>8 DEF ACCOUNT_SIZE, ACCOUNT_TYPE_SIZE
  <2> QED BY <1>2, <1>3, <2>6, <2>7, <2>8
<1> QED BY <1>4, <1>5

(* MintInv is inductive.                                                   *)
THEOREM MintInvariance == MintSpec => []MintInv
  BY MintInitially, MintStep, PTL DEF MintSpec

LEMMA InvMintReadsBack == MintInv => MintReadsBack
<1> SUFFICES ASSUME MintInv, info # NoInfo PROVE MintReadsBack
  BY DEF MintReadsBack
<1>1. /\ mint.exists /\ info.read = Unpackable(mint)
      /\ info.listed = IF Unpackable(mint) THEN Listed(mint) ELSE <<>>
  BY DEF MintInv
<1>2. /\ Unpackable(mint)
      /\ \A x \in ToSet(TypesOf(mint.tlv)) : Readable(mint, x)
      /\ \/ TlvRoom(mint) = TlvLen(mint.tlv)
         \/ MULTISIG_SIZE + TYPE_SIZE \in {GetMintLen(exts), mint.length}
  BY <1>1, LaidReads
<1> QED BY <1>1, <1>2 DEF MintReadsBack, Listed

(* A mint of any extensions CreateMint takes parameters for, and with      *)
(* metadata of any length, is unpacked as a mint, and GetExtensionData     *)
(* finds each of its entries (GetMint).                                    *)
THEOREM MintAlwaysReadsBack == MintSpec => []MintReadsBack
  BY InvMintReadsBack, MintInvariance, PTL
-----------------------------------------------------------------------------
(* Together: an application that has all the tools takes no step that is   *)
(* not a step of one of them.                                              *)

LEMMA ToolkitStarts ==
  ToolkitInit => BuilderInit /\ IrysInit /\ LoaderInit /\ EpochInit /\ MintInit
BY DEF ToolkitInit

LEMMA ToolkitSteps ==
  [ToolkitNext]_toolkitVars => /\ [BuilderNext]_builderVars
                               /\ [IrysNext]_irysVars
                               /\ [LoaderNext]_loaderVars
                               /\ [NextSlot]_epochVars
                               /\ [MintNext]_mintVars
<1> SUFFICES ASSUME [ToolkitNext]_toolkitVars
             PROVE  /\ [BuilderNext]_builderVars /\ [IrysNext]_irysVars
                    /\ [LoaderNext]_loaderVars /\ [NextSlot]_epochVars
                    /\ [MintNext]_mintVars
  OBVIOUS
<1>1. CASE UseBuilder
  BY <1>1 DEF UseBuilder, OtherThan
<1>2. CASE \/ CancelUpload \/ \E t \in Uploaders \X Files : CreditTransfer(t)
           \/ \E u \in Uploaders : UseIrys(u)
  BY <1>2 DEF CancelUpload, CreditTransfer, UseIrys, IrysNext, OtherThan
<1>3. CASE UseLoader \/ UseLoaderAgain \/ \E t \in inFlight : LandSetup(t)
  BY <1>3 DEF UseLoader, UseLoaderAgain, LandSetup, LoaderNext, OtherThan
<1>4. CASE WalkEpochs
  BY <1>4 DEF WalkEpochs, OtherThan
<1>5. CASE MakeMint
  BY <1>5 DEF MakeMint, OtherThan
<1>6. CASE UNCHANGED toolkitVars
  BY <1>6 DEF toolkitVars
<1> QED BY <1>1, <1>2, <1>3, <1>4, <1>5, <1>6 DEF ToolkitNext

(* The toolkit implements the specification of each builder, of the epoch  *)
(* schedule and of the making of a mint, and of uploads and loads what     *)
(* these may do at all.                                                    *)
THEOREM ToolkitImplements ==
  ToolkitSpec => /\ BuilderSpec /\ EpochSpec /\ MintSpec
                 /\ IrysInit /\ [][IrysNext]_irysVars
                 /\ LoaderInit /\ [][LoaderNext]_loaderVars
BY ToolkitStarts, ToolkitSteps, PTL DEF ToolkitSpec, BuilderSpec, EpochSpec, MintSpec

(* What is proved of each tool holds of an application that has them all   *)
(* (the properties of the tools' single specifications).                   *)
THEOREM ToolkitIsSafe ==
  ToolkitSpec => /\ [](BuilderTypeOK /\ ValidatedIsInPlace /\ SomebodyAuthorizes)
                 /\ [](NeverMistaken /\ PanicsOnlyUnvalidated)
                 /\ [](SuccessIsCovered /\ ChunksFit /\ MintReadsBack)
                 /\ PaymentLasts /\ EpochsFollow
<1>1. BuilderSpec => /\ [](BuilderTypeOK /\ ValidatedIsInPlace /\ SomebodyAuthorizes)
                     /\ [](NeverMistaken /\ PanicsOnlyUnvalidated)
  BY BuilderTypes, ValidatedAreInPlace, AlwaysAuthorized, DecodedIsMeant,
     OnlyUnvalidatedPanic, PTL
<1>2. IrysInit /\ [][IrysNext]_irysVars => []SuccessIsCovered
  BY IrysInitially, IrysStep, InvSuccessIsCovered, PTL
<1>3. LoaderInit /\ [][LoaderNext]_loaderVars => []ChunksFit
  BY LoaderInitially, LoaderStep, InvChunksFit, PTL
<1> QED
  BY <1>1, <1>2, <1>3, LastsByUploading, ToolkitImplements, MintAlwaysReadsBack,
     EpochsAlwaysFollow, PTL
=============================================================================
