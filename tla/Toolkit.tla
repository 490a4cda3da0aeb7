------------------------------- MODULE Toolkit -------------------------------
(***************************************************************************)
(* The tools an application has beside Connection, one of which is in use: *)
(* the instruction builders, uploads through Irys, the program loader, the *)
(* epoch schedule and the making of a mint.  They share no state; the ones *)
(* not in use stay as they are.                                            *)
(***************************************************************************)
EXTENDS InstructionBuilder, IrysFunding, ProgramLoader, EpochSchedule, MintAccount

VARIABLE tool

Tools == {"builder", "irys", "loader", "epoch", "mint"}

toolkitVars ==
  <<tool, builderVars, irysVars, loaderVars, epochVars, mintVars>>

(* A tool that is not in use is in one of its initial states.              *)
OneBuilder == /\ kind = CHOOSE k \in BuilderKinds : TRUE
              /\ meant = kind /\ slots = Roles(kind) /\ given = Parameters(kind)
OneUpload  == /\ tooBig = {} /\ balance = CHOOSE d \in Deposits : TRUE
              /\ price = CHOOSE lists \in [Uploaders -> PriceLists] : TRUE
OneProgram == /\ length = CHOOSE n \in DataLengths : TRUE
              /\ account = NoAccount
OneWalk    == schedule = CHOOSE s \in Schedules : TRUE
OneMint    == request = CHOOSE r \in MintRequests : TRUE

ToolkitInit ==
  /\ tool \in Tools
  /\ IF tool = "builder" THEN BuilderInit ELSE OneBuilder /\ BuilderInit
  /\ IF tool = "irys" THEN IrysInit ELSE OneUpload /\ IrysInit
  /\ IF tool = "loader" THEN LoaderInit ELSE OneProgram /\ LoaderInit
  /\ IF tool = "epoch" THEN EpochInit ELSE OneWalk /\ EpochInit
  /\ IF tool = "mint" THEN MintInit ELSE OneMint /\ MintInit

OtherThan(others) == UNCHANGED <<tool, others>>

UseBuilder ==
  /\ tool = "builder" /\ BuilderNext
  /\ OtherThan(<<irysVars, loaderVars, epochVars, mintVars>>)

UseIrys(u) ==
  /\ tool = "irys" /\ Uploading(u)
  /\ OtherThan(<<builderVars, loaderVars, epochVars, mintVars>>)

CancelUpload ==
  /\ tool = "irys" /\ Cancel
  /\ OtherThan(<<builderVars, loaderVars, epochVars, mintVars>>)

CreditTransfer(t) ==
  /\ tool = "irys" /\ NodeCredits(t)
  /\ OtherThan(<<builderVars, loaderVars, epochVars, mintVars>>)

UseLoader ==
  /\ tool = "loader" /\ Loading
  /\ OtherThan(<<builderVars, irysVars, epochVars, mintVars>>)

UseLoaderAgain ==
  /\ tool = "loader" /\ LoadAgain
  /\ OtherThan(<<builderVars, irysVars, epochVars, mintVars>>)

LandSetup(t) ==
  /\ tool = "loader" /\ SetupLands(t)
  /\ OtherThan(<<builderVars, irysVars, epochVars, mintVars>>)

WalkEpochs ==
  /\ tool = "epoch" /\ NextSlot
  /\ OtherThan(<<builderVars, irysVars, loaderVars, mintVars>>)

MakeMint ==
  /\ tool = "mint" /\ MintNext
  /\ OtherThan(<<builderVars, irysVars, loaderVars, epochVars>>)

ToolkitNext ==
  \/ UseBuilder
  \/ CancelUpload \/ \E t \in Uploaders \X Files : CreditTransfer(t)
  \/ \E u \in Uploaders : UseIrys(u)
  \/ UseLoader \/ UseLoaderAgain \/ \E t \in inFlight : LandSetup(t)
  \/ WalkEpochs
  \/ MakeMint

(* The fairness of IrysSpec and of LoaderSpec.                             *)
ToolkitSpec ==
  /\ ToolkitInit /\ [][ToolkitNext]_toolkitVars
  /\ \A u \in Uploaders : WF_toolkitVars(UseIrys(u))
  /\ WF_toolkitVars(UseLoader)
-----------------------------------------------------------------------------
(* UploadsEnd where it is uploads that are made.                           *)
EveryUploadEnds == tool = "irys" => UploadsEnd

(* LoadsEnd where it is programs that are loaded.                          *)
EveryLoadEnds ==
  (tool = "loader" /\ load = "rent") ~> load \in {"failed", "refused", "panicked"}
=============================================================================
