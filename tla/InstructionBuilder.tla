-------------------------- MODULE InstructionBuilder --------------------------
(***************************************************************************)
(* The life of one generated instruction builder: the New<Kind>Instruction *)
(* constructor, its setters, Build, Validate and ValidateAndBuild          *)
(* (<package>/instructions.go), Instruction and DecodeInstruction          *)
(* (<package>/mod.go), AccountMetaSlice (common/types.go), the ways into a *)
(* transaction (web3/transaction_legacy.go, web3/adapter.go) and Nested    *)
(* (spl_token_2022/extension/extensions.go).                               *)
(*                                                                         *)
(* The packages are constants: the tables of the catalog modules.  The key *)
(* of an account is the name of the role it was given for, so an account   *)
(* in another role's place is seen; which values the parameters have is    *)
(* left out, which of them are set is not.                                 *)
(***************************************************************************)
EXTENDS InstructionSchema, Integers, Sequences, FiniteSets, SequencesExt, Selection

CONSTANTS
  Packages,    (* name |-> [kinds, variants, settable, outer]: the table of   *)
               (* kinds, the discriminators the decoder compares, whether     *)
               (* SetProgramId sets the program, and the kind of Token-2022   *)
               (* that carries one of this package, or <<>>                   *)
  SignerLists, (* lists of multi-signers a caller may name                    *)
  MaxForgotten,(* bound: the accounts that may be forgotten are the first    *)
  MaxCalls,    (* bound: setters called                                       *)
  MaxAdded     (* bound: instructions put into the transaction                *)

BuilderKinds ==
  UNION {{[package |-> p, index |-> n] : n \in DOMAIN Packages[p].kinds} :
           p \in DOMAIN Packages}
NoKind == [package |-> "none", index |-> 0]

Schema(k)   == Packages[k.package].kinds[k.index]
Roles(k)    == Schema(k).accounts
Required(k) == Schema(k).required
Parameters(k) == Schema(k).required \cup Schema(k).optional
AllParameters(k, carried) ==
  Parameters(k) \cup (IF carried = NoKind THEN {} ELSE Parameters(carried))

Missing == R("nil")
Programs == {"default", "chosen"}

Names == STRING \ {Missing.name}

Account == [name : Names, writable : BOOLEAN, signer : BOOLEAN]

Slot == Account \cup {Missing}

(* What the tables of the packages are like: the accounts of an instruction*)
(* have names; no two kinds have the same discriminator; a variant of the  *)
(* decoder stands at the place of its kind, or is no kind's discriminator; *)
(* and the instructions of Token-2022 that carry another one have no       *)
(* accounts of their own and are not carried themselves.                   *)
WellNamed(k) == Roles(k) \in Seq(Account)

IdsDiffer(p) ==
  \A m, n \in DOMAIN Packages[p].kinds :
    Packages[p].kinds[m].id = Packages[p].kinds[n].id => m = n

InStep(p) ==
  \A v \in DOMAIN Packages[p].variants :
    LET id == Packages[p].variants[v]
    IN id \in {Packages[p].kinds[n].id : n \in DOMAIN Packages[p].kinds} =>
         v \in DOMAIN Packages[p].kinds /\ id = Packages[p].kinds[v].id

CarrierIsBare(k) ==
  LET carrier == Packages[k.package].outer
  IN carrier # NoKind => /\ carrier \in BuilderKinds
                         /\ Roles(carrier) = <<>>
                         /\ Packages[carrier.package].outer = NoKind

ASSUME PackagesAssumption ==
  /\ NoKind \notin BuilderKinds
  /\ \A k \in BuilderKinds : WellNamed(k) /\ CarrierIsBare(k)
  /\ \A p \in DOMAIN Packages : IdsDiffer(p) /\ InStep(p)
ASSUME SignersAssumption ==
  \A ms \in SignerLists : ms \in Seq(Names)
ASSUME BoundsAssumption ==
  MaxForgotten \in Nat /\ MaxCalls \in Nat /\ MaxAdded \in Nat

VARIABLES
  kind,       (* the type of the builder                                      *)
  carries,    (* for the data of a Token-2022 extension: the kind it encodes  *)
  slots,      (* obj.AccountMetaSlice                                         *)
  given,      (* the parameters that are set, those of carries included       *)
  program,    (* obj._programId: "default" while nil                          *)
  held,       (* the Instruction last built or decoded, pointing at obj       *)
  added,      (* what was put into the transaction                            *)
  meant,      (* history: what the caller built in the first place            *)
  gapped,     (* history: it was once encoded with an account missing         *)
  running,    (* FALSE after a panic                                          *)
  calls       (* setters called                                               *)

objVars == <<kind, carries, slots, given, program>>
builderVars == <<objVars, held, added, meant, gapped, running, calls>>

NothingHeld == [built |-> FALSE, checked |-> FALSE, named |-> FALSE,
                program |-> "default"]

-----------------------------------------------------------------------------
(* Faulty forms of definitions below, to test that the properties can fail.*)

AnyAccountsWill(k, s, g) ==
  IF Required(k) \subseteq g THEN "valid" ELSE "refused"
OneTooMany(k, s, g) ==
  IF Len(s) <= Len(Roles(k)) THEN "panics"
  ELSE IF Required(k) \subseteq g THEN "valid" ELSE "refused"
CosignersForgotten(s, k, ms) ==
  [s EXCEPT ![Len(Roles(k))] =
     IF ms = <<>> THEN Roles(k)[Len(Roles(k))]
                  ELSE R(Roles(k)[Len(Roles(k))].name)]
NextVariant(k) == {(k.index % Len(Packages[k.package].variants)) + 1}
PackageProgram(checked) ==
  [built |-> TRUE, checked |-> checked, named |-> TRUE, program |-> kind.package]

-----------------------------------------------------------------------------
(* AccountMetaSlice.GetAccounts: what is nil is passed over, and whatever  *)
(* comes after it moves up.                                                *)
Present(s) ==
  IF Missing \notin ToSet(s) THEN s ELSE Picked(s, {n \in DOMAIN s : s[n] # Missing})

(* A slice taken over by SetAccounts may be shorter than the kind's.       *)
Short(k, s) == Len(s) < Len(Roles(k))

(* Validate: the required parameters, then the accounts one by one, each   *)
(* by its index in the slice.                                              *)
Validity(k, s, g) ==
  IF \/ ~ (Required(k) \subseteq g)
     \/ \E n \in DOMAIN Roles(k) \cap DOMAIN s : s[n] = Missing
    THEN "refused"
    ELSE IF Short(k, s) THEN "panics" ELSE "valid"

(* The setter of the last account: with multi-signers the account itself   *)
(* loses all its flags, and they are appended to whatever is there.        *)
LastSet(s, k, ms) ==
  LET last == Len(Roles(k))
  IN IF ms = <<>>
       THEN [s EXCEPT ![last] = Roles(k)[last]]
       ELSE [s EXCEPT ![last] = R(Roles(k)[last].name)]
              \o [n \in DOMAIN ms |-> S(ms[n])]

(* What the decoder of a package takes a discriminator for: it compares    *)
(* the variants with it one by one.                                        *)
TakenFor(k) ==
  {n \in DOMAIN Packages[k.package].variants :
     Packages[k.package].variants[n] = Schema(k).id}

-----------------------------------------------------------------------------
(* New<Kind>Instruction sets everything; who starts from the empty builder *)
(* may have forgotten something.                                           *)
BuilderInit ==
  /\ \E k \in BuilderKinds :
       /\ kind = k
       /\ meant = k
       /\ \/ slots = Roles(k) /\ given = Parameters(k)
          \/ \E n \in DOMAIN Roles(k) \cap (1 .. MaxForgotten) :
               slots = [Roles(k) EXCEPT ![n] = Missing] /\ given = Parameters(k)
          \/ \E p \in Parameters(k) :
               slots = Roles(k) /\ given = Parameters(k) \ {p}
  /\ carries = NoKind
  /\ program = "default"
  /\ held = NothingHeld
  /\ added = <<>>
  /\ gapped = FALSE
  /\ running = TRUE
  /\ calls = 0

Call == running /\ calls < MaxCalls /\ calls' = calls + 1

Panic == running' = FALSE

(* Set<Param>; setting one again would change its value only.              *)
SetParameter(p) ==
  /\ Call
  /\ p \notin given
  /\ given' = given \cup {p}
  /\ UNCHANGED <<kind, carries, slots, program, held, added, meant, gapped,
                 running>>

(* Set<Role>Account of any account but the last.                           *)
SetAccount(n) ==
  /\ Call
  /\ IF n > Len(slots) THEN Panic /\ UNCHANGED slots
     ELSE slots' = [slots EXCEPT ![n] = Roles(kind)[n]] /\ UNCHANGED running
  /\ UNCHANGED <<kind, carries, given, program, held, added, meant, gapped>>

(* Set<Role>Account of the last one, which takes the multi-signers.        *)
SetLastAccount(ms) ==
  /\ Call
  /\ IF Short(kind, slots) THEN Panic /\ UNCHANGED slots
     ELSE slots' = LastSet(slots, kind, ms) /\ UNCHANGED running
  /\ UNCHANGED <<kind, carries, given, program, held, added, meant, gapped>>

(* SetProgramId, where the package has one that sets the program.          *)
SetProgramId ==
  /\ Call
  /\ Packages[kind.package].settable
  /\ program' = "chosen"
  /\ UNCHANGED <<kind, carries, slots, given, held, added, meant, gapped,
                 running>>

(* Build takes the program as it is now and points at the builder: what    *)
(* the setters change later shows in it.                                   *)
Handle(checked) ==
  [built |-> TRUE, checked |-> checked, named |-> TRUE, program |-> program]

Build ==
  /\ running
  /\ held' = Handle(FALSE)
  /\ UNCHANGED <<objVars, added, meant, gapped, running, calls>>

ValidateAndBuild ==
  /\ running
  /\ LET validity == Validity(kind, slots, given)
     IN /\ held' = IF validity = "valid" THEN Handle(TRUE) ELSE held
        /\ running' = (validity # "panics")
  /\ UNCHANGED <<objVars, added, meant, gapped, calls>>

-----------------------------------------------------------------------------
(* instructionToTransactionInstruction copies accounts, program and data.  *)
Entry(handle) ==
  [kind     |-> kind,
   carries  |-> carries,
   accounts |-> Present(slots),
   given    |-> given,
   program  |-> handle.program,
   named    |-> handle.named,
   checked  |-> handle.checked,
   meant    |-> meant,
   missing  |-> Missing \in ToSet(slots),
   gapped   |-> gapped]

Room == running /\ Len(added) < MaxAdded

Incomplete == ~ (Required(kind) \subseteq given)

(* AddInstructionAny.  A parameter that is nil is dereferenced (a text),   *)
(* refused by the encoder, or written as nothing.                          *)
AddInstructionAny ==
  /\ Room
  /\ held.built
  /\ \/ added' = Append(added, Entry(held)) /\ UNCHANGED running
     \/ Incomplete /\ Panic /\ UNCHANGED added
     \/ Incomplete /\ UNCHANGED <<running, added>>
  /\ UNCHANGED <<objVars, held, meant, gapped, calls>>

(* AddInsBuilder validates and builds first; Nested does too, and puts the *)
(* data into an instruction of Token-2022, which takes over the accounts.  *)
AddValidated(entry) ==
  /\ Room
  /\ LET validity == Validity(kind, slots, given)
     IN /\ added' = IF validity = "valid" THEN Append(added, entry) ELSE added
        /\ running' = (validity # "panics")
  /\ UNCHANGED <<objVars, held, meant, gapped, calls>>

AddInsBuilder == AddValidated(Entry(Handle(TRUE)))

Nested ==
  LET carrier == Packages[kind.package].outer
  IN /\ carrier # NoKind
     /\ AddValidated([Entry(Handle(TRUE)) EXCEPT !.kind = carrier,
                        !.carries = kind, !.program = "chosen"])

(* DecodeInstruction, of an entry or of the data an entry carries.  The    *)
(* object it gives takes over the accounts, is of the default program, has *)
(* no discriminator when it is encoded again as it is, and is a builder    *)
(* like any other: Impl has the setters and Build.  Where it fails nothing *)
(* changes.  What was encoded without a discriminator is not decoded here: *)
(* the bytes of its parameters would be read as one.                       *)
Decode(n, inside) ==
  LET entry == added[n]
      k == IF inside THEN entry.carries ELSE entry.kind
  IN /\ running
     /\ k # NoKind
     /\ entry.named /\ Schema(k).readable
     /\ \E v \in TakenFor(k) : kind' = [k EXCEPT !.index = v]
     /\ carries' = IF inside THEN NoKind ELSE entry.carries
     /\ given' = Required(kind') \cup (entry.given \cap AllParameters(kind', carries'))
     /\ slots' = entry.accounts
     /\ program' = "default"
     /\ held' = [NothingHeld EXCEPT !.built = TRUE]
     /\ meant' = entry.meant
     /\ gapped' = (entry.gapped \/ entry.missing)
     /\ UNCHANGED <<added, running, calls>>

BuilderNext ==
  \/ \E p \in Parameters(kind) : SetParameter(p)
  \/ \E n \in 1 .. Len(Roles(kind)) - 1 : SetAccount(n)
  \/ Roles(kind) # <<>> /\ \E ms \in SignerLists : SetLastAccount(ms)
  \/ SetProgramId
  \/ Build
  \/ ValidateAndBuild
  \/ AddInstructionAny
  \/ AddInsBuilder
  \/ Nested
  \/ \E n \in DOMAIN added, inside \in BOOLEAN : Decode(n, inside)

BuilderSpec == BuilderInit /\ [][BuilderNext]_builderVars
-----------------------------------------------------------------------------
(* Properties.                                                             *)

(* The builder, what it built and the transaction hold what their Go types *)
(* allow.                                                                  *)
BuilderTypeOK ==
  /\ kind \in BuilderKinds /\ meant \in BuilderKinds
  /\ carries \in BuilderKinds \cup {NoKind}
  /\ slots \in Seq(Slot)
  /\ given \subseteq AllParameters(kind, carries)
  /\ program \in Programs
  /\ held \in [built : BOOLEAN, checked : BOOLEAN, named : BOOLEAN,
               program : Programs]
  /\ \A n \in DOMAIN added :
       /\ added[n].kind \in BuilderKinds /\ added[n].meant \in BuilderKinds
       /\ added[n].carries \in BuilderKinds \cup {NoKind}
       /\ added[n].accounts \in Seq(Account)
       /\ added[n].program \in Programs
       /\ {added[n].named, added[n].checked, added[n].missing, added[n].gapped} \subseteq BOOLEAN
  /\ gapped \in BOOLEAN
  /\ running \in BOOLEAN
  /\ calls \in 0 .. MaxCalls

(* The roles an entry's accounts stand for: those of what it carries, if   *)
(* it carries anything.                                                    *)
RolesOf(entry) ==
  Roles(IF entry.carries = NoKind THEN entry.kind ELSE entry.carries)

Plain(role) == R(role.name)

(* Validation means that the accounts are in their places: an instruction  *)
(* that was validated, at whatever time before it was added, whatever was  *)
(* set in between and however often it was decoded and built again, has at *)
(* each position the account of that role with the flags of the role.      *)
(* Only the last one may be without flags, and after it come co-signers    *)
(* that are not writable.  (Not so once an instruction was encoded with an *)
(* account missing: the accounts after it moved up, multi-signers made up  *)
(* the number, and Validate of what is decoded has nothing against it.)    *)
ValidatedIsInPlace ==
  \A n \in DOMAIN added :
    LET entry == added[n]
        roles == RolesOf(entry)
    IN entry.checked /\ ~ entry.gapped =>
         /\ Len(entry.accounts) >= Len(roles)
         /\ \A m \in DOMAIN roles :
              \/ entry.accounts[m] = roles[m]
              \/ m = Len(roles) /\ entry.accounts[m] = Plain(roles[m])
         /\ \A m \in Len(roles) + 1 .. Len(entry.accounts) :
              entry.accounts[m].signer /\ ~ entry.accounts[m].writable

(* An instruction whose last account is its authority never gets to a      *)
(* transaction with nobody to authorize it: the authority is a signer, or  *)
(* there are co-signers (set<Last>Account).                                *)
SomebodyAuthorizes ==
  \A n \in DOMAIN added :
    LET entry == added[n]
        last  == Len(RolesOf(entry))
    IN entry.checked /\ ~ entry.gapped /\ last > 0 /\ RolesOf(entry)[last].signer =>
         \E m \in last .. Len(entry.accounts) : entry.accounts[m].signer

(* What a builder encoded is decoded as what it was or not at all, also    *)
(* what a Token-2022 instruction carries, and however often it is built    *)
(* and decoded again: the tables of mod.go agree with the discriminators.  *)
NeverMistaken ==
  IF carries = NoKind THEN kind = meant
  ELSE carries = meant /\ kind = Packages[meant.package].outer

(* The process ends by a panic only where validation was left out: a       *)
(* parameter is still missing, or the object comes from an instruction     *)
(* that was encoded with an account missing.                               *)
PanicsOnlyUnvalidated ==
  ~ running => gapped \/ Incomplete
=============================================================================
