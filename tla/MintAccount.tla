------------------------------ MODULE MintAccount ------------------------------
(***************************************************************************)
(* A Token-2022 mint from CreateToken and CreateMint                       *)
(* (web3kit/tokens_2022_creator.go) to GetMint and what is read from its   *)
(* extensions (web3kit/tokens_2022.go).  The program Token-2022, which     *)
(* lays the extensions out in the account, and the provider of the         *)
(* metadata's address are external.                                        *)
(***************************************************************************)
EXTENDS Naturals, Sequences, FiniteSets, SequencesExt, Selection

CONSTANTS
  MintRequests  (* calls of CreateMint, [by, extensions, provider, authority,  *)
                (* metadata], or of CreateToken, [by, args, ...]; metadata is  *)
                (* its size as it is counted and as it comes to be written     *)

MINT_SIZE == 82
ACCOUNT_SIZE == 165
ACCOUNT_TYPE_SIZE == 1
MULTISIG_SIZE == 355
TYPE_SIZE == 2
LENGTH_SIZE == 2

VARIABLES
  request,   (* what was asked for                                            *)
  step,      (* where the call is                                             *)
  exts,      (* CreateMint's extensions                                       *)
  mint,      (* the account on the chain                                      *)
  info       (* what the last GetMint and its readers returned                *)

mintVars == <<request, step, exts, mint, info>>

NoMint == [exists |-> FALSE, length |-> 0, tlv |-> <<>>]
NoInfo == [read |-> FALSE, listed |-> <<"nothing">>]

-----------------------------------------------------------------------------
ExtensionType ==
  {"Uninitialized", "TransferFeeConfig", "TransferFeeAmount",
   "MintCloseAuthority", "ConfidentialTransferMint",
   "ConfidentialTransferAccount", "DefaultAccountState", "ImmutableOwner",
   "MemoTransfer", "NonTransferable", "InterestBearingConfig", "CpiGuard",
   "PermanentDelegate", "NonTransferableAccount", "TransferHook",
   "TransferHookAccount", "ConfidentialTransferFeeConfig",
   "ConfidentialTransferFeeAmount", "MetadataPointer", "TokenMetadata",
   "GroupPointer", "TokenGroup", "GroupMemberPointer", "TokenGroupMember"}

(* GetTypeLen; it knows no other extensions.                               *)
GetTypeLen ==
  [Uninitialized |-> 0, TransferFeeConfig |-> 108, TransferFeeAmount |-> 8,
   MintCloseAuthority |-> 32, ConfidentialTransferMint |-> 97,
   ConfidentialTransferAccount |-> 286, CpiGuard |-> 1,
   DefaultAccountState |-> 1, ImmutableOwner |-> 0, MemoTransfer |-> 1,
   MetadataPointer |-> 64, NonTransferable |-> 0, InterestBearingConfig |-> 52,
   PermanentDelegate |-> 32, NonTransferableAccount |-> 0, TransferHook |-> 64,
   TransferHookAccount |-> 1]

AddTypeAndLengthToLen(n) == n + TYPE_SIZE + LENGTH_SIZE

TlvEntry(e, n) == [type |-> e, length |-> n]
TlvEntries(types) == [n \in DOMAIN types |-> TlvEntry(types[n], GetTypeLen[types[n]])]

(* Where the entry number n ends; the first begins at 0.                   *)
TlvEnds(entries) ==
  LET end[n \in 0 .. Len(entries)] ==
        IF n = 0 THEN 0
        ELSE end[n - 1] + AddTypeAndLengthToLen(entries[n].length)
  IN end

TlvLen(entries) == TlvEnds(entries)[Len(entries)]

(* An account as long as a multi-signature account would be taken for one. *)
NotMultisig(n) == IF n = MULTISIG_SIZE THEN n + TYPE_SIZE ELSE n

GetMintLen(types) ==
  IF types = <<>> THEN MINT_SIZE
  ELSE NotMultisig(ACCOUNT_SIZE + ACCOUNT_TYPE_SIZE + TlvLen(TlvEntries(types)))

(* DeDupBy: the first of each type.                                        *)
DeDup(types) == FirstOfEach(types)

(* What CreateToken asks CreateMint for.                                   *)
ExtensionsOf(args) ==
     (IF args.whitelist THEN <<"DefaultAccountState">> ELSE <<>>)
  \o (IF args.force THEN <<"PermanentDelegate">> ELSE <<>>)
  \o (IF args.fee THEN <<"TransferFeeConfig">> ELSE <<>>)

(* The extensions a provider of metadata adds, and those it does not want. *)
Added == [plex |-> <<"MintCloseAuthority", "MetadataPointer">>,
          token2022 |-> <<"MetadataPointer">>, neither |-> <<>>]

(* What the package extension has parameters for, named by the type they   *)
(* are meant for, and the type they say they are for: those of a transfer  *)
(* hook name the extension of an account that receives.                    *)
Params ==
  {"TransferFeeConfig", "MintCloseAuthority", "DefaultAccountState",
   "ImmutableOwner", "MemoTransfer", "NonTransferable",
   "InterestBearingConfig", "CpiGuard", "PermanentDelegate", "TransferHook",
   "GroupPointer", "GroupMemberPointer", "MetadataPointer"}

TypeReported(p) == IF p = "TransferHook" THEN "TransferHookAccount" ELSE p

(* The sizes are numbers of bytes, and there are two providers.            *)
ASSUME MintRequestsAssumption ==
  \A r \in MintRequests :
    /\ r.provider \in DOMAIN Added
    /\ r.metadata.counted \in Nat /\ r.metadata.written \in Nat
    /\ r.by # "CreateToken" => r.extensions \in Seq(Params)

(* ExtensionInitializationParamsToInstruction has an instruction for it;   *)
(* its case for TransferHook meets no parameters.                          *)
Initializable == Params

(* The instructions need the authority's own signature, which a            *)
(* multi-signature account cannot give.                                    *)
SignsItself(authority) == authority = "single"

-----------------------------------------------------------------------------
MintInit ==
  /\ request \in MintRequests
  /\ step = IF request.by = "CreateToken" THEN "uri" ELSE "check"
  /\ exts = <<>>
  /\ mint = NoMint
  /\ info = NoInfo

(* CreateToken: the provider gives the address of the metadata.            *)
MetadataURI ==
  /\ step = "uri"
  /\ step' \in {"check", "error"}
  /\ UNCHANGED <<request, exts, mint, info>>

Wanted ==
  IF request.by = "CreateToken"
    THEN ExtensionsOf(request.args)
    ELSE [n \in DOMAIN request.extensions |-> TypeReported(request.extensions[n])]

(* CreateMint up to its first request.                                     *)
CheckExtensions ==
  /\ step = "check"
  /\ LET clash == ToSet(Wanted) \cap
                    ({"MetadataPointer"} \cup ToSet(Added[request.provider]))
         all   == DeDup(Added[request.provider] \o Wanted)
     IN IF clash # {} \/ ~ (ToSet(all) \subseteq DOMAIN GetTypeLen)
          THEN step' = "error" /\ UNCHANGED exts
          ELSE step' = "rent" /\ exts' = all
  /\ UNCHANGED <<request, mint, info>>

(* GetMinimumBalanceForRentExemption, and the account of a                 *)
(* multi-signature; then the instructions, all of which have to exist.     *)
BuildMint ==
  /\ step = "rent"
  /\ \/ step' = "error"
     \/ /\ ToSet(exts) \subseteq Initializable
        /\ request.provider # "neither"
        /\ step' = "sign"
  /\ UNCHANGED <<request, exts, mint, info>>

(* SendAndConfirmTransaction signs first.                                  *)
SignMint ==
  /\ step = "sign"
  /\ step' = IF SignsItself(request.authority) THEN "send" ELSE "error"
  /\ UNCHANGED <<request, exts, mint, info>>

(* The lamports pay for the mint and for metadata kept in it.              *)
PaidLength ==
  GetMintLen(exts) + IF request.provider = "token2022"
                       THEN AddTypeAndLengthToLen(request.metadata.counted) ELSE 0

(* The program knows these extensions of a mint, and writes them one after *)
(* another; metadata comes behind them, in an account made longer for it.  *)
MintExtensions ==
  {"TransferFeeConfig", "MintCloseAuthority", "ConfidentialTransferMint",
   "DefaultAccountState", "NonTransferable", "InterestBearingConfig",
   "PermanentDelegate", "TransferHook", "MetadataPointer"}

Laid ==
  LET size == request.metadata.written
  IN IF request.provider = "token2022"
       THEN [exists |-> TRUE,
             length |-> NotMultisig(GetMintLen(exts) + AddTypeAndLengthToLen(size)),
             tlv    |-> Append(TlvEntries(exts), TlvEntry("TokenMetadata", size))]
       ELSE [exists |-> TRUE, length |-> GetMintLen(exts), tlv |-> TlvEntries(exts)]

(* The transaction fails, or lands as a whole, if the account is exempt    *)
(* from rent in the end; even then its confirmation may fail.              *)
Sent ==
  /\ step = "send"
  /\ \/ step' = "error" /\ UNCHANGED mint
     \/ /\ ToSet(exts) \subseteq MintExtensions
        /\ Laid.length <= PaidLength
        /\ step' \in {"created", "error"}
        /\ mint' = Laid
  /\ UNCHANGED <<request, exts, info>>

-----------------------------------------------------------------------------
(* UnpackMint tells a mint from other accounts by the account's length.    *)
Unpackable(m) ==
  /\ m.exists
  /\ m.length >= MINT_SIZE
  /\ m.length > MINT_SIZE => m.length > ACCOUNT_SIZE /\ m.length # MULTISIG_SIZE

(* A faulty form, to test that the properties can fail.                    *)
FromTheAccountOn(m) ==
  IF m.length > MINT_SIZE THEN m.length - ACCOUNT_SIZE ELSE 0

TlvRoom(m) ==
  IF m.length > MINT_SIZE THEN m.length - ACCOUNT_SIZE - ACCOUNT_TYPE_SIZE ELSE 0

(* Where the entry number n begins.                                        *)
EntryAt(m, n) == TlvEnds(m.tlv)[n - 1]

(* GetExtensionData stops where not even an empty entry has room.          *)
Readable(m, e) ==
  \E n \in DOMAIN m.tlv :
    m.tlv[n].type = e /\ AddTypeAndLengthToLen(EntryAt(m, n)) <= TlvRoom(m)

(* GetExtensionType goes on to the last byte: a rest that is no entry is   *)
(* an error.                                                               *)
TypesOf(entries) == [n \in DOMAIN entries |-> entries[n].type]

Listed(m) ==
  IF TlvRoom(m) = TlvLen(m.tlv) THEN TypesOf(m.tlv) ELSE <<"error">>

GetMint ==
  /\ step \in {"created", "error"}
  /\ mint.exists
  /\ info' = [read   |-> Unpackable(mint),
              listed |-> IF Unpackable(mint) THEN Listed(mint) ELSE <<>>]
  /\ UNCHANGED <<request, step, exts, mint>>

MintNext ==
  MetadataURI \/ CheckExtensions \/ BuildMint \/ SignMint \/ Sent \/ GetMint

MintSpec == MintInit /\ [][MintNext]_mintVars
-----------------------------------------------------------------------------
(* A mint that was created with extensions can be read: whatever they add  *)
(* up to, and however long its metadata is, its length is not taken for    *)
(* another kind of account's, each of them is found, and the list of them  *)
(* is right unless the account was made longer so as not to be taken for a *)
(* multi-signature's (GetLen, UnpackMint, GetExtensionData,                *)
(* GetExtensionType).                                                      *)
MintReadsBack ==
  info # NoInfo =>
    /\ info.read
    /\ \A e \in ToSet(TypesOf(mint.tlv)) : Readable(mint, e)
    /\ \/ info.listed = TypesOf(mint.tlv)
       \/ MULTISIG_SIZE + TYPE_SIZE \in {GetMintLen(exts), mint.length}
=============================================================================
