------------------------ MODULE Token2022Instructions ------------------------
(*****************************************************************************)
(* The instructions of the Token-2022 program: what each builder of          *)
(* spl_token_2022/instructions.go asks for, in the order of mod.go. Those of *)
(* the extensions carry the data of an instruction of Token2022Extensions    *)
(* and take their accounts from it.                                          *)
(*****************************************************************************)
EXTENDS InstructionSchema

InitializeMint == Kind(0, {"decimals", "authority"}, {"freezeAuthority"},
  <<W("mint"), R("rent")>>)

InitializeAccount == Kind(1, {}, {},
  <<W("account"), R("mint"), R("authority"), R("rent")>>)

InitializeMultisig == Kind(2, {"m"}, {}, <<W("account"), R("rent")>>)

Transfer == Kind(3, {"amount"}, {},
  <<W("source"), W("destination"), S("authority")>>)

Approve == Kind(4, {"amount"}, {},
  <<W("source"), R("delegate"), S("authority")>>)

Revoke == Kind(5, {}, {}, <<W("source"), S("authority")>>)

SetAuthority == Kind(6, {"authorityType"}, {"newAuthority"},
  <<W("currentAuthority"), S("accountOrMint")>>)

MintTo == Kind(7, {"amount"}, {}, <<W("mint"), W("to"), S("authority")>>)

Burn == Kind(8, {"amount"}, {}, <<W("burnFrom"), W("mint"), S("authority")>>)

CloseAccount == Kind(9, {}, {},
  <<W("account"), W("destination"), S("authority")>>)

FreezeAccount == Kind(10, {}, {}, <<W("account"), R("mint"), S("authority")>>)

ThawAccount == Kind(11, {}, {}, <<W("account"), R("mint"), S("authority")>>)

TransferChecked == Kind(12, {"amount", "decimals"}, {},
  <<W("source"), R("mint"), W("destination"), S("authority")>>)

ApproveChecked == Kind(13, {"amount", "decimals"}, {},
  <<W("source"), R("mint"), R("delegate"), S("authority")>>)

MintToChecked == Kind(14, {"amount", "decimals"}, {},
  <<W("mint"), W("to"), S("authority")>>)

BurnChecked == Kind(15, {"amount", "decimals"}, {},
  <<W("burnFrom"), W("mint"), S("authority")>>)

InitializeAccount2 == Kind(16, {"owner"}, {},
  <<W("account"), R("mint"), R("rent")>>)

SyncNative == Kind(17, {}, {}, <<W("account")>>)

InitializeAccount3 == Kind(18, {"owner"}, {}, <<W("account"), R("mint")>>)

InitializeMultisig2 == Kind(19, {"m"}, {}, <<W("account")>>)

InitializeMint2 == Kind(20, {"decimals", "authority"}, {"freezeAuthority"},
  <<W("mint")>>)

GetAccountDataSize == Kind(21, {"extensionTypes"}, {}, <<R("mint")>>)

InitializeImmutableOwner == Kind(22, {}, {}, <<W("account")>>)

AmountToUiAmount == Kind(23, {"amount"}, {}, <<R("mint")>>)

UiAmountToAmount == Unreadable(24, {"uiAmount"}, {}, <<R("mint")>>)

InitializeMintCloseAuthority == Kind(25, {}, {"closeAuthority"},
  <<W("mint")>>)

TransferFeeExtension == Kind(26, {"data"}, {}, <<>>)

ConfidentialTransferExtension == Kind(27, {"data"}, {}, <<>>)

DefaultAccountStateExtension == Kind(28, {"data"}, {}, <<>>)

Reallocate == Kind(29, {}, {},
  <<W("account"), WS("payer"), R("system"), S("accountOwner")>>)

MemoTransferExtension == Kind(30, {"data"}, {}, <<>>)

CreateNativeMint == Kind(31, {}, {},
  <<WS("funding"), W("nativeMint"), R("system")>>)

InitializeNonTransferableMint == Kind(32, {}, {}, <<W("mint")>>)

InterestBearingMintExtension == Kind(33, {"data"}, {}, <<>>)

CpiGuardExtension == Kind(34, {"data"}, {}, <<>>)

InitializePermanentDelegate == Kind(35, {"delegate"}, {}, <<W("mint")>>)

TransferHookExtension == Kind(36, {"data"}, {}, <<>>)

ConfidentialTransferFeeExtension == Kind(37, {"data"}, {}, <<>>)

WithdrawExcessLamports == Kind(38, {}, {},
  <<W("source"), W("destination"), S("authority")>>)

MetadataPointerExtension == Kind(39, {"data"}, {}, <<>>)

GroupPointerExtension == Kind(40, {"data"}, {}, <<>>)

GroupMemberPointerExtension == Kind(41, {"data"}, {}, <<>>)

Kinds ==
  <<InitializeMint, InitializeAccount, InitializeMultisig, Transfer,
    Approve, Revoke, SetAuthority, MintTo, Burn, CloseAccount, FreezeAccount,
    ThawAccount, TransferChecked, ApproveChecked, MintToChecked, BurnChecked,
    InitializeAccount2, SyncNative, InitializeAccount3, InitializeMultisig2,
    InitializeMint2, GetAccountDataSize, InitializeImmutableOwner,
    AmountToUiAmount, UiAmountToAmount, InitializeMintCloseAuthority,
    TransferFeeExtension, ConfidentialTransferExtension,
    DefaultAccountStateExtension, Reallocate, MemoTransferExtension,
    CreateNativeMint, InitializeNonTransferableMint,
    InterestBearingMintExtension, CpiGuardExtension,
    InitializePermanentDelegate, TransferHookExtension,
    ConfidentialTransferFeeExtension, WithdrawExcessLamports,
    MetadataPointerExtension, GroupPointerExtension,
    GroupMemberPointerExtension>>

=============================================================================
