------------------------- MODULE Token2022Extensions -------------------------
(*****************************************************************************)
(* The instructions of the extensions of Token-2022                          *)
(* (spl_token_2022/extension/*/instructions.go). All but those of            *)
(* token_group are sent inside an instruction of Token2022Instructions.      *)
(*****************************************************************************)
EXTENDS InstructionSchema

-----------------------------------------------------------------------------
(* transfer_fee.                                                             *)

TransferFeeInitializeTransferFeeConfig ==
  Kind(0, {"transferFeeBasisPoints", "maximumFee"},
    {"transferFeeConfigAuthority", "withdrawWithheldAuthority"},
  <<W("mint")>>)

TransferFeeTransferCheckedWithFee ==
  Kind(1, {"amount", "decimals", "fee"}, {},
  <<W("source"), R("mint"), R("destination"), S("authority")>>)

TransferFeeWithdrawWithheldTokensFromMint == Kind(2, {}, {},
  <<W("mint"), W("feeReceiver"), S("authority")>>)

TransferFeeWithdrawWithheldTokensFromAccounts ==
  Kind(3, {"numTokenAccounts"}, {},
  <<R("mint"), W("feeReceiver"), S("authority")>>)

TransferFeeHarvestWithheldTokensToMint == Kind(4, {}, {}, <<W("mint")>>)

TransferFeeSetTransferFee ==
  Kind(5, {"transferFeeBasisPoints", "maximumFee"}, {},
  <<W("mint"), S("authority")>>)

TransferFeeKinds ==
  <<TransferFeeInitializeTransferFeeConfig,
    TransferFeeTransferCheckedWithFee,
    TransferFeeWithdrawWithheldTokensFromMint,
    TransferFeeWithdrawWithheldTokensFromAccounts,
    TransferFeeHarvestWithheldTokensToMint, TransferFeeSetTransferFee>>

-----------------------------------------------------------------------------
(* default_account_state.                                                    *)

DefaultAccountStateInitialize == Kind(0, {"state"}, {}, <<W("mint")>>)

DefaultAccountStateUpdate == Kind(1, {"state"}, {},
  <<W("mint"), S("mintAuthority")>>)

DefaultAccountStateKinds ==
  <<DefaultAccountStateInitialize, DefaultAccountStateUpdate>>

-----------------------------------------------------------------------------
(* memo_transfer.                                                            *)

MemoTransferEnable == Kind(0, {}, {}, <<W("account"), S("accountOwner")>>)

MemoTransferDisable == Kind(1, {}, {}, <<W("account"), S("accountOwner")>>)

MemoTransferKinds ==
  <<MemoTransferEnable, MemoTransferDisable>>

-----------------------------------------------------------------------------
(* interest_bearing_mint.                                                    *)

InterestBearingMintInitialize == Kind(0, {"rateAuthority", "rate"}, {},
  <<W("mint")>>)

InterestBearingMintUpdateRate == Kind(1, {"rate"}, {},
  <<W("mint"), S("authority")>>)

InterestBearingMintKinds ==
  <<InterestBearingMintInitialize, InterestBearingMintUpdateRate>>

-----------------------------------------------------------------------------
(* cpi_guard.                                                                *)

CpiGuardEnable == Kind(0, {}, {}, <<W("account"), S("owner")>>)

CpiGuardDisable == Kind(1, {}, {}, <<W("account"), S("owner")>>)

CpiGuardKinds ==
  <<CpiGuardEnable, CpiGuardDisable>>

-----------------------------------------------------------------------------
(* transfer_hook.                                                            *)

TransferHookInitialize == Kind(0, {"authority", "programId"}, {},
  <<W("mint")>>)

TransferHookUpdate == Kind(1, {"programId"}, {},
  <<W("mint"), S("authority")>>)

TransferHookKinds ==
  <<TransferHookInitialize, TransferHookUpdate>>

-----------------------------------------------------------------------------
(* metadata_pointer.                                                         *)

MetadataPointerInitialize == Kind(0, {"authority", "metadataAddress"}, {},
  <<W("mint")>>)

MetadataPointerUpdate == Kind(1, {"metadataAddress"}, {},
  <<W("mint"), S("owner")>>)

MetadataPointerKinds ==
  <<MetadataPointerInitialize, MetadataPointerUpdate>>

-----------------------------------------------------------------------------
(* group_pointer.                                                            *)

GroupPointerInitialize == Kind(0, {"authority", "groupAddress"}, {},
  <<W("mint")>>)

GroupPointerUpdate == Kind(1, {"groupAddress"}, {},
  <<W("mint"), S("authority")>>)

GroupPointerKinds ==
  <<GroupPointerInitialize, GroupPointerUpdate>>

-----------------------------------------------------------------------------
(* group_member_pointer.                                                     *)

GroupMemberPointerInitialize == Kind(0, {"authority", "memberAddress"}, {},
  <<W("mint")>>)

GroupMemberPointerUpdate == Kind(1, {"memberAddress"}, {},
  <<W("mint"), S("authority")>>)

GroupMemberPointerKinds ==
  <<GroupMemberPointerInitialize, GroupMemberPointerUpdate>>

-----------------------------------------------------------------------------
(* token_group: an interface with eight-byte discriminators.                 *)

TokenGroupInitialize ==
  Kind(<<121, 113, 108, 39, 54, 51, 0, 4>>, {"updateAuthority", "maxSize"},
    {},
  <<W("group"), R("mint"), S("mintAuthority")>>)

TokenGroupUpdateGroupMaxSize ==
  Kind(<<108, 37, 171, 143, 248, 30, 18, 110>>, {"maxSize"}, {},
  <<W("group"), S("updateAuthority")>>)

TokenGroupUpdateGroupAuthority ==
  Kind(<<161, 105, 88, 1, 237, 221, 216, 203>>, {"newAuthority"}, {},
  <<W("group"), S("updateAuthority")>>)

TokenGroupInitializeMember ==
  Kind(<<152, 32, 222, 176, 223, 237, 116, 134>>, {}, {},
  <<W("member"), R("memberMint"), S("memberMintAuthority"), W("group"),
    S("groupUpdateAuthority")>>)

TokenGroupKinds ==
  <<TokenGroupInitialize, TokenGroupUpdateGroupMaxSize,
    TokenGroupUpdateGroupAuthority, TokenGroupInitializeMember>>

=============================================================================
