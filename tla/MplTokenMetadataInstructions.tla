--------------------- MODULE MplTokenMetadataInstructions ---------------------
(*****************************************************************************)
(* The instructions of the Metaplex token metadata program: what each        *)
(* builder of mpl_token_metadata/instructions.go asks for, in the order of   *)
(* mod.go.                                                                   *)
(*****************************************************************************)
EXTENDS InstructionSchema

CreateMetadataAccount == Kind(0, {}, {},
  <<W("metadata"), R("mint"), S("mintAuthority"), WS("payer"),
    R("updateAuthority"), R("systemProgram"), R("rent")>>)

UpdateMetadataAccount == Kind(1, {}, {},
  <<W("metadata"), S("updateAuthority")>>)

DeprecatedCreateMasterEdition == Kind(2, {}, {},
  <<W("edition"), W("mint"), W("printingMint"),
    W("oneTimePrintingAuthorizationMint"), S("updateAuthority"),
    S("printingMintAuthority"), S("mintAuthority"), R("metadata"),
    S("payer"), R("tokenProgram"), R("systemProgram"), R("rent"),
    S("oneTimePrintingAuthorizationMintAuthority")>>)

DeprecatedMintNewEditionFromMasterEditionViaPrintingToken == Kind(3, {}, {},
  <<W("metadata"), W("edition"), W("masterEdition"), W("mint"),
    S("mintAuthority"), W("printingMint"), W("masterTokenAccount"),
    W("editionMarker"), S("burnAuthority"), S("payer"),
    R("masterUpdateAuthority"), R("masterMetadata"), R("tokenProgram"),
    R("systemProgram"), R("rent"), W("reservationList")>>)

UpdatePrimarySaleHappenedViaToken == Kind(4, {}, {},
  <<W("metadata"), S("owner"), R("token")>>)

DeprecatedSetReservationList == Kind(5, {}, {},
  <<W("masterEdition"), W("reservationList"), S("resource")>>)

DeprecatedCreateReservationList == Kind(6, {}, {},
  <<W("reservationList"), S("payer"), S("updateAuthority"),
    R("masterEdition"), R("resource"), R("metadata"), R("systemProgram"),
    R("rent")>>)

SignMetadata == Kind(7, {}, {}, <<W("metadata"), S("creator")>>)

DeprecatedMintPrintingTokensViaToken == Kind(8, {}, {},
  <<W("destination"), W("token"), W("oneTimePrintingAuthorizationMint"),
    W("printingMint"), S("burnAuthority"), R("metadata"),
    R("masterEdition"), R("tokenProgram"), R("rent")>>)

DeprecatedMintPrintingTokens == Kind(9, {}, {},
  <<W("destination"), W("printingMint"), S("updateAuthority"),
    R("metadata"), R("masterEdition"), R("tokenProgram"), R("rent")>>)

CreateMasterEdition == Kind(10, {}, {},
  <<W("edition"), W("mint"), S("updateAuthority"), S("mintAuthority"),
    WS("payer"), R("metadata"), R("tokenProgram"), R("systemProgram"),
    R("rent")>>)

MintNewEditionFromMasterEditionViaToken ==
  Kind(11, {"mintNewEditionFromMasterEditionViaTokenArgs"}, {},
  <<W("newMetadata"), W("newEdition"), W("masterEdition"), W("newMint"),
    W("editionMarkPda"), S("newMintAuthority"), WS("payer"),
    S("tokenAccountOwner"), R("tokenAccount"),
    R("newMetadataUpdateAuthority"), R("metadata"), R("tokenProgram"),
    R("systemProgram"), R("rent")>>)

ConvertMasterEditionV1ToV2 == Kind(12, {}, {},
  <<W("masterEdition"), W("oneTimeAuth"), W("printingMint")>>)

MintNewEditionFromMasterEditionViaVaultProxy ==
  Kind(13, {"mintNewEditionFromMasterEditionViaTokenArgs"}, {},
  <<W("newMetadata"), W("newEdition"), W("masterEdition"), W("newMint"),
    W("editionMarkPda"), S("newMintAuthority"), WS("payer"),
    S("vaultAuthority"), R("safetyDepositStore"), R("safetyDepositBox"),
    R("vault"), R("newMetadataUpdateAuthority"), R("metadata"),
    R("tokenProgram"), R("tokenVaultProgram"), R("systemProgram"), R("rent")>>)

PuffMetadata == Kind(14, {}, {}, <<W("metadata")>>)

UpdateMetadataAccountV2 == Kind(15, {"updateMetadataAccountArgsV2"}, {},
  <<W("metadata"), S("updateAuthority")>>)

CreateMetadataAccountV2 == Kind(16, {}, {},
  <<W("metadata"), R("mint"), S("mintAuthority"), WS("payer"),
    R("updateAuthority"), R("systemProgram"), R("rent")>>)

CreateMasterEditionV3 == Kind(17, {"createMasterEditionArgs"}, {},
  <<W("edition"), W("mint"), S("updateAuthority"), S("mintAuthority"),
    WS("payer"), W("metadata"), R("tokenProgram"), R("systemProgram"),
    R("rent")>>)

VerifyCollection == Kind(18, {}, {},
  <<W("metadata"), WS("collectionAuthority"), WS("payer"),
    R("collectionMint"), R("collection"),
    R("collectionMasterEditionAccount"), R("collectionAuthorityRecord")>>)

Utilize == Kind(19, {"utilizeArgs"}, {},
  <<W("metadata"), W("tokenAccount"), W("mint"), WS("useAuthority"),
    R("owner"), R("tokenProgram"), R("ataProgram"), R("systemProgram"),
    R("rent"), W("useAuthorityRecord"), R("burner")>>)

ApproveUseAuthority == Kind(20, {"approveUseAuthorityArgs"}, {},
  <<W("useAuthorityRecord"), WS("owner"), WS("payer"), R("user"),
    W("ownerTokenAccount"), R("metadata"), R("mint"), R("burner"),
    R("tokenProgram"), R("systemProgram"), R("rent")>>)

RevokeUseAuthority == Kind(21, {}, {},
  <<W("useAuthorityRecord"), WS("owner"), R("user"), W("ownerTokenAccount"),
    R("mint"), R("metadata"), R("tokenProgram"), R("systemProgram"),
    R("rent")>>)

UnverifyCollection == Kind(22, {}, {},
  <<W("metadata"), WS("collectionAuthority"), R("collectionMint"),
    R("collection"), R("collectionMasterEditionAccount"),
    R("collectionAuthorityRecord")>>)

ApproveCollectionAuthority == Kind(23, {}, {},
  <<W("collectionAuthorityRecord"), R("newCollectionAuthority"),
    WS("updateAuthority"), WS("payer"), R("metadata"), R("mint"),
    R("systemProgram"), R("rent")>>)

RevokeCollectionAuthority == Kind(24, {}, {},
  <<W("collectionAuthorityRecord"), W("delegateAuthority"),
    WS("revokeAuthority"), R("metadata"), R("mint")>>)

SetAndVerifyCollection == Kind(25, {}, {},
  <<W("metadata"), WS("collectionAuthority"), WS("payer"),
    R("updateAuthority"), R("collectionMint"), R("collection"),
    R("collectionMasterEditionAccount"), R("collectionAuthorityRecord")>>)

FreezeDelegatedAccount == Kind(26, {}, {},
  <<WS("delegate"), W("tokenAccount"), R("edition"), R("mint"),
    R("tokenProgram")>>)

ThawDelegatedAccount == Kind(27, {}, {},
  <<WS("delegate"), W("tokenAccount"), R("edition"), R("mint"),
    R("tokenProgram")>>)

RemoveCreatorVerification == Kind(28, {}, {}, <<W("metadata"), S("creator")>>)

BurnNft == Kind(29, {}, {},
  <<W("metadata"), WS("owner"), W("mint"), W("tokenAccount"),
    W("masterEditionAccount"), R("splTokenProgram"), W("collectionMetadata")>>)

VerifySizedCollectionItem == Kind(30, {}, {},
  <<W("metadata"), S("collectionAuthority"), WS("payer"),
    R("collectionMint"), W("collection"),
    R("collectionMasterEditionAccount"), R("collectionAuthorityRecord")>>)

UnverifySizedCollectionItem == Kind(31, {}, {},
  <<W("metadata"), S("collectionAuthority"), WS("payer"),
    R("collectionMint"), W("collection"),
    R("collectionMasterEditionAccount"), R("collectionAuthorityRecord")>>)

SetAndVerifySizedCollectionItem == Kind(32, {}, {},
  <<W("metadata"), S("collectionAuthority"), WS("payer"),
    R("updateAuthority"), R("collectionMint"), W("collection"),
    R("collectionMasterEditionAccount"), R("collectionAuthorityRecord")>>)

CreateMetadataAccountV3 == Kind(33, {"createMetadataAccountArgsV3"}, {},
  <<W("metadata"), R("mint"), S("mintAuthority"), WS("payer"),
    R("updateAuthority"), R("systemProgram"), R("rent")>>)

SetCollectionSize == Kind(34, {"setCollectionSizeArgs"}, {},
  <<W("collectionMetadata"), WS("collectionAuthority"), R("collectionMint"),
    R("collectionAuthorityRecord")>>)

SetTokenStandard == Kind(35, {}, {},
  <<W("metadata"), S("updateAuthority"), R("mint"), R("edition")>>)

BubblegumSetCollectionSize == Kind(36, {"setCollectionSizeArgs"}, {},
  <<W("collectionMetadata"), S("collectionAuthority"), R("collectionMint"),
    S("bubblegumSigner"), R("collectionAuthorityRecord")>>)

BurnEditionNft == Kind(37, {}, {},
  <<W("metadata"), WS("owner"), W("printEditionMint"),
    R("masterEditionMint"), W("printEditionTokenAccount"),
    R("masterEditionTokenAccount"), W("masterEditionAccount"),
    W("printEditionAccount"), W("editionMarkerAccount"),
    R("splTokenProgram")>>)

CreateEscrowAccount == Kind(38, {}, {},
  <<W("escrow"), W("metadata"), R("mint"), R("tokenAccount"), R("edition"),
    WS("payer"), R("systemProgram"), R("sysvarInstructions"), S("authority")>>)

CloseEscrowAccount == Kind(39, {}, {},
  <<W("escrow"), W("metadata"), R("mint"), R("tokenAccount"), R("edition"),
    WS("payer"), R("systemProgram"), R("sysvarInstructions")>>)

TransferOutOfEscrow == Kind(40, {"transferOutOfEscrowArgs"}, {},
  <<R("escrow"), W("metadata"), WS("payer"), R("attributeMint"),
    W("attributeSrc"), W("attributeDst"), R("escrowMint"),
    R("escrowAccount"), R("systemProgram"), R("ataProgram"),
    R("tokenProgram"), R("sysvarInstructions"), S("authority")>>)

Burn == Kind(41, {"burnArgs"}, {},
  <<WS("authority"), W("collectionMetadata"), W("metadata"), W("edition"),
    W("mint"), W("token"), W("masterEdition"), R("masterEditionMint"),
    R("masterEditionToken"), W("editionMarker"), W("tokenRecord"),
    R("systemProgram"), R("sysvarInstructions"), R("splTokenProgram")>>)

Create == Kind(42, {"createArgs"}, {},
  <<W("metadata"), W("masterEdition"), W("mint"), S("authority"),
    WS("payer"), R("updateAuthority"), R("systemProgram"),
    R("sysvarInstructions"), R("splTokenProgram")>>)

Mint == Kind(43, {"mintArgs"}, {},
  <<W("token"), R("tokenOwner"), R("metadata"), W("masterEdition"),
    W("tokenRecord"), W("mint"), S("authority"), R("delegateRecord"),
    WS("payer"), R("systemProgram"), R("sysvarInstructions"),
    R("splTokenProgram"), R("splAtaProgram"),
    R("authorizationRulesProgram"), R("authorizationRules")>>)

Delegate == Kind(44, {"delegateArgs"}, {},
  <<W("delegateRecord"), R("delegate"), W("metadata"), R("masterEdition"),
    W("tokenRecord"), R("mint"), W("token"), S("authority"), WS("payer"),
    R("systemProgram"), R("sysvarInstructions"), R("splTokenProgram"),
    R("authorizationRulesProgram"), R("authorizationRules")>>)

Revoke == Kind(45, {"revokeArgs"}, {},
  <<W("delegateRecord"), R("delegate"), W("metadata"), R("masterEdition"),
    W("tokenRecord"), R("mint"), W("token"), S("authority"), WS("payer"),
    R("systemProgram"), R("sysvarInstructions"), R("splTokenProgram"),
    R("authorizationRulesProgram"), R("authorizationRules")>>)

Lock == Kind(46, {"lockArgs"}, {},
  <<S("authority"), R("tokenOwner"), W("token"), R("mint"), W("metadata"),
    R("edition"), W("tokenRecord"), WS("payer"), R("systemProgram"),
    R("sysvarInstructions"), R("splTokenProgram"),
    R("authorizationRulesProgram"), R("authorizationRules")>>)

Unlock == Kind(47, {"unlockArgs"}, {},
  <<S("authority"), R("tokenOwner"), W("token"), R("mint"), W("metadata"),
    R("edition"), W("tokenRecord"), WS("payer"), R("systemProgram"),
    R("sysvarInstructions"), R("splTokenProgram"),
    R("authorizationRulesProgram"), R("authorizationRules")>>)

Migrate == Kind(48, {}, {},
  <<W("metadata"), W("edition"), W("token"), R("tokenOwner"), R("mint"),
    WS("payer"), S("authority"), R("collectionMetadata"),
    R("delegateRecord"), W("tokenRecord"), R("systemProgram"),
    R("sysvarInstructions"), R("splTokenProgram"),
    R("authorizationRulesProgram"), R("authorizationRules")>>)

Transfer == Kind(49, {"transferArgs"}, {},
  <<W("token"), R("tokenOwner"), W("destination"), R("destinationOwner"),
    R("mint"), W("metadata"), R("edition"), W("ownerTokenRecord"),
    W("destinationTokenRecord"), S("authority"), WS("payer"),
    R("systemProgram"), R("sysvarInstructions"), R("splTokenProgram"),
    R("splAtaProgram"), R("authorizationRulesProgram"),
    R("authorizationRules")>>)

Update == Kind(50, {"updateArgs"}, {},
  <<S("authority"), R("delegateRecord"), R("token"), R("mint"),
    W("metadata"), R("edition"), WS("payer"), R("systemProgram"),
    R("sysvarInstructions"), R("authorizationRulesProgram"),
    R("authorizationRules")>>)

Use == Kind(51, {"useArgs"}, {},
  <<S("authority"), W("delegateRecord"), W("token"), R("mint"),
    W("metadata"), W("edition"), S("payer"), R("systemProgram"),
    R("sysvarInstructions"), R("splTokenProgram"),
    R("authorizationRulesProgram"), R("authorizationRules")>>)

Verify == Kind(52, {"verificationArgs"}, {},
  <<S("authority"), R("delegateRecord"), W("metadata"), R("collectionMint"),
    W("collectionMetadata"), R("collectionMasterEdition"),
    R("systemProgram"), R("sysvarInstructions")>>)

Unverify == Kind(53, {"verificationArgs"}, {},
  <<S("authority"), R("delegateRecord"), W("metadata"), R("collectionMint"),
    W("collectionMetadata"), R("systemProgram"), R("sysvarInstructions")>>)

Collect == Kind(54, {}, {}, <<S("authority"), R("recipient")>>)

PrintEdition == Kind(55, {"printArgs"}, {},
  <<W("editionMetadata"), W("edition"), W("editionMint"),
    R("editionTokenAccountOwner"), W("editionTokenAccount"),
    S("editionMintAuthority"), W("editionTokenRecord"), W("masterEdition"),
    W("editionMarkerPda"), WS("payer"), S("masterTokenAccountOwner"),
    R("masterTokenAccount"), R("masterMetadata"), R("updateAuthority"),
    R("splTokenProgram"), R("splAtaProgram"), R("sysvarInstructions"),
    R("systemProgram")>>)

Kinds ==
  <<CreateMetadataAccount, UpdateMetadataAccount,
    DeprecatedCreateMasterEdition,
    DeprecatedMintNewEditionFromMasterEditionViaPrintingToken,
    UpdatePrimarySaleHappenedViaToken, DeprecatedSetReservationList,
    DeprecatedCreateReservationList, SignMetadata,
    DeprecatedMintPrintingTokensViaToken, DeprecatedMintPrintingTokens,
    CreateMasterEdition, MintNewEditionFromMasterEditionViaToken,
    ConvertMasterEditionV1ToV2, MintNewEditionFromMasterEditionViaVaultProxy,
    PuffMetadata, UpdateMetadataAccountV2, CreateMetadataAccountV2,
    CreateMasterEditionV3, VerifyCollection, Utilize, ApproveUseAuthority,
    RevokeUseAuthority, UnverifyCollection, ApproveCollectionAuthority,
    RevokeCollectionAuthority, SetAndVerifyCollection, FreezeDelegatedAccount,
    ThawDelegatedAccount, RemoveCreatorVerification, BurnNft,
    VerifySizedCollectionItem, UnverifySizedCollectionItem,
    SetAndVerifySizedCollectionItem, CreateMetadataAccountV3,
    SetCollectionSize, SetTokenStandard, BubblegumSetCollectionSize,
    BurnEditionNft, CreateEscrowAccount, CloseEscrowAccount,
    TransferOutOfEscrow, Burn, Create, Mint, Delegate, Revoke, Lock, Unlock,
    Migrate, Transfer, Update, Use, Verify, Unverify, Collect, PrintEdition>>

=============================================================================
