------------------------ MODULE AssociatedAndMetadata ------------------------
(*****************************************************************************)
(* The instructions of the associated token account program and of the token *)
(* metadata interface.                                                       *)
(*****************************************************************************)
EXTENDS InstructionSchema

-----------------------------------------------------------------------------
(* associated_token_account/instructions.go                                  *)

AssociatedCreate == Kind(0, {}, {},
  <<WS("account"), W("associatedAccount"), R("walletAddress"), R("mint"),
    R("system"), R("splTokenProgram")>>)

AssociatedCreateIdempotent == Kind(1, {}, {},
  <<WS("account"), W("associatedAccount"), R("walletAddress"), R("mint"),
    R("system"), R("splTokenProgram")>>)

AssociatedRecoverNested == Kind(2, {}, {},
  <<W("nestedAssociatedAccount"), R("mintNata"),
    W("walletAssociatedAccount"), R("nestedAssociatedAccountOwner"),
    R("mintOata"), WS("wallet"), R("splTokenProgram")>>)

AssociatedTokenAccountKinds ==
  <<AssociatedCreate, AssociatedCreateIdempotent, AssociatedRecoverNested>>

-----------------------------------------------------------------------------
(* token_metadata/instructions.go                                            *)

MetadataInitialize ==
  Kind(<<210, 225, 30, 162, 88, 184, 77, 141>>, {"name", "symbol", "uri"}, {},
  <<W("metadata"), R("updateAuthority"), R("mint"), S("mintAuthority")>>)

MetadataUpdateField ==
  Kind(<<221, 233, 49, 45, 181, 202, 220, 200>>, {"field", "value"}, {},
  <<W("metadata"), S("updateAuthority")>>)

MetadataRemoveKey ==
  Kind(<<234, 18, 32, 56, 89, 141, 37, 181>>, {"idempotent", "key"}, {},
  <<W("metadata"), S("updateAuthority")>>)

MetadataUpdateAuthority ==
  Kind(<<215, 228, 166, 228, 84, 100, 86, 123>>, {"newAuthority"}, {},
  <<W("metadata"), S("updateAuthority")>>)

MetadataEmit ==
  Kind(<<250, 166, 180, 250, 13, 12, 184, 70>>, {}, {"start", "end"},
  <<R("metadata")>>)

TokenMetadataKinds ==
  <<MetadataInitialize, MetadataUpdateField, MetadataRemoveKey,
    MetadataUpdateAuthority, MetadataEmit>>

=============================================================================
