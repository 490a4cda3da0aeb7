------------------------------ MODULE MCToolkit ------------------------------
EXTENDS Toolkit

M == INSTANCE MplTokenMetadataInstructions
T == INSTANCE Token2022Instructions
X == INSTANCE Token2022Extensions
A == INSTANCE AssociatedAndMetadata

(* binary.Uint8TypeIDEncoding: a variant's discriminator is its position.  *)
Positions(kinds) == [n \in DOMAIN kinds |-> n - 1]
Ids(kinds) == [n \in DOMAIN kinds |-> kinds[n].id]

(* binary.AnchorTypeIDEncoding: the hash of "global:" and the name.        *)
TokenGroupVariants ==
  << <<175, 175, 109, 31, 13, 152, 155, 237>>,
     <<247, 170, 108, 180, 214, 231, 93, 148>>,
     <<113, 193, 181, 28, 214, 157, 178, 131>>,
     <<175, 223, 6, 110, 126, 61, 144, 21>> >>

Package(kinds, outer) ==
  [kinds |-> kinds, variants |-> Positions(kinds), settable |-> TRUE,
   outer |-> IF outer = 0 THEN NoKind ELSE [package |-> "spl_token_2022", index |-> outer]]

MCPackages ==
  [mpl_token_metadata |-> Package(M!Kinds, 0),
   spl_token_2022 |-> Package(T!Kinds, 0),
   associated_token_account |-> Package(A!AssociatedTokenAccountKinds, 0),
   token_metadata |-> [Package(A!TokenMetadataKinds, 0) EXCEPT
                         !.variants = Ids(A!TokenMetadataKinds)],
   token_group |-> [Package(X!TokenGroupKinds, 0) EXCEPT
                      !.variants = TokenGroupVariants],
   transfer_fee |-> Package(X!TransferFeeKinds, 27),
   default_account_state |-> Package(X!DefaultAccountStateKinds, 29),
   memo_transfer |-> Package(X!MemoTransferKinds, 31),
   interest_bearing_mint |-> Package(X!InterestBearingMintKinds, 34),
   cpi_guard |-> Package(X!CpiGuardKinds, 35),
   transfer_hook |-> [Package(X!TransferHookKinds, 37) EXCEPT !.settable = FALSE],
   metadata_pointer |-> Package(X!MetadataPointerKinds, 40),
   group_pointer |-> Package(X!GroupPointerKinds, 41),
   group_member_pointer |-> Package(X!GroupMemberPointerKinds, 42)]

MCSignerLists == {<<>>, <<"m1", "m2">>}

(* An image that costs a whole payment for the metadata.                   *)
MCPriceLists == {[image |-> 5, json |-> 1]}

(* A cluster with and one without short epochs.                            *)
MCSchedules ==
  {[SlotsPerEpoch |-> 128, FirstNormalEpoch |-> 2, FirstNormalSlot |-> 96],
   [SlotsPerEpoch |-> 128, FirstNormalEpoch |-> 0, FirstNormalSlot |-> 0]}

(* Any of the extensions CreateMint can give a mint, one of them twice, and*)
(* such as it does not take or the program does not.                       *)
MCExtensionLists ==
  {SetToSeq(s) : s \in SUBSET {"TransferFeeConfig", "MintCloseAuthority",
     "DefaultAccountState", "NonTransferable", "InterestBearingConfig",
     "PermanentDelegate"}}
  \cup {<<"PermanentDelegate", "NonTransferable", "PermanentDelegate">>,
        <<"TransferHook">>, <<"NonTransferable", "TransferHook">>,
        <<"GroupPointer">>, <<"ImmutableOwner">>, <<"MetadataPointer">>}

MCArgs == [whitelist : BOOLEAN, force : BOOLEAN, fee : BOOLEAN]

(* Metadata that fits anywhere; that makes an account with a pointer to it *)
(* only as long as a multi-signature; and of which a part is not written.  *)
MCMetadata ==
  {[counted |-> 100, written |-> 100], [counted |-> 117, written |-> 117],
   [counted |-> 140, written |-> 117]}
NoMetadata == {[counted |-> 0, written |-> 0]}

MCMintRequests ==
  UNION {[by : {"CreateMint"}, extensions : MCExtensionLists, provider : {p},
          authority : {"single", "multi"},
          metadata : IF p = "token2022" THEN MCMetadata ELSE NoMetadata]
         \cup
         [by : {"CreateToken"}, args : MCArgs, provider : {p} \ {"neither"},
          authority : {"single", "multi"},
          metadata : IF p = "token2022" THEN MCMetadata ELSE NoMetadata] :
           p \in {"plex", "token2022", "neither"}}
=============================================================================
