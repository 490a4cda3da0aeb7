SPECIFICATION VersionedSpec
CONSTANTS
  AccountKeys = {1, 2, 3, 4, 5, 6}
  Payer = 1
  Radix = 5
  Requests <- MCRequests
  Orders <- MCOrders
  TableStages <- MCTableStages
  TableChoices <- MCTableChoices
  CoSigner = 2
  SignerLists <- MCSignerLists
  MaxCompiles = 2
INVARIANTS VersionedTypeOK MessageMeansWhatWasAsked RefusalsHaveReason SignaturesVerify LostLookupsAreNoticed
CHECK_DEADLOCK FALSE
