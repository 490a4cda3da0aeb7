SPECIFICATION ToolkitSpec
CONSTANTS
  Packages <- MCPackages
  SignerLists <- MCSignerLists
  MaxForgotten = 1
  MaxCalls = 1
  MaxAdded = 2
  Uploaders = {u1, u2}
  PriceLists <- MCPriceLists
  Deposits = {0, 1}
  MaxAttempts = 2
  DataLengths = {0, 500, 932, 1864, 2000, 2796}
  ChunkSize = 932
  MaxLoads = 2
  Schedules <- MCSchedules
  MaxSlot = 400
  MintRequests <- MCMintRequests
INVARIANTS BuilderTypeOK ValidatedIsInPlace SomebodyAuthorizes NeverMistaken PanicsOnlyUnvalidated SuccessIsCovered ChunksFit MintReadsBack
PROPERTIES PaymentLasts EpochsFollow EveryUploadEnds EveryLoadEnds
CHECK_DEADLOCK FALSE
