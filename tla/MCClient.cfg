CONSTANTS
  Sizes = {0, 1, 2, 3}
  Unset = Unset
  PatchValues = {"x", "y"}
  MaxPatchCalls = 3
  BulkTable <- MCBulkTable
  ListChoices <- MCListChoices
  RangeChoices <- MCRangeChoices
  JqChoices = {{"typical", "queue"}}
  MaxFilters = 2
  MsLimit = 16
  Payloads <- MCPayloads
  KeySpecs <- MCKeySpecs
  BatchSpecs <- MCBatchSpecs
  BatchPayloads <- MCBatchPayloads
  MaxBatched = 3
  Statuses = {200, 204, 404, 409, 422, 503}
  BaseUrls <- MCBaseUrls
  Names <- MCNames
  MaxEndpointCalls = 1
  Attributes <- MCAttributes
  MaxAttributes = 2
  JobKinds <- MCJobKinds
  FieldChoices <- MCFieldChoices
  BudgetChoices = {"1", "2"}
  MaxEnqueueCalls = 3
  PayloadKinds <- MCPayloadKinds
  Texts = {"x", "y"}
  MaxRoutes = 2
  MaxTyped = 1
SPECIFICATION ClientSpec
INVARIANTS
  TypeOK
  FitToRun
  ExplicitPrefetchKept
  DuplicatesAgree
  FoldKeepsEverything
  OpenBatchesDiffer
  AttributesHonoured
  EnqueuedAsAsked
PROPERTIES
  
  OnlyMeantJobs
  
  HandlerGetsPayload
CHECK_DEADLOCK FALSE
