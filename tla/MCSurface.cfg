SPECIFICATION Spec
CONSTANTS
  Deployments <- MCDeployments
  Callers = {"alice", "bob"}
  OpSchema <- InputSchema
  StatusOf <- BindingStatus
  DetailsOf <- ToolDetails
  Resolved <- Resolve
  Prefilled <- Filled
  Violations <- Refusals
  Returned <- Outcome
  NameCap = 4
  Numerals <- Digit
  DefaultK = 2
  DetailBudget = 10
  DocWords = 3
  EnumValues = 2
  Budget = 5
  LooseBudget = 3
  NudgeOver = 3
  MaxRefChain = 2
  MaxNodes = 8
  MaxBody = 4
  MaxPermits = 9
INVARIANTS
  MentionsOnlyVisible
  SearchNotStarved
  NeverTooStrict
  SecretAuthoritative
  RequestFaithful
  StrippedNeverShown
  ResultsFaithful
  DetailsComplete
PROPERTY
  ListingsHonoured
CHECK_DEADLOCK FALSE
