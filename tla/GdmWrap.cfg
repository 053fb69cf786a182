SPECIFICATION FairSpec
CONSTANTS
  Facts <- FewFacts
  NoPath = NoPath
  Noise = {0, 3, 21}
  Names <- FewNames
  TokensOf <- FewTokensOf
  Buffer = 23
  Capacity = 5
INVARIANTS
  Truthful
  SuccessIsSuccess
  NothingLeft
PROPERTIES
  CallsReturn
