SPECIFICATION Spec
CONSTANTS
  Facts <- FewFacts
  NoPath = NoPath
  Noise = {0}
  Names <- FewNames
  TokensOf <- FewTokensOf
  Buffer = 23
  Capacity = 5
INVARIANTS
  OwnCheckoutIsCO
