SPECIFICATION WindowSpec
CONSTANTS
  WindowSize = 4
  Nonce <- MCNonce
PROPERTY ImplementsSeenSet
