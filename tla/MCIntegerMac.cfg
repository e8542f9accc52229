CONSTANTS
  W_BITS = 2
  A_BITS = 2
  ACC_BITS = 4
  OUT_BITS = 3
  ScaleExps <- MCScales
  Biases <- MCBiases
SPECIFICATION MacSpec
INVARIANTS
  OutputsAreModelC
