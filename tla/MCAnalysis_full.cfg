\* The erasure code in its own size: every loss of up to three of 56 blocks.
\* The signal chain: rings of 3 and 2 taps, every impulse.
CONSTANTS
  BLOCK_COUNT = 56
  PARITY_BITS = 6
  MAX_MISSING = 2
  MAX_LOST = 3
  Oversampling = 2
  AdcSamples = 14
  FftSize = 4
  Stride = 2
  Filtered = 5
  Settled = 6
  Weights <- FilterWeights
  Oscillator <- Oscillators
  Signals <- Impulses
SPECIFICATION BothSpec
INVARIANTS RepairRestores OutputIsConvolution
PROPERTIES RefusesExactly
