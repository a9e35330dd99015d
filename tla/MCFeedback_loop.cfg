\* The loop running on a second of 2 * 3 cycles: the integrator wraps and the
\* feedback reaches both limits.  A word of two bytes of four values, a counter of
\* two bits; as in the code, MAX_FB is the largest word that leaves room for it.
CONSTANTS
  DIV_LSB = 2
  DIV_MSB = 3
  PULSE = 1
  CLK_NS = 2
  UPPS_LSB = 0
  MAX_PPS_ERROR = 3
  MAX_FB = 12
  ZERO_FB = 6
  RING_SIZE = 1
  SETTLED_VAR = 2
  ERROR_LIMIT = 4
  PID_RES = 3
  PID_STABLE <- Stable
  PID_FAST <- Fast
  INT_HALF = 32
  BYTE = 4
  DITHER = 4
SPECIFICATION MCSpec
INVARIANTS TypeOK FeedbackFollowsError DitherExact
PROPERTIES NoJump
