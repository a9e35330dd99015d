\* A second of 2 * 6 cycles, 2 samples in the ring, the loop frozen, a receiver
\* that pulses every second: squares of errors beyond MAX_PPS_ERROR wrap, and
\* Margin is two cycles.
CONSTANTS
  DIV_LSB = 2
  DIV_MSB = 6
  PULSE = 2
  CLK_NS = 2
  UPPS_LSB = 0
  MAX_PPS_ERROR = 7
  MAX_FB = 8
  ZERO_FB = 4
  RING_SIZE = 2
  SETTLED_VAR = 3
  ERROR_LIMIT = 2
  PID_RES = 2
  PID_STABLE <- Frozen
  PID_FAST <- Frozen
  INT_HALF = 64
SPECIFICATION FairSpec
INVARIANTS SettledIsAccurate
PROPERTIES RealignLasts EventuallySettles StatusIsWindow
