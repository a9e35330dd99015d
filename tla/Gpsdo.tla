------------------------------- MODULE Gpsdo -------------------------------
(***************************************************************************)
(* The GPS-disciplined oscillator of avr/gpsdo/gpsdo.c: the capture of the *)
(* receiver's pulse (gPPS) and of the locally generated one (uPPS), the    *)
(* PID loop that steers the oscillator, the hard realignment of uPPS, the  *)
(* status ring and the "PLL Stable" verdict the web page shows.            *)
(*                                                                         *)
(* A position is a count of oscillator cycles inside the local second,     *)
(* 0..DIV_ALL-1; a capture is the pair of timer registers <<lsb, msb>>.    *)
(* The environment may put the receiver's pulse anywhere: drift, jitter,   *)
(* a lost fix and a receiver restart are all such choices.                 *)
(*                                                                         *)
(* Abstracted: the LEDs, the temperature channel (a second ring with the   *)
(* same index and no influence on the loop) and the float formatting of    *)
(* the mean, the RMS and the adjustment; the RMS keeps its integer sum of  *)
(* squares, and the test pllErrorRms <= SETTLED_VAR is taken on that sum.  *)
(***************************************************************************)
EXTENDS Integers, FiniteSets, Functions

CONSTANTS
    DIV_LSB, DIV_MSB,       \* periods of the prescaler and of the counter
    PULSE,                  \* width of the uPPS pulse, in counter ticks
    CLK_NS,                 \* one oscillator cycle, in nanoseconds
    UPPS_LSB,               \* prescaler count at which a uPPS edge is captured
    MAX_PPS_ERROR,          \* beyond it uPPS is realigned
    MAX_FB, ZERO_FB,        \* range and centre of the feedback word
    RING_SIZE, SETTLED_VAR, \* statistics window and its RMS threshold
    ERROR_LIMIT, PID_RES,   \* input clamp and output divisor of the PID loop
    PID_STABLE, PID_FAST,   \* gains [P, I, D] once settled, and until then
    INT_HALF                \* int32_t ranges over -INT_HALF .. INT_HALF - 1

DIV_ALL == DIV_LSB * DIV_MSB
Gains == [P : Nat, I : Nat, D : Nat]
NoGains == [P |-> 0, I |-> 0, D |-> 0]

ASSUME DivAssumption ==
    /\ DIV_LSB \in Nat \ {0} /\ DIV_MSB \in Nat \ {0}
    /\ DIV_ALL % 2 = 0
    /\ PULSE \in 1..(DIV_MSB - 1)
    /\ CLK_NS \in Nat \ {0} /\ CLK_NS % 2 = 0
    /\ UPPS_LSB \in 0..(DIV_LSB - 1)

ASSUME LoopAssumption ==
    /\ ZERO_FB \in Nat /\ MAX_FB \in Nat /\ ZERO_FB <= MAX_FB
    /\ RING_SIZE \in Nat \ {0}
    /\ SETTLED_VAR \in Nat /\ ERROR_LIMIT \in Nat
    /\ PID_RES \in Nat \ {0}
    /\ PID_STABLE \in Gains /\ PID_FAST \in Gains

(***************************************************************************)
(* 20000^2 = 4*10^8 < 2^31: the square of an error that does not force a   *)
(* realignment fits an int32_t.  Nothing is assumed of larger errors: they *)
(* reach 5*10^8 ns, whose square does not fit.                             *)
(***************************************************************************)
ASSUME WidthAssumption ==
    /\ INT_HALF \in Nat \ {0}
    /\ MAX_PPS_ERROR \in Nat
    /\ MAX_PPS_ERROR * MAX_PPS_ERROR < INT_HALF

Slots == 0..(RING_SIZE - 1)
Positions == 0..(DIV_ALL - 1)
Int32 == (-INT_HALF)..(INT_HALF - 1)

VARIABLES
    cca, ccb, inv,   \* TCC0.CCA, TCC0.CCB and the inversion of pin C0
    capA, capB,      \* captures of gPPS and uPPS: records [lsb, msb]
    pending,         \* TCD0_CCA interrupt flag
    pllFeedback, integrator, prevError, gains,
    statsIndex, error, realigned,
    pllLocked, pllSettled,
    aligned,         \* history: where the last realignment put uPPS
    measured         \* history: measurements so far, counted up to RING_SIZE

ppsVars == <<cca, ccb, inv>>
pidVars == <<pllFeedback, integrator, prevError, gains>>
ringVars == <<statsIndex, error, realigned, pllLocked, pllSettled>>
vars == <<ppsVars, capA, capB, pending, pidVars, ringVars, aligned, measured>>

Abs(x) == IF x < 0 THEN -x ELSE x
Wrap(x) == ((x + INT_HALF) % (2 * INT_HALF)) - INT_HALF
\* C division truncates towards zero
Trunc(x, d) == IF x < 0 THEN -((-x) \div d) ELSE x \div d
\* Mutant of Clamp: the lower limit is forgotten.
ClampNoFloor(lo, hi, x) == IF x > hi THEN hi ELSE x
Clamp(lo, hi, x) == IF x > hi THEN hi ELSE IF x < lo THEN lo ELSE x

PositionOf(c) == c.msb * DIV_LSB + c.lsb
CaptureOf(p) == [lsb |-> p % DIV_LSB, msb |-> p \div DIV_LSB]

-----------------------------------------------------------------------------
(* The pulse generator: pins C0 and C1 are high while the counter is below *)
(* their compare value, C0 possibly inverted, and uPPS is their difference *)

UppsHigh(c) == ((c < cca) # inv) # (c < ccb)
UppsRises(c) == UppsHigh(c) /\ ~UppsHigh((c - 1) % DIV_MSB)

\* Mutant of OffsetRegisters: a pulse across the wrap is not inverted.
OffsetNotInverted(offset) ==
    [ a |-> offset,
      b |-> IF offset < DIV_MSB - PULSE THEN offset + PULSE
            ELSE offset - (DIV_MSB - PULSE - 1),
      i |-> FALSE ]

\* setPpsOffset: compare registers for a pulse that starts at offset
OffsetRegisters(offset) ==
    [ a |-> offset,
      b |-> IF offset < DIV_MSB - PULSE THEN offset + PULSE
            ELSE offset - (DIV_MSB - PULSE - 1),
      i |-> ~(offset < DIV_MSB - PULSE) ]

\* getDelta in nanoseconds, with the wrap at +-half a second as it is written
Fold(b) ==
    LET hi == IF b > DIV_ALL \div 2 - 1 THEN DIV_ALL - b ELSE b
    IN  IF hi < -(DIV_ALL \div 2) THEN DIV_ALL + hi ELSE hi
ToNs(b) == IF b < 1 THEN b * CLK_NS - CLK_NS \div 2
           ELSE (b - 1) * CLK_NS + CLK_NS \div 2
GetDelta(a, b) == ToNs(Fold(PositionOf(b) - PositionOf(a)))

NeedsRealign(e) == e > MAX_PPS_ERROR \/ e < -MAX_PPS_ERROR

-----------------------------------------------------------------------------
(* The PID loop *)

\* Mutant of Limited: the limit is applied to the magnitude.
LimitedMagnitude(e) == IF Abs(e) > ERROR_LIMIT THEN ERROR_LIMIT ELSE e
Limited(e) == Clamp(-ERROR_LIMIT, ERROR_LIMIT, e)
Integrated(e) == Wrap(integrator + Limited(e) * gains.I)
Feedback(e) ==
    LET out == Wrap(Wrap(Integrated(e) + Limited(e) * gains.P)
                    + (Limited(e) - prevError) * gains.D)
    IN  Clamp(0, MAX_FB, Trunc(out, PID_RES) + ZERO_FB)

UpdatePID(e) ==
    /\ integrator' = Integrated(e)
    /\ prevError' = Limited(e)
    /\ pllFeedback' = Feedback(e)

-----------------------------------------------------------------------------
(* The statistics over the ring: int32_t products summed in an int64_t *)

Products(ring) == [i \in Slots |-> Wrap(ring[i] * ring[i])]
SumSquares(ring) == Abs(SumFunction(Products(ring)))
\* Mutant of Locked: only the newest measurement counts.
LockedNewest(marks) == marks[statsIndex] = 0
Locked(marks) == \A i \in Slots : marks[i] = 0

\* Mutant of Settled: the limit of the sum is not squared.
SettledLinear(ring, marks) ==
    Locked(marks) /\ SumSquares(ring) <= RING_SIZE * SETTLED_VAR
Settled(ring, marks) ==
    Locked(marks) /\ SumSquares(ring) <= RING_SIZE * SETTLED_VAR * SETTLED_VAR

\* Mutant of Mark: a slot once marked is never cleared.
MarkSticky(e) == IF NeedsRealign(e) THEN 1 ELSE realigned[statsIndex]
Mark(e) == IF NeedsRealign(e) THEN 1 ELSE 0

UpdateStatus(e) ==
    /\ error' = [error EXCEPT ![statsIndex] = e]
    /\ realigned' = [realigned EXCEPT ![statsIndex] = Mark(e)]
    /\ statsIndex' = (statsIndex + 1) % RING_SIZE
    /\ pllLocked' = Locked(realigned')
    /\ pllSettled' = Settled(error', realigned')
    /\ gains' = IF pllSettled' THEN PID_STABLE ELSE PID_FAST
    /\ measured' = IF measured < RING_SIZE THEN measured + 1 ELSE measured

Realign(e) ==
    IF NeedsRealign(e)
    THEN LET r == OffsetRegisters(capA.msb)
         IN  /\ cca' = r.a /\ ccb' = r.b /\ inv' = r.i
             /\ aligned' = [at |-> PositionOf(capA), edge |-> FALSE]
    ELSE UNCHANGED <<ppsVars, aligned>>

-----------------------------------------------------------------------------
NeverAligned == [at |-> -1, edge |-> FALSE]

\* initGPSDO
Init ==
    /\ cca = 0 /\ ccb = PULSE /\ inv = FALSE
    /\ capA = [lsb |-> 0, msb |-> 0] /\ capB = [lsb |-> 0, msb |-> 0]
    /\ pending = FALSE
    /\ pllFeedback = ZERO_FB /\ integrator = 0 /\ prevError = 0 /\ gains = NoGains
    /\ statsIndex = 0
    /\ error = [i \in Slots |-> 0] /\ realigned = [i \in Slots |-> 0]
    /\ pllLocked = FALSE /\ pllSettled = FALSE
    /\ aligned = NeverAligned /\ measured = 0

\* The receiver's pulse: timers TCC1 and TCD0 latch the position.
GppsEdge(p) ==
    /\ ~pending
    /\ capA' = CaptureOf(p)
    /\ pending' = TRUE
    /\ UNCHANGED <<ppsVars, capB, pidVars, ringVars, aligned, measured>>

\* The counter reaches the rising edge of the generated pulse.
UppsEdge(c) ==
    /\ UppsRises(c)
    /\ capB' = [lsb |-> UPPS_LSB, msb |-> c]
    /\ aligned' = [aligned EXCEPT !.edge = aligned.at >= 0]
    /\ UNCHANGED <<ppsVars, capA, pending, pidVars, ringVars, measured>>

\* TCD0_CCA_vect and the whole of onRisingPPS
OnRisingPPS ==
    /\ pending
    /\ pending' = FALSE
    /\ LET e == GetDelta(capA, capB)
       IN  UpdatePID(e) /\ Realign(e) /\ UpdateStatus(e)
    /\ UNCHANGED <<capA, capB>>

SomeGppsEdge == \E p \in Positions : GppsEdge(p)
SomeUppsEdge == \E c \in 0..(DIV_MSB - 1) : UppsEdge(c)

Next == SomeGppsEdge \/ SomeUppsEdge \/ OnRisingPPS

Spec == Init /\ [][Next]_vars

\* The receiver has a fix and pulses; interrupts are served.
FairSpec == Spec /\ WF_vars(SomeGppsEdge) /\ WF_vars(OnRisingPPS)

-----------------------------------------------------------------------------
(* Properties *)

Capture == [lsb : 0..(DIV_LSB - 1), msb : 0..(DIV_MSB - 1)]

\* Every variable stays in its range; the feedback word never exceeds MAX_FB,
\* whatever the error, the integrator and the gains are.
TypeOK ==
    /\ cca \in 0..(DIV_MSB - 1) /\ ccb \in 0..(DIV_MSB - 1) /\ inv \in BOOLEAN
    /\ capA \in Capture /\ capB \in Capture
    /\ pending \in BOOLEAN
    /\ pllFeedback \in 0..MAX_FB
    /\ integrator \in Int32
    /\ prevError \in (-ERROR_LIMIT)..ERROR_LIMIT
    /\ gains \in Gains
    /\ statsIndex \in Slots
    /\ error \in [Slots -> Int] /\ realigned \in [Slots -> {0, 1}]
    /\ pllLocked \in BOOLEAN /\ pllSettled \in BOOLEAN
    /\ aligned \in [at : Int, edge : BOOLEAN] /\ measured \in 0..RING_SIZE

\* The status is a function of the last RING_SIZE measurements: the ring, its
\* index, the realigned marks and the 32-bit sums implement PllWindow.
OldestFirst == [k \in 1..RING_SIZE |-> error[(statsIndex + k - 1) % RING_SIZE]]
Measurable == { ToNs(b) : b \in (1 - DIV_ALL)..(DIV_ALL - 1) }
Window == INSTANCE PllWindow WITH
    SIZE <- RING_SIZE, LIMIT <- MAX_PPS_ERROR, RMS_LIMIT <- SETTLED_VAR,
    Errors <- Measurable,
    window <- OldestFirst, locked <- pllLocked, stable <- pllSettled
StatusIsWindow == Window!Spec

\* "PLL Stable" is only ever reported for an accurate clock: every error of the
\* window is within MAX_PPS_ERROR and their true mean square is within
\* SETTLED_VAR^2, although the code squares errors in 32 bits, where the square
\* of a large error wraps to a small number: the lock test has to exclude them.
SettledIsAccurate ==
    pllSettled =>
        /\ \A i \in Slots : Abs(error[i]) <= MAX_PPS_ERROR
        /\ Abs(SumFunction([i \in Slots |-> error[i] * error[i]]))
                <= RING_SIZE * SETTLED_VAR * SETTLED_VAR

\* The loop pushes the right way: in any reachable state a larger error never
\* gets a smaller feedback word, through clamps, truncating division and 32-bit
\* sums, as long as the sums of the loop have not left the int32_t range.
SumsFit(e) ==
    /\ integrator + Limited(e) * gains.I \in Int32
    /\ Integrated(e) + Limited(e) * gains.P \in Int32
    /\ Integrated(e) + Limited(e) * gains.P + (Limited(e) - prevError) * gains.D \in Int32
FeedbackFollowsError ==
    \A d, e \in Measurable :
        d <= e /\ SumsFit(d) /\ SumsFit(e) => Feedback(d) <= Feedback(e)

\* A realignment lasts: once a uPPS edge has been captured at the new offset,
\* a receiver pulse that moved by no more than the margin MAX_PPS_ERROR leaves
\* over one 16 us tick does not force another one, wherever in the second the
\* pulse is and on either branch of setPpsOffset.
CircularDistance(p, q) ==
    LET d == (p - q) % DIV_ALL IN IF d > DIV_ALL - d THEN DIV_ALL - d ELSE d
Margin == (MAX_PPS_ERROR - CLK_NS \div 2) \div CLK_NS - (DIV_LSB - 1)
RealignLasts ==
    [][ (/\ OnRisingPPS
         /\ aligned.edge
         /\ CircularDistance(PositionOf(capA), aligned.at) <= Margin)
        => realigned'[statsIndex] = 0 ]_vars

\* The verdict recovers: when from some point on every error is within the
\* threshold, the loop is eventually reported as settled, and for good.
LastError == error[(statsIndex - 1) % RING_SIZE]
EventuallySettles ==
    <>[](Abs(LastError) <= SETTLED_VAR) => <>[](pllSettled)

\* README.md:14 calls the mean and the RMS, and so the verdict taken on them,
\* values over a trailing 64 s window: no verdict of stability before the window
\* holds as many measurements as it has slots.
StableHasFullWindow == pllSettled => measured = RING_SIZE

\* gpsdo.c:222 calls the measured error the modulo difference of the captures:
\* a uPPS that comes before gPPS, by less than half a second, gives a negative
\* error, and one that comes after it a positive one.
ModuloDifference(a, b) ==
    LET d == (PositionOf(b) - PositionOf(a)) % DIV_ALL
    IN  IF d > DIV_ALL \div 2 - 1 THEN d - DIV_ALL ELSE d
ErrorIsModuloDifference ==
    [][ OnRisingPPS => error'[statsIndex] = ToNs(ModuloDifference(capA, capB)) ]_vars
=============================================================================
