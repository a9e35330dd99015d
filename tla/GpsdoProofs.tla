---------------------------- MODULE GpsdoProofs ----------------------------
(***************************************************************************)
(* Theorems about Gpsdo for every value of its constants: the ranges of    *)
(* its registers and variables, the meaning of "PLL Stable", that a        *)
(* realignment lasts, and that ring, marks and verdict implement PllWindow.*)
(* About FeedbackDac, for every word, byte and dither width: the dithered  *)
(* conversions add up to the feedback word, and the dither never carries a *)
(* stored word past the end of the range.                                  *)
(***************************************************************************)
EXTENDS MCFeedback, FiniteSums, SequenceTheorems

\* Clamping yields a value of the range it clamps to.
LEMMA ClampRange ==
    ASSUME NEW lo \in Int, NEW hi \in Int, NEW x \in Int, lo <= hi
    PROVE  Clamp(lo, hi, x) \in lo..hi
BY DEF Clamp

\* Wrapping yields an int32_t, and leaves one alone.
LEMMA WrapInt32 ==
    ASSUME NEW x \in Int
    PROVE  /\ Wrap(x) \in Int32
           /\ x \in Int32 => Wrap(x) = x
<1> DEFINE n == 2 * INT_HALF
<1>1. n \in Nat \ {0}
  BY WidthAssumption
<1>2. (x + INT_HALF) % n \in 0..(n - 1)
  BY <1>1, WidthAssumption
<1>3. ASSUME x \in Int32 PROVE (x + INT_HALF) % n = x + INT_HALF
  <2>1. x + INT_HALF \in 0..(n - 1)
    BY <1>3, WidthAssumption DEF Int32
  <2> QED BY <2>1, <1>1
<1> QED
  BY <1>1, <1>2, <1>3, WidthAssumption DEF Wrap, Int32

\* Truncating division is integer valued.
LEMMA TruncInt ==
    ASSUME NEW x \in Int, NEW d \in Nat \ {0}
    PROVE  Trunc(x, d) \in Int
BY DEF Trunc

-----------------------------------------------------------------------------
(* The registers *)

\* A position splits into captures that are in the ranges of the two timers.
LEMMA CaptureInRange ==
    ASSUME NEW p \in Positions
    PROVE  CaptureOf(p) \in Capture
<1>1. p \in Nat /\ p < DIV_LSB * DIV_MSB
  BY DivAssumption DEF Positions, DIV_ALL
<1>2. p % DIV_LSB \in 0..(DIV_LSB - 1)
  BY <1>1, DivAssumption
<1>3. p \div DIV_LSB \in 0..(DIV_MSB - 1)
  <2>1. p \div DIV_LSB \in Nat /\ DIV_LSB * (p \div DIV_LSB) <= p
    BY <1>1, DivAssumption
  <2>2. ASSUME DIV_MSB <= p \div DIV_LSB PROVE FALSE
    <3>1. DIV_LSB * DIV_MSB <= DIV_LSB * (p \div DIV_LSB)
      BY <2>1, <2>2, DivAssumption
    <3> QED BY <3>1, <2>1, <1>1, DivAssumption
  <2> QED BY <2>1, <2>2, DivAssumption
<1> QED BY <1>2, <1>3 DEF CaptureOf, Capture

\* Both compare values stay below the period of the counter.
LEMMA OffsetInRange ==
    ASSUME NEW o \in 0..(DIV_MSB - 1)
    PROVE  /\ OffsetRegisters(o).a \in 0..(DIV_MSB - 1)
           /\ OffsetRegisters(o).b \in 0..(DIV_MSB - 1)
           /\ OffsetRegisters(o).i \in BOOLEAN
BY DivAssumption DEF OffsetRegisters

\* The measured error is an integer.
LEMMA DeltaInt ==
    ASSUME NEW a \in Capture, NEW b \in Capture
    PROVE  GetDelta(a, b) \in Int
<1>1. /\ a.lsb \in Int /\ a.msb \in Int /\ b.lsb \in Int /\ b.msb \in Int
      /\ DIV_LSB \in Int /\ DIV_MSB \in Int /\ CLK_NS \in Int
  BY DivAssumption DEF Capture
<1>2. PositionOf(b) - PositionOf(a) \in Int
  BY <1>1 DEF PositionOf
<1>3. \A x \in Int : Fold(x) \in Int
  BY <1>1 DEF Fold, DIV_ALL
<1>4. \A x \in Int : ToNs(x) \in Int
  BY <1>1 DEF ToNs
<1> QED BY <1>2, <1>3, <1>4 DEF GetDelta

-----------------------------------------------------------------------------
(* The PID loop *)

\* The gains are integers.
LEMMA GainsInt ==
    ASSUME NEW g \in Gains
    PROVE  g.P \in Nat /\ g.I \in Nat /\ g.D \in Nat
BY DEF Gains

\* One run of updatePID keeps its state and its output in range.
LEMMA PidInRange ==
    ASSUME TypeOK, NEW e \in Int
    PROVE  /\ Limited(e) \in (-ERROR_LIMIT)..ERROR_LIMIT
           /\ Integrated(e) \in Int32
           /\ Feedback(e) \in 0..MAX_FB
<1>1. Limited(e) \in (-ERROR_LIMIT)..ERROR_LIMIT
  BY ClampRange, LoopAssumption DEF Limited
<1>2. /\ Limited(e) \in Int /\ prevError \in Int /\ integrator \in Int
      /\ gains.P \in Int /\ gains.I \in Int /\ gains.D \in Int
  BY <1>1, GainsInt, LoopAssumption, WidthAssumption DEF TypeOK, Int32
<1>3. Integrated(e) \in Int32
  BY <1>2, WrapInt32 DEF Integrated
<1>4. Feedback(e) \in 0..MAX_FB
  <2> DEFINE sum == Wrap(Integrated(e) + Limited(e) * gains.P)
             out == Wrap(sum + (Limited(e) - prevError) * gains.D)
  <2>1. sum \in Int
    BY <1>2, <1>3, WrapInt32, WidthAssumption DEF Int32
  <2>2. out \in Int
    <3> HIDE DEF sum
    <3> QED BY <1>2, <2>1, WrapInt32, WidthAssumption DEF Int32
  <2>3. Trunc(out, PID_RES) + ZERO_FB \in Int
    <3> HIDE DEF out
    <3> QED BY <2>2, TruncInt, LoopAssumption
  <2>4. Feedback(e) = Clamp(0, MAX_FB, Trunc(out, PID_RES) + ZERO_FB)
    BY DEF Feedback
  <2> HIDE DEF out
  <2>5. 0 \in Int /\ MAX_FB \in Int /\ 0 <= MAX_FB
    BY LoopAssumption
  <2>6. Clamp(0, MAX_FB, Trunc(out, PID_RES) + ZERO_FB) \in 0..MAX_FB
    BY <2>3, <2>5, ClampRange
  <2> QED BY <2>4, <2>6
<1> QED BY <1>1, <1>3, <1>4

-----------------------------------------------------------------------------
(* Type correctness *)

\* After the interrupt handler everything is back in its range.
LEMMA HandlerTypeOK ==
    ASSUME TypeOK, OnRisingPPS
    PROVE  TypeOK'
<1> DEFINE e == GetDelta(capA, capB)
<1>1. e \in Int
  BY DeltaInt DEF TypeOK
<1> HIDE DEF e
<1>2. UpdatePID(e) /\ Realign(e) /\ UpdateStatus(e)
  BY DEF OnRisingPPS, e
<1>3. (pllFeedback \in 0..MAX_FB /\ integrator \in Int32
        /\ prevError \in (-ERROR_LIMIT)..ERROR_LIMIT)'
  BY <1>1, <1>2, PidInRange DEF UpdatePID
<1>4. (cca \in 0..(DIV_MSB - 1) /\ ccb \in 0..(DIV_MSB - 1) /\ inv \in BOOLEAN
        /\ aligned \in [at : Int, edge : BOOLEAN])'
  <2>1. CASE NeedsRealign(e)
    <3>1. capA.msb \in 0..(DIV_MSB - 1) /\ PositionOf(capA) \in Int
      BY DivAssumption DEF TypeOK, Capture, PositionOf
    <3> DEFINE r == OffsetRegisters(capA.msb)
    <3>2. /\ cca' = r.a /\ ccb' = r.b /\ inv' = r.i
          /\ aligned' = [at |-> PositionOf(capA), edge |-> FALSE]
      BY <1>2, <2>1 DEF Realign
    <3>3. /\ r.a \in 0..(DIV_MSB - 1) /\ r.b \in 0..(DIV_MSB - 1)
          /\ r.i \in BOOLEAN
      BY <3>1, OffsetInRange
    <3> HIDE DEF r
    <3>4. aligned' \in [at : Int, edge : BOOLEAN]
      BY <3>1, <3>2
    <3> QED BY <3>2, <3>3, <3>4
  <2>2. CASE ~NeedsRealign(e)
    BY <1>2, <2>2 DEF Realign, ppsVars, TypeOK
  <2> QED BY <2>1, <2>2
<1>5. (error \in [Slots -> Int] /\ realigned \in [Slots -> {0, 1}])'
  BY <1>1, <1>2 DEF UpdateStatus, Mark, TypeOK
<1>6. (statsIndex \in Slots /\ measured \in 0..RING_SIZE)'
  BY <1>2, LoopAssumption DEF UpdateStatus, Mark, TypeOK, Slots
<1>7. (pllLocked \in BOOLEAN /\ pllSettled \in BOOLEAN /\ gains \in Gains)'
  BY <1>2, LoopAssumption DEF UpdateStatus, Mark, Settled, Locked
<1>8. (capA \in Capture /\ capB \in Capture /\ pending \in BOOLEAN)'
  BY DEF OnRisingPPS, TypeOK
<1> QED BY <1>3, <1>4, <1>5, <1>6, <1>7, <1>8 DEF TypeOK

\* Every register, sum and index stays in its range; in particular the word
\* written to the converter never exceeds MAX_FB.
THEOREM TypeCorrect == Spec => []TypeOK
<1>1. Init => TypeOK
  <2> SUFFICES ASSUME Init PROVE TypeOK
    OBVIOUS
  <2>1. [lsb |-> 0, msb |-> 0] \in Capture
    BY DivAssumption DEF Capture
  <2>2. NoGains \in Gains
    BY DEF NoGains, Gains
  <2>3. NeverAligned \in [at : Int, edge : BOOLEAN]
    BY DEF NeverAligned
  <2>4. /\ ZERO_FB \in 0..MAX_FB /\ 0 \in Int32 /\ 0 \in Slots
        /\ 0 \in (-ERROR_LIMIT)..ERROR_LIMIT /\ 0 \in 0..RING_SIZE
        /\ 0 \in 0..(DIV_MSB - 1) /\ PULSE \in 0..(DIV_MSB - 1)
    BY DivAssumption, LoopAssumption, WidthAssumption DEF Int32, Slots
  <2>5. /\ error \in [Slots -> Int] /\ realigned \in [Slots -> {0, 1}]
    BY DEF Init
  <2>6. /\ capA \in Capture /\ capB \in Capture /\ gains \in Gains
        /\ aligned \in [at : Int, edge : BOOLEAN]
    BY <2>1, <2>2, <2>3 DEF Init
  <2> QED
    BY <2>4, <2>5, <2>6 DEF Init, TypeOK
<1>2. TypeOK /\ [Next]_vars => TypeOK'
  <2> SUFFICES ASSUME TypeOK, [Next]_vars PROVE TypeOK'
    OBVIOUS
  <2>1. ASSUME NEW p \in Positions, GppsEdge(p) PROVE TypeOK'
    BY <2>1, CaptureInRange
       DEF GppsEdge, TypeOK, ppsVars, pidVars, ringVars
  <2>2. ASSUME NEW c \in 0..(DIV_MSB - 1), UppsEdge(c) PROVE TypeOK'
    <3>1. capB' \in Capture
      BY <2>2, DivAssumption DEF UppsEdge, Capture
    <3>2. aligned' \in [at : Int, edge : BOOLEAN]
      <4> DEFINE b == aligned.at >= 0
      <4>1. b \in BOOLEAN
        BY DEF TypeOK
      <4>2. aligned' = [aligned EXCEPT !.edge = b]
        BY <2>2 DEF UppsEdge
      <4> HIDE DEF b
      <4> QED BY <4>1, <4>2 DEF TypeOK
    <3> QED BY <2>2, <3>1, <3>2 DEF UppsEdge, TypeOK, ppsVars, pidVars, ringVars
  <2>3. CASE OnRisingPPS
    BY <2>3, HandlerTypeOK
  <2>4. CASE UNCHANGED vars
    BY <2>4 DEF TypeOK, vars, ppsVars, pidVars, ringVars
  <2> QED BY <2>1, <2>2, <2>3, <2>4 DEF Next, SomeGppsEdge, SomeUppsEdge
<1> QED BY <1>1, <1>2, PTL DEF Spec

-----------------------------------------------------------------------------
(* The verdict *)

(***************************************************************************)
(* The settled flag is a fact about the ring as it is, and a slot that is  *)
(* not marked holds an error within MAX_PPS_ERROR: this is inductive, and  *)
(* SettledIsAccurate alone is not, because it says nothing of the marks    *)
(* the next verdict will be taken from.                                    *)
(***************************************************************************)
StatusInv ==
    /\ \A i \in Slots : realigned[i] = 0 => ~NeedsRealign(error[i])
    /\ pllSettled => Settled(error, realigned)

\* Without a realignment in the window no square wraps.
LEMMA ProductsExact ==
    ASSUME NEW ring \in [Slots -> Int],
           \A i \in Slots : ~NeedsRealign(ring[i])
    PROVE  Products(ring) = [i \in Slots |-> ring[i] * ring[i]]
<1> SUFFICES ASSUME NEW i \in Slots
             PROVE  Wrap(ring[i] * ring[i]) = ring[i] * ring[i]
  BY DEF Products
<1> DEFINE x == ring[i]
<1>1. x \in Int /\ -MAX_PPS_ERROR <= x /\ x <= MAX_PPS_ERROR
  BY WidthAssumption DEF NeedsRealign
<1> HIDE DEF x
<1>2. 0 <= x * x /\ x * x <= MAX_PPS_ERROR * MAX_PPS_ERROR
  <2>1. CASE x >= 0
    BY <2>1, <1>1, WidthAssumption
  <2>2. CASE x < 0
    <3>1. -x \in Nat /\ -x <= MAX_PPS_ERROR /\ (-x) * (-x) = x * x
      BY <2>2, <1>1, WidthAssumption
    <3>2. (-x) * (-x) <= MAX_PPS_ERROR * MAX_PPS_ERROR
      BY <3>1, WidthAssumption
    <3> QED BY <3>1, <3>2
  <2> QED BY <2>1, <2>2, <1>1
<1>3. x * x \in Int32
  BY <1>1, <1>2, WidthAssumption DEF Int32
<1>4. Wrap(x * x) = x * x
  BY <1>1, <1>3, WrapInt32
<1> QED BY <1>4 DEF x

\* The interrupt keeps marks, window and verdict together.
LEMMA StatusInductive ==
    ASSUME TypeOK, StatusInv, [Next]_vars
    PROVE  StatusInv'
<1>1. CASE OnRisingPPS
  <2> PICK e : UpdateStatus(e)
    BY <1>1 DEF OnRisingPPS
  <2>1. (\A i \in Slots : realigned[i] = 0 => ~NeedsRealign(error[i]))'
    <3> SUFFICES ASSUME NEW i \in Slots, realigned'[i] = 0
                 PROVE  ~NeedsRealign(error'[i])
      BY DEF NeedsRealign
    <3>1. CASE i = statsIndex
      BY <3>1 DEF UpdateStatus, Mark, TypeOK
    <3>2. CASE i # statsIndex
      BY <3>2 DEF UpdateStatus, Mark, TypeOK, StatusInv
    <3> QED BY <3>1, <3>2
  <2>2. (pllSettled => Settled(error, realigned))'
    BY DEF UpdateStatus, Mark
  <2> QED BY <2>1, <2>2 DEF StatusInv
<1>2. CASE UNCHANGED <<error, realigned, pllSettled>>
  BY <1>2 DEF StatusInv
<1>3. ASSUME NEW p \in Positions, GppsEdge(p)
      PROVE  UNCHANGED <<error, realigned, pllSettled>>
  BY <1>3 DEF GppsEdge, ringVars
<1>4. ASSUME NEW c \in 0..(DIV_MSB - 1), UppsEdge(c)
      PROVE  UNCHANGED <<error, realigned, pllSettled>>
  BY <1>4 DEF UppsEdge, ringVars
<1>5. UNCHANGED vars => UNCHANGED <<error, realigned, pllSettled>>
  BY DEF vars, ringVars
<1> QED BY <1>1, <1>2, <1>3, <1>4, <1>5 DEF Next, SomeGppsEdge, SomeUppsEdge

\* "PLL Stable" always means a window of small errors whose true mean square
\* is within the threshold: the 32-bit squares never decide otherwise.
THEOREM SettledCorrect == Spec => []SettledIsAccurate
<1>1. Init => StatusInv
  BY WidthAssumption DEF Init, StatusInv, NeedsRealign
<1>2. TypeOK /\ StatusInv /\ [Next]_vars => StatusInv'
  BY StatusInductive
<1>3. TypeOK /\ StatusInv => SettledIsAccurate
  <2> SUFFICES ASSUME TypeOK, StatusInv, pllSettled
               PROVE  /\ \A i \in Slots : Abs(error[i]) <= MAX_PPS_ERROR
                      /\ Abs(SumFunction([i \in Slots |-> error[i] * error[i]]))
                            <= RING_SIZE * SETTLED_VAR * SETTLED_VAR
    BY DEF SettledIsAccurate
  <2>1. \A i \in Slots : ~NeedsRealign(error[i])
    BY DEF StatusInv, Settled, Locked
  <2>2. \A i \in Slots : Abs(error[i]) <= MAX_PPS_ERROR
    BY <2>1, WidthAssumption DEF TypeOK, NeedsRealign, Abs
  <2>3. Products(error) = [i \in Slots |-> error[i] * error[i]]
    BY <2>1, ProductsExact DEF TypeOK
  <2> QED BY <2>2, <2>3 DEF StatusInv, Settled, SumSquares
<1> QED BY <1>1, <1>2, <1>3, TypeCorrect, PTL DEF Spec

-----------------------------------------------------------------------------
(* The direction of the loop *)

\* Clamping keeps the order.
LEMMA ClampMonotone ==
    ASSUME NEW lo \in Int, NEW hi \in Int, lo <= hi,
           NEW x \in Int, NEW y \in Int, x <= y
    PROVE  Clamp(lo, hi, x) <= Clamp(lo, hi, y)
BY DEF Clamp

\* Division that truncates towards zero is monotone on both sides of zero.
LEMMA TruncMonotone ==
    ASSUME NEW d \in Nat \ {0}, NEW x \in Int, NEW y \in Int, x <= y
    PROVE  Trunc(x, d) <= Trunc(y, d)
<1>1. \A m, n \in Nat : m <= n => m \div d <= n \div d
  <2> SUFFICES ASSUME NEW m \in Nat, NEW n \in Nat, m <= n,
                      n \div d < m \div d
               PROVE  FALSE
    OBVIOUS
  <2>1. /\ m \div d \in Nat /\ n \div d \in Nat
        /\ d * (m \div d) <= m /\ n < d * (n \div d) + d
    OBVIOUS
  <2>2. d * (n \div d) + d <= d * (m \div d)
    <3>1. n \div d + 1 <= m \div d
      BY <2>1
    <3>2. d * (n \div d + 1) <= d * (m \div d)
      BY <2>1, <3>1
    <3> QED BY <2>1, <3>2
  <2> QED BY <2>1, <2>2
<1>2. \A m \in Nat : m \div d \in Nat
  OBVIOUS
<1>3. CASE 0 <= x
  BY <1>1, <1>3 DEF Trunc
<1>4. CASE y < 0
  <2>1. -y \in Nat /\ -x \in Nat /\ -y <= -x
    BY <1>4
  <2> QED BY <1>1, <1>2, <1>4, <2>1 DEF Trunc
<1>5. CASE x < 0 /\ 0 <= y
  BY <1>2, <1>5 DEF Trunc
<1> QED BY <1>3, <1>4, <1>5

\* So does a gain that is not negative.
LEMMA ProductMonotone ==
    ASSUME NEW g \in Nat, NEW x \in Int, NEW y \in Int, x <= y
    PROVE  x * g <= y * g
OBVIOUS

\* In every reachable state a larger error gets a feedback word at least as
\* large, unless a sum of the loop has left the int32_t range.
THEOREM FeedbackMonotone == Spec => []FeedbackFollowsError
<1>1. TypeOK => FeedbackFollowsError
  <2> SUFFICES ASSUME TypeOK, NEW d \in Measurable, NEW e \in Measurable,
                      d <= e, SumsFit(d), SumsFit(e)
               PROVE  Feedback(d) <= Feedback(e)
    BY DEF FeedbackFollowsError
  <2> DEFINE Sum(x) == integrator + Limited(x) * gains.I + Limited(x) * gains.P
                        + (Limited(x) - prevError) * gains.D
  <2>1. d \in Int /\ e \in Int
    BY DivAssumption DEF Measurable, ToNs, DIV_ALL
  <2>2. /\ Limited(d) \in Int /\ Limited(e) \in Int
        /\ prevError \in Int /\ integrator \in Int
        /\ gains.P \in Nat /\ gains.I \in Nat /\ gains.D \in Nat
    BY <2>1, PidInRange, GainsInt, LoopAssumption, WidthAssumption DEF TypeOK, Int32
  <2>3. Limited(d) <= Limited(e)
    BY <2>1, ClampMonotone, LoopAssumption DEF Limited
  <2>4. \A x \in {d, e} :
            /\ Sum(x) \in Int
            /\ Feedback(x) = Clamp(0, MAX_FB, Trunc(Sum(x), PID_RES) + ZERO_FB)
    <3> SUFFICES ASSUME NEW x \in {d, e}
                 PROVE  /\ Sum(x) \in Int
                        /\ Feedback(x) = Clamp(0, MAX_FB, Trunc(Sum(x), PID_RES) + ZERO_FB)
      OBVIOUS
    <3>1. Limited(x) \in Int /\ SumsFit(x)
      BY <2>2
    <3>2. Integrated(x) = integrator + Limited(x) * gains.I
      BY <2>2, <3>1, WrapInt32 DEF SumsFit, Integrated
    <3>3. /\ Integrated(x) \in Int
          /\ Limited(x) * gains.P \in Int /\ (Limited(x) - prevError) * gains.D \in Int
      BY <2>2, <3>1, <3>2
    <3>4. Wrap(Integrated(x) + Limited(x) * gains.P) = Integrated(x) + Limited(x) * gains.P
      BY <3>1, <3>3, WrapInt32 DEF SumsFit
    <3>5. Wrap(Integrated(x) + Limited(x) * gains.P + (Limited(x) - prevError) * gains.D)
            = Integrated(x) + Limited(x) * gains.P + (Limited(x) - prevError) * gains.D
      BY <3>1, <3>3, WrapInt32 DEF SumsFit
    <3> QED BY <3>2, <3>3, <3>4, <3>5 DEF Feedback
  <2>5. Sum(d) <= Sum(e)
    <3>1. /\ Limited(d) * gains.I <= Limited(e) * gains.I
          /\ Limited(d) * gains.P <= Limited(e) * gains.P
          /\ (Limited(d) - prevError) * gains.D <= (Limited(e) - prevError) * gains.D
      BY <2>2, <2>3, ProductMonotone
    <3> QED BY <2>2, <3>1
  <2> HIDE DEF Sum
  <2>6. /\ Trunc(Sum(d), PID_RES) \in Int /\ Trunc(Sum(e), PID_RES) \in Int
        /\ Trunc(Sum(d), PID_RES) <= Trunc(Sum(e), PID_RES)
    BY <2>4, <2>5, TruncInt, TruncMonotone, LoopAssumption
  <2> QED BY <2>4, <2>6, ClampMonotone, LoopAssumption
<1> QED BY <1>1, TypeCorrect, PTL

-----------------------------------------------------------------------------
(* A realignment lasts *)

(***************************************************************************)
(* Where the last realignment put uPPS: the compare registers are those of *)
(* the counter value the receiver's pulse was captured at, and an edge     *)
(* captured since then was captured at that value.  RealignLasts speaks of *)
(* the captures only, which prove nothing about the edge to come.          *)
(***************************************************************************)
AlignedInv ==
    /\ aligned.edge => aligned.at >= 0
    /\ aligned.at >= 0 =>
          \E a \in Capture :
              /\ aligned.at = PositionOf(a)
              /\ [a |-> cca, b |-> ccb, i |-> inv] = OffsetRegisters(a.msb)
              /\ aligned.edge => capB = [lsb |-> UPPS_LSB, msb |-> a.msb]

\* The exclusive or of three pins, the middle one a constant.
LEMMA ExclusiveOr ==
    ASSUME NEW p \in BOOLEAN, NEW q \in BOOLEAN
    PROVE  /\ ((p # FALSE) # q) <=> ~(p <=> q)
           /\ ((p # TRUE) # q) <=> (p <=> q)
<1>1. (p = TRUE \/ p = FALSE) /\ (q = TRUE \/ q = FALSE)
  OBVIOUS
<1>2. CASE p = TRUE /\ q = TRUE
  BY <1>2
<1>3. CASE p = TRUE /\ q = FALSE
  BY <1>3
<1>4. CASE p = FALSE /\ q = TRUE
  BY <1>4
<1>5. CASE p = FALSE /\ q = FALSE
  BY <1>5
<1> QED BY <1>1, <1>2, <1>3, <1>4, <1>5

\* On either branch of setPpsOffset the pulse rises at the offset only.
LEMMA RisesAtOffset ==
    ASSUME NEW o \in 0..(DIV_MSB - 1), NEW c \in 0..(DIV_MSB - 1),
           [a |-> cca, b |-> ccb, i |-> inv] = OffsetRegisters(o),
           UppsRises(c)
    PROVE  c = o
<1>1. /\ DIV_MSB \in Nat \ {0} /\ PULSE \in 1..(DIV_MSB - 1)
  BY DivAssumption
<1>2. (c - 1) % DIV_MSB = IF c = 0 THEN DIV_MSB - 1 ELSE c - 1
  BY <1>1
<1>3. /\ cca = OffsetRegisters(o).a /\ ccb = OffsetRegisters(o).b
      /\ inv = OffsetRegisters(o).i
  <2> DEFINE r == OffsetRegisters(o)
  <2>1. [a |-> cca, b |-> ccb, i |-> inv] = r
    OBVIOUS
  <2> HIDE DEF r
  <2>2. cca = r.a /\ ccb = r.b /\ inv = r.i
    BY <2>1
  <2> QED BY <2>2 DEF r
<1> DEFINE d == IF c = 0 THEN DIV_MSB - 1 ELSE c - 1
<1>4. UppsHigh(c) /\ ~UppsHigh(d) /\ d \in 0..(DIV_MSB - 1)
  BY <1>1, <1>2 DEF UppsRises
<1>5. CASE o < DIV_MSB - PULSE
  <2>1. cca = o /\ ccb = o + PULSE /\ inv = FALSE
    BY <1>3, <1>5 DEF OffsetRegisters
  <2>2. \A x \in 0..(DIV_MSB - 1) : UppsHigh(x) <=> (o <= x /\ x < o + PULSE)
    <3> SUFFICES ASSUME NEW x \in 0..(DIV_MSB - 1)
                 PROVE  UppsHigh(x) <=> (o <= x /\ x < o + PULSE)
      OBVIOUS
    <3>1. (x < o) \in BOOLEAN /\ (x < o + PULSE) \in BOOLEAN
      OBVIOUS
    <3>2. UppsHigh(x) <=> ((x < o) # FALSE) # (x < o + PULSE)
      BY <2>1 DEF UppsHigh
    <3>3. UppsHigh(x) <=> ~((x < o) <=> (x < o + PULSE))
      BY <3>1, <3>2, ExclusiveOr
    <3> QED BY <1>1, <3>3
  <2> QED BY <1>1, <1>4, <1>5, <2>2
<1>6. CASE ~(o < DIV_MSB - PULSE)
  <2> DEFINE b == o - (DIV_MSB - PULSE - 1)
  <2>1. cca = o /\ ccb = b /\ inv = TRUE
    BY <1>3, <1>6 DEF OffsetRegisters
  <2>2. b \in Int /\ b <= o /\ b >= 1
    BY <1>1, <1>6
  <2>3. \A x \in 0..(DIV_MSB - 1) : UppsHigh(x) <=> (o <= x \/ x < b)
    <3> HIDE DEF b
    <3> SUFFICES ASSUME NEW x \in 0..(DIV_MSB - 1)
                 PROVE  UppsHigh(x) <=> (o <= x \/ x < b)
      OBVIOUS
    <3>1. (x < o) \in BOOLEAN /\ (x < b) \in BOOLEAN
      OBVIOUS
    <3>2. UppsHigh(x) <=> ((x < o) # TRUE) # (x < b)
      BY <2>1 DEF UppsHigh
    <3>3. UppsHigh(x) <=> ((x < o) <=> (x < b))
      BY <3>1, <3>2, ExclusiveOr
    <3> QED BY <1>1, <2>2, <3>3
  <2> QED BY <1>1, <1>4, <1>6, <2>2, <2>3
<1> QED BY <1>5, <1>6

\* A position is a position of the local second.
LEMMA PositionInRange ==
    ASSUME NEW a \in Capture
    PROVE  PositionOf(a) \in Positions
<1>1. /\ a.lsb \in 0..(DIV_LSB - 1) /\ a.msb \in 0..(DIV_MSB - 1)
      /\ DIV_LSB \in Nat \ {0} /\ DIV_MSB \in Nat \ {0}
  BY DivAssumption DEF Capture
<1>2. a.msb * DIV_LSB <= (DIV_MSB - 1) * DIV_LSB /\ a.msb * DIV_LSB \in Nat
  BY <1>1
<1>3. (DIV_MSB - 1) * DIV_LSB = DIV_LSB * DIV_MSB - DIV_LSB /\ DIV_LSB * DIV_MSB \in Nat
  BY <1>1
<1> QED BY <1>1, <1>2, <1>3 DEF PositionOf, Positions, DIV_ALL

\* The circular distance is the distance, or that around the second.
LEMMA CircularIsNear ==
    ASSUME NEW p \in Positions, NEW q \in Positions
    PROVE  /\ DIV_ALL \in Nat \ {0} /\ CircularDistance(p, q) \in Nat
           /\ \E k \in {-1, 0, 1} : \/ p - q + k * DIV_ALL = CircularDistance(p, q)
                                    \/ p - q + k * DIV_ALL = -CircularDistance(p, q)
<1>1. DIV_ALL \in Nat \ {0}
  BY DivAssumption DEF DIV_ALL
<1>2. p \in 0..(DIV_ALL - 1) /\ q \in 0..(DIV_ALL - 1)
  BY DEF Positions
<1> HIDE DEF DIV_ALL
<1>3. CASE q <= p
  <2>1. (p - q) % DIV_ALL = p - q
    BY <1>1, <1>2, <1>3
  <2>2. CircularDistance(p, q) = IF p - q > DIV_ALL - (p - q) THEN DIV_ALL - (p - q) ELSE p - q
    BY <2>1 DEF CircularDistance
  <2> QED BY <1>1, <1>2, <1>3, <2>2
<1>4. CASE p < q
  <2>1. (p - q) % DIV_ALL = p - q + DIV_ALL
    <3>1. p - q + DIV_ALL \in 0..(DIV_ALL - 1)
      BY <1>1, <1>2, <1>4
    <3> QED BY <1>1, <1>2, <3>1
  <2>2. CircularDistance(p, q) = IF p - q + DIV_ALL > q - p THEN q - p ELSE p - q + DIV_ALL
    BY <1>1, <1>2, <2>1 DEF CircularDistance
  <2> QED BY <1>1, <1>2, <1>4, <2>2
<1> QED BY <1>1, <1>2, <1>3, <1>4

\* getDelta's folding never makes a difference larger than it is around the second.
LEMMA FoldIsNear ==
    ASSUME NEW b \in (1 - DIV_ALL)..(DIV_ALL - 1), NEW far \in Int,
           NEW k \in {-1, 0, 1},
           -far <= b + k * DIV_ALL, b + k * DIV_ALL <= far
    PROVE  Fold(b) \in (-far)..far
<1> DEFINE h == DIV_ALL \div 2
<1>1. DIV_ALL \in Nat \ {0} /\ DIV_ALL % 2 = 0
  BY DivAssumption DEF DIV_ALL
<1> HIDE DEF DIV_ALL
<1>2. h \in Nat /\ DIV_ALL = 2 * h
  BY <1>1
<1>3. Fold(b) = IF b > h - 1 THEN (IF DIV_ALL - b < -h THEN DIV_ALL + (DIV_ALL - b) ELSE DIV_ALL - b)
                ELSE (IF b < -h THEN DIV_ALL + b ELSE b)
  BY DEF Fold
<1> HIDE DEF h
<1>4. CASE k = 0
  BY <1>1, <1>2, <1>3, <1>4
<1>5. CASE k = 1
  BY <1>1, <1>2, <1>3, <1>5
<1>6. CASE k = -1
  BY <1>1, <1>2, <1>3, <1>6
<1> QED BY <1>4, <1>5, <1>6

\* Half a cycle apart from the middle of its cycle, an error of so many cycles is
\* within the limit in nanoseconds.
LEMMA NearIsWithin ==
    ASSUME NEW n \in Int,
           LET far == (MAX_PPS_ERROR - CLK_NS \div 2) \div CLK_NS
           IN  0 <= far /\ n \in (-far)..far
    PROVE  ~NeedsRealign(ToNs(n))
<1> DEFINE half == CLK_NS \div 2
           far == (MAX_PPS_ERROR - half) \div CLK_NS
<1>1. CLK_NS \in Nat \ {0} /\ half \in Nat /\ CLK_NS = 2 * half /\ MAX_PPS_ERROR \in Nat
  BY DivAssumption, WidthAssumption
<1>2. far \in Int /\ CLK_NS * far <= MAX_PPS_ERROR - half
  <2> DEFINE m == MAX_PPS_ERROR - half
  <2>1. m \in Int
    BY <1>1
  <2> HIDE DEF m, half
  <2>2. \A x \in Int : x \div CLK_NS \in Int /\ CLK_NS * (x \div CLK_NS) <= x
    BY <1>1
  <2> QED BY <2>1, <2>2 DEF m
<1>3. 0 <= far /\ -far <= n /\ n <= far
  OBVIOUS
<1>4. ToNs(n) = IF n < 1 THEN n * CLK_NS - half ELSE (n - 1) * CLK_NS + half
  BY DEF ToNs
<1> HIDE DEF far, half
<1>5. (-far) * CLK_NS <= n * CLK_NS /\ n * CLK_NS <= far * CLK_NS
  BY <1>1, <1>2, <1>3, ProductMonotone
<1>6. /\ (-far) * CLK_NS = -(CLK_NS * far) /\ far * CLK_NS = CLK_NS * far
      /\ (n - 1) * CLK_NS = n * CLK_NS - CLK_NS
      /\ n * CLK_NS \in Int /\ CLK_NS * far \in Int
  BY <1>1, <1>2
<1>7. n < 1 => n * CLK_NS <= 0
  BY <1>1
<1>8. n >= 1 => (n - 1) * CLK_NS >= 0
  BY <1>1
<1> QED BY <1>1, <1>2, <1>4, <1>5, <1>6, <1>7, <1>8 DEF NeedsRealign

\* After a realignment and an edge of the pulse, a receiver's pulse within the
\* margin of the place it was realigned to does not mark its slot.
LEMMA NoMarkWithinMargin ==
    ASSUME TypeOK, AlignedInv, OnRisingPPS, aligned.edge,
           CircularDistance(PositionOf(capA), aligned.at) <= Margin
    PROVE  realigned'[statsIndex] = 0
<1> DEFINE far == (MAX_PPS_ERROR - CLK_NS \div 2) \div CLK_NS
           p == PositionOf(capA)
           q == PositionOf(capB)
           at == aligned.at
           m == CircularDistance(p, at)
<1>1. PICK a \in Capture : at = PositionOf(a) /\ capB = [lsb |-> UPPS_LSB, msb |-> a.msb]
  BY DEF AlignedInv
<1>2. p \in Positions /\ q \in Positions /\ at \in Positions
  BY <1>1, PositionInRange DEF TypeOK
<1>3. q - at \in (-(DIV_LSB - 1))..(DIV_LSB - 1)
  <2>1. /\ a.lsb \in 0..(DIV_LSB - 1) /\ a.msb * DIV_LSB \in Nat
        /\ UPPS_LSB \in 0..(DIV_LSB - 1) /\ DIV_LSB \in Nat
    BY DivAssumption DEF Capture
  <2>2. at = a.msb * DIV_LSB + a.lsb /\ q = a.msb * DIV_LSB + UPPS_LSB
    BY <1>1 DEF PositionOf
  <2> HIDE DEF at, q
  <2> QED BY <2>1, <2>2
<1>4. PICK k \in {-1, 0, 1} : p - at + k * DIV_ALL = m \/ p - at + k * DIV_ALL = -m
  BY <1>2, CircularIsNear
<1>5. m \in Nat /\ DIV_ALL \in Nat \ {0}
  BY <1>2, CircularIsNear
<1>6. m <= far - (DIV_LSB - 1) /\ far \in Int /\ DIV_LSB \in Nat \ {0}
  BY DivAssumption, WidthAssumption DEF Margin
<1>7. /\ -far <= q - p + (-k) * DIV_ALL /\ q - p + (-k) * DIV_ALL <= far
      /\ q - p \in (1 - DIV_ALL)..(DIV_ALL - 1) /\ 0 <= far
  <2>1. /\ p \in 0..(DIV_ALL - 1) /\ q \in 0..(DIV_ALL - 1) /\ at \in 0..(DIV_ALL - 1)
    BY <1>2 DEF Positions
  <2> DEFINE around == k * DIV_ALL
  <2>2. around \in Int /\ (-k) * DIV_ALL = -around
    BY <1>5
  <2>3. p - at + around = m \/ p - at + around = -m
    BY <1>4
  <2> HIDE DEF around, far, m, p, q, at, DIV_ALL
  <2> QED BY <1>3, <1>5, <1>6, <2>1, <2>2, <2>3
<1>8. Fold(q - p) \in (-far)..far
  <2>1. -k \in {-1, 0, 1}
    OBVIOUS
  <2> HIDE DEF far, p, q
  <2> QED BY <1>6, <1>7, <2>1, FoldIsNear
<1>9. ~NeedsRealign(GetDelta(capA, capB))
  <2>1. Fold(q - p) \in Int
    <3> HIDE DEF far, p, q
    <3> QED BY <1>6, <1>8
  <2> QED BY <1>7, <1>8, <2>1, NearIsWithin DEF GetDelta
<1> QED BY <1>9 DEF OnRisingPPS, UpdateStatus, Mark, TypeOK

\* Every step keeps it: an edge is captured at the offset of the registers, and
\* the handler puts registers and history down together.
LEMMA AlignedStep ==
    ASSUME TypeOK, AlignedInv, [Next]_vars
    PROVE  AlignedInv'
<1>1. ASSUME NEW p \in Positions, GppsEdge(p) PROVE AlignedInv'
  BY <1>1 DEF GppsEdge, ppsVars, AlignedInv
<1>2. ASSUME NEW c \in 0..(DIV_MSB - 1), UppsEdge(c) PROVE AlignedInv'
  <2>1. aligned'.at = aligned.at /\ (aligned'.edge => aligned.at >= 0)
    BY <1>2 DEF UppsEdge, TypeOK
  <2>2. UNCHANGED <<cca, ccb, inv>> /\ capB' = [lsb |-> UPPS_LSB, msb |-> c]
    BY <1>2 DEF UppsEdge, ppsVars
  <2>3. ASSUME aligned.at >= 0
        PROVE  \E a \in Capture :
                  /\ aligned.at = PositionOf(a)
                  /\ [a |-> cca, b |-> ccb, i |-> inv] = OffsetRegisters(a.msb)
                  /\ c = a.msb
    <3>1. PICK a \in Capture :
              /\ aligned.at = PositionOf(a)
              /\ [a |-> cca, b |-> ccb, i |-> inv] = OffsetRegisters(a.msb)
      BY <2>3 DEF AlignedInv
    <3>2. a.msb \in 0..(DIV_MSB - 1) /\ UppsRises(c)
      BY <1>2 DEF Capture, UppsEdge
    <3> QED BY <3>1, <3>2, RisesAtOffset
  <2> QED BY <2>1, <2>2, <2>3 DEF AlignedInv
<1>3. CASE OnRisingPPS
  <2> DEFINE e == GetDelta(capA, capB)
  <2>1. Realign(e) /\ UNCHANGED capB
    BY <1>3 DEF OnRisingPPS
  <2> HIDE DEF e
  <2>2. CASE NeedsRealign(e)
    <3> DEFINE r == OffsetRegisters(capA.msb)
    <3>1. /\ cca' = r.a /\ ccb' = r.b /\ inv' = r.i
          /\ aligned' = [at |-> PositionOf(capA), edge |-> FALSE]
      BY <2>1, <2>2 DEF Realign
    <3>2. [a |-> r.a, b |-> r.b, i |-> r.i] = r
      BY DEF OffsetRegisters
    <3> HIDE DEF r
    <3>3. [a |-> cca', b |-> ccb', i |-> inv'] = r
      BY <3>1, <3>2
    <3>4. aligned'.at = PositionOf(capA) /\ aligned'.edge = FALSE /\ capA \in Capture
      BY <3>1 DEF TypeOK
    <3> QED BY <3>3, <3>4 DEF AlignedInv, r
  <2>3. CASE ~NeedsRealign(e)
    BY <2>1, <2>3 DEF Realign, ppsVars, AlignedInv
  <2> QED BY <2>2, <2>3
<1>4. CASE UNCHANGED vars
  BY <1>4 DEF vars, ppsVars, AlignedInv
<1> QED BY <1>1, <1>2, <1>3, <1>4 DEF Next, SomeGppsEdge, SomeUppsEdge

\* gpsdo.c:205-215, 218-242, 284-289: the two branches of setPpsOffset, the folding of
\* getDelta and the threshold fit together: one realignment is enough, wherever
\* in the second the receiver's pulse is.
THEOREM RealignmentLasts == Spec => RealignLasts
<1>1. Init => AlignedInv
  BY DEF Init, NeverAligned, AlignedInv
<1>2. TypeOK /\ AlignedInv /\ [Next]_vars => AlignedInv'
  BY AlignedStep
<1>3. TypeOK /\ AlignedInv /\ [Next]_vars =>
        [ (/\ OnRisingPPS
           /\ aligned.edge
           /\ CircularDistance(PositionOf(capA), aligned.at) <= Margin)
          => realigned'[statsIndex] = 0 ]_vars
  BY NoMarkWithinMargin
<1> QED BY <1>1, <1>2, <1>3, TypeCorrect, PTL DEF Spec, RealignLasts

-----------------------------------------------------------------------------
(* The ring is a sliding window *)

WindowOf(ring, index) ==
    [k \in 1..RING_SIZE |-> ring[(index + k - 1) % RING_SIZE]]

\* Counting RING_SIZE slots from any index goes once around the ring.
LEMMA AroundTheRing ==
    ASSUME NEW index \in Slots
    PROVE  /\ \A k \in 1..RING_SIZE : (index + k - 1) % RING_SIZE =
                  IF index + k - 1 < RING_SIZE THEN index + k - 1 ELSE index + k - 1 - RING_SIZE
           /\ Slots = { (index + k - 1) % RING_SIZE : k \in 1..RING_SIZE }
           /\ \A k, m \in 1..RING_SIZE :
                  (index + k - 1) % RING_SIZE = (index + m - 1) % RING_SIZE => k = m
<1> DEFINE h(k) == (index + k - 1) % RING_SIZE
<1>1. RING_SIZE \in Nat \ {0} /\ index \in 0..(RING_SIZE - 1)
  BY LoopAssumption DEF Slots
<1>2. ASSUME NEW k \in 1..RING_SIZE
      PROVE  h(k) = IF index + k - 1 < RING_SIZE THEN index + k - 1 ELSE index + k - 1 - RING_SIZE
  <2>1. CASE index + k - 1 < RING_SIZE
    <3>1. index + k - 1 \in 0..(RING_SIZE - 1)
      BY <1>1, <2>1
    <3> QED BY <1>1, <2>1, <3>1
  <2>2. CASE ~(index + k - 1 < RING_SIZE)
    <3>1. index + k - 1 - RING_SIZE \in 0..(RING_SIZE - 1)
      BY <1>1, <2>2
    <3> QED BY <1>1, <2>2, <3>1
  <2> QED BY <2>1, <2>2
<1> HIDE DEF h
<1>3. ASSUME NEW i \in Slots
      PROVE  \E k \in 1..RING_SIZE : h(k) = i
  <2>1. i \in 0..(RING_SIZE - 1)
    BY DEF Slots
  <2>2. CASE i >= index
    <3>1. i - index + 1 \in 1..RING_SIZE
      BY <1>1, <2>1, <2>2
    <3>2. h(i - index + 1) = i
      BY <1>1, <1>2, <2>1, <3>1
    <3> QED BY <3>1, <3>2
  <2>3. CASE i < index
    <3>1. i - index + 1 + RING_SIZE \in 1..RING_SIZE
      BY <1>1, <2>1, <2>3
    <3>2. h(i - index + 1 + RING_SIZE) = i
      BY <1>1, <1>2, <2>1, <2>3, <3>1
    <3> QED BY <3>1, <3>2
  <2> QED BY <2>1, <2>2, <2>3, <1>1
<1>4. \A k \in 1..RING_SIZE : h(k) \in Slots
  BY <1>1, <1>2 DEF Slots
<1>5. \A k, m \in 1..RING_SIZE : h(k) = h(m) => k = m
  BY <1>1, <1>2
<1> QED BY <1>2, <1>3, <1>4, <1>5 DEF h

\* Writing at the index and stepping it appends the new error and drops the oldest.
LEMMA WindowShifts ==
    ASSUME NEW ring \in [Slots -> Int], NEW index \in Slots, NEW e \in Int
    PROVE  WindowOf([ring EXCEPT ![index] = e], (index + 1) % RING_SIZE)
              = Append(Tail(WindowOf(ring, index)), e)
<1> DEFINE next == (index + 1) % RING_SIZE
           new == [ring EXCEPT ![index] = e]
           w == WindowOf(ring, index)
           v == WindowOf(new, next)
<1>1. RING_SIZE \in Nat \ {0} /\ index \in 0..(RING_SIZE - 1)
  BY LoopAssumption DEF Slots
<1>2. next \in Slots /\ next = IF index + 1 < RING_SIZE THEN index + 1 ELSE 0
  <2>1. CASE index + 1 < RING_SIZE
    BY <1>1, <2>1 DEF Slots
  <2>2. CASE index + 1 = RING_SIZE
    BY <1>1, <2>2 DEF Slots
  <2> QED BY <1>1, <2>1, <2>2
<1>3. new \in [Slots -> Int] /\ new[index] = e /\ \A i \in Slots \ {index} : new[i] = ring[i]
  OBVIOUS
<1>4. w \in [1..RING_SIZE -> Int] /\ v \in [1..RING_SIZE -> Int]
  BY <1>2, <1>3, AroundTheRing DEF WindowOf
<1>5. w \in Seq(Int) /\ v \in Seq(Int) /\ Len(w) = RING_SIZE /\ Len(v) = RING_SIZE /\ w # <<>>
  <2> HIDE DEF w, v
  <2> QED BY <1>1, <1>4
<1>6. ASSUME NEW k \in 1..(RING_SIZE - 1) PROVE v[k] = w[k + 1]
  <2>1. k \in 1..RING_SIZE /\ k + 1 \in 1..RING_SIZE
    BY <1>1
  <2> DEFINE to == (next + k - 1) % RING_SIZE
             from == (index + (k + 1) - 1) % RING_SIZE
  <2>2. to = IF next + k - 1 < RING_SIZE THEN next + k - 1 ELSE next + k - 1 - RING_SIZE
    <3> HIDE DEF next
    <3> QED BY <1>2, <2>1, AroundTheRing
  <2>3. from = IF index + (k + 1) - 1 < RING_SIZE THEN index + (k + 1) - 1
               ELSE index + (k + 1) - 1 - RING_SIZE
    BY <2>1, AroundTheRing
  <2>4. to = from /\ to # index /\ to \in Slots
    <3> HIDE DEF next, to, from
    <3> QED BY <1>1, <1>2, <2>1, <2>2, <2>3 DEF Slots
  <2>5. v[k] = new[to] /\ w[k + 1] = ring[from]
    BY <2>1 DEF WindowOf
  <2> QED BY <1>3, <2>4, <2>5
<1>7. v[RING_SIZE] = e
  <2>1. RING_SIZE \in 1..RING_SIZE
    BY <1>1
  <2>2. (next + RING_SIZE - 1) % RING_SIZE = index
    <3> HIDE DEF next
    <3>1. (next + RING_SIZE - 1) % RING_SIZE =
              IF next + RING_SIZE - 1 < RING_SIZE THEN next + RING_SIZE - 1
              ELSE next + RING_SIZE - 1 - RING_SIZE
      BY <1>2, <2>1, AroundTheRing
    <3> QED BY <1>1, <1>2, <3>1
  <2> QED BY <1>3, <2>1, <2>2 DEF WindowOf
<1> HIDE DEF w, v
<1>8. /\ Tail(w) \in Seq(Int) /\ Len(Tail(w)) = RING_SIZE - 1
      /\ \A k \in 1..(RING_SIZE - 1) : Tail(w)[k] = w[k + 1]
  BY <1>5, HeadTailProperties
<1> DEFINE t == Tail(w)
           a == Append(t, e)
<1>9. /\ a \in Seq(Int) /\ Len(a) = RING_SIZE
      /\ \A k \in 1..(RING_SIZE - 1) : a[k] = t[k]
      /\ a[RING_SIZE] = e
  <2>1. t \in Seq(Int) /\ Len(t) = RING_SIZE - 1
    BY <1>8
  <2> HIDE DEF t
  <2> QED BY <1>1, <2>1, AppendProperties
<1>10. \A k \in 1..RING_SIZE : v[k] = a[k]
  <2>1. \A k \in 1..(RING_SIZE - 1) : v[k] = a[k]
    BY <1>6, <1>8, <1>9
  <2>2. v[RING_SIZE] = a[RING_SIZE]
    BY <1>7, <1>9
  <2> HIDE DEF a
  <2> QED BY <1>1, <2>1, <2>2
<1>11. v = a
  <2> HIDE DEF a
  <2> QED BY <1>5, <1>9, <1>10, SeqEqual
<1> QED BY <1>11 DEF v, w

\* The window has the ring's sum of squares.
LEMMA WindowSum ==
    ASSUME NEW ring \in [Slots -> Int], NEW index \in Slots
    PROVE  LET w == WindowOf(ring, index)
           IN  /\ SumFunction([k \in 1..RING_SIZE |-> w[k] * w[k]])
                    = SumFunction([i \in Slots |-> ring[i] * ring[i]])
               /\ SumFunction([i \in Slots |-> ring[i] * ring[i]]) \in Nat
<1> DEFINE w == WindowOf(ring, index)
           f == [k \in 1..RING_SIZE |-> w[k] * w[k]]
           g == [i \in Slots |-> ring[i] * ring[i]]
           h == [k \in 1..RING_SIZE |-> (index + k - 1) % RING_SIZE]
           S == 1..RING_SIZE
<1>1. IsFiniteSet(S) /\ IsFiniteSet(Slots)
  BY LoopAssumption, FS_Interval DEF Slots
<1>2. \A k \in S : h[k] \in Slots
  BY AroundTheRing
<1>3. \A k \in S : f[k] \in Int /\ f[k] = g[h[k]]
  <2> SUFFICES ASSUME NEW k \in S PROVE f[k] \in Int /\ f[k] = g[h[k]]
    OBVIOUS
  <2>1. w[k] = ring[h[k]] /\ w[k] \in Int
    BY <1>2 DEF WindowOf
  <2>2. f[k] = w[k] * w[k] /\ g[h[k]] = ring[h[k]] * ring[h[k]]
    BY <1>2
  <2> HIDE DEF f, g, h, w
  <2> QED BY <2>1, <2>2
<1>4. \A k, m \in S : h[k] = h[m] => k = m
  BY AroundTheRing
<1>5. { h[k] : k \in S } = Slots
  BY AroundTheRing
<1>6. DOMAIN f = S /\ DOMAIN g = Slots
  OBVIOUS
<1>7. \A i \in Slots : g[i] \in Nat
  <2> SUFFICES ASSUME NEW i \in Slots PROVE ring[i] * ring[i] \in Nat
    OBVIOUS
  <2>1. ring[i] \in Int
    OBVIOUS
  <2>2. \A x \in Int : x * x \in Nat
    <3> SUFFICES ASSUME NEW x \in Int PROVE x * x \in Nat
      OBVIOUS
    <3>1. CASE x >= 0
      BY <3>1
    <3>2. CASE x < 0
      <4>1. -x \in Nat /\ (-x) * (-x) = x * x
        BY <3>2
      <4>2. (-x) * (-x) \in Nat
        BY <4>1
      <4> QED BY <4>1, <4>2
    <3> QED BY <3>1, <3>2
  <2> QED BY <2>1, <2>2
<1> HIDE DEF f, g, h, S
<1>8. SumFunctionOnSet(f, S) = SumFunctionOnSet(g, { h[k] : k \in S })
  BY <1>1, <1>3, <1>4, SumReindex
<1>9. SumFunctionOnSet(g, Slots) \in Nat
  <2>1. Nat \subseteq Int /\ 0 \in Nat /\ \A a, b \in Nat : a + b \in Nat
    OBVIOUS
  <2> QED BY <1>1, <1>7, <2>1, SumTyped
<1>10. SumFunction(f) = SumFunction(g) /\ SumFunction(g) \in Nat
  BY <1>5, <1>6, <1>8, <1>9 DEF SumFunction
<1> QED BY <1>10 DEF f, g, w, S

(***************************************************************************)
(* A slot is marked exactly when its error forces a realignment: the lock  *)
(* test reads the marks, the window knows only errors.  StatusInv has one  *)
(* direction, which the verdict needs; the window needs both.              *)
(***************************************************************************)
MarksInv == \A i \in Slots : realigned[i] = 0 <=> ~NeedsRealign(error[i])

\* An error that is no reason to realign is within the limit.
LEMMA WithinIsNoRealign ==
    ASSUME NEW e \in Int
    PROVE  Window!Within(e) <=> ~NeedsRealign(e)
BY WidthAssumption DEF Window!Within, NeedsRealign

\* Every measured error is one of those the window may take.
LEMMA DeltaMeasurable ==
    ASSUME NEW a \in Capture, NEW b \in Capture
    PROVE  GetDelta(a, b) \in Measurable
<1> DEFINE d == PositionOf(b) - PositionOf(a)
           h == DIV_ALL \div 2
<1>1. DIV_ALL \in Nat \ {0} /\ DIV_ALL % 2 = 0
  BY DivAssumption DEF DIV_ALL
<1>2. d \in (1 - DIV_ALL)..(DIV_ALL - 1)
  <2>1. PositionOf(a) \in 0..(DIV_ALL - 1) /\ PositionOf(b) \in 0..(DIV_ALL - 1)
    BY PositionInRange DEF Positions
  <2> HIDE DEF DIV_ALL
  <2> QED BY <1>1, <2>1
<1>3. Fold(d) \in (1 - DIV_ALL)..(DIV_ALL - 1)
  <2> HIDE DEF d, DIV_ALL
  <2>1. h \in Nat /\ DIV_ALL = 2 * h /\ h >= 1
    BY <1>1
  <2>2. Fold(d) = IF d > h - 1 THEN (IF DIV_ALL - d < -h THEN DIV_ALL + (DIV_ALL - d) ELSE DIV_ALL - d)
                  ELSE (IF d < -h THEN DIV_ALL + d ELSE d)
    BY DEF Fold
  <2> HIDE DEF h
  <2> QED BY <1>2, <2>1, <2>2
<1> HIDE DEF d
<1>4. GetDelta(a, b) = ToNs(Fold(d))
  BY DEF GetDelta, d
<1> QED BY <1>3, <1>4 DEF Measurable

\* The lock test over the marks is the limit over the window.
LEMMA LockedIsWithin ==
    ASSUME NEW ring \in [Slots -> Int], NEW marks, NEW index \in Slots,
           \A i \in Slots : marks[i] = 0 <=> ~NeedsRealign(ring[i])
    PROVE  Locked(marks) <=> \A k \in 1..RING_SIZE : Window!Within(WindowOf(ring, index)[k])
<1> DEFINE w == WindowOf(ring, index)
           h(k) == (index + k - 1) % RING_SIZE
<1>1. \A k \in 1..RING_SIZE : h(k) \in Slots /\ w[k] = ring[h(k)]
  BY AroundTheRing DEF WindowOf
<1>2. \A i \in Slots : \E k \in 1..RING_SIZE : i = h(k)
  BY AroundTheRing
<1> HIDE DEF w, h
<1>3. \A k \in 1..RING_SIZE : Window!Within(w[k]) <=> marks[h(k)] = 0
  BY <1>1, WithinIsNoRealign
<1>4. Locked(marks) <=> \A k \in 1..RING_SIZE : Window!Within(w[k])
  BY <1>1, <1>2, <1>3 DEF Locked
<1> QED BY <1>4 DEF w

\* The 32-bit verdict over the ring is the exact one over the window.
LEMMA SettledIsStable ==
    ASSUME NEW ring \in [Slots -> Int], NEW marks, NEW index \in Slots,
           \A i \in Slots : marks[i] = 0 <=> ~NeedsRealign(ring[i])
    PROVE  Settled(ring, marks) <=> (Locked(marks) /\ Window!MeanSquareOk(WindowOf(ring, index)))
<1> SUFFICES ASSUME Locked(marks)
             PROVE  SumSquares(ring) <= RING_SIZE * SETTLED_VAR * SETTLED_VAR
                        <=> Window!MeanSquareOk(WindowOf(ring, index))
  BY DEF Settled
<1> DEFINE w == WindowOf(ring, index)
           sum == SumFunction([i \in Slots |-> ring[i] * ring[i]])
<1>1. Products(ring) = [i \in Slots |-> ring[i] * ring[i]]
  BY ProductsExact DEF Locked
<1>2. SumFunction([k \in 1..RING_SIZE |-> w[k] * w[k]]) = sum /\ sum \in Nat
  BY WindowSum
<1>3. SumSquares(ring) = sum
  <2> HIDE DEF w
  <2>1. SumSquares(ring) = Abs(sum)
    BY <1>1 DEF SumSquares
  <2> HIDE DEF sum
  <2> QED BY <1>2, <2>1 DEF Abs
<1>4. Window!MeanSquareOk(w) <=>
        SumFunction([k \in 1..RING_SIZE |-> w[k] * w[k]]) <= RING_SIZE * SETTLED_VAR * SETTLED_VAR
  <2> HIDE DEF w
  <2> QED BY DEF Window!MeanSquareOk, Window!SumFunction, Window!SumFunctionOnSet,
             Window!FoldFunctionOnSet, Window!MapThenFoldSet,
             SumFunction, SumFunctionOnSet, FoldFunctionOnSet, MapThenFoldSet
<1> QED BY <1>2, <1>3, <1>4

\* The handler measures, everything else leaves the window alone.
LEMMA WindowStep ==
    ASSUME TypeOK, MarksInv, [Next]_vars
    PROVE  [Window!Next]_<<OldestFirst, pllLocked, pllSettled>> /\ MarksInv'
<1>1. CASE OnRisingPPS
  <2> DEFINE e == GetDelta(capA, capB)
             w == WindowOf(error', statsIndex')
  <2>1. e \in Measurable /\ e \in Int
    BY DeltaMeasurable, DeltaInt DEF TypeOK
  <2>2. UpdateStatus(e)
    BY <1>1 DEF OnRisingPPS
  <2> HIDE DEF e
  <2>3. /\ error \in [Slots -> Int] /\ realigned \in [Slots -> {0, 1}] /\ statsIndex \in Slots
        /\ error' = [error EXCEPT ![statsIndex] = e]
        /\ realigned' = [realigned EXCEPT ![statsIndex] = Mark(e)]
        /\ statsIndex' = (statsIndex + 1) % RING_SIZE
        /\ pllLocked' = Locked(realigned') /\ pllSettled' = Settled(error', realigned')
    BY <2>2 DEF UpdateStatus, TypeOK
  <2>4. error' \in [Slots -> Int] /\ statsIndex' \in Slots
    BY <2>1, <2>3, LoopAssumption DEF Slots
  <2>5. \A i \in Slots : realigned'[i] = 0 <=> ~NeedsRealign(error'[i])
    <3> SUFFICES ASSUME NEW i \in Slots
                 PROVE  realigned'[i] = 0 <=> ~NeedsRealign(error'[i])
      OBVIOUS
    <3>1. CASE i = statsIndex
      <4>1. realigned'[i] = Mark(e) /\ error'[i] = e
        BY <2>3, <3>1
      <4> QED BY <4>1 DEF Mark
    <3>2. CASE i # statsIndex
      <4>1. realigned'[i] = realigned[i] /\ error'[i] = error[i]
        BY <2>3, <3>2
      <4> QED BY <4>1 DEF MarksInv
    <3> QED BY <3>1, <3>2
  <2>6. w = Append(Tail(OldestFirst), e)
    <3>1. OldestFirst = WindowOf(error, statsIndex)
      BY DEF OldestFirst, WindowOf
    <3> QED BY <2>1, <2>3, <3>1, WindowShifts
  <2>7. OldestFirst' = w
    BY DEF OldestFirst, WindowOf
  <2>8. pllLocked' = (\A k \in 1..RING_SIZE : Window!Within(w[k]))
    <3>1. Locked(realigned') <=> \A k \in 1..RING_SIZE : Window!Within(w[k])
      BY <2>4, <2>5, LockedIsWithin
    <3>2. Locked(realigned') \in BOOLEAN
      BY DEF Locked
    <3> QED BY <2>3, <3>1, <3>2
  <2>9. pllSettled' = (pllLocked' /\ Window!MeanSquareOk(w))
    BY <2>3, <2>4, <2>5, SettledIsStable DEF Settled, Locked
  <2>10. Window!Measure(e)
    <3> HIDE DEF w
    <3> QED BY <2>6, <2>7, <2>8, <2>9 DEF Window!Measure
  <2>11. MarksInv'
    BY <2>5 DEF MarksInv
  <2> QED BY <2>1, <2>10, <2>11 DEF Window!Next
<1>2. ASSUME UNCHANGED ringVars
      PROVE  UNCHANGED <<OldestFirst, pllLocked, pllSettled>> /\ MarksInv'
  BY <1>2 DEF ringVars, OldestFirst, MarksInv
<1>3. ASSUME NEW p \in Positions, GppsEdge(p) PROVE UNCHANGED ringVars
  BY <1>3 DEF GppsEdge
<1>4. ASSUME NEW c \in 0..(DIV_MSB - 1), UppsEdge(c) PROVE UNCHANGED ringVars
  BY <1>4 DEF UppsEdge
<1>5. UNCHANGED vars => UNCHANGED ringVars
  BY DEF vars
<1> QED BY <1>1, <1>2, <1>3, <1>4, <1>5 DEF Next, SomeGppsEdge, SomeUppsEdge

\* gpsdo.c:284-322: the ring, the index that wraps, the marks and the sums of
\* 32-bit squares implement the sliding window of PllWindow: what the page calls
\* stable is the exact verdict over the last RING_SIZE errors, for every size of
\* the ring and every threshold that keeps its assumption.
THEOREM RingIsWindow == Spec => StatusIsWindow
<1>1. Init => Window!Init /\ MarksInv
  <2> SUFFICES ASSUME Init PROVE Window!Init /\ MarksInv
    OBVIOUS
  <2>1. error = [i \in Slots |-> 0] /\ realigned = [i \in Slots |-> 0] /\ statsIndex \in Slots
    BY LoopAssumption DEF Init, Slots
  <2>2. OldestFirst = [i \in 1..RING_SIZE |-> 0]
    BY <2>1, AroundTheRing DEF OldestFirst
  <2>3. MarksInv
    BY <2>1, WidthAssumption DEF MarksInv, NeedsRealign
  <2> QED BY <2>2, <2>3 DEF Init, Window!Init
<1>2. TypeOK /\ MarksInv /\ [Next]_vars =>
        [Window!Next]_<<OldestFirst, pllLocked, pllSettled>> /\ MarksInv'
  BY WindowStep
<1> QED BY <1>1, <1>2, TypeCorrect, PTL DEF Spec, StatusIsWindow, Window!Spec
-----------------------------------------------------------------------------
(* The dither: arithmetic *)

\* A word is less than the square of a byte.
LEMMA WordInRange ==
    ASSUME NEW h \in 0..(BYTE - 1), NEW l \in 0..(BYTE - 1)
    PROVE  Dac!Word(h, l) \in Dac!Words
<1>1. h * BYTE \in Nat /\ h * BYTE <= (BYTE - 1) * BYTE
  BY DacAssumption DEF Dac!DacConstants
<1>2. (BYTE - 1) * BYTE = BYTE * BYTE - BYTE
  BY DacAssumption DEF Dac!DacConstants
<1> QED BY <1>1, <1>2, DacAssumption DEF Dac!DacConstants, Dac!Word, Dac!Words, Dac!WORD

\* Both bytes of a word are bytes.
LEMMA BytesOf ==
    ASSUME NEW w \in Dac!Words
    PROVE  Dac!High(w) \in 0..(BYTE - 1) /\ Dac!Low(w) \in 0..(BYTE - 1)
<1>1. w \in Nat /\ w < BYTE * BYTE /\ BYTE \in Nat \ {0}
  BY DacAssumption DEF Dac!DacConstants, Dac!Words, Dac!WORD
<1>2. /\ w \div BYTE \in Nat /\ w % BYTE \in 0..(BYTE - 1)
      /\ w = BYTE * (w \div BYTE) + (w % BYTE)
  BY <1>1, Division
<1>3. ASSUME BYTE <= w \div BYTE PROVE FALSE
  <2>1. BYTE * BYTE <= BYTE * (w \div BYTE)
    BY <1>1, <1>2, <1>3
  <2> QED BY <1>1, <1>2, <2>1
<1> QED BY <1>1, <1>2, <1>3 DEF Dac!High, Dac!Low

\* What a feedback word can be is a word, and so is any dithered one.
LEMMA FeedbackIsWord ==
    ASSUME NEW fb \in 0..MAX_FB, NEW t \in 0..(DITHER - 1)
    PROVE  /\ fb \in Dac!Words
           /\ (fb + t) % Dac!WORD = fb + t /\ (fb + t) \in Dac!Words
<1>1. Dac!WORD \in Nat \ {0} /\ fb + t \in 0..(Dac!WORD - 1) /\ fb \in 0..(Dac!WORD - 1)
  BY DacAssumption DEF Dac!DacConstants, Dac!WORD
<1> QED BY <1>1 DEF Dac!Words

\* The counter of four bits goes on by one or starts again.
LEMMA Counter ==
    ASSUME twiddle \in 0..(DITHER - 1)
    PROVE  Dac!NextTwiddle = IF twiddle = DITHER - 1 THEN 0 ELSE twiddle + 1
<1>1. CASE twiddle = DITHER - 1
  <2>1. DITHER \in Nat \ {0} /\ twiddle + 1 = DITHER
    BY <1>1, DacAssumption DEF Dac!DacConstants
  <2>2. DITHER % DITHER = 0
    BY <2>1
  <2> QED BY <2>1, <2>2, <1>1 DEF Dac!NextTwiddle
<1>2. CASE twiddle # DITHER - 1
  BY <1>2, DacAssumption DEF Dac!DacConstants, Dac!NextTwiddle
<1> QED BY <1>1, <1>2

\* The converter's level is one higher from the count on at which the ignored
\* part of the word overflows.
LEMMA LevelOfSum ==
    ASSUME NEW w \in Nat, NEW t \in 0..(DITHER - 1)
    PROVE  Dac!Level(w + t) = Dac!Level(w) + IF (w % DITHER) + t >= DITHER THEN 1 ELSE 0
<1> DEFINE q == w \div DITHER
           r == w % DITHER
<1>1. /\ q \in Nat /\ r \in 0..(DITHER - 1) /\ w = DITHER * q + r
      /\ DITHER \in Nat \ {0}
  BY Division, DacAssumption DEF Dac!DacConstants
<1> HIDE DEF q, r
<1>2. CASE r + t < DITHER
  <2>1. w + t = DITHER * q + (r + t) /\ r + t \in 0..(DITHER - 1)
    BY <1>1, <1>2
  <2>2. (w + t) \div DITHER = q
    BY <1>1, <2>1, QuotientUnique
  <2> QED BY <1>1, <1>2, <2>2 DEF Dac!Level, q, r
<1>3. CASE r + t >= DITHER
  <2>1. DITHER * (q + 1) = DITHER * q + DITHER
    BY <1>1
  <2>2. w + t = DITHER * (q + 1) + (r + t - DITHER) /\ r + t - DITHER \in 0..(DITHER - 1)
    BY <1>1, <1>3, <2>1
  <2>3. (w + t) \div DITHER = q + 1
    BY <1>1, <2>2, QuotientUnique
  <2> QED BY <1>1, <1>3, <2>3 DEF Dac!Level, q, r
<1> QED BY <1>1, <1>2, <1>3

-----------------------------------------------------------------------------
(* The dither: the invariant *)

Ignored(w) == w % DITHER

\* Among the counter values below t, those that raise the level of w by one.
Above(w, t) == IF t + Ignored(w) <= DITHER THEN 0 ELSE t + Ignored(w) - DITHER

\* Among the s values before t, which may reach back past zero, those that do.
Raised(w, t, s) ==
    IF s <= t THEN Above(w, t) - Above(w, t - s)
    ELSE Above(w, t) + Ignored(w) - Above(w, t - s + DITHER)

\* While the word is left alone, the sum of its conversions is known at every
\* conversion and not only at the sixteenth.
SumInv ==
    pc = "idle" =>
        total = samples * Dac!Level(stored) + Raised(stored, twiddle, samples)

\* Sixteen values raise the level as often as the ignored part of the word says.
LEMMA RaisedAll ==
    ASSUME NEW w \in Nat, NEW t \in 0..(DITHER - 1)
    PROVE  Raised(w, t, DITHER) = Ignored(w)
<1>1. DITHER \in Nat \ {0} /\ Ignored(w) \in 0..(DITHER - 1)
  BY Division, DacAssumption DEF Dac!DacConstants, Ignored
<1>2. ~(DITHER <= t) /\ t - DITHER + DITHER = t
  BY <1>1
<1> QED BY <1>1, <1>2 DEF Raised, Above

\* One more value, the counter's, counts itself and nothing else.
LEMMA RaisedOneMore ==
    ASSUME NEW w \in Nat, NEW t \in 0..(DITHER - 1), NEW s \in 0..(DITHER - 1)
    PROVE  Raised(w, IF t = DITHER - 1 THEN 0 ELSE t + 1, s + 1)
               = Raised(w, t, s) + IF Ignored(w) + t >= DITHER THEN 1 ELSE 0
<1>1. DITHER \in Nat \ {0} /\ Ignored(w) \in 0..(DITHER - 1)
  BY Division, DacAssumption DEF Dac!DacConstants, Ignored
<1> QED BY <1>1 DEF Raised, Above

\* Nothing has been counted before the first conversion.
LEMMA RaisedNone ==
    ASSUME NEW w \in Nat, NEW t \in 0..(DITHER - 1)
    PROVE  Raised(w, t, 0) = 0
<1>1. DITHER \in Nat \ {0} /\ Ignored(w) \in 0..(DITHER - 1)
  BY Division, DacAssumption DEF Dac!DacConstants, Ignored
<1> QED BY <1>1 DEF Raised, Above

-----------------------------------------------------------------------------
(* The dither: the steps *)

\* The start is well typed.
LEMMA DacTypeInit == Dac!Init => Dac!TypeOK
<1> SUFFICES ASSUME Dac!Init PROVE Dac!TypeOK
  OBVIOUS
<1>1. DITHER \in Nat \ {0} /\ 0 \in 0..(DITHER - 1) /\ 0 \in 0..DITHER
  BY DacAssumption DEF Dac!DacConstants
<1>2. ZERO_FB \in 0..MAX_FB /\ ZERO_FB \in Dac!Words
  BY <1>1, FeedbackIsWord, DacAssumption DEF Dac!DacConstants
<1> QED BY <1>1, <1>2 DEF Dac!Init, Dac!TypeOK

\* Storing a byte and converting keep the types.
LEMMA DacTypeStep == Dac!TypeOK /\ [Dac!Next]_Dac!vars => Dac!TypeOK'
<1> SUFFICES ASSUME Dac!TypeOK, [Dac!Next]_Dac!vars PROVE Dac!TypeOK'
  OBVIOUS
<1>0. DITHER \in Nat \ {0} /\ 0 \in 0..(DITHER - 1) /\ 0 \in 0..DITHER /\ 1 \in 0..DITHER
  BY DacAssumption DEF Dac!DacConstants
<1>1. ASSUME NEW fb \in 0..MAX_FB, Dac!StoreFirst(fb) PROVE Dac!TypeOK'
  <2>1. fb \in Dac!Words
    BY <1>0, FeedbackIsWord
  <2>2. /\ Dac!Word(Dac!High(stored), Dac!Low(fb)) \in Dac!Words
        /\ Dac!Word(Dac!High(fb), Dac!Low(stored)) \in Dac!Words
    BY <2>1, BytesOf, WordInRange DEF Dac!TypeOK
  <2> QED BY <1>0, <1>1, <2>2 DEF Dac!StoreFirst, Dac!TypeOK
<1>2. CASE Dac!StoreSecond
  <2>1. target \in Dac!Words
    BY <1>0, FeedbackIsWord DEF Dac!TypeOK
  <2> QED BY <1>0, <1>2, <2>1 DEF Dac!StoreSecond, Dac!TypeOK
<1>3. CASE Dac!Twiddle
  <2>1. Dac!NextTwiddle \in 0..(DITHER - 1)
    BY <1>0, Counter DEF Dac!TypeOK
  <2>2. Dac!WORD \in Nat \ {0}
    BY DacAssumption DEF Dac!DacConstants, Dac!WORD
  <2>3. dac' \in Dac!Words
    <3>1. stored + twiddle \in Nat
      BY <1>0 DEF Dac!TypeOK, Dac!Words
    <3> QED BY <1>3, <2>2, <3>1 DEF Dac!Twiddle, Dac!Words
  <2>4. Dac!Level(dac') \in Nat
    <3>1. dac' \in Nat
      BY <2>2, <2>3 DEF Dac!Words
    <3> QED BY <3>1, <1>0, Division DEF Dac!Level
  <2>5. samples' \in 0..DITHER /\ total' \in Nat
    BY <1>0, <1>3, <2>4 DEF Dac!Twiddle, Dac!TypeOK
  <2> QED BY <1>3, <2>1, <2>3, <2>5 DEF Dac!Twiddle, Dac!TypeOK
<1>4. CASE UNCHANGED Dac!vars
  BY <1>4 DEF Dac!vars, Dac!TypeOK
<1> QED BY <1>1, <1>2, <1>3, <1>4 DEF Dac!Next

\* A conversion of a stored word is the word plus the counter.
LEMMA Conversion ==
    ASSUME Dac!TypeOK, Dac!Twiddle, pc = "idle"
    PROVE  /\ dac' = stored + twiddle
           /\ Dac!Level(dac') = Dac!Level(stored)
                            + IF Ignored(stored) + twiddle >= DITHER THEN 1 ELSE 0
<1>1. stored \in 0..MAX_FB /\ twiddle \in 0..(DITHER - 1)
  BY DEF Dac!TypeOK
<1>2. dac' = stored + twiddle
  BY <1>1, FeedbackIsWord DEF Dac!Twiddle
<1>3. stored \in Nat
  BY <1>1, DacAssumption DEF Dac!DacConstants
<1> QED BY <1>1, <1>2, <1>3, LevelOfSum DEF Ignored

\* A conversion adds to the sum what the counts so far say; a store starts it anew.
LEMMA SumStep == Dac!TypeOK /\ SumInv /\ [Dac!Next]_Dac!vars => SumInv'
<1> SUFFICES ASSUME Dac!TypeOK, SumInv, [Dac!Next]_Dac!vars, pc' = "idle"
             PROVE  total' = samples' * Dac!Level(stored') + Raised(stored', twiddle', samples')
  BY DEF SumInv
<1>0. /\ DITHER \in Nat \ {0} /\ stored \in Nat /\ target \in Nat
      /\ Dac!Level(stored) \in Nat /\ Dac!Level(target) \in Nat
  <2>1. DITHER \in Nat \ {0} /\ Dac!WORD \in Nat \ {0} /\ MAX_FB \in Nat
    BY DacAssumption DEF Dac!DacConstants, Dac!WORD
  <2>2. stored \in Nat /\ target \in Nat
    BY <2>1 DEF Dac!TypeOK, Dac!Words
  <2> QED BY <2>1, <2>2, Division DEF Dac!Level
<1>1. ASSUME NEW fb \in 0..MAX_FB, Dac!StoreFirst(fb) PROVE FALSE
  BY <1>1 DEF Dac!StoreFirst
<1>2. CASE Dac!StoreSecond
  <2>1. Raised(target, twiddle, 0) = 0
    BY <1>0, RaisedNone DEF Dac!TypeOK
  <2> QED BY <1>0, <1>2, <2>1 DEF Dac!StoreSecond
<1>3. CASE Dac!Twiddle
  <2> DEFINE l == Dac!Level(stored)
             up == IF Ignored(stored) + twiddle >= DITHER THEN 1 ELSE 0
             next == IF twiddle = DITHER - 1 THEN 0 ELSE twiddle + 1
  <2>1. /\ pc = "idle" /\ UNCHANGED stored /\ twiddle' = next
        /\ twiddle \in 0..(DITHER - 1)
        /\ total = samples * l + Raised(stored, twiddle, samples)
    BY <1>3, Counter DEF Dac!Twiddle, Dac!TypeOK, SumInv
  <2>2. Dac!Level(dac') = l + up /\ up \in Nat
    BY <1>3, <2>1, Conversion
  <2>3. CASE samples = DITHER
    <3>1. samples' = 1 /\ total' = l + up
      BY <1>3, <2>2, <2>3 DEF Dac!Twiddle
    <3>2. Raised(stored, next, 0 + 1) = Raised(stored, twiddle, 0) + up
      BY <1>0, <2>1, RaisedOneMore
    <3>3. Raised(stored, next, 1) = up
      BY <1>0, <2>1, <2>2, <3>2, RaisedNone
    <3>4. 1 * l = l
      BY <1>0
    <3> HIDE DEF l, up, next
    <3> QED BY <2>1, <3>1, <3>3, <3>4 DEF l
  <2>4. CASE samples # DITHER
    <3>1. samples \in 0..(DITHER - 1) /\ samples \in Nat
      BY <1>0, <2>4 DEF Dac!TypeOK
    <3>2. samples' = samples + 1 /\ total' = total + (l + up)
      BY <1>3, <2>2, <2>4 DEF Dac!Twiddle
    <3>3. Raised(stored, next, samples + 1) = Raised(stored, twiddle, samples) + up
      BY <1>0, <2>1, <3>1, RaisedOneMore
    <3>4. (samples + 1) * l = samples * l + l /\ samples * l \in Nat /\ l \in Nat
      BY <1>0, <3>1
    <3>5. Raised(stored, twiddle, samples) \in Int
      <4>1. Ignored(stored) \in 0..(DITHER - 1)
        BY <1>0, Division DEF Ignored
      <4> QED BY <1>0, <2>1, <3>1, <4>1 DEF Raised, Above
    <3> HIDE DEF l, up, next
    <3> QED BY <2>1, <2>2, <3>1, <3>2, <3>3, <3>4, <3>5 DEF l
  <2> QED BY <2>3, <2>4
<1>4. CASE UNCHANGED Dac!vars
  BY <1>4 DEF Dac!vars, SumInv
<1> QED BY <1>1, <1>2, <1>3, <1>4 DEF Dac!Next

-----------------------------------------------------------------------------
(* The dither: theorems *)

\* Every step of the run is one of the loop or one of the output.
LEMMA Parts ==
    /\ MCInit => Init /\ Dac!Init
    /\ [MCNext]_mcvars => [Next]_vars /\ [Dac!Next]_Dac!vars
BY DEF MCInit, MCNext, mcvars, dacvars, Dac!vars

\* gpsdo.c:268 and 354-357: words, counter and converter keep their width.
THEOREM DacTyped == MCSpec => []Dac!TypeOK
<1> QED BY Parts, DacTypeInit, DacTypeStep, PTL DEF MCSpec

\* gpsdo.c:354-357: sixteen conversions of a word that was not changed meanwhile
\* add up to the word, for every width of word and counter.
THEOREM DitherCorrect == MCSpec => []DitherExact
<1> DEFINE IInv == Dac!TypeOK /\ SumInv
<1>1. Dac!Init => IInv
  <2> SUFFICES ASSUME Dac!Init PROVE IInv
    OBVIOUS
  <2>1. Dac!TypeOK
    BY DacTypeInit
  <2>2. ZERO_FB \in Nat /\ DITHER \in Nat \ {0} /\ 0 \in 0..(DITHER - 1)
    BY DacAssumption DEF Dac!DacConstants
  <2>3. Dac!Level(ZERO_FB) \in Nat
    BY <2>2, Division DEF Dac!Level
  <2>4. Raised(ZERO_FB, 0, 0) = 0 /\ 0 * Dac!Level(ZERO_FB) = 0
    BY <2>2, <2>3, RaisedNone
  <2> QED BY <2>1, <2>4 DEF Dac!Init, SumInv
<1>2. IInv /\ [Dac!Next]_Dac!vars => IInv'
  BY DacTypeStep, SumStep
<1>3. IInv => DitherExact
  <2> SUFFICES ASSUME Dac!TypeOK, SumInv, pc = "idle", samples = DITHER
               PROVE  total = stored
    BY DEF DitherExact, Dac!DitherExact
  <2>1. /\ stored \in Nat /\ twiddle \in 0..(DITHER - 1) /\ DITHER \in Nat \ {0}
    BY DacAssumption DEF Dac!DacConstants, Dac!TypeOK, Dac!Words
  <2>2. Raised(stored, twiddle, DITHER) = Ignored(stored)
    BY <2>1, RaisedAll
  <2>3. stored = DITHER * Dac!Level(stored) + Ignored(stored)
    BY <2>1, Division DEF Dac!Level, Ignored
  <2> QED BY <2>2, <2>3 DEF SumInv
<1> QED BY Parts, <1>1, <1>2, <1>3, PTL DEF MCSpec

\* gpsdo.c:263-265: the limit on the word keeps every conversion of a stored word
\* at or above it; the sum with the counter never wraps.
THEOREM StoredWordNeverJumps == MCSpec => NoJump
<1>1. Dac!TypeOK /\ [Dac!Next]_Dac!vars => [Dac!Twiddle /\ pc = "idle" => dac' >= stored]_Dac!vars
  <2> SUFFICES ASSUME Dac!TypeOK, Dac!Twiddle, pc = "idle" PROVE dac' >= stored
    OBVIOUS
  <2>1. stored \in 0..MAX_FB /\ twiddle \in 0..(DITHER - 1) /\ DITHER \in Nat /\ MAX_FB \in Nat
    BY DacAssumption DEF Dac!DacConstants, Dac!TypeOK
  <2>2. dac' = stored + twiddle
    BY Conversion
  <2> QED BY <2>1, <2>2
<1> QED BY Parts, <1>1, DacTyped, PTL DEF MCSpec, NoJump, Dac!NoJump
=============================================================================
