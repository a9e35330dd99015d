----------------------------- MODULE SignalChain -----------------------------
(***************************************************************************)
(* The simulation of analysis/frequency/main.cpp: a chain of modules, each *)
(* of which reads the pipes of earlier ones and writes its own, stepped in *)
(* the order they were pushed; one sample in OVERSAMPLING is kept; the     *)
(* samples are shifted by the Nyquist frequency, filtered in place and     *)
(* split into the I and Q inputs of the Fourier transform.                 *)
(*                                                                         *)
(* Samples and weights are integers: rounding is not modelled.  Everything *)
(* the code does to the received signal is linear in it.                   *)
(***************************************************************************)
EXTENDS Integers, FiniteSets, Functions

CONSTANTS
    OVERSAMPLING, ADC_SAMPLES,
    FILTERED,           \* 320: the first sample the decimation filter writes
    SETTLED,            \* 1024: the first sample that is transformed
    FFT_SIZE, STRIDE,   \* transformed are FFT_SIZE pairs, STRIDE samples apart
    Weights,            \* of "filtIf1", "filtIf2" and "decimation", on 0..n-1
    Oscillator,         \* of "lo1" and "lo2": values at the steps
    Signals             \* that may be received: values at the steps

SAMPLES == ADC_SAMPLES * OVERSAMPLING
Steps == 0..(SAMPLES - 1)
Filters == {"filtIf1", "filtIf2"}
Sources == {"rf", "lo1", "lo2"}
Chain == <<"rf", "lo1", "lo2", "mix1", "filtIf1", "mix2", "filtIf2">>
Modules == { Chain[n] : n \in 1..7 }
Factors == [mix1 |-> <<"rf", "lo1">>, mix2 |-> <<"filtIf1", "lo2">>]
FilterInput == [filtIf1 |-> "mix1", filtIf2 |-> "mix2"]

Taps(f) == DOMAIN Weights[f]
Length(f) == Cardinality(Taps(f))

\* Filters and signals of numbers, and what the loops of main need to stay inside
\* output.
ChainConstants ==
    /\ {OVERSAMPLING, ADC_SAMPLES, FFT_SIZE, STRIDE} \subseteq Nat \ {0}
    /\ {FILTERED, SETTLED} \subseteq Nat
    /\ DOMAIN Weights = Filters \cup {"decimation"}
    /\ \A f \in DOMAIN Weights : /\ Length(f) \in Nat \ {0} /\ Taps(f) = 0..(Length(f) - 1)
                                 /\ \A n \in Taps(f) : Weights[f][n] \in Int
    /\ DOMAIN Oscillator = {"lo1", "lo2"}
    /\ \A o \in DOMAIN Oscillator : DOMAIN Oscillator[o] = Steps
                                    /\ \A s \in Steps : Oscillator[o][s] \in Int
    /\ \A x \in Signals : DOMAIN x = Steps /\ \A s \in Steps : x[s] \in Int
    /\ FILTERED >= 2 * (Length("decimation") - 1)
    /\ SETTLED >= FILTERED
    /\ SETTLED + STRIDE * (FFT_SIZE - 1) + 1 < ADC_SAMPLES

VARIABLES
    signal,     \* the one of Signals that is received
    stage,      \* the loop main is in: "chain", "filter" or "done"
    i,          \* main: the loop's counter
    at,         \* main: place in Chain of the module to be stepped
    out,        \* value of every module's pipe
    step,       \* of a source: steps made; of a filter: where its newest tap is
    taps,       \* of every filter
    output,     \* main; every element is written before any is read
    in          \* main: inputs of the transform

-----------------------------------------------------------------------------
(* doStep of every kind of module *)

\* sine::doStep
Oscillate(m) ==
    /\ out' = [out EXCEPT ![m] = IF m = "rf" THEN signal[step[m]]
                                 ELSE Oscillator[m][step[m]]]
    /\ step' = [step EXCEPT ![m] = @ + 1]
    /\ UNCHANGED taps

\* mixer::doStep
Mix(m) ==
    /\ out' = [out EXCEPT ![m] = out[Factors[m][1]] * out[Factors[m][2]]]
    /\ UNCHANGED <<step, taps>>

\* Mutant of Newest: the ring is turned the other way.
NewestForward(f) == IF step[f] = Length(f) - 1 THEN 0 ELSE step[f] + 1

\* Where the next tap of a filter goes: its oldest is overwritten.
Newest(f) == IF step[f] = 0 THEN Length(f) - 1 ELSE step[f] - 1

\* fir::doStep
Filter(f) ==
    LET s == Newest(f)
        t == [taps[f] EXCEPT ![s] = out[FilterInput[f]]]
    IN  /\ step' = [step EXCEPT ![f] = s]
        /\ taps' = [taps EXCEPT ![f] = t]
        /\ out' = [out EXCEPT ![f] =
               SumFunction([n \in Taps(f) |-> Weights[f][n] * t[(n + s) % Length(f)]])]

DoStep ==
    /\ stage = "chain" /\ at <= 7
    /\ \/ Chain[at] \in Sources /\ Oscillate(Chain[at])
       \/ Chain[at] \in DOMAIN Factors /\ Mix(Chain[at])
       \/ Chain[at] \in Filters /\ Filter(Chain[at])
    /\ at' = at + 1
    /\ UNCHANGED <<signal, stage, i, output, in>>

-----------------------------------------------------------------------------
(* main *)

Turned(k, v) == IF k % 4 >= 2 THEN -v ELSE v

\* One step of the chain is over; the last sample is followed by the turning.
Sample ==
    /\ stage = "chain" /\ at = 8
    /\ LET kept == IF (i + 1) % OVERSAMPLING # 0 THEN output
                   ELSE [output EXCEPT ![i \div OVERSAMPLING] = 4 * out[Chain[7]]]
       IN  IF i + 1 < SAMPLES
           THEN /\ i' = i + 1 /\ at' = 1
                /\ output' = kept
                /\ UNCHANGED stage
           ELSE /\ stage' = "filter" /\ i' = ADC_SAMPLES - 1
                /\ output' = [k \in DOMAIN kept |-> Turned(k, kept[k])]
                /\ UNCHANGED at
    /\ UNCHANGED <<signal, out, step, taps, in>>

\* One turn of the filter loop, from the newest sample down.
Decimate ==
    /\ stage = "filter" /\ i >= FILTERED
    /\ output' = [output EXCEPT ![i] = SumFunction(
           [j \in Taps("decimation") |-> output[i - 2 * j] * Weights["decimation"][j]])]
    /\ i' = i - 1
    /\ UNCHANGED <<signal, stage, at, out, step, taps, in>>

Pair(o, k) == <<o[SETTLED + STRIDE * k], o[SETTLED + STRIDE * k + 1]>>

Split ==
    /\ stage = "filter" /\ i < FILTERED
    /\ in' = [k \in 0..(FFT_SIZE - 1) |-> Pair(output, k)]
    /\ stage' = "done"
    /\ UNCHANGED <<signal, i, at, out, step, taps, output>>

Finished == stage = "done" /\ UNCHANGED <<signal, stage, i, at, out, step, taps, output, in>>

Init ==
    /\ signal \in Signals
    /\ stage = "chain" /\ i = 0 /\ at = 1
    /\ out = [m \in Modules |-> 0]
    /\ step = [m \in Sources \cup Filters |-> 0]
    /\ taps = [f \in Filters |-> [n \in Taps(f) |-> 0]]
    /\ output = [k \in 0..(ADC_SAMPLES - 1) |-> 0]
    /\ in = [k \in 0..(FFT_SIZE - 1) |-> <<0, 0>>]

Next == DoStep \/ Sample \/ Decimate \/ Split \/ Finished

-----------------------------------------------------------------------------
(* Properties *)

\* The convolution of a signal with the weights of a filter, nothing before it.
Convolved(f, x) ==
    [s \in Steps |-> SumFunction(
        [n \in Taps(f) |-> IF n <= s THEN Weights[f][n] * x[s - n] ELSE 0])]
Product(x, y) == [s \in Steps |-> x[s] * y[s]]

\* What the receiver's stages make of the signal, and its samples.
Received ==
    Convolved("filtIf2",
        Product(Convolved("filtIf1", Product(signal, Oscillator["lo1"])), Oscillator["lo2"]))
Sampled == [k \in 0..(ADC_SAMPLES - 1) |->
                Turned(k, 4 * Received[(k + 1) * OVERSAMPLING - 1])]
Decimated(k) == SumFunction(
    [j \in Taps("decimation") |-> Weights["decimation"][j] * Sampled[k - 2 * j]])

\* Every input of the transform is the decimation filter's convolution of the
\* samples as they were before the filter loop overwrote them, and these are
\* the product and convolutions of the chain at that very step: no module sees
\* a pipe a step late, no tap is lost when a ring wraps.
OutputIsConvolution ==
    stage = "done" =>
        \A k \in 0..(FFT_SIZE - 1) :
            in[k] = <<Decimated(SETTLED + STRIDE * k), Decimated(SETTLED + STRIDE * k + 1)>>
=============================================================================
