----------------------------- MODULE MCAnalysis -----------------------------
(***************************************************************************)
(* The two programs of analysis/, which have nothing in common, in one     *)
(* run: part says which one a behaviour is of.                             *)
(***************************************************************************)
EXTENDS HammingEC

CONSTANTS
    Oversampling, AdcSamples, FftSize, Stride, Filtered, Settled,
    Weights, Oscillator, Signals

VARIABLES part, signal, loop, i, at, out, step, taps, output, in

chain == <<signal, loop, i, at, out, step, taps, output, in>>

Radio == INSTANCE SignalChain WITH
    OVERSAMPLING <- Oversampling, ADC_SAMPLES <- AdcSamples, FFT_SIZE <- FftSize,
    STRIDE <- Stride, FILTERED <- Filtered, SETTLED <- Settled, stage <- loop

ASSUME RadioAssumption == Radio!ChainConstants

-----------------------------------------------------------------------------
(* Values of Weights, Oscillator and Signals for the run *)

\* Weights that tell the taps of the filters apart.
FilterWeights == [
    filtIf1    |-> [n \in 0..2 |-> <<1, 2, -3>>[n + 1]],
    filtIf2    |-> [n \in 0..1 |-> <<5, 7>>[n + 1]],
    decimation |-> [n \in 0..2 |-> <<1, -2, 4>>[n + 1]] ]

AllSteps == 0..(AdcSamples * Oversampling - 1)

\* Oscillators that tell neighbouring steps apart.
Oscillators == [lo1 |-> [s \in AllSteps |-> 1 + (s % 3)],
                lo2 |-> [s \in AllSteps |-> 1 + ((s * s) % 5)]]

Always == [s \in AllSteps |-> 1]

\* Impulses at any step, which are enough for a linear chain, and a constant.
Impulses == { [s \in AllSteps |-> IF s = n THEN 1 ELSE 0] : n \in AllSteps }
            \cup {Always}

-----------------------------------------------------------------------------
BothInit ==
    /\ Init /\ Radio!Init
    /\ part \in {"code", "chain"}
    /\ part = "code" => signal = Always

CodeNext == part = "code" /\ Next /\ UNCHANGED <<part, chain>>
ChainNext == part = "chain" /\ Radio!Next /\ UNCHANGED <<part, vars>>

BothSpec == BothInit /\ [][CodeNext \/ ChainNext]_<<part, vars, chain>>

\* SignalChain: the transform's inputs are the chain's convolutions and products.
OutputIsConvolution == Radio!OutputIsConvolution
=============================================================================
