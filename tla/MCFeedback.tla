----------------------------- MODULE MCFeedback -----------------------------
(***************************************************************************)
(* The feedback word for one run of TLC: the loop that computes it (Gpsdo) *)
(* and the interrupts that store it and dither it into the converter       *)
(* (FeedbackDac), with one range of words.  `part` says which of the two a *)
(* behaviour is about, and the other stays in its initial state, so that   *)
(* the states of the two add up and do not multiply.                       *)
(***************************************************************************)
EXTENDS MCGpsdo

CONSTANTS BYTE, DITHER

VARIABLES
    part,
    stored, pc, target, twiddle, dac, samples, total

Dac == INSTANCE FeedbackDac WITH pllFeedback <- stored
ASSUME DacAssumption == Dac!DacConstants

dacvars == <<stored, pc, target, twiddle, dac, samples, total>>

MCInit == part \in {"loop", "output"} /\ Init /\ Dac!Init

MCNext ==
    \/ part = "loop" /\ Next /\ UNCHANGED <<part, dacvars>>
    \/ part = "output" /\ Dac!Next /\ UNCHANGED <<part, vars>>

mcvars == <<part, vars, dacvars>>

MCSpec == MCInit /\ [][MCNext]_mcvars

\* FeedbackDac: the dithered conversions of a word add up to it.
DitherExact == Dac!DitherExact

\* FeedbackDac: no conversion of a stored word falls below it.
NoJump == Dac!NoJump
=============================================================================
