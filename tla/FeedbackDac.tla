---------------------------- MODULE FeedbackDac ----------------------------
(***************************************************************************)
(* The way of the feedback word to the converter: updatePID, in a          *)
(* mid-level interrupt, stores the 16-bit pllFeedback, and the high-level  *)
(* TCD1_OVF_vect, 100000 times a second, adds a counter of four bits and   *)
(* writes the sum to the 12-bit left-aligned converter (gpsdo.c:268,       *)
(* 350-358).  The store is two byte stores and the high-level interrupt    *)
(* may come between them; the compiler chooses their order.                *)
(*                                                                         *)
(* BYTE stands for 256 and DITHER for 16; the converter ignores the part   *)
(* of the word below DITHER.                                               *)
(***************************************************************************)
EXTENDS Integers

CONSTANTS
    BYTE, DITHER,
    MAX_FB, ZERO_FB

WORD == BYTE * BYTE
Words == 0..(WORD - 1)

\* What the code establishes of its constants.
DacConstants ==
    /\ BYTE \in Nat \ {0} /\ DITHER \in Nat \ {0}
    /\ MAX_FB \in Nat /\ MAX_FB + DITHER - 1 < WORD
    /\ ZERO_FB \in 0..MAX_FB

VARIABLES
    pllFeedback,    \* the word in memory
    pc, target,     \* updatePID: "idle", or storing target: "high" or "low" is left
    twiddle,        \* the counter of the high-level interrupt
    dac,            \* DACB.CH0DATA
    samples, total  \* history: conversions since the last store, and their sum

vars == <<pllFeedback, pc, target, twiddle, dac, samples, total>>

High(w) == w \div BYTE
Low(w) == w % BYTE
Word(h, l) == h * BYTE + l

\* initGPSDO
Init ==
    /\ pllFeedback = ZERO_FB /\ dac = ZERO_FB
    /\ pc = "idle" /\ target = ZERO_FB
    /\ twiddle = 0 /\ samples = 0 /\ total = 0

\* updatePID: pllFeedback = fb, one byte
StoreFirst(fb) ==
    /\ pc = "idle"
    /\ target' = fb
    /\ \/ pllFeedback' = Word(High(pllFeedback), Low(fb)) /\ pc' = "high"
       \/ pllFeedback' = Word(High(fb), Low(pllFeedback)) /\ pc' = "low"
    /\ samples' = 0 /\ total' = 0
    /\ UNCHANGED <<twiddle, dac>>

StoreSecond ==
    /\ pc # "idle"
    /\ pllFeedback' = target
    /\ pc' = "idle"
    /\ samples' = 0 /\ total' = 0
    /\ UNCHANGED <<target, twiddle, dac>>

Level(w) == w \div DITHER

\* Mutants of NextTwiddle: the mask is one too wide; the counter stands still.
NextTwiddleWide == (twiddle + 1) % (DITHER + 1)
NextTwiddleStuck == twiddle
NextTwiddle == (twiddle + 1) % DITHER

\* TCD1_OVF_vect
Twiddle ==
    /\ dac' = (pllFeedback + twiddle) % WORD
    /\ twiddle' = NextTwiddle
    /\ samples' = IF samples = DITHER THEN 1 ELSE samples + 1
    /\ total' = IF samples = DITHER THEN Level(dac') ELSE total + Level(dac')
    /\ UNCHANGED <<pllFeedback, pc, target>>

Next == (\E fb \in 0..MAX_FB : StoreFirst(fb)) \/ StoreSecond \/ Twiddle

Spec == Init /\ [][Next]_vars

-----------------------------------------------------------------------------
(* Properties *)

\* Every variable is in its range.
TypeOK ==
    /\ pllFeedback \in Words /\ target \in 0..MAX_FB /\ dac \in Words
    /\ pc \in {"idle", "high", "low"}
    /\ pc = "idle" => pllFeedback = target
    /\ twiddle \in 0..(DITHER - 1)
    /\ samples \in 0..DITHER /\ total \in Nat

\* The dither works: any sixteen conversions of an unchanged word, whatever the
\* counter was when it was stored, add up to the word itself, so that the mean
\* output has the full sixteen bits although the converter has twelve.
DitherExact == pc = "idle" /\ samples = DITHER => total = pllFeedback

\* The limit MAX_FB is one that the dither cannot pass: a conversion of a stored
\* word is never at the other end of the range.
NoJump == [][ Twiddle /\ pc = "idle" => dac' >= pllFeedback ]_vars

\* gpsdo.c:263-265 limits the feedback range to MAX_FB, 4095 * 16, so that the
\* dithered word fits 16 bits and the output never jumps from one end of its
\* range to the other.
NeverWraps == [][ Twiddle => dac' >= pllFeedback ]_vars
=============================================================================
