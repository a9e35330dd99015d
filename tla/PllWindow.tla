----------------------------- MODULE PllWindow -----------------------------
(***************************************************************************)
(* What the status of the oscillator promises, without ring, index or      *)
(* word width: the verdict after a measurement is about the last SIZE      *)
(* measured errors (the window starts as zeros), each within LIMIT and     *)
(* together within an RMS of RMS_LIMIT, in exact arithmetic.               *)
(***************************************************************************)
EXTENDS Integers, Sequences, Functions

CONSTANTS SIZE, LIMIT, RMS_LIMIT, Errors

VARIABLES window, locked, stable   \* window: oldest error first

Within(x) == -LIMIT <= x /\ x <= LIMIT
MeanSquareOk(w) ==
    SumFunction([i \in 1..SIZE |-> w[i] * w[i]]) <= SIZE * RMS_LIMIT * RMS_LIMIT

Init ==
    /\ window = [i \in 1..SIZE |-> 0]
    /\ locked = FALSE /\ stable = FALSE

Measure(e) ==
    /\ window' = Append(Tail(window), e)
    /\ locked' = \A i \in 1..SIZE : Within(window'[i])
    /\ stable' = (locked' /\ MeanSquareOk(window'))

Next == \E e \in Errors : Measure(e)

Spec == Init /\ [][Next]_<<window, locked, stable>>
=============================================================================
