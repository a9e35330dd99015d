---------------------------- MODULE RegisterFile ----------------------------
(***************************************************************************)
(* What the register access functions of avr/gpsdo/net/enc28j60.c promise  *)
(* their callers: one flat file of registers.  Every operation of a call   *)
(* takes effect, in the order of the call, on the register it names; banks *)
(* do not exist.  A call starts when the one before it has returned, or    *)
(* with a soft reset after the processor has restarted.                    *)
(***************************************************************************)
EXTENDS Enc28j60Ops

VARIABLES
    file,   \* the registers
    todo,   \* the operations the current call has left
    got     \* the byte read for a read-modify-write

Init == file = [c \in Cells |-> 0] /\ todo # <<>> /\ got = 0

Call == todo = <<>> /\ todo' # <<>> /\ UNCHANGED <<file, got>>

Restart ==
    /\ todo' # <<>> /\ Head(todo').do = "softreset"
    /\ got' = 0 /\ UNCHANGED file

Perform ==
    /\ todo # <<>>
    /\ LET op == Head(todo)
           cell == CellOf(op.reg)
       IN  /\ file' \in Effects(file, op, cell, got)
           /\ got' = Kept(op, Byte(file, cell))
           /\ todo' = After(op, Byte(file, cell), Tail(todo))

\* The controller changes its status registers, and no other, on its own.
StatusCells ==
    { CellOf(r) : r \in { Reg.ECON1, Reg.EIR, Reg.EPKTCNT, Reg.MISTAT, Reg.MIRDH } }
Controller ==
    /\ \A c \in Cells \ StatusCells : file'[c] = file[c]
    /\ UNCHANGED <<todo, got>>

Next == Call \/ Restart \/ Perform \/ Controller

Spec == Init /\ [][Next]_<<file, todo, got>>
=============================================================================
