----------------------------- MODULE MCEnc28j60 -----------------------------
(***************************************************************************)
(* The two halves of the Ethernet controller's driver for one run of TLC:  *)
(* its receive ring (Enc28j60Rx) and its register accesses                 *)
(* (Enc28j60Driver).  They share no variable; `part` says which one a      *)
(* behaviour is about, and the other stays in its initial state, so that   *)
(* the states of the two add up and do not multiply.                       *)
(***************************************************************************)
EXTENDS Enc28j60Rx

CONSTANTS Frames, MAX_RESTARTS, MAX_PACKETS

VARIABLES
    part,
    cells, BSEL, Enc28j60Bank, todo, stage, got, stalled, txbuf, given, restarts

Spi == INSTANCE Enc28j60Driver
ASSUME DriverAssumption == Spi!DriverConstants

drivervars ==
    <<cells, BSEL, Enc28j60Bank, todo, stage, got, stalled, txbuf, given, restarts>>

MCInit == part \in {"registers", "ring"} /\ Spi!Init /\ Init

Registers(A) == part = "registers" /\ A /\ UNCHANGED <<part, vars>>

MCNext ==
    \/ Registers(Spi!Next)
    \/ part = "ring" /\ Next /\ UNCHANGED <<part, drivervars>>

mcvars == <<part, vars, drivervars>>

\* Fairness of Enc28j60Driver.
MCSpec ==
    /\ MCInit /\ [][MCNext]_mcvars
    /\ WF_mcvars(Registers(Spi!Driver))
    /\ WF_mcvars(Registers(Spi!TransmitEnds \/ Spi!TransmitAborts))
    /\ WF_mcvars(Registers(Spi!PhyEnds))

\* The types of both parts.
BothTypeOK == TypeOK /\ Spi!TypeOK

\* Enc28j60Driver: the register accesses implement one flat file.
ReachesRegister == Spi!ReachesRegister

\* Enc28j60Driver: what is transmitted is the frame given, and all of it.
FrameAsGiven == Spi!FrameAsGiven

\* Enc28j60Driver: nothing touches the PHY registers during an exchange.
PhyExchangesApart == Spi!PhyExchangesApart

\* Enc28j60Driver: every call of the driver returns.
CallsReturn == part = "registers" => Spi!EveryCallReturns
=============================================================================
