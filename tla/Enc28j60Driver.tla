--------------------------- MODULE Enc28j60Driver ---------------------------
(***************************************************************************)
(* The driver of the Ethernet controller, avr/gpsdo/net/enc28j60.c, one    *)
(* SPI transaction at a time.  The controller shows one bank of registers, *)
(* the one BSEL in ECON1 selects; the driver remembers the bank it chose   *)
(* last in Enc28j60Bank and selects only when it needs another one.        *)
(*                                                                         *)
(* The processor may restart between any two transactions (main.c restarts *)
(* it when the oscillator fails): its variables are cleared, the           *)
(* controller keeps its own, BSEL and transmissions in progress included.  *)
(* The transmit logic is modelled with the stall after an aborted          *)
(* transmission that the driver works around (enc28j60.c:289).             *)
(***************************************************************************)
EXTENDS Enc28j60Ops

CONSTANTS
    Frames,         \* lengths of the frames that are sent; a frame is its length
    MAX_RESTARTS,   \* bound on restarts of the processor
    MAX_PACKETS     \* bound on received packets that wait

VARIABLES
    cells,          \* the controller's registers, without
    BSEL,           \* the two low bits of ECON1: the bank it shows
    Enc28j60Bank,   \* the driver's idea of the selected bank
    todo,           \* the operations the current call has left
    stage,          \* "start" or "cleared": between the two steps of SetBank
    got,            \* the byte read for a read-modify-write
    stalled,        \* the transmit logic is stuck
    txbuf,          \* what lies at TXSTART: Old, Control, or a whole frame
    given,          \* the frame whose transmission was requested last
    restarts        \* restarts so far

mcu == <<Enc28j60Bank, todo, stage, got>>
transmitter == <<stalled, txbuf, given>>
vars == <<cells, BSEL, mcu, transmitter, restarts>>

\* Contents of the transmit memory that are no whole frame.
Old == 0
Control == 1

\* Parameters of the model.
DriverConstants ==
    Frames \subseteq 2..MAX_FRAMELEN /\ MAX_RESTARTS \in Nat /\ MAX_PACKETS \in 1..255

-----------------------------------------------------------------------------
(* The calls *)

\* Mutant of PhyWrite: the exchange is not waited for.
PhyWriteNoWait(address, data) ==
    << Write(Reg.MIREGADR, address) >> \o Write16(Reg.MIWRL, data)

PhyWrite(address, data) ==
    << Write(Reg.MIREGADR, address) >> \o Write16(Reg.MIWRL, data)
    \o << Until(Reg.MISTAT, MISTAT_BUSY) >>

MacBytes == << Reg.MAADR5, Reg.MAADR4, Reg.MAADR3, Reg.MAADR2, Reg.MAADR1, Reg.MAADR0 >>

EthInit ==
    << Op("softreset", 0, 0) >>
    \o Write16(Reg.ERXSTL, RXSTART_INIT) \o Write16(Reg.ERXRDPTL, RXSTART_INIT)
    \o Write16(Reg.ERXNDL, RXSTOP_INIT)
    \o Write16(Reg.ETXSTL, TXSTART_INIT) \o Write16(Reg.ETXNDL, TXSTOP_INIT)
    \o << Write(Reg.ERXFCON, ERXFCON_.UCEN + ERXFCON_.CRCEN + ERXFCON_.PMEN),
          Write(Reg.EPMM0, \h3f), Write(Reg.EPMM1, \h30) >>
    \o Write16(Reg.EPMCSL, \hf7f9)
    \o << Write(Reg.MACON1, \h0D), Write(Reg.MACON2, 0), WriteOp("set", Reg.MACON3, \h32) >>
    \o Write16(Reg.MAIPGL, \h0C12) \o << Write(Reg.MABBIPG, \h12) >>
    \o Write16(Reg.MAMXFLL, MAX_FRAMELEN)
    \o [i \in 1..6 |-> Write(MacBytes[i], i)]
    \o PhyWrite(PHY.PHCON2, \h0100)
    \o << Op("bank", Reg.ECON1, 0), WriteOp("set", Reg.EIE, \hC0),
          WriteOp("set", Reg.ECON1, ECON1_.RXEN) >>

\* enc28j60PhyRead, of which linkup tests one bit of the high byte; C leaves
\* the order of its last two reads open.
Linkup ==
    { << Write(Reg.MIREGADR, PHY.PHSTAT2), Write(Reg.MICMD, MICMD_MIIRD),
         Until(Reg.MISTAT, MISTAT_BUSY), Write(Reg.MICMD, 0) >> \o bytes :
      bytes \in { << Read(Reg.MIRDH), Read(Reg.MIRDL) >>,
                  << Read(Reg.MIRDL), Read(Reg.MIRDH) >> } }

EnableBroadcast == << Read(Reg.ERXFCON), Op("or", Reg.ERXFCON, ERXFCON_.BCEN) >>
DisableBroadcast == << Read(Reg.ERXFCON), Op("andnot", Reg.ERXFCON, ERXFCON_.BCEN) >>

WaitForTransmitter == << PollUntil(Reg.ECON1, ECON1_.TXRTS) >>
UnblockTransmitter ==
    << When(Reg.EIR, EIR_TXERIF,
            << WriteOp("set", Reg.ECON1, ECON1_.TXRST),
               WriteOp("clear", Reg.ECON1, ECON1_.TXRST),
               WriteOp("clear", Reg.EIR, EIR_TXERIF) >>) >>

Send(len) ==
    [do |-> "send", reg |-> Reg.ECON1, data |-> ECON1_.TXRTS, frame |-> len]

\* Mutants of Prepare: the errata is looked at before the wait; no wait at all.
PrepareSwapped == UnblockTransmitter \o WaitForTransmitter
PrepareNoWait == UnblockTransmitter

Prepare == WaitForTransmitter \o UnblockTransmitter

PacketSend(len) ==
    Prepare
    \o Write16(Reg.EWRPTL, TXSTART_INIT) \o Write16(Reg.ETXNDL, TXSTART_INIT + len)
    \o << Op("buffer", 0, 1), Op("buffer", 0, len), Send(len) >>

\* The pointers PacketReceive writes are the subject of Enc28j60Rx.
PacketReceive ==
    << When(Reg.EPKTCNT, 255,
            Write16(Reg.ERDPTL, RXSTART_INIT) \o Write16(Reg.ERXRDPTL, RXSTOP_INIT)
            \o << WriteOp("set", Reg.ECON2, ECON2_PKTDEC) >>) >>

\* The calls of main.c and the net code, and two that nothing calls at present,
\* enc28j60hasRxPkt and enc28j60getrev.
Calls ==
    Linkup \cup { PacketSend(len) : len \in Frames }
    \cup { PacketReceive, EnableBroadcast, DisableBroadcast, PhyWrite(PHY.PHLCON, \h476) }
    \cup { << Read(Reg.EPKTCNT) >>, << Read(Reg.EREVID) >> }

-----------------------------------------------------------------------------
(* The driver's transactions *)

\* Mutant of NeedsBank: the mask of the comparison leaves out the upper bit.
NeedsBankOneBit(op) ==
    op.do \in Switching \cup {"bank"} /\ BANK_MASK(op.reg) % 2 # Enc28j60Bank % 2

NeedsBank(op) ==
    op.do \in Switching \cup {"bank"} /\ BANK_MASK(op.reg) # Enc28j60Bank

\* First step of enc28j60SetBank.
ClearBank ==
    /\ todo # <<>> /\ NeedsBank(Head(todo)) /\ stage = "start"
    /\ BSEL' = 0 /\ stage' = "cleared"
    /\ UNCHANGED <<cells, Enc28j60Bank, todo, got, transmitter, restarts>>

\* Second step of enc28j60SetBank.
SelectBank ==
    /\ stage = "cleared"
    /\ LET bank == BANK_MASK(Head(todo).reg)
       IN  BSEL' = Or(BSEL, bank) /\ Enc28j60Bank' = bank
    /\ stage' = "start"
    /\ UNCHANGED <<cells, todo, got, transmitter, restarts>>

\* What a transaction means to the transmitter: a reset unblocks it and ends
\* what it was doing, the buffer is filled from EWRPT on, TXRTS requests.
Transmitter(op) ==
    /\ stalled' = (stalled /\ op.do # "softreset" /\ op # WriteOp("set", Reg.ECON1, ECON1_.TXRST))
    /\ txbuf' =
         CASE op.do # "buffer" -> txbuf
           [] op.do = "buffer" /\ op.data = 1 ->
                IF Pointer(cells, Reg.EWRPTL) = TXSTART_INIT THEN Control ELSE Old
           [] OTHER -> IF txbuf = Control THEN op.data ELSE Old
    /\ given' = IF op.do = "send" THEN op.frame ELSE given

\* ReadOp, WriteOp, ReadBuffer or WriteBuffer.
Access ==
    /\ todo # <<>> /\ ~NeedsBank(Head(todo))
    /\ LET op == Head(todo)
           cell == Cell(BSEL, ADDR_MASK(op.reg))
       IN  /\ cells' \in Effects(cells, op, cell, got)
           /\ got' = Kept(op, Byte(cells, cell))
           /\ todo' = After(op, Byte(cells, cell), Tail(todo))
           /\ BSEL' = IF op.do = "softreset" THEN 0 ELSE BSEL
           /\ Transmitter(op)
    /\ UNCHANGED <<Enc28j60Bank, stage, restarts>>

Call ==
    /\ todo = <<>>
    /\ todo' \in Calls
    /\ UNCHANGED <<cells, BSEL, Enc28j60Bank, stage, got, transmitter, restarts>>

\* The processor restarts and calls enc28j60Init; the statics start at zero.
Restart ==
    /\ restarts < MAX_RESTARTS
    /\ restarts' = restarts + 1
    /\ Enc28j60Bank' = 0 /\ todo' = EthInit /\ stage' = "start" /\ got' = 0
    /\ UNCHANGED <<cells, BSEL, transmitter>>

-----------------------------------------------------------------------------
(* The controller (external) *)

Transmitting == And(cells[CellOf(Reg.ECON1)], ECON1_.TXRTS) # 0 /\ ~stalled

\* The bytes up to ETXND have gone out.
TransmitEnds ==
    /\ Transmitting
    /\ cells' = [cells EXCEPT ![CellOf(Reg.ECON1)] = Without(@, ECON1_.TXRTS)]
    /\ UNCHANGED <<BSEL, mcu, transmitter, restarts>>

\* Collisions: the transmission is given up and the logic may be left stuck.
TransmitAborts ==
    /\ Transmitting
    /\ cells' = [cells EXCEPT ![CellOf(Reg.ECON1)] = Without(@, ECON1_.TXRTS),
                              ![CellOf(Reg.EIR)] = Or(@, EIR_TXERIF)]
    /\ stalled' \in BOOLEAN
    /\ UNCHANGED <<BSEL, mcu, txbuf, given, restarts>>

PhyEnds ==
    /\ And(cells[CellOf(Reg.MISTAT)], MISTAT_BUSY) # 0
    /\ \E link \in {0, 4} :
         cells' = [cells EXCEPT
             ![CellOf(Reg.MISTAT)] = 0,
             ![CellOf(Reg.MIRDH)] = IF cells[CellOf(Reg.MICMD)] = 0 THEN @ ELSE link]
    /\ UNCHANGED <<BSEL, mcu, transmitter, restarts>>

PacketArrives ==
    /\ And(cells[CellOf(Reg.ECON1)], ECON1_.RXEN) # 0
    /\ cells[CellOf(Reg.EPKTCNT)] < MAX_PACKETS
    /\ cells' = [cells EXCEPT ![CellOf(Reg.EPKTCNT)] = @ + 1]
    /\ UNCHANGED <<BSEL, mcu, transmitter, restarts>>

-----------------------------------------------------------------------------

\* Power-up, at the call of enc28j60Init.
Init ==
    /\ cells = [c \in Cells |-> 0] /\ BSEL = 0
    /\ Enc28j60Bank = 0 /\ todo = EthInit /\ stage = "start" /\ got = 0
    /\ stalled = FALSE /\ txbuf = Old /\ given = Old
    /\ restarts = 0

Driver == ClearBank \/ SelectBank \/ Access

Next ==
    \/ Driver \/ Call \/ Restart
    \/ TransmitEnds \/ TransmitAborts \/ PhyEnds \/ PacketArrives

\* The processor runs its program, and the controller finishes what it began.
Fairness ==
    /\ WF_vars(Driver)
    /\ WF_vars(TransmitEnds \/ TransmitAborts)
    /\ WF_vars(PhyEnds)

Spec == Init /\ [][Next]_vars /\ Fairness

-----------------------------------------------------------------------------
(* Properties *)

\* Registers are bytes and every variable is in its range.
TypeOK ==
    /\ DOMAIN cells = Cells /\ \A c \in Cells : cells[c] \in 0..255
    /\ BSEL \in 0..3 /\ Enc28j60Bank \in 0..3
    /\ stage \in {"start", "cleared"} /\ (stage = "cleared" => todo # <<>>)
    /\ got \in 0..255
    /\ stalled \in BOOLEAN
    /\ {txbuf, given} \subseteq {Old, Control} \cup Frames
    /\ restarts \in 0..MAX_RESTARTS

\* enc28j60.c:91-126: the cached bank is invisible.  Whatever bank the last
\* call left selected, and wherever a restart cut it off, every operation takes
\* effect on the register it names.
Flat == INSTANCE RegisterFile WITH file <- cells
ReachesRegister == Flat!Spec

\* enc28j60.c:285-309: while the controller transmits, its memory holds the
\* frame PacketSend was given and ETXND its end, so that all of it leaves and no
\* more, though PacketSend returned and other calls, and the next PacketSend,
\* have begun.
FrameAsGiven ==
    Transmitting =>
        /\ given \in Frames /\ txbuf = given
        /\ Pointer(cells, Reg.ETXNDL) - Pointer(cells, Reg.ETXSTL) = given

\* enc28j60.c:109-119, 128-138: the PHY registers are not touched, nor a result
\* taken from them, while an exchange with the PHY is under way.
PhyExchangesApart ==
    todo # <<>> /\ Head(todo).do # "softreset"
    /\ Head(todo).reg \in { Reg.MIREGADR, Reg.MICMD, Reg.MIWRL, Reg.MIWRH, Reg.MIRDL, Reg.MIRDH }
        => And(cells[CellOf(Reg.MISTAT)], MISTAT_BUSY) = 0

\* Every call returns, whatever transmissions were given up: the waits for the
\* transmitter and the PHY end.
EveryCallReturns == []<>(todo = <<>>)
=============================================================================
