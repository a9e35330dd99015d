---------------------------- MODULE Enc28j60Ops -----------------------------
(***************************************************************************)
(* The register map of the ENC28J60 as avr/gpsdo/net/enc28j60.h numbers    *)
(* it, and the SPI operations the driver's calls are made of.  A call is   *)
(* the sequence of its operations; the effect of an operation on a         *)
(* register file is given for the cell it reaches, so that one definition  *)
(* serves the flat file of RegisterFile and the banked one of              *)
(* Enc28j60Driver.                                                         *)
(***************************************************************************)
EXTENDS Integers, Sequences, FiniteSets

\* Register codes: address in bits 0-4, bank in bits 5-6, MAC/MII in bit 7.
Reg == [
    EIE |-> \h1B, EIR |-> \h1C, ECON2 |-> \h1E, ECON1 |-> \h1F,
    ERDPTL |-> \h00, ERDPTH |-> \h01, EWRPTL |-> \h02, EWRPTH |-> \h03,
    ETXSTL |-> \h04, ETXSTH |-> \h05, ETXNDL |-> \h06, ETXNDH |-> \h07,
    ERXSTL |-> \h08, ERXSTH |-> \h09, ERXNDL |-> \h0A, ERXNDH |-> \h0B,
    ERXRDPTL |-> \h0C, ERXRDPTH |-> \h0D,
    EPMM0 |-> \h28, EPMM1 |-> \h29, EPMCSL |-> \h30, EPMCSH |-> \h31,
    ERXFCON |-> \h38, EPKTCNT |-> \h39,
    MACON1 |-> \hC0, MACON2 |-> \hC1, MACON3 |-> \hC2, MABBIPG |-> \hC4,
    MAIPGL |-> \hC6, MAIPGH |-> \hC7, MAMXFLL |-> \hCA, MAMXFLH |-> \hCB,
    MICMD |-> \hD2, MIREGADR |-> \hD4, MIWRL |-> \hD6, MIWRH |-> \hD7,
    MIRDL |-> \hD8, MIRDH |-> \hD9,
    MAADR1 |-> \hE0, MAADR0 |-> \hE1, MAADR3 |-> \hE2, MAADR2 |-> \hE3,
    MAADR5 |-> \hE4, MAADR4 |-> \hE5, MISTAT |-> \hEA,
    EREVID |-> \h72]

ADDR_MASK(code) == code % 32
BANK_MASK(code) == (code \div 32) % 4

\* The bits the driver uses, by register.
ERXFCON_ == [UCEN |-> \h80, CRCEN |-> \h20, PMEN |-> \h10, BCEN |-> \h01]
ECON1_ == [TXRST |-> \h80, TXRTS |-> \h08, RXEN |-> \h04]
EIR_TXERIF == \h02
ECON2_PKTDEC == \h40
MICMD_MIIRD == \h01
MISTAT_BUSY == \h01
PHY == [PHCON2 |-> \h10, PHSTAT2 |-> \h11, PHLCON |-> \h14]

\* Receive and transmit areas of the controller's memory.
RXSTART_INIT == 0
RXSTOP_INIT == \h1FFF - \h0600
TXSTART_INIT == RXSTOP_INIT + 1
TXSTOP_INIT == \h1FFF
MAX_FRAMELEN == 1500

-----------------------------------------------------------------------------
(* Where an access lands *)

\* The five top addresses are the same cell in every bank.
Cell(bank, address) == IF address >= \h1B THEN address ELSE 32 * bank + address
CellOf(code) == Cell(BANK_MASK(code), ADDR_MASK(code))
Cells == { CellOf(Reg[name]) : name \in DOMAIN Reg }

\* Bytes bit by bit; w is the weight of a bit.  And, Or: & and | of C.
Bit(byte, w) == (byte \div w) % 2
And(a, b) ==
    LET both(w) == w * Bit(a, w) * Bit(b, w)
    IN  both(1) + both(2) + both(4) + both(8) + both(16) + both(32) + both(64) + both(128)
Or(a, b) == a + b - And(a, b)
Without(byte, bits) == byte - And(byte, bits)

-----------------------------------------------------------------------------
(* Operations.  Those of Switching go through enc28j60SetBank first.       *)

Op(do, reg, data) == [do |-> do, reg |-> reg, data |-> data]
Switching == {"write", "read", "until", "when", "or", "andnot", "link"}

Write(reg, data) == Op("write", reg, data)
Read(reg) == Op("read", reg, 0)
WriteOp(do, reg, data) == Op(do, reg, data)         \* "set" or "clear" bits
Until(reg, bits) == Op("until", reg, bits)          \* read while (... & bits)
PollUntil(reg, bits) == Op("poll", reg, bits)       \* the same with enc28j60ReadOp
When(reg, bits, then) ==                            \* if (read & bits) { then }
    [do |-> "when", reg |-> reg, data |-> bits, then |-> then]
Write16(low, data) == << Write(low, data % 256), Write(low + 1, data \div 256) >>

\* What remains to be done once `op` has read `byte`.
After(op, byte, rest) ==
    CASE op.do \in {"until", "poll"} /\ And(byte, op.data) # 0 -> <<op>> \o rest
      [] op.do = "when" /\ And(byte, op.data) # 0 -> op.then \o rest
      [] OTHER -> rest

Writing == {"write", "or", "andnot", "set", "send", "clear"}

\* The byte a writing operation stores in its cell, that holds `old`, when the
\* last byte read was `got`.
Stored(op, old, got) ==
    CASE op.do = "write" -> op.data
      [] op.do = "or" -> Or(got, op.data)
      [] op.do = "andnot" -> Without(got, op.data)
      [] op.do = "clear" -> Without(old, op.data)
      [] OTHER -> Or(old, op.data)

\* What the controller does at once with a byte stored (external): it starts a
\* transaction with the PHY, or takes a packet off its counter.
Reaction(file, cell) ==
    CASE \/ cell = CellOf(Reg.MIWRH)
         \/ cell = CellOf(Reg.MICMD) /\ And(file[cell], MICMD_MIIRD) # 0
           -> [file EXCEPT ![CellOf(Reg.MISTAT)] = Or(@, MISTAT_BUSY)]
      [] cell = CellOf(Reg.ECON2) /\ And(file[cell], ECON2_PKTDEC) # 0
           -> [file EXCEPT ![cell] = Without(@, ECON2_PKTDEC),
                           ![CellOf(Reg.EPKTCNT)] = @ - 1]
      [] OTHER -> file

\* Pointers are pairs of cells; a buffer access moves the write pointer on.
Pointer(file, low) == file[CellOf(low)] + 256 * file[CellOf(low + 1)]
Advanced(file, low, n) ==
    LET p == Pointer(file, low) + n
    IN  [file EXCEPT ![CellOf(low)] = p % 256, ![CellOf(low + 1)] = p \div 256]

\* The register file after `op` has reached `cell`; a soft reset clears it, and
\* releasing TXRST may raise the transmit error flag (external).
Effects(file, op, cell, got) ==
    CASE op.do = "softreset" -> { [c \in Cells |-> 0] }
      [] op.do = "buffer" -> { Advanced(file, Reg.EWRPTL, op.data) }
      [] op.do \in Writing /\ cell \in Cells ->
           LET stored == [file EXCEPT ![cell] = Stored(op, @, got)]
               flagged == [stored EXCEPT ![CellOf(Reg.EIR)] = Or(@, EIR_TXERIF)]
           IN  IF op.do = "clear" /\ op.data = ECON1_.TXRST
               THEN {stored, flagged}
               ELSE { Reaction(stored, cell) }
      [] OTHER -> {file}

Byte(file, cell) == IF cell \in Cells THEN file[cell] ELSE 0
Kept(op, byte) == IF op.do = "read" THEN byte ELSE 0
=============================================================================
