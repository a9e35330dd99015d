---------------------------- MODULE Enc28j60Rx -----------------------------
(***************************************************************************)
(* The receive buffer of the Ethernet controller and the driver that       *)
(* drains it, enc28j60PacketReceive of avr/gpsdo/net/enc28j60.c.           *)
(*                                                                         *)
(* The controller writes packets into a ring of byte addresses 0..RXSTOP   *)
(* at its write pointer, each with a header that holds the address of the  *)
(* next one, and refuses a packet for which the read pointer ERXRDPT       *)
(* leaves no room.  It does so at any moment, also between two register    *)
(* accesses of the driver.  The driver copies the packet at                *)
(* gNextPacketPtr, moves ERXRDPT and then decrements the packet counter.   *)
(* Packet contents are abstracted to whether they are still what arrived.  *)
(***************************************************************************)
EXTENDS Integers, Sequences, FiniteSets

CONSTANTS
    RXSTOP,     \* last address of the ring, RXSTART is 0
    MEM,        \* 8192: the pointer registers have 13 bits
    Sizes,      \* sizes of packets in the ring, header included
    MAX_COUNT   \* EPKTCNT does not pass it

RING == RXSTOP + 1
Addresses == 0..RXSTOP

ASSUME RingAssumption ==
    /\ RXSTOP \in Nat /\ RING % 2 = 0
    /\ Sizes # {} /\ \A n \in Sizes : n \in Nat /\ n % 2 = 0 /\ 0 < n /\ n < RING
    /\ MEM \in Nat /\ MEM > RING /\ \A n \in Sizes : n <= MEM - RING
    /\ MAX_COUNT \in Nat \ {0}

VARIABLES
    erxwrpt,            \* the controller's write pointer
    erxrdpt,            \* ERXRDPT
    queue,              \* packets not yet released: EPKTCNT is its length
    gNextPacketPtr,     \* the driver's idea of where the next packet starts
    pc,                 \* "idle", "copy", "free" or "dec" in PacketReceive
    copied,             \* what the last copy got: "none", "intact", "garbage"
    wild                \* history: ERXRDPT has been outside the ring

vars == <<erxwrpt, erxrdpt, queue, gNextPacketPtr, pc, copied, wild>>

Cells(start, size) == { (start + i) % RING : i \in 0..(size - 1) }
NextOf(p) == (p.start + p.size) % RING

-----------------------------------------------------------------------------
(* The controller (external): free space as its data sheet computes it     *)

FreeSpace ==
    IF erxwrpt > erxrdpt THEN RXSTOP - (erxwrpt - erxrdpt)
    ELSE IF erxwrpt = erxrdpt THEN RXSTOP
    ELSE erxrdpt - erxwrpt - 1

Damage(p, written) ==
    [p EXCEPT !.intact = @ /\ Cells(p.start, p.size) \cap written = {}]

PacketArrives(size) ==
    /\ size <= FreeSpace /\ Len(queue) < MAX_COUNT
    /\ LET written == Cells(erxwrpt, size)
           old == [i \in 1..Len(queue) |-> Damage(queue[i], written)]
       IN  queue' = Append(old, [start |-> erxwrpt, size |-> size, intact |-> TRUE])
    /\ erxwrpt' = (erxwrpt + size) % RING
    /\ UNCHANGED <<erxrdpt, gNextPacketPtr, pc, copied, wild>>

-----------------------------------------------------------------------------
(* The driver *)

\* enc28j60Init
Init ==
    /\ erxwrpt = 0 /\ erxrdpt = 0 /\ queue = <<>>
    /\ gNextPacketPtr = 0
    /\ pc = "idle" /\ copied = "none" /\ wild = FALSE

\* EPKTCNT is not zero: the header at gNextPacketPtr is read.  A header that is
\* not the one of the oldest packet any more may point anywhere.
ReadHeader ==
    /\ pc = "idle" /\ queue # <<>>
    /\ LET p == Head(queue)
       IN  IF p.start = gNextPacketPtr /\ p.intact
           THEN gNextPacketPtr' = NextOf(p)
           ELSE gNextPacketPtr' \in { a \in Addresses : a % 2 = 0 }
    /\ copied' = IF Head(queue).start = gNextPacketPtr THEN "none" ELSE "garbage"
    /\ pc' = "copy"
    /\ UNCHANGED <<erxwrpt, erxrdpt, queue, wild>>

\* The bytes are read out one by one, the controller is not stopped meanwhile.
Copy ==
    /\ pc = "copy"
    /\ copied' = IF copied = "none" /\ Head(queue).intact THEN "intact" ELSE "garbage"
    /\ pc' = "free"
    /\ UNCHANGED <<erxwrpt, erxrdpt, queue, gNextPacketPtr, wild>>

\* Mutants of ReleasePointer: everything that was received is released; only what
\* precedes the packet just read is released.
ReleaseReceived(next) == (erxwrpt - 1) % RING
ReleaseStart(next) == (Head(queue).start - 1) % RING

\* ERXRDPT goes to the odd address before the next packet, or to RXSTOP; the
\* comparison is between signed 16-bit numbers.
ReleasePointer(next) ==
    IF next - 1 > RXSTOP THEN RXSTOP ELSE (next - 1) % MEM

MoveReadPointer ==
    /\ pc = "free"
    /\ erxrdpt' = ReleasePointer(gNextPacketPtr)
    /\ wild' = (wild \/ erxrdpt' \notin Addresses)
    /\ pc' = "dec"
    /\ UNCHANGED <<erxwrpt, queue, gNextPacketPtr, copied>>

DecrementCounter ==
    /\ pc = "dec"
    /\ queue' = Tail(queue)
    /\ pc' = "idle"
    /\ UNCHANGED <<erxwrpt, erxrdpt, gNextPacketPtr, copied, wild>>

PacketReceive == ReadHeader \/ Copy \/ MoveReadPointer \/ DecrementCounter

Next == (\E size \in Sizes : PacketArrives(size)) \/ PacketReceive

Spec == Init /\ [][Next]_vars

-----------------------------------------------------------------------------
(* Properties *)

Packet == [start : Addresses, size : Sizes, intact : BOOLEAN]

\* Every register and packet is in range.
TypeOK ==
    /\ erxwrpt \in Addresses /\ erxwrpt % 2 = 0
    /\ erxrdpt \in 0..(MEM - 1)
    /\ queue \in Seq(Packet)
    /\ gNextPacketPtr \in Addresses /\ gNextPacketPtr % 2 = 0
    /\ pc \in {"idle", "copy", "free", "dec"}
    /\ pc # "idle" => queue # <<>>
    /\ copied \in {"none", "intact", "garbage"}
    /\ wild \in BOOLEAN

\* The packets the driver has not read yet.
Unread == IF pc \in {"free", "dec"} THEN Tail(queue) ELSE queue

\* enc28j60.c:366-367 moving the pointer "frees the memory we just read out",
\* and only that: the controller never overwrites a packet not yet read.
UnreadIntact == \A i \in 1..Len(Unread) : Unread[i].intact

\* While ERXRDPT has stayed in the ring, no unread packet is overwritten, the
\* driver's chain of next pointers is the controller's queue, and what it copied
\* is what arrived, whatever the controller does between two accesses.
InSync ==
    LET expected == IF Unread # <<>> THEN Head(Unread).start ELSE erxwrpt
    IN  CASE pc = "copy" -> gNextPacketPtr = NextOf(Head(queue))
          [] OTHER -> gNextPacketPtr = expected
FlowControl == ~wild => UnreadIntact /\ InSync /\ copied # "garbage"

\* Releasing never leaks room: once every packet has been released, the ring
\* takes a packet of any size again, wherever its two pointers have come to be.
RoomReturns ==
    ~wild /\ queue = <<>> => \A size \in Sizes : size <= FreeSpace
=============================================================================
