-------------------------- MODULE Enc28j60Proofs ---------------------------
(***************************************************************************)
(* Theorems about the two halves of the Ethernet controller's driver.      *)
(*                                                                         *)
(* Enc28j60Rx, for every ring, every set of packet sizes and any           *)
(* interleaving of arrivals with the driver's register accesses: as long   *)
(* as ERXRDPT stays in the ring, no unread packet is overwritten, the      *)
(* driver follows the controller's chain of packets, and room comes back.  *)
(*                                                                         *)
(* Enc28j60Driver, for every set of frames, any number of restarts, at any *)
(* access, and whatever the transmitter and the PHY do in between: it      *)
(* implements a flat register file, touches no PHY register during an      *)
(* exchange, and what is transmitted is the frame given.                   *)
(***************************************************************************)
EXTENDS MCEnc28j60, TLAPS

-----------------------------------------------------------------------------
(* Reception: the invariant *)

\* The first address that is not free: ERXRDPT is the odd address before it, but
\* for the address 0 that the initialisation writes.
Base == IF erxrdpt % 2 = 1 THEN (erxrdpt + 1) % RING ELSE erxrdpt

\* How far b lies ahead of a on the ring.
Dist(a, b) == (b - a) % RING
Used == Dist(Base, erxwrpt)
Off(i) == Dist(Base, queue[i].start)

\* The packets whose room is not free yet; while the counter still has to be
\* decremented, the first of the queue is not one of them.
First == IF pc = "dec" THEN 2 ELSE 1
Live == First..Len(queue)

\* The controller's chain: it begins where the room that is not free begins,
\* every packet is followed by the next one, the last one by the write pointer.
Linked ==
    /\ Base = IF Live = {} THEN erxwrpt ELSE queue[First].start
    /\ \A i \in Live :
          NextOf(queue[i]) = IF i < Len(queue) THEN queue[i + 1].start ELSE erxwrpt

\* The packets lie one behind the other, and what is used leaves two bytes free.
Placed ==
    /\ Used <= RING - 2
    /\ \A i \in Live : queue[i].intact /\ Off(i) + queue[i].size <= Used
    /\ \A i, j \in Live : i < j => Off(i) + queue[i].size <= Off(j)

\* What the driver believes.
Follows ==
    /\ gNextPacketPtr = IF pc \in {"copy", "free"} THEN NextOf(queue[1]) ELSE Base
    /\ copied # "garbage"
    /\ pc = "copy" => copied = "none"

\* ERXRDPT is in the ring, and odd once a packet has been released.
InRing == erxrdpt \in Addresses /\ (erxrdpt % 2 = 0 => erxrdpt = 0)

RingInv == ~wild => InRing /\ Linked /\ Placed /\ Follows

-----------------------------------------------------------------------------
(* Distances on the ring *)

\* One turn is enough to bring a sum of two addresses back into the ring.
LEMMA Around ==
    ASSUME NEW n \in Nat \ {0}, NEW x \in (-n)..(2 * n - 1)
    PROVE  x % n = IF x < 0 THEN x + n ELSE IF x < n THEN x ELSE x - n
OBVIOUS

\* The ring is not empty, and its addresses are the numbers below its size.
LEMMA RingSize ==
    /\ RING \in Nat \ {0} /\ RING % 2 = 0 /\ Addresses = 0..(RING - 1)
    /\ RXSTOP = RING - 1 /\ RXSTOP \in Nat
    /\ MEM \in Nat /\ MEM > RING
    /\ \A n \in Sizes : n \in Nat /\ n % 2 = 0 /\ 0 < n /\ n < RING
BY RingAssumption DEF RING, Addresses

\* A distance is less than a turn.
LEMMA DistIs ==
    ASSUME NEW a \in Addresses, NEW b \in Addresses
    PROVE  /\ Dist(a, b) = IF a <= b THEN b - a ELSE b - a + RING
           /\ Dist(a, b) \in Addresses
<1>1. RING \in Nat \ {0} /\ Addresses = 0..(RING - 1)
  BY RingSize
<1>2. b - a \in (-RING)..(2 * RING - 1)
  BY <1>1
<1>3. (b - a) % RING = IF b - a < 0 THEN b - a + RING ELSE IF b - a < RING THEN b - a ELSE b - a - RING
  BY <1>1, <1>2, Around
<1> QED BY <1>1, <1>3 DEF Dist

\* A step ahead that does not pass the starting point adds to the distance.
LEMMA DistStep ==
    ASSUME NEW a \in Addresses, NEW b \in Addresses, NEW k \in Nat, Dist(a, b) + k < RING
    PROVE  (b + k) % RING \in Addresses /\ Dist(a, (b + k) % RING) = Dist(a, b) + k
<1>1. RING \in Nat \ {0} /\ Addresses = 0..(RING - 1)
  BY RingSize
<1>2. Dist(a, b) \in Addresses /\ Dist(a, b) = IF a <= b THEN b - a ELSE b - a + RING
  BY DistIs
<1>3. b + k \in (-RING)..(2 * RING - 1)
  BY <1>1, <1>2
<1> DEFINE c == (b + k) % RING
<1>4. c = IF b + k < 0 THEN b + k + RING ELSE IF b + k < RING THEN b + k ELSE b + k - RING
  <2> DEFINE x == b + k
  <2>1. x \in (-RING)..(2 * RING - 1)
    BY <1>3
  <2> HIDE DEF x
  <2>2. x % RING = IF x < 0 THEN x + RING ELSE IF x < RING THEN x ELSE x - RING
    BY <1>1, <2>1, Around
  <2> QED BY <1>1, <2>2 DEF x
<1>5. c \in Addresses
  BY <1>1, <1>3, <1>4
<1> HIDE DEF c
<1>6. Dist(a, c) = IF a <= c THEN c - a ELSE c - a + RING
  BY <1>5, DistIs
<1> QED BY <1>1, <1>2, <1>3, <1>4, <1>5, <1>6 DEF c

\* Distances from a later starting point are shorter by how much later it is.
LEMMA DistRebase ==
    ASSUME NEW a \in Addresses, NEW b \in Addresses, NEW c \in Addresses,
           Dist(a, b) <= Dist(a, c)
    PROVE  Dist(b, c) = Dist(a, c) - Dist(a, b)
<1>1. RING \in Nat \ {0} /\ Addresses = 0..(RING - 1)
  BY RingSize
<1>2. /\ Dist(a, b) = IF a <= b THEN b - a ELSE b - a + RING
      /\ Dist(a, c) = IF a <= c THEN c - a ELSE c - a + RING
      /\ Dist(b, c) = IF b <= c THEN c - b ELSE c - b + RING
  BY DistIs
<1> QED BY <1>1, <1>2

\* Two stretches of the ring, one behind the other, have no byte in common.
LEMMA CellsApart ==
    ASSUME NEW a \in Addresses, NEW p \in Addresses, NEW q \in Addresses,
           NEW m \in Nat, NEW n \in Nat,
           Dist(a, p) + m <= Dist(a, q), Dist(a, q) + n <= RING
    PROVE  Cells(p, m) \cap Cells(q, n) = {}
<1>1. RING \in Nat \ {0} /\ Addresses = 0..(RING - 1) /\ Dist(a, p) \in Addresses /\ Dist(a, q) \in Addresses
  BY RingSize, DistIs
<1>2. ASSUME NEW i \in 0..(m - 1), NEW j \in 0..(n - 1)
      PROVE  (p + i) % RING # (q + j) % RING
  <2>1. i \in Nat /\ j \in Nat /\ Dist(a, p) + i < RING /\ Dist(a, q) + j < RING
    BY <1>1
  <2>2. /\ Dist(a, (p + i) % RING) = Dist(a, p) + i
        /\ Dist(a, (q + j) % RING) = Dist(a, q) + j
    BY <2>1, DistStep
  <2>3. Dist(a, p) + i # Dist(a, q) + j
    BY <1>1
  <2> QED BY <2>2, <2>3
<1> QED BY <1>2 DEF Cells

-----------------------------------------------------------------------------
(* Types *)

\* Adding an even size leaves an even address in the ring.
LEMMA NextAddress ==
    ASSUME NEW a \in Addresses, a % 2 = 0, NEW n \in Sizes
    PROVE  (a + n) % RING \in Addresses /\ ((a + n) % RING) % 2 = 0
<1>1. /\ RING \in Nat \ {0} /\ RING % 2 = 0 /\ Addresses = 0..(RING - 1)
      /\ n \in Nat /\ n % 2 = 0 /\ n < RING
  BY RingSize
<1> DEFINE x == a + n
<1>2. x \in (-RING)..(2 * RING - 1) /\ x >= 0 /\ x % 2 = 0
  BY <1>1
<1> HIDE DEF x
<1>3. x % RING = IF x < 0 THEN x + RING ELSE IF x < RING THEN x ELSE x - RING
  BY <1>1, <1>2, Around
<1>4. x % RING \in Addresses /\ (x % RING) % 2 = 0
  BY <1>1, <1>2, <1>3
<1> QED BY <1>4 DEF x

\* A packet of the queue has a place and a size.
LEMMA PacketTyped ==
    ASSUME TypeOK, NEW i \in 1..Len(queue)
    PROVE  queue[i].start \in Addresses /\ queue[i].size \in Sizes
<1>1. queue[i] \in Packet
  BY DEF TypeOK
<1> QED BY <1>1 DEF Packet

\* So has the first one.
LEMMA HeadTyped ==
    ASSUME TypeOK, queue # <<>>
    PROVE  /\ Head(queue) = queue[1] /\ 1 \in 1..Len(queue) /\ Len(queue) \in Nat \ {0}
           /\ Head(queue).start \in Addresses /\ Head(queue).size \in Sizes
<1>1. Head(queue) = queue[1] /\ 1 \in 1..Len(queue) /\ Len(queue) \in Nat \ {0}
  BY DEF TypeOK
<1> QED BY <1>1, PacketTyped

\* What an arrival makes of the queue: one packet more, the others where they were.
LEMMA Arrival ==
    ASSUME TypeOK, NEW size \in Sizes, PacketArrives(size)
    PROVE  /\ queue' \in Seq(Packet) /\ Len(queue') = Len(queue) + 1 /\ Len(queue) \in Nat
           /\ queue'[Len(queue) + 1] = [start |-> erxwrpt, size |-> size, intact |-> TRUE]
           /\ \A i \in 1..Len(queue) :
                queue'[i] = Damage(queue[i], Cells(erxwrpt, size))
<1> DEFINE old == [i \in 1..Len(queue) |-> Damage(queue[i], Cells(erxwrpt, size))]
           new == [start |-> erxwrpt, size |-> size, intact |-> TRUE]
<1>1. queue \in Seq(Packet) /\ Len(queue) \in Nat
  BY DEF TypeOK
<1>2. ASSUME NEW i \in 1..Len(queue)
      PROVE  Damage(queue[i], Cells(erxwrpt, size)) \in Packet
  <2>1. queue[i] \in Packet
    BY <1>1
  <2> QED BY <2>1 DEF Damage, Packet
<1>3. old \in Seq(Packet) /\ Len(old) = Len(queue)
  BY <1>1, <1>2
<1>4. new \in Packet
  BY DEF TypeOK, Packet
<1>5. queue' = Append(old, new)
  BY DEF PacketArrives
<1>6. \A i \in 1..Len(queue) : old[i] = Damage(queue[i], Cells(erxwrpt, size))
  OBVIOUS
<1> HIDE DEF old, new
<1>7. /\ Append(old, new) \in Seq(Packet) /\ Len(Append(old, new)) = Len(queue) + 1
      /\ Append(old, new)[Len(queue) + 1] = new
      /\ \A i \in 1..Len(queue) : Append(old, new)[i] = old[i]
  BY <1>1, <1>3, <1>4
<1> QED BY <1>1, <1>5, <1>6, <1>7 DEF new

\* Where the pointer to release from is wherever the next packet starts.
LEMMA Release ==
    ASSUME NEW next \in Addresses, next % 2 = 0
    PROVE  /\ ReleasePointer(next) \in 0..(MEM - 1)
           /\ next # 0 => ReleasePointer(next) = next - 1
           /\ next = 0 => ReleasePointer(next) \notin Addresses
<1>1. RING \in Nat \ {0} /\ Addresses = 0..(RING - 1) /\ RXSTOP = RING - 1 /\ MEM \in Nat /\ MEM > RING
  BY RingSize
<1>2. ReleasePointer(next) = (next - 1) % MEM
  BY <1>1 DEF ReleasePointer
<1> DEFINE x == next - 1
<1>3. MEM \in Nat \ {0} /\ x \in (-MEM)..(2 * MEM - 1)
  BY <1>1
<1> HIDE DEF x
<1>4. x % MEM = IF x < 0 THEN x + MEM ELSE IF x < MEM THEN x ELSE x - MEM
  BY <1>3, Around
<1> QED BY <1>1, <1>2, <1>4 DEF x

\* The tail of a queue of packets is one, shifted by one.
LEMMA Shifted ==
    ASSUME NEW q \in Seq(Packet), q # <<>>
    PROVE  /\ Tail(q) \in Seq(Packet) /\ Len(Tail(q)) = Len(q) - 1 /\ Len(q) \in Nat \ {0}
           /\ \A i \in 1..(Len(q) - 1) : Tail(q)[i] = q[i + 1]
OBVIOUS

\* A queue with no packet is the empty one, any other has a first packet.
LEMMA FirstOf ==
    ASSUME NEW q \in Seq(Packet)
    PROVE  /\ Len(q) \in Nat /\ (q = <<>> <=> Len(q) = 0)
           /\ q # <<>> => Head(q) = q[1]
OBVIOUS

\* An interval is empty when it ends before it begins.
LEMMA Interval ==
    ASSUME NEW a \in Int, NEW b \in Int
    PROVE  (a..b = {} <=> b < a) /\ (~(b < a) => a \in a..b)
<1>1. b < a => a..b = {}
  OBVIOUS
<1>2. ~(b < a) => a \in a..b
  OBVIOUS
<1> QED BY <1>1, <1>2

\* Every step keeps registers and packets in range.
LEMMA TypeInductive == TypeOK /\ [Next]_vars => TypeOK'
<1> SUFFICES ASSUME TypeOK, [Next]_vars PROVE TypeOK'
  OBVIOUS
<1>1. ASSUME NEW size \in Sizes, PacketArrives(size) PROVE TypeOK'
  <2>1. erxwrpt' \in Addresses /\ erxwrpt' % 2 = 0
    BY <1>1, NextAddress DEF TypeOK, PacketArrives
  <2>2. queue' \in Seq(Packet) /\ queue' # <<>>
    <3>1. queue' \in Seq(Packet) /\ Len(queue') = Len(queue) + 1 /\ Len(queue) \in Nat
      BY <1>1, Arrival
    <3> QED BY <3>1
  <2> QED BY <1>1, <2>1, <2>2 DEF TypeOK, PacketArrives
<1>2. CASE ReadHeader
  <2>1. Head(queue).start \in Addresses /\ Head(queue).size \in Sizes
    BY <1>2, HeadTyped DEF ReadHeader
  <2>2. Head(queue).start % 2 = 0 => NextOf(Head(queue)) \in Addresses /\ NextOf(Head(queue)) % 2 = 0
    BY <2>1, NextAddress DEF NextOf
  <2>3. gNextPacketPtr' \in Addresses /\ gNextPacketPtr' % 2 = 0
    BY <1>2, <2>2 DEF TypeOK, ReadHeader
  <2>4. copied' \in {"none", "garbage"} /\ pc' = "copy" /\ queue' # <<>>
    BY <1>2 DEF ReadHeader
  <2> QED BY <1>2, <2>3, <2>4 DEF TypeOK, ReadHeader
<1>3. CASE Copy
  BY <1>3 DEF TypeOK, Copy
<1>4. CASE MoveReadPointer
  <2>1. erxrdpt' \in 0..(MEM - 1)
    BY <1>4, Release DEF TypeOK, MoveReadPointer
  <2>2. wild' \in BOOLEAN
    BY <1>4 DEF TypeOK, MoveReadPointer
  <2> QED BY <1>4, <2>1, <2>2 DEF TypeOK, MoveReadPointer
<1>5. CASE DecrementCounter
  <2>1. Tail(queue) \in Seq(Packet)
    BY <1>5, Shifted DEF TypeOK, DecrementCounter
  <2> QED BY <1>5, <2>1 DEF TypeOK, DecrementCounter
<1>6. CASE UNCHANGED vars
  BY <1>6 DEF TypeOK, vars
<1> QED BY <1>1, <1>2, <1>3, <1>4, <1>5, <1>6 DEF Next, PacketReceive

-----------------------------------------------------------------------------
(* The steps *)

\* Where the room that is not free begins, for a pointer in the ring.
LEMMA BaseIs ==
    ASSUME TypeOK, InRing
    PROVE  /\ Base \in Addresses /\ Base % 2 = 0
           /\ erxrdpt % 2 = 0 => erxrdpt = 0 /\ Base = 0
           /\ erxrdpt % 2 # 0 => Base = IF erxrdpt = RXSTOP THEN 0 ELSE erxrdpt + 1
<1>1. RING \in Nat \ {0} /\ RING % 2 = 0 /\ Addresses = 0..(RING - 1) /\ RXSTOP = RING - 1
  BY RingSize
<1>2. erxrdpt \in 0..(RING - 1) /\ (erxrdpt % 2 = 0 => erxrdpt = 0)
  BY <1>1 DEF InRing
<1>3. CASE erxrdpt % 2 = 0
  BY <1>1, <1>2, <1>3 DEF Base
<1>4. CASE erxrdpt % 2 # 0
  <2> DEFINE x == erxrdpt + 1
  <2>1. x \in (-RING)..(2 * RING - 1) /\ x > 0 /\ x % 2 = 0 /\ x <= RING
    BY <1>1, <1>2, <1>4
  <2>2. Base = x % RING
    BY <1>2, <1>4 DEF Base
  <2>3. x # RING => erxrdpt # RXSTOP
    BY <1>1, <1>2
  <2>4. x = RING <=> erxrdpt = RXSTOP
    BY <1>1, <1>2
  <2> HIDE DEF x
  <2>5. x % RING = IF x < 0 THEN x + RING ELSE IF x < RING THEN x ELSE x - RING
    BY <1>1, <2>1, Around
  <2>6. Base = IF x = RING THEN 0 ELSE x
    BY <1>1, <2>1, <2>2, <2>5
  <2>7. Base \in Addresses /\ Base % 2 = 0
    BY <1>1, <2>1, <2>6
  <2> QED BY <1>4, <2>4, <2>6, <2>7 DEF x
<1> QED BY <1>3, <1>4

\* Whatever packet the controller has room for leaves two bytes of the ring free.
LEMMA RoomLeft ==
    ASSUME TypeOK, InRing, NEW size \in Sizes, size <= FreeSpace
    PROVE  Used + size <= RING - 2 /\ Used \in Addresses
<1>1. /\ RING \in Nat \ {0} /\ RING % 2 = 0 /\ Addresses = 0..(RING - 1) /\ RXSTOP = RING - 1
      /\ size \in Nat /\ size % 2 = 0
  BY RingSize
<1>2. erxwrpt \in 0..(RING - 1) /\ erxwrpt % 2 = 0 /\ erxrdpt \in 0..(RING - 1)
  BY <1>1 DEF TypeOK, InRing
<1>3. /\ Base \in Addresses /\ Base % 2 = 0
      /\ erxrdpt % 2 = 0 => erxrdpt = 0 /\ Base = 0
      /\ erxrdpt % 2 # 0 => Base = IF erxrdpt = RXSTOP THEN 0 ELSE erxrdpt + 1
  BY BaseIs
<1>4. /\ Used = IF Base <= erxwrpt THEN erxwrpt - Base ELSE erxwrpt - Base + RING
      /\ Used \in Addresses
  BY <1>1, <1>2, <1>3, DistIs DEF Used
<1>5. size <= IF erxwrpt > erxrdpt THEN RXSTOP - (erxwrpt - erxrdpt)
              ELSE IF erxwrpt = erxrdpt THEN RXSTOP ELSE erxrdpt - erxwrpt - 1
  BY DEF FreeSpace
<1>6. CASE erxrdpt % 2 = 0
  <2>1. Used = erxwrpt /\ size <= RING - 1 - erxwrpt
    BY <1>1, <1>2, <1>3, <1>4, <1>5, <1>6
  <2> QED BY <1>1, <1>2, <1>4, <2>1
<1>7. CASE erxrdpt % 2 # 0
  <2>1. erxwrpt # erxrdpt
    BY <1>2, <1>7
  <2>2. CASE erxrdpt = RXSTOP
    BY <1>1, <1>2, <1>3, <1>4, <1>5, <1>7, <2>1, <2>2
  <2>3. CASE erxrdpt # RXSTOP
    BY <1>1, <1>2, <1>3, <1>4, <1>5, <1>7, <2>1, <2>3
  <2> QED BY <2>2, <2>3
<1> QED BY <1>6, <1>7

\* At the start the ring is empty and the driver at its beginning.
LEMMA InitRing == Init => TypeOK /\ RingInv
<1> SUFFICES ASSUME Init PROVE TypeOK /\ RingInv
  OBVIOUS
<1>1. /\ RING \in Nat \ {0} /\ RING % 2 = 0 /\ Addresses = 0..(RING - 1) /\ RXSTOP \in Nat
      /\ MEM \in Nat /\ MEM > RING
  BY RingSize
<1>2. TypeOK
  <2>1. <<>> \in Seq(Packet) /\ 0 \in Addresses /\ 0 \in 0..(MEM - 1) /\ 0 % 2 = 0
    BY <1>1
  <2> QED BY <2>1 DEF Init, TypeOK
<1>3. InRing /\ Base = 0 /\ Live = {} /\ First = 1
  BY <1>1 DEF Init, InRing, Base, Live, First
<1>4. Used = 0
  BY <1>1, <1>3, DistIs DEF Used, Init
<1>5. Linked /\ Placed /\ Follows
  BY <1>1, <1>3, <1>4 DEF Linked, Placed, Follows, Init
<1> QED BY <1>2, <1>3, <1>5 DEF RingInv

\* An arrival: the new packet begins where the last one ends, and writes only
\* bytes that lie behind all that is used.
LEMMA ArrivalKeeps ==
    ASSUME TypeOK, RingInv, NEW size \in Sizes, PacketArrives(size)
    PROVE  RingInv'
<1> DEFINE n == Len(queue)
           written == Cells(erxwrpt, size)
<1> SUFFICES ASSUME ~wild PROVE (InRing /\ Linked /\ Placed /\ Follows)'
  BY DEF RingInv, PacketArrives
<1>1. InRing /\ Linked /\ Placed /\ Follows
  BY DEF RingInv
<1>2. UNCHANGED <<erxrdpt, gNextPacketPtr, pc, copied>> /\ erxwrpt' = (erxwrpt + size) % RING
  BY DEF PacketArrives
<1>3. /\ RING \in Nat \ {0} /\ Addresses = 0..(RING - 1) /\ size \in Nat /\ 0 < size
      /\ \A s \in Sizes : s \in Nat
  BY RingSize
<1>4. erxwrpt \in Addresses /\ Base \in Addresses
  BY <1>1, BaseIs DEF TypeOK
<1>5. Used + size <= RING - 2 /\ Used \in Addresses
  BY <1>1, RoomLeft DEF PacketArrives
<1>6. erxwrpt' \in Addresses /\ Base' = Base /\ InRing' /\ Used' = Used + size
  <2>1. Dist(Base, erxwrpt) + size < RING
    BY <1>3, <1>5 DEF Used
  <2>2. erxwrpt' \in Addresses /\ Dist(Base, erxwrpt') = Dist(Base, erxwrpt) + size
    BY <1>2, <1>3, <1>4, <2>1, DistStep
  <2>3. Base' = Base /\ InRing'
    BY <1>1, <1>2 DEF Base, InRing
  <2> QED BY <2>2, <2>3 DEF Used
<1>7. /\ n \in Nat /\ Len(queue') = n + 1
      /\ queue'[n + 1] = [start |-> erxwrpt, size |-> size, intact |-> TRUE]
      /\ \A i \in 1..n : queue'[i] = Damage(queue[i], written)
  BY Arrival
<1>8. First' = First /\ First \in 1..2 /\ First <= n + 1 /\ Live = First..n /\ Live' = First..(n + 1)
      /\ Live \subseteq 1..n
  <2>1. pc = "dec" => n # 0
    BY DEF TypeOK
  <2> QED BY <1>2, <1>7, <2>1 DEF First, Live
<1>9. \A i \in 1..n : /\ queue[i].start \in Addresses /\ queue[i].size \in Nat
                      /\ Off(i) \in Addresses
  BY <1>3, <1>4, PacketTyped, DistIs DEF Off
<1>10. \A i \in 1..n : queue'[i].start = queue[i].start /\ queue'[i].size = queue[i].size /\ Off(i)' = Off(i)
  <2> TAKE i \in 1..n
  <2>1. queue[i] \in Packet
    BY DEF TypeOK
  <2>2. queue'[i] = [queue[i] EXCEPT !.intact = @ /\ Cells(queue[i].start, queue[i].size) \cap written = {}]
    BY <1>7 DEF Damage
  <2>3. queue'[i].start = queue[i].start /\ queue'[i].size = queue[i].size
    BY <2>1, <2>2 DEF Packet
  <2> QED BY <1>6, <2>3 DEF Off
<1>11. \A i \in Live : queue'[i].intact
  <2> TAKE i \in Live
  <2>1. i \in 1..n /\ queue[i] \in Packet
    BY <1>8 DEF TypeOK
  <2>2. queue[i].intact /\ Dist(Base, queue[i].start) + queue[i].size <= Dist(Base, erxwrpt)
    BY <1>1 DEF Placed, Off, Used
  <2>3. Dist(Base, erxwrpt) + size <= RING
    BY <1>3, <1>5 DEF Used
  <2>4. Cells(queue[i].start, queue[i].size) \cap written = {}
    BY <1>3, <1>4, <1>9, <2>1, <2>2, <2>3, CellsApart
  <2> QED BY <1>7, <2>1, <2>2, <2>4 DEF Damage, Packet
<1>12. Dist(Base', queue'[n + 1].start) = Used /\ queue'[n + 1].size = size /\ queue'[n + 1].start = erxwrpt /\ queue'[n + 1].intact
  BY <1>6, <1>7 DEF Off, Used
<1> HIDE DEF n, written
<1>13. Placed'
  <2>1. Used' <= RING - 2
    BY <1>5, <1>6
  <2>2. ASSUME NEW i \in Live' PROVE queue'[i].intact /\ Off(i)' + queue'[i].size <= Used'
    <3>1. CASE i = n + 1
      <4>1. Off(i)' = Used /\ queue'[i].size = size /\ queue'[i].intact
        BY <1>12, <3>1 DEF Off
      <4> QED BY <1>3, <1>5, <1>6, <4>1
    <3>2. CASE i # n + 1
      <4>1. i \in Live /\ i \in 1..n
        BY <1>7, <1>8, <3>2
      <4>2. Off(i) + queue[i].size <= Used
        BY <1>1, <4>1 DEF Placed
      <4>3. Off(i) + queue[i].size <= Used + size
        BY <1>3, <1>5, <1>9, <4>1, <4>2
      <4> QED BY <1>6, <1>10, <1>11, <4>1, <4>3
    <3> QED BY <3>1, <3>2
  <2>3. ASSUME NEW i \in Live', NEW j \in Live', i < j PROVE Off(i)' + queue'[i].size <= Off(j)'
    <3>1. i \in Live /\ i \in 1..n
      BY <1>7, <1>8, <2>3
    <3>2. CASE j = n + 1
      <4>1. Off(i) + queue[i].size <= Used
        BY <1>1, <3>1 DEF Placed
      <4>2. Off(j)' = Used
        BY <1>12, <3>2 DEF Off
      <4> QED BY <1>10, <3>1, <4>1, <4>2
    <3>3. CASE j # n + 1
      <4>1. j \in Live /\ j \in 1..n
        BY <1>7, <1>8, <3>3
      <4>2. Off(i) + queue[i].size <= Off(j)
        BY <1>1, <2>3, <3>1, <4>1 DEF Placed
      <4> QED BY <1>10, <3>1, <4>1, <4>2
    <3> QED BY <3>2, <3>3
  <2> QED BY <2>1, <2>2, <2>3 DEF Placed
<1>14. Linked'
  <2>1. Live' # {} /\ First \in Live' /\ First \in 1..(n + 1)
    BY <1>7, <1>8
  <2>2. Base' = queue'[First].start
    <3>1. CASE Live = {}
      <4>1. First = n + 1 /\ Base = erxwrpt
        BY <1>1, <1>7, <1>8, <3>1 DEF Linked
      <4> QED BY <1>6, <1>12, <4>1
    <3>2. CASE Live # {}
      <4>1. First \in 1..n /\ Base = queue[First].start
        BY <1>1, <1>7, <1>8, <3>2 DEF Linked
      <4> QED BY <1>6, <1>10, <4>1
    <3> QED BY <3>1, <3>2
  <2>3. ASSUME NEW i \in Live'
        PROVE NextOf(queue'[i]) = IF i < n + 1 THEN queue'[i + 1].start ELSE erxwrpt'
    <3>1. CASE i = n + 1
      BY <1>2, <1>7, <1>12, <3>1 DEF NextOf
    <3>2. CASE i # n + 1
      <4>1. i \in Live /\ i \in 1..n
        BY <1>7, <1>8, <3>2
      <4>2. NextOf(queue[i]) = IF i < n THEN queue[i + 1].start ELSE erxwrpt
        BY <1>1, <4>1 DEF Linked, n
      <4>3. NextOf(queue'[i]) = NextOf(queue[i])
        BY <1>10, <4>1 DEF NextOf
      <4>4. CASE i < n
        <5>1. i + 1 \in 1..n /\ i < n + 1
          BY <1>7, <4>1, <4>4
        <5> QED BY <1>10, <4>2, <4>3, <4>4, <5>1
      <4>5. CASE ~(i < n)
        <5>1. i = n /\ i < n + 1 /\ i + 1 = n + 1
          BY <1>7, <4>1, <4>5
        <5> QED BY <1>12, <4>2, <4>3, <4>5, <5>1
      <4> QED BY <4>4, <4>5
    <3> QED BY <3>1, <3>2
  <2> QED BY <1>7, <1>8, <2>1, <2>2, <2>3 DEF Linked
<1>15. Follows'
  <2>1. pc \in {"copy", "free"} => 1 \in 1..n
    <3>1. pc # "idle" => queue # <<>>
      BY DEF TypeOK
    <3>2. queue # <<>> => 1 \in 1..n
      BY DEF TypeOK, n
    <3> QED BY <3>1, <3>2
  <2>2. pc \in {"copy", "free"} => NextOf(queue'[1]) = NextOf(queue[1])
    BY <1>10, <2>1 DEF NextOf
  <2> QED BY <1>1, <1>2, <1>6, <2>2 DEF Follows
<1> QED BY <1>6, <1>13, <1>14, <1>15

\* Reading the header and copying: the oldest packet is where the driver thinks.
LEMMA ReadKeeps ==
    ASSUME TypeOK, RingInv, ReadHeader \/ Copy
    PROVE  RingInv'
<1> SUFFICES ASSUME ~wild PROVE (InRing /\ Linked /\ Placed /\ Follows)'
  BY DEF RingInv, ReadHeader, Copy
<1>1. InRing /\ Linked /\ Placed /\ Follows
  BY DEF RingInv
<1>2. UNCHANGED <<erxwrpt, erxrdpt, queue>> /\ pc \in {"idle", "copy"} /\ pc' \in {"copy", "free"}
  BY DEF ReadHeader, Copy
<1>3. Head(queue) = queue[1] /\ 1 \in Live /\ First = 1
  <2>1. queue # <<>>
    BY DEF TypeOK, ReadHeader, Copy
  <2>2. Head(queue) = queue[1] /\ 1 \in 1..Len(queue)
    BY <2>1, HeadTyped
  <2> QED BY <1>2, <2>2 DEF Live, First
<1>4. First' = First /\ Live' = Live /\ Base' = Base /\ Used' = Used
  BY <1>2 DEF First, Live, Base, Used
<1>5. \A i \in Live : Off(i)' = Off(i)
  BY <1>2, <1>4 DEF Off
<1>6. InRing' /\ Linked' /\ Placed'
  BY <1>1, <1>2, <1>4, <1>5 DEF InRing, Linked, Placed, NextOf
<1>7. queue[1].intact /\ Base = queue[1].start
  BY <1>1, <1>3 DEF Linked, Placed
<1>8. Follows'
  <2>1. CASE ReadHeader
    <3>1. gNextPacketPtr = queue[1].start
      BY <1>1, <1>7, <2>1 DEF Follows, ReadHeader
    <3>2. gNextPacketPtr' = NextOf(queue[1]) /\ copied' = "none" /\ pc' = "copy"
      BY <1>3, <1>7, <2>1, <3>1 DEF ReadHeader
    <3> QED BY <1>2, <3>2 DEF Follows
  <2>2. CASE Copy
    <3>1. gNextPacketPtr' = NextOf(queue[1]) /\ copied = "none"
      BY <1>1, <2>2 DEF Follows, Copy
    <3>2. copied' = "intact" /\ pc' = "free"
      BY <1>3, <1>7, <2>2, <3>1 DEF Copy
    <3> QED BY <1>2, <3>1, <3>2 DEF Follows
  <2> QED BY <2>1, <2>2
<1> QED BY <1>6, <1>8

\* Moving the read pointer frees the room of the packet just read and no other.
LEMMA ReleaseKeeps ==
    ASSUME TypeOK, RingInv, MoveReadPointer
    PROVE  RingInv'
<1> DEFINE n == Len(queue)
           next == gNextPacketPtr
<1> SUFFICES ASSUME ~wild' PROVE (InRing /\ Linked /\ Placed /\ Follows)'
  BY DEF RingInv
<1>1. ~wild /\ erxrdpt' = ReleasePointer(next) /\ erxrdpt' \in Addresses
  BY DEF MoveReadPointer
<1>2. InRing /\ Linked /\ Placed /\ Follows
  BY <1>1 DEF RingInv
<1>3. UNCHANGED <<erxwrpt, queue, gNextPacketPtr, copied>> /\ pc = "free" /\ pc' = "dec"
  BY DEF MoveReadPointer
<1>4. /\ RING \in Nat \ {0} /\ RING % 2 = 0 /\ Addresses = 0..(RING - 1) /\ RXSTOP = RING - 1
      /\ \A s \in Sizes : s \in Nat /\ s < RING
  BY RingSize
<1>5. 1 \in 1..n /\ n \in Nat /\ queue # <<>> /\ Live = 1..n /\ First = 1 /\ Live' = 2..n /\ First' = 2
  <2>1. queue # <<>>
    BY <1>3 DEF TypeOK
  <2>2. 1 \in 1..n /\ n \in Nat
    BY <2>1, HeadTyped
  <2> QED BY <1>3, <2>1, <2>2 DEF Live, First
<1>6. \A i \in 1..n : queue[i].start \in Addresses /\ queue[i].size \in Sizes
  BY PacketTyped
<1>7. Base \in Addresses /\ erxwrpt \in Addresses /\ next \in Addresses /\ next % 2 = 0
  BY <1>2, BaseIs DEF TypeOK
<1>8. next = NextOf(queue[1]) /\ Base = queue[1].start
  BY <1>2, <1>3, <1>5 DEF Follows, Linked
<1>9. Dist(Base, next) = queue[1].size /\ Off(1) = 0
  <2> DEFINE m == queue[1].size
  <2>1. m \in Nat /\ m < RING
    BY <1>4, <1>5, <1>6
  <2>2. Dist(Base, Base) = 0
    BY <1>4, <1>7, DistIs
  <2>3. next = (Base + m) % RING
    BY <1>8 DEF NextOf
  <2> HIDE DEF m, next
  <2>4. Dist(Base, next) = Dist(Base, Base) + m
    <3>1. Dist(Base, Base) + m < RING
      BY <2>1, <2>2
    <3> QED BY <1>7, <2>1, <2>3, <3>1, DistStep
  <2>5. Dist(Base, next) = m
    BY <2>1, <2>2, <2>4
  <2> QED BY <1>8, <2>2, <2>5 DEF m, Off
<1>10. next # 0 /\ erxrdpt' = next - 1
  BY <1>1, <1>7, Release
<1>11. Base' = next /\ InRing'
  <2>1. next \in 0..(RING - 1) /\ (next - 1) % 2 = 1 /\ next - 1 + 1 = next
    BY <1>4, <1>7, <1>10
  <2>2. next % RING = next
    BY <1>4, <2>1
  <2>3. erxrdpt' % 2 = 1
    BY <1>10, <2>1
  <2>4. Base' = next
    BY <1>10, <2>1, <2>2, <2>3 DEF Base
  <2> QED BY <1>1, <2>3, <2>4 DEF InRing
<1> HIDE DEF next
<1>12. \A i \in Live : Off(i) \in Nat /\ queue[i].size \in Nat
  <2> TAKE i \in Live
  <2>1. i \in 1..n
    BY <1>5
  <2>2. queue[i].start \in Addresses /\ queue[i].size \in Nat
    BY <1>4, <1>6, <2>1
  <2>3. Off(i) \in Addresses
    BY <1>7, <2>2, DistIs DEF Off
  <2> QED BY <1>4, <2>2, <2>3
<1>13. Used' = Used - queue[1].size /\ Used \in Nat
  <2>1. Off(1) + queue[1].size <= Used
    BY <1>2, <1>5 DEF Placed
  <2>2. Dist(Base, next) <= Dist(Base, erxwrpt) /\ Dist(Base, erxwrpt) \in Nat
    <3>1. Used \in Addresses
      BY <1>7, DistIs DEF Used
    <3>2. queue[1].size \in Nat /\ Used \in Nat /\ 0 + queue[1].size <= Used
      BY <1>4, <1>5, <1>9, <1>12, <2>1, <3>1
    <3>3. queue[1].size <= Used
      BY <3>2
    <3> QED BY <1>9, <3>2, <3>3 DEF Used
  <2>3. Dist(next, erxwrpt) = Dist(Base, erxwrpt) - Dist(Base, next)
    BY <1>7, <2>2, DistRebase
  <2> QED BY <1>3, <1>9, <1>11, <2>2, <2>3 DEF Used
<1>14. \A i \in Live' : Off(i)' = Off(i) - queue[1].size
  <2> TAKE i \in Live'
  <2>1. i \in 1..n /\ 1 < i /\ i \in Live /\ 1 \in Live
    BY <1>5
  <2>2. Off(1) + queue[1].size <= Off(i)
    BY <1>2, <2>1 DEF Placed
  <2>3. Dist(Base, next) <= Dist(Base, queue[i].start)
    BY <1>9, <1>12, <2>1, <2>2 DEF Off
  <2>4. Dist(next, queue[i].start) = Dist(Base, queue[i].start) - Dist(Base, next)
    BY <1>6, <1>7, <2>1, <2>3, DistRebase
  <2> QED BY <1>3, <1>9, <1>11, <2>4 DEF Off
<1>15. Live' \subseteq Live
  BY <1>5
<1>16. Placed'
  <2>1. Used' <= RING - 2
    BY <1>2, <1>4, <1>5, <1>12, <1>13 DEF Placed
  <2>2. ASSUME NEW i \in Live' PROVE queue'[i].intact /\ Off(i)' + queue'[i].size <= Used'
    <3>1. queue[i].intact /\ Off(i) + queue[i].size <= Used
      BY <1>2, <1>15 DEF Placed
    <3> QED BY <1>3, <1>5, <1>12, <1>13, <1>14, <1>15, <3>1
  <2>3. ASSUME NEW i \in Live', NEW j \in Live', i < j PROVE Off(i)' + queue'[i].size <= Off(j)'
    <3>1. Off(i) + queue[i].size <= Off(j)
      BY <1>2, <1>15, <2>3 DEF Placed
    <3>2. /\ Off(i) \in Nat /\ Off(j) \in Nat /\ queue[i].size \in Nat /\ queue[1].size \in Nat
          /\ Off(i)' = Off(i) - queue[1].size /\ Off(j)' = Off(j) - queue[1].size
          /\ queue'[i].size = queue[i].size
      BY <1>3, <1>5, <1>12, <1>14, <1>15
    <3> QED BY <3>1, <3>2
  <2> QED BY <2>1, <2>2, <2>3 DEF Placed
<1>17. Linked'
  <2>1. next = IF 1 < n THEN queue[2].start ELSE erxwrpt
    BY <1>2, <1>5, <1>8 DEF Linked
  <2>2. Base' = IF Live' = {} THEN erxwrpt' ELSE queue'[First'].start
    BY <1>3, <1>5, <1>11, <2>1
  <2>3. ASSUME NEW i \in Live'
        PROVE NextOf(queue'[i]) = IF i < n THEN queue'[i + 1].start ELSE erxwrpt'
    BY <1>2, <1>3, <1>15 DEF Linked, NextOf
  <2> QED BY <1>3, <2>2, <2>3 DEF Linked
<1>18. Follows'
  BY <1>2, <1>3, <1>11 DEF Follows, next
<1> QED BY <1>11, <1>16, <1>17, <1>18

\* Decrementing the counter takes the packet away whose room is free already.
LEMMA DecrementKeeps ==
    ASSUME TypeOK, RingInv, DecrementCounter
    PROVE  RingInv'
<1> DEFINE n == Len(queue)
<1> SUFFICES ASSUME ~wild PROVE (InRing /\ Linked /\ Placed /\ Follows)'
  BY DEF RingInv, DecrementCounter
<1>1. InRing /\ Linked /\ Placed /\ Follows
  BY DEF RingInv
<1>2. /\ UNCHANGED <<erxwrpt, erxrdpt, gNextPacketPtr, copied>>
      /\ pc = "dec" /\ pc' = "idle" /\ queue' = Tail(queue)
  BY DEF DecrementCounter
<1>3. /\ n \in Nat \ {0} /\ Len(queue') = n - 1
      /\ \A i \in 1..(n - 1) : queue'[i] = queue[i + 1]
  <2>1. queue \in Seq(Packet) /\ queue # <<>>
    BY <1>2 DEF TypeOK
  <2> QED BY <1>2, <2>1, Shifted
<1>4. First = 2 /\ First' = 1 /\ Live = 2..n /\ Live' = 1..(n - 1)
  BY <1>2, <1>3 DEF First, Live
<1>5. Base' = Base /\ Used' = Used
  BY <1>2 DEF Base, Used
<1>6. \A i \in Live' : i + 1 \in Live /\ queue'[i] = queue[i + 1] /\ Off(i)' = Off(i + 1)
  <2> TAKE i \in Live'
  <2>1. i + 1 \in Live /\ queue'[i] = queue[i + 1]
    BY <1>3, <1>4
  <2> QED BY <1>5, <2>1 DEF Off
<1>7. InRing'
  BY <1>1, <1>2 DEF InRing
<1>8. Placed'
  <2>1. ASSUME NEW i \in Live' PROVE queue'[i].intact /\ Off(i)' + queue'[i].size <= Used'
    BY <1>1, <1>5, <1>6 DEF Placed
  <2>2. ASSUME NEW i \in Live', NEW j \in Live', i < j PROVE Off(i)' + queue'[i].size <= Off(j)'
    <3>1. i + 1 < j + 1
      BY <1>3, <1>4, <2>2
    <3>2. Off(i + 1) + queue[i + 1].size <= Off(j + 1)
      BY <1>1, <1>6, <3>1 DEF Placed
    <3> QED BY <1>6, <3>2
  <2>3. Used' <= RING - 2
    BY <1>1, <1>5 DEF Placed
  <2> QED BY <2>1, <2>2, <2>3 DEF Placed
<1>9. Linked'
  <2>1. Base' = IF Live' = {} THEN erxwrpt' ELSE queue'[First'].start
    <3>1. CASE Live' = {}
      <4>1. Live = {}
        <5> HIDE DEF n
        <5>1. n \in Int /\ n - 1 \in Int
          BY <1>3
        <5>2. 1..(n - 1) = {} => n - 1 < 1
          BY <5>1, Interval
        <5>3. n < 2
          BY <1>4, <3>1, <5>1, <5>2
        <5>4. 2..n = {}
          BY <5>1, <5>3, Interval
        <5> QED BY <1>4, <5>4
      <4>2. Base = erxwrpt
        BY <1>1, <4>1 DEF Linked
      <4> QED BY <1>2, <1>5, <3>1, <4>2
    <3>2. CASE Live' # {}
      <4>1. 1 \in Live' /\ Live # {}
        <5> HIDE DEF n
        <5>1. n \in Int /\ n - 1 \in Int
          BY <1>3
        <5>2. 1..(n - 1) # {} => ~(n - 1 < 1) /\ 1 \in 1..(n - 1)
          BY <5>1, Interval
        <5>3. ~(n - 1 < 1) /\ 1 \in Live'
          BY <1>4, <3>2, <5>2
        <5>4. ~(n < 2)
          BY <5>1, <5>3
        <5>5. 2..n # {}
          BY <5>1, <5>4, Interval
        <5> QED BY <1>4, <5>3, <5>5
      <4>2. Base = queue[2].start
        BY <1>1, <1>4, <4>1 DEF Linked
      <4>3. queue'[1] = queue[1 + 1] /\ 1 + 1 = 2
        BY <1>6, <4>1
      <4> QED BY <1>4, <1>5, <3>2, <4>2, <4>3
    <3> QED BY <3>1, <3>2
  <2>2. ASSUME NEW i \in Live'
        PROVE NextOf(queue'[i]) = IF i < n - 1 THEN queue'[i + 1].start ELSE erxwrpt'
    <3>1. NextOf(queue[i + 1]) = IF i + 1 < n THEN queue[i + 2].start ELSE erxwrpt
      <4>1. NextOf(queue[i + 1]) = IF i + 1 < n THEN queue[(i + 1) + 1].start ELSE erxwrpt
        BY <1>1, <1>6 DEF Linked
      <4>2. (i + 1) + 1 = i + 2
        BY <1>3, <1>4
      <4> QED BY <4>1, <4>2
    <3>2. CASE i < n - 1
      <4>1. i + 1 \in 1..(n - 1) /\ i + 1 < n /\ (i + 1) + 1 = i + 2
        BY <1>3, <1>4, <3>2
      <4>2. queue'[i + 1] = queue[i + 2]
        BY <1>3, <4>1
      <4> QED BY <1>6, <3>1, <3>2, <4>1, <4>2
    <3>3. CASE ~(i < n - 1)
      <4>1. ~(i + 1 < n)
        BY <1>3, <1>4, <3>3
      <4> QED BY <1>2, <1>6, <3>1, <3>3, <4>1
    <3> QED BY <3>2, <3>3
  <2> QED BY <1>3, <2>1, <2>2 DEF Linked
<1>10. Follows'
  BY <1>1, <1>2, <1>5 DEF Follows
<1> QED BY <1>7, <1>8, <1>9, <1>10

\* No step breaks the ring.
LEMMA RingInductive == TypeOK /\ RingInv /\ [Next]_vars => RingInv'
<1> SUFFICES ASSUME TypeOK, RingInv, [Next]_vars PROVE RingInv'
  OBVIOUS
<1>1. ASSUME NEW size \in Sizes, PacketArrives(size) PROVE RingInv'
  BY <1>1, ArrivalKeeps
<1>2. CASE PacketReceive
  BY <1>2, ReadKeeps, ReleaseKeeps, DecrementKeeps DEF PacketReceive
<1>3. CASE UNCHANGED vars
  <2>1. UNCHANGED <<erxwrpt, erxrdpt, queue, gNextPacketPtr, pc, copied, wild>>
    BY <1>3 DEF vars
  <2> QED BY <2>1 DEF RingInv, InRing, Linked, Placed, Follows, Live, First, Base, Used, Off
<1> QED BY <1>1, <1>2, <1>3 DEF Next

-----------------------------------------------------------------------------
(* Theorems *)

\* Every register and packet stays in range.
THEOREM TypeCorrect == Spec => []TypeOK
BY InitRing, TypeInductive, PTL DEF Spec

\* The ring invariant holds in every state.
LEMMA RingHolds == Spec => []RingInv
BY InitRing, RingInductive, TypeCorrect, PTL DEF Spec

\* What the ring invariant says of the packets the driver has still to read.
LEMMA RingShows == TypeOK /\ RingInv => FlowControl
<1> SUFFICES ASSUME TypeOK, RingInv, ~wild PROVE UnreadIntact /\ InSync /\ copied # "garbage"
  BY DEF FlowControl
<1> DEFINE n == Len(queue)
<1>1. Linked /\ Placed /\ Follows
  BY DEF RingInv
<1>2. queue \in Seq(Packet) /\ n \in Nat /\ (pc # "idle" => queue # <<>>)
  BY DEF TypeOK
<1>3. queue # <<>> => /\ n > 0 /\ Head(queue) = queue[1]
                      /\ Tail(queue) \in Seq(Packet) /\ Len(Tail(queue)) = n - 1
                      /\ \A i \in 1..(n - 1) : Tail(queue)[i] = queue[i + 1]
  BY <1>2, Shifted, HeadTyped
<1>4. CASE pc \in {"free", "dec"}
  <2>1. Unread = Tail(queue) /\ queue # <<>>
    BY <1>2, <1>4 DEF Unread
  <2>2. 2..n \subseteq Live
    BY <1>2, <1>4 DEF Live, First
  <2>3. UnreadIntact
    <3>1. \A i \in 1..(n - 1) : i + 1 \in Live /\ queue[i + 1].intact
      BY <1>1, <1>2, <2>2 DEF Placed
    <3> QED BY <1>3, <2>1, <3>1 DEF UnreadIntact
  <2>4. (n = 1 => Unread = <<>>) /\ (n > 1 => Unread # <<>> /\ Head(Unread) = queue[2])
    <3>1. n = 1 => Unread = <<>>
      BY <1>3, <2>1
    <3>2. ASSUME n > 1 PROVE Unread # <<>> /\ Head(Unread) = queue[2]
      <4>1. 1 \in 1..(n - 1) /\ 1 + 1 = 2
        BY <1>2, <3>2
      <4>2. Tail(queue) \in Seq(Packet) /\ Len(Tail(queue)) # 0
        <5>1. Tail(queue) \in Seq(Packet) /\ Len(Tail(queue)) = n - 1
          BY <1>3, <2>1
        <5> HIDE DEF n
        <5> QED BY <1>2, <3>2, <5>1
      <4>3. Tail(queue) # <<>> /\ Head(Tail(queue)) = Tail(queue)[1]
        BY <4>2, FirstOf
      <4> QED BY <1>3, <2>1, <4>1, <4>3
    <3> QED BY <3>1, <3>2
  <2>5. gNextPacketPtr = IF n > 1 THEN queue[2].start ELSE erxwrpt
    <3>1. CASE pc = "free"
      <4>1. 1 \in Live
        BY <1>2, <1>3, <2>1, <3>1 DEF Live, First
      <4>2. NextOf(queue[1]) = IF 1 < n THEN queue[1 + 1].start ELSE erxwrpt
        BY <1>1, <4>1 DEF Linked
      <4> QED BY <1>1, <1>2, <3>1, <4>2 DEF Follows
    <3>2. CASE pc = "dec"
      <4>1. First = 2 /\ Live = 2..n
        BY <3>2 DEF Live, First
      <4>2. (Live = {}) <=> ~(n > 1)
        <5> HIDE DEF n
        <5>1. (Live = {}) <=> n < 2
          BY <1>2, <4>1, Interval
        <5> QED BY <1>2, <5>1
      <4> QED BY <1>1, <3>2, <4>1, <4>2 DEF Follows, Linked
    <3> QED BY <1>4, <3>1, <3>2
  <2>6. InSync
    <3>1. n > 1 \/ n = 1
      <4> HIDE DEF n
      <4> QED BY <1>2, <1>3, <2>1
    <3> QED BY <1>2, <1>4, <2>4, <2>5, <3>1 DEF InSync
  <2> QED BY <1>1, <2>3, <2>6 DEF Follows
<1>5. CASE pc \in {"idle", "copy"}
  <2>1. Unread = queue /\ First = 1 /\ Live = 1..n
    BY <1>5 DEF Unread, Live, First
  <2>2. UnreadIntact
    BY <1>1, <2>1 DEF UnreadIntact, Placed
  <2>3. CASE pc = "copy"
    BY <1>1, <1>2, <1>3, <2>2, <2>3 DEF InSync, Follows
  <2>4. CASE pc = "idle"
    <3>1. gNextPacketPtr = IF Live = {} THEN erxwrpt ELSE queue[1].start
      BY <1>1, <2>1, <2>4 DEF Follows, Linked
    <3>2. (Live = {}) <=> (queue = <<>>)
      <4>1. queue = <<>> <=> n = 0
        BY <1>2, FirstOf
      <4> HIDE DEF n
      <4>2. (Live = {}) <=> n < 1
        BY <1>2, <2>1, Interval
      <4> QED BY <1>2, <4>1, <4>2
    <3>3. InSync
      BY <1>3, <2>1, <2>4, <3>1, <3>2 DEF InSync
    <3> QED BY <1>1, <2>2, <3>3 DEF Follows
  <2> QED BY <1>5, <2>3, <2>4
<1> QED BY <1>2, <1>4, <1>5 DEF TypeOK

\* While ERXRDPT stays in the ring, no packet is overwritten before the driver has
\* read it, the driver follows the controller's chain, and what it copies is what
\* arrived, wherever the arrivals fall between its register accesses.
THEOREM NothingUnreadOverwritten == Spec => []FlowControl
BY TypeCorrect, RingHolds, RingShows, PTL

\* Once every packet has been released the ring takes a packet of any size, wherever
\* its pointers have come to be.
THEOREM RoomComesBack == Spec => []RoomReturns
<1>1. TypeOK /\ RingInv => RoomReturns
  <2> SUFFICES ASSUME TypeOK, RingInv, ~wild, queue = <<>>, NEW size \in Sizes
               PROVE  size <= FreeSpace
    BY DEF RoomReturns
  <2>1. InRing /\ Linked
    BY DEF RingInv
  <2>2. Base = erxwrpt
    <3>1. pc = "idle"
      BY DEF TypeOK
    <3>2. Live = {}
      BY <3>1 DEF Live, First
    <3> QED BY <2>1, <3>2 DEF Linked
  <2>3. /\ RING \in Nat \ {0} /\ RING % 2 = 0 /\ RXSTOP = RING - 1
        /\ size \in Nat /\ size % 2 = 0 /\ size < RING
    BY RingSize
  <2>4. /\ erxrdpt \in 0..(RING - 1)
        /\ erxrdpt % 2 = 0 => erxrdpt = 0 /\ erxwrpt = 0
        /\ erxrdpt % 2 # 0 => erxwrpt = IF erxrdpt = RXSTOP THEN 0 ELSE erxrdpt + 1
    BY <2>1, <2>2, BaseIs, RingSize DEF InRing
  <2>5. size <= RING - 2
    BY <2>3
  <2> QED BY <2>3, <2>4, <2>5 DEF FreeSpace
<1> QED BY <1>1, TypeCorrect, RingHolds, PTL

-----------------------------------------------------------------------------
(* The driver's calls, as sequences of operations *)

\* Cells that the proofs speak of.
Econ1 == Spi!CellOf(Spi!Reg.ECON1)
Mistat == Spi!CellOf(Spi!Reg.MISTAT)
Micmd == Spi!CellOf(Spi!Reg.MICMD)
Miwrh == Spi!CellOf(Spi!Reg.MIWRH)
At(op) == Spi!CellOf(op.reg)
Writes(op) == op.do \in Spi!Writing

\* enc28j60SetBank is called before it, or its register is in every bank, or it
\* is no register access at all.
AnyBank(op) == Spi!ADDR_MASK(op.reg) >= 27
Banked(op) ==
    op.do \in Spi!Switching \cup {"bank", "softreset", "buffer"} \/ AnyBank(op)
\* The one exception: it relies on the access before it.
SetMacon3 == Spi!WriteOp("set", Spi!Reg.MACON3, 50)
WriteMacon2 == Spi!Write(Spi!Reg.MACON2, 0)

\* The two ways to start an exchange with the PHY, and the wait for its end.
StartsPhy(op) ==
    /\ Writes(op)
    /\ At(op) = Miwrh \/ (At(op) = Micmd /\ ~(op.do = "write" /\ op.data = 0))
UntilPhy == Spi!Until(Spi!Reg.MISTAT, Spi!MISTAT_BUSY)

\* Operations.  None of them writes MISTAT; those that are done on a condition,
\* after a test of a register, ask nothing of their neighbours.
Dos == {"write", "read", "until", "or", "andnot", "bank", "poll", "set", "clear",
        "buffer", "softreset"}
Accesses == [do : Dos, reg : 0..255, data : Int]
Sends == [do : {"send"}, reg : {Spi!Reg.ECON1}, data : {Spi!ECON1_.TXRTS}, frame : Frames]
Simple == { op \in Accesses \cup Sends : ~(Writes(op) /\ At(op) = Mistat) }
Plain == { op \in Simple : Banked(op) /\ ~StartsPhy(op) /\ op.do # "softreset" }
Whens == [do : {"when"}, reg : 0..255, data : Int, then : Seq(Plain)]
Ops == Simple \cup Whens

\* What holds of a call, and of what is left of it after any of its accesses.
Ordered(s) ==
    /\ s \in Seq(Ops)
    /\ \A i \in 1..Len(s) :
          /\ Banked(s[i]) \/ s[i] = SetMacon3
          /\ s[i] = SetMacon3 /\ i > 1 => s[i - 1] = WriteMacon2
          /\ StartsPhy(s[i]) => i < Len(s) /\ s[i + 1] = UntilPhy
          /\ s[i].do = "softreset" => i = 1
HeadIs(do) == todo # <<>> /\ Head(todo).do = do

-----------------------------------------------------------------------------
(* The invariants of the driver *)

\* The bank that is selected is the one the driver remembers.  The two may differ
\* after a restart, whose first access is a soft reset, and in enc28j60SetBank,
\* that has cleared BSEL by then.  MACON3 is written without it, and finds the bank
\* of MACON2 selected.
BankInv ==
    /\ Ordered(todo)
    /\ cells \in [Spi!Cells -> Int] /\ got \in Int
    /\ BSEL \in 0..3 /\ Enc28j60Bank \in 0..3 /\ stage \in {"start", "cleared"}
    /\ stage = "cleared" =>
          todo # <<>> /\ BSEL = 0 /\ Spi!NeedsBank(Head(todo))
    /\ stage = "start" => BSEL = Enc28j60Bank \/ HeadIs("softreset")
    /\ HeadIs("softreset") => Enc28j60Bank = 0
    /\ todo # <<>> /\ Head(todo) = SetMacon3 => Enc28j60Bank = 2 /\ stage = "start"

\* During an exchange with the PHY the driver waits for its end.
Busy == Spi!And(cells[Mistat], Spi!MISTAT_BUSY) # 0
PhyInv == Busy => todo # <<>> /\ (Head(todo).do = "softreset" \/ Head(todo) = UntilPhy)

\* A transmission has been requested, and not ended.
On == Spi!And(cells[Econ1], Spi!ECON1_.TXRTS) # 0
SentAsGiven ==
    /\ given \in Frames /\ txbuf = given
    /\ Spi!Pointer(cells, Spi!Reg.ETXNDL) - Spi!Pointer(cells, Spi!Reg.ETXSTL) = given

\* The pair of ETXST, once it is written.
Low(p) == p % 256
High(p) == p \div 256
Holds(reg, byte) == cells[Spi!CellOf(reg)] = byte
Started ==
    /\ Holds(Spi!Reg.ETXSTL, Low(Spi!TXSTART_INIT))
    /\ Holds(Spi!Reg.ETXSTH, High(Spi!TXSTART_INIT))

\* Operations that leave TXRTS, the pointers of the transmitter and its memory alone.
TxCells == { Spi!CellOf(r) : r \in { Spi!Reg.ECON1, Spi!Reg.ETXSTL, Spi!Reg.ETXSTH,
                                     Spi!Reg.ETXNDL, Spi!Reg.ETXNDH } }
StartCells == { Spi!CellOf(r) : r \in { Spi!Reg.ETXSTL, Spi!Reg.ETXSTH } }
Quiet(op) == op.do \notin {"buffer", "send", "softreset"} /\ ~(Writes(op) /\ At(op) \in TxCells)
QuietOps ==
    { op \in Ops : Quiet(op) /\ (op.do = "when" => \A i \in 1..Len(op.then) : Quiet(op.then[i])) }
\* The operations of enc28j60Init: of ECON1 they set RXEN, and ETXST they set to
\* TXSTART_INIT.
SetRxen == Spi!WriteOp("set", Spi!Reg.ECON1, Spi!ECON1_.RXEN)
StartL == Spi!Write(Spi!Reg.ETXSTL, Low(Spi!TXSTART_INIT))
StartH == Spi!Write(Spi!Reg.ETXSTH, High(Spi!TXSTART_INIT))
BootOps ==
    { op \in Accesses : /\ op.do # "buffer"
                        /\ Writes(op) /\ At(op) = Econ1 => op = SetRxen
                        /\ Writes(op) /\ At(op) \in StartCells => op \in {StartL, StartH} }
Ahead(op) == \E i \in 1..Len(todo) : todo[i] = op

\* enc28j60Init: from the soft reset on nothing is sent.
Booting ==
    /\ todo \in Seq(BootOps)
    /\ IF HeadIs("softreset") THEN Ahead(StartL) /\ Ahead(StartH)
       ELSE /\ ~On
            /\ Ahead(StartL) \/ Holds(Spi!Reg.ETXSTL, Low(Spi!TXSTART_INIT))
            /\ Ahead(StartH) \/ Holds(Spi!Reg.ETXSTH, High(Spi!TXSTART_INIT))
\* A call that does not send.
Serving == todo \in Seq(QuietOps) /\ Started
\* enc28j60PacketSend from its operation k on, and what it has written by then; or
\* its way out of an aborted transmission.
From(len, k) == SubSeq(Spi!PacketSend(len), k, 9)
Unblock == Spi!UnblockTransmitter[1].then
Filled(len, k) ==
    /\ k > 1 => ~On
    /\ k \in 4..7 => Holds(Spi!Reg.EWRPTL, Low(Spi!TXSTART_INIT))
    /\ k \in 5..7 => Holds(Spi!Reg.EWRPTH, High(Spi!TXSTART_INIT))
    /\ k > 5 => Holds(Spi!Reg.ETXNDL, Low(Spi!TXSTART_INIT + len))
    /\ k > 6 => Holds(Spi!Reg.ETXNDH, High(Spi!TXSTART_INIT + len))
    /\ k = 8 => txbuf = Spi!Control
    /\ k = 9 => txbuf = len
Sending(len) ==
    /\ Started
    /\ \/ \E k \in 1..9 : todo = From(len, k) /\ Filled(len, k)
       \/ \E j \in 1..3 : todo = SubSeq(Unblock, j, 3) \o From(len, 3) /\ ~On

\* What is being sent is the frame given, and the calls write the registers and the
\* memory it is sent from only while nothing is.
TxInv ==
    /\ On => SentAsGiven
    /\ Booting \/ Serving \/ \E len \in Frames : Sending(len)

-----------------------------------------------------------------------------
(* Bits, cells, sequences *)

\* Zero has no bit in common with anything.
LEMMA AndZero ==
    ASSUME NEW b \in Int
    PROVE  Spi!And(0, b) = 0 /\ Spi!Or(0, b) = b
<1>1. \A w \in {1, 2, 4, 8, 16, 32, 64, 128} : Spi!Bit(0, w) = 0
  BY DEF Spi!Bit
<1>2. \A w \in {1, 2, 4, 8, 16, 32, 64, 128} : Spi!Bit(b, w) \in Int
  BY DEF Spi!Bit
<1>3. Spi!And(0, b) = 0
  BY <1>1, <1>2 DEF Spi!And
<1> QED BY <1>3 DEF Spi!Or

\* Bytes stay integers.
LEMMA BytesInt ==
    ASSUME NEW a \in Int, NEW b \in Int
    PROVE  Spi!And(a, b) \in Int /\ Spi!Or(a, b) \in Int /\ Spi!Without(a, b) \in Int
<1>1. \A w \in {1, 2, 4, 8, 16, 32, 64, 128} : Spi!Bit(a, w) \in Int /\ Spi!Bit(b, w) \in Int
  BY DEF Spi!Bit
<1>2. Spi!And(a, b) \in Int
  BY <1>1 DEF Spi!And
<1> QED BY <1>2 DEF Spi!Or, Spi!Without

\* The cells of the registers the proofs speak of.
LEMMA CellsAre ==
    /\ Econ1 = 31 /\ Mistat = 106 /\ Micmd = 82 /\ Miwrh = 87
    /\ Spi!CellOf(Spi!Reg.EIR) = 28 /\ Spi!CellOf(Spi!Reg.ECON2) = 30
    /\ Spi!CellOf(Spi!Reg.EPKTCNT) = 57
    /\ Spi!CellOf(Spi!Reg.EWRPTL) = 2 /\ Spi!CellOf(Spi!Reg.EWRPTH) = 3
    /\ Spi!CellOf(Spi!Reg.EWRPTL + 1) = 3
    /\ Spi!CellOf(Spi!Reg.ETXSTL) = 4 /\ Spi!CellOf(Spi!Reg.ETXSTH) = 5
    /\ Spi!CellOf(Spi!Reg.ETXSTL + 1) = 5
    /\ Spi!CellOf(Spi!Reg.ETXNDL) = 6 /\ Spi!CellOf(Spi!Reg.ETXNDH) = 7
    /\ Spi!CellOf(Spi!Reg.ETXNDL + 1) = 7
    /\ Spi!CellOf(Spi!Reg.MIRDH) = 89
BY DEF Econ1, Mistat, Micmd, Miwrh, Spi!CellOf, Spi!Cell, Spi!BANK_MASK, Spi!ADDR_MASK, Spi!Reg

\* They are cells of the register file.
LEMMA AreCells ==
    {2, 3, 4, 5, 6, 7, 28, 30, 31, 57, 82, 87, 89, 106} \subseteq Spi!Cells
<1> DEFINE names == {"ECON1", "MISTAT", "MICMD", "MIWRH", "EIR", "ECON2", "EPKTCNT", "EWRPTL",
                     "EWRPTH", "ETXSTL", "ETXSTH", "ETXNDL", "ETXNDH", "MIRDH"}
<1>1. names \subseteq DOMAIN Spi!Reg
  BY DEF Spi!Reg
<1>2. \A n \in names : Spi!CellOf(Spi!Reg[n]) \in Spi!Cells
  BY <1>1 DEF Spi!Cells
<1> QED BY <1>2, CellsAre DEF Econ1, Mistat, Micmd, Miwrh

\* What is left of a sequence without its head.
LEMMA TailIs ==
    ASSUME NEW S, NEW s \in Seq(S), s # <<>>
    PROVE  /\ Head(s) = s[1] /\ Head(s) \in S /\ Tail(s) \in Seq(S)
           /\ Len(s) \in Nat /\ Len(s) > 0 /\ Len(Tail(s)) = Len(s) - 1
           /\ \A i \in 1..Len(Tail(s)) : i + 1 \in 1..Len(s) /\ Tail(s)[i] = s[i + 1]
OBVIOUS

\* Length and elements of a concatenation.
LEMMA JoinIs ==
    ASSUME NEW S, NEW s \in Seq(S), NEW t \in Seq(S)
    PROVE  /\ s \o t \in Seq(S) /\ Len(s \o t) = Len(s) + Len(t)
           /\ \A i \in 1..Len(s) : (s \o t)[i] = s[i]
           /\ \A i \in 1..Len(t) : (s \o t)[Len(s) + i] = t[i]
OBVIOUS

\* The first element of a concatenation, and what is left of it.
LEMMA HeadTailOfJoin ==
    ASSUME NEW S, NEW s \in Seq(S), NEW t \in Seq(S), s # <<>>
    PROVE  Head(s \o t) = Head(s) /\ Tail(s \o t) = Tail(s) \o t
OBVIOUS

\* A sequence is its head and its tail.
LEMMA HeadAndTail ==
    ASSUME NEW S, NEW s \in Seq(S), s # <<>>
    PROVE  <<Head(s)>> \o Tail(s) = s
OBVIOUS

\* The two descriptions of the operations are one.
LEMMA SameOps ==
    /\ Spi!Flat!Cells = Spi!Cells
    /\ \A op : Spi!Flat!CellOf(op.reg) = Spi!CellOf(op.reg)
    /\ \A op, byte, rest : Spi!Flat!After(op, byte, rest) = Spi!After(op, byte, rest)
    /\ \A f, cell : Spi!Flat!Byte(f, cell) = Spi!Byte(f, cell)
    /\ \A op, byte : Spi!Flat!Kept(op, byte) = Spi!Kept(op, byte)
    /\ \A f, op, cell, g : Spi!Flat!Effects(f, op, cell, g) = Spi!Effects(f, op, cell, g)
<1>1. /\ Spi!Flat!Reg = Spi!Reg /\ Spi!Flat!Writing = Spi!Writing
      /\ Spi!Flat!EIR_TXERIF = Spi!EIR_TXERIF /\ Spi!Flat!ECON1_ = Spi!ECON1_
      /\ Spi!Flat!MICMD_MIIRD = Spi!MICMD_MIIRD /\ Spi!Flat!MISTAT_BUSY = Spi!MISTAT_BUSY
      /\ Spi!Flat!ECON2_PKTDEC = Spi!ECON2_PKTDEC
  BY DEF Spi!Reg, Spi!Flat!Reg, Spi!Writing, Spi!Flat!Writing, Spi!EIR_TXERIF, Spi!Flat!EIR_TXERIF,
         Spi!ECON1_, Spi!Flat!ECON1_, Spi!MICMD_MIIRD, Spi!Flat!MICMD_MIIRD,
         Spi!MISTAT_BUSY, Spi!Flat!MISTAT_BUSY, Spi!ECON2_PKTDEC, Spi!Flat!ECON2_PKTDEC
<1>2. \A code : Spi!Flat!CellOf(code) = Spi!CellOf(code)
  BY DEF Spi!CellOf, Spi!Flat!CellOf, Spi!Cell, Spi!Flat!Cell, Spi!BANK_MASK, Spi!Flat!BANK_MASK,
         Spi!ADDR_MASK, Spi!Flat!ADDR_MASK
<1>3. Spi!Flat!Cells = Spi!Cells
  BY <1>1, <1>2 DEF Spi!Cells, Spi!Flat!Cells
<1>4. \A a, b : Spi!Flat!And(a, b) = Spi!And(a, b)
  BY DEF Spi!And, Spi!Flat!And, Spi!Bit, Spi!Flat!Bit
<1>5. \A a, b : Spi!Flat!Or(a, b) = Spi!Or(a, b) /\ Spi!Flat!Without(a, b) = Spi!Without(a, b)
  BY <1>4 DEF Spi!Or, Spi!Flat!Or, Spi!Without, Spi!Flat!Without
<1>6. \A op, byte, rest : Spi!Flat!After(op, byte, rest) = Spi!After(op, byte, rest)
  BY <1>4 DEF Spi!After, Spi!Flat!After
<1>7. \A op, old, g : Spi!Flat!Stored(op, old, g) = Spi!Stored(op, old, g)
  BY <1>5 DEF Spi!Stored, Spi!Flat!Stored
<1>8. \A f, cell : Spi!Flat!Reaction(f, cell) = Spi!Reaction(f, cell)
  BY <1>1, <1>2, <1>4, <1>5 DEF Spi!Reaction, Spi!Flat!Reaction
<1>9. \A f, low, n : Spi!Flat!Advanced(f, low, n) = Spi!Advanced(f, low, n)
  <2> TAKE f, low, n
  <2>1. Spi!Flat!Pointer(f, low) = Spi!Pointer(f, low)
    BY <1>2 DEF Spi!Pointer, Spi!Flat!Pointer
  <2>2. Spi!Flat!CellOf(low) = Spi!CellOf(low) /\ Spi!Flat!CellOf(low + 1) = Spi!CellOf(low + 1)
    BY <1>2
  <2> QED BY <2>1, <2>2, Zenon DEF Spi!Advanced, Spi!Flat!Advanced
<1>10. \A f, op, cell, g : Spi!Flat!Effects(f, op, cell, g) = Spi!Effects(f, op, cell, g)
  <2> TAKE f, op, cell, g
  <2>1. CASE op.do = "softreset"
    BY <1>3, <2>1 DEF Spi!Effects, Spi!Flat!Effects
  <2>2. CASE op.do = "buffer"
    <3>1. Spi!Flat!Effects(f, op, cell, g) = {Spi!Flat!Advanced(f, Spi!Flat!Reg.EWRPTL, op.data)}
      BY <2>2 DEF Spi!Flat!Effects, Spi!Flat!Writing
    <3>2. Spi!Effects(f, op, cell, g) = {Spi!Advanced(f, Spi!Reg.EWRPTL, op.data)}
      BY <2>2 DEF Spi!Effects, Spi!Writing
    <3> QED BY <1>1, <1>9, <3>1, <3>2
  <2>3. CASE op.do \notin {"softreset", "buffer"}
    BY <1>1, <1>2, <1>3, <1>5, <1>7, <1>8, <2>3 DEF Spi!Effects, Spi!Flat!Effects
  <2> QED BY <2>1, <2>2, <2>3
<1>11. \A f, cell : Spi!Flat!Byte(f, cell) = Spi!Byte(f, cell)
  BY <1>3 DEF Spi!Byte, Spi!Flat!Byte
<1>12. \A op, byte : Spi!Flat!Kept(op, byte) = Spi!Kept(op, byte)
  BY DEF Spi!Kept, Spi!Flat!Kept
<1> QED BY <1>2, <1>3, <1>6, <1>10, <1>11, <1>12

-----------------------------------------------------------------------------
(* The calls are ordered *)

\* A call from its beginning.
Whole(s) == Ordered(s) /\ (s # <<>> => s[1] # SetMacon3 /\ s[1].do # "softreset")

\* Operations that need nothing before or behind them.
Free == Plain \cup Whens

\* Free operations ask nothing of their neighbours.
LEMMA FreeIs ==
    ASSUME NEW op \in Free
    PROVE  /\ op \in Ops /\ Banked(op) /\ ~StartsPhy(op) /\ op # SetMacon3
           /\ op.do # "softreset"
<1>1. ~Banked(SetMacon3)
  BY DEF Banked, SetMacon3, AnyBank, Spi!WriteOp, Spi!Op, Spi!Switching, Spi!Reg, Spi!ADDR_MASK
<1>2. CASE op \in Plain
  BY <1>1, <1>2 DEF Plain, Ops
<1>3. CASE op \in Whens
  <2>1. op.do = "when"
    BY <1>3 DEF Whens
  <2> QED BY <1>1, <1>3, <2>1 DEF Ops, Banked, StartsPhy, Writes, Spi!Writing, Spi!Switching
<1> QED BY <1>2, <1>3 DEF Free

\* A sequence of them is a call, or a part of one.
LEMMA FreeWhole ==
    ASSUME NEW s \in Seq(Free)
    PROVE  Whole(s)
<1>1. \A i \in 1..Len(s) : s[i] \in Free
  OBVIOUS
<1>2. s \in Seq(Ops)
  BY <1>1, FreeIs
<1>3. Ordered(s)
  BY <1>1, <1>2, FreeIs DEF Ordered
<1>4. s # <<>> => s[1] \in Free
  BY <1>1
<1> QED BY <1>3, <1>4, FreeIs DEF Whole

\* What begins like a call may be continued with one.
LEMMA JoinOrdered ==
    ASSUME NEW s, NEW t, Ordered(s), Whole(t)
    PROVE  /\ Ordered(s \o t) /\ (s \o t # <<>> => s # <<>> \/ t # <<>>)
           /\ (s \o t # <<>> => (s \o t)[1] = IF s # <<>> THEN s[1] ELSE t[1])
           /\ (s # <<>> => s \o t # <<>>)
<1> DEFINE j == s \o t
<1>1. s \in Seq(Ops) /\ t \in Seq(Ops)
  BY DEF Whole, Ordered
<1>2. /\ j \in Seq(Ops) /\ Len(j) = Len(s) + Len(t) /\ Len(s) \in Nat /\ Len(t) \in Nat
      /\ \A i \in 1..Len(s) : j[i] = s[i]
      /\ \A i \in 1..Len(t) : j[Len(s) + i] = t[i]
  BY <1>1, JoinIs
<1> HIDE DEF j
<1>3. ASSUME NEW i \in 1..Len(j)
      PROVE  /\ Banked(j[i]) \/ j[i] = SetMacon3
             /\ j[i] = SetMacon3 /\ i > 1 => j[i - 1] = WriteMacon2
             /\ StartsPhy(j[i]) => i < Len(j) /\ j[i + 1] = UntilPhy
             /\ j[i].do = "softreset" => i = 1
  <2>1. CASE i \in 1..Len(s)
    <3>1. /\ Banked(s[i]) \/ s[i] = SetMacon3
          /\ s[i] = SetMacon3 /\ i > 1 => s[i - 1] = WriteMacon2
          /\ StartsPhy(s[i]) => i < Len(s) /\ s[i + 1] = UntilPhy
          /\ s[i].do = "softreset" => i = 1
      BY <2>1 DEF Ordered
    <3>2. i > 1 => i - 1 \in 1..Len(s)
      BY <1>2, <2>1
    <3>3. i < Len(s) => i + 1 \in 1..Len(s) /\ i < Len(j)
      BY <1>2, <2>1
    <3> QED BY <1>2, <2>1, <3>1, <3>2, <3>3
  <2>2. CASE i \notin 1..Len(s)
    <3> DEFINE k == i - Len(s)
    <3>1. k \in 1..Len(t) /\ i = Len(s) + k
      BY <1>2, <2>2
    <3> HIDE DEF k
    <3>2. /\ Banked(t[k]) \/ t[k] = SetMacon3
          /\ t[k] = SetMacon3 /\ k > 1 => t[k - 1] = WriteMacon2
          /\ StartsPhy(t[k]) => k < Len(t) /\ t[k + 1] = UntilPhy
          /\ t[k].do = "softreset" => k = 1
      BY <3>1 DEF Whole, Ordered
    <3>3. t # <<>> /\ t[1] # SetMacon3 /\ t[1].do # "softreset"
      BY <1>1, <3>1 DEF Whole
    <3>4. k > 1 => k - 1 \in 1..Len(t) /\ i - 1 = Len(s) + (k - 1)
      BY <1>2, <3>1
    <3>5. k < Len(t) => k + 1 \in 1..Len(t) /\ i + 1 = Len(s) + (k + 1) /\ i < Len(j)
      BY <1>2, <3>1
    <3>6. j[i] = t[k]
      BY <1>2, <3>1
    <3>7. (t[k] = SetMacon3 => k > 1) /\ t[k].do # "softreset"
      BY <3>1, <3>2, <3>3
    <3> QED BY <1>2, <3>2, <3>4, <3>5, <3>6, <3>7
  <2> QED BY <2>1, <2>2
<1>4. CASE s = <<>>
  <2>1. Len(s) = 0
    BY <1>4
  <2>2. j # <<>> => 1 \in 1..Len(t) /\ Len(s) + 1 = 1 /\ t # <<>>
    BY <1>1, <1>2, <2>1
  <2>3. Ordered(j)
    BY <1>2, <1>3 DEF Ordered
  <2> QED BY <1>2, <1>4, <2>2, <2>3 DEF j
<1>5. CASE s # <<>>
  <2>1. 1 \in 1..Len(s) /\ j # <<>>
    BY <1>1, <1>2, <1>5
  <2>2. j[1] = s[1]
    BY <1>2, <2>1
  <2>3. Ordered(j)
    BY <1>2, <1>3 DEF Ordered
  <2> QED BY <1>5, <2>1, <2>2, <2>3 DEF j
<1> QED BY <1>4, <1>5

\* Parts of calls, one after the other.
LEMMA JoinWhole ==
    ASSUME NEW s, NEW t, Whole(s), Whole(t)
    PROVE  Whole(s \o t)
<1> DEFINE j == s \o t
<1>1. Ordered(s)
  BY DEF Whole
<1>2. /\ Ordered(j) /\ (j # <<>> => s # <<>> \/ t # <<>>)
      /\ j # <<>> => j[1] = IF s # <<>> THEN s[1] ELSE t[1]
  BY <1>1, JoinOrdered
<1> HIDE DEF j
<1>3. Whole(j)
  BY <1>2 DEF Whole
<1> QED BY <1>3 DEF j

\* Registers whose accesses start nothing.
Harmless == { r \in 0..255 : Spi!CellOf(r) \notin {Mistat, Micmd, Miwrh} }

\* An operation on such a register is free.
LEMMA OpIs ==
    ASSUME NEW do \in Dos \ {"softreset"}, NEW r \in 0..255, NEW d \in Int,
           r \in Harmless \/ do \notin Spi!Writing,
           do \in Spi!Switching \cup {"bank", "buffer"} \/ Spi!ADDR_MASK(r) >= 27
    PROVE  Spi!Op(do, r, d) \in Free
<1> DEFINE op == Spi!Op(do, r, d)
<1>1. op.do = do /\ op.reg = r /\ op.data = d /\ op \in Accesses
  BY DEF Spi!Op, Accesses
<1> HIDE DEF op
<1>2. Banked(op) /\ ~StartsPhy(op) /\ ~(Writes(op) /\ At(op) = Mistat)
  BY <1>1 DEF Banked, AnyBank, StartsPhy, Writes, At, Harmless
<1>3. op \in Free
  BY <1>1, <1>2 DEF Free, Plain, Simple
<1> QED BY <1>3 DEF op

\* So is a write to one.
LEMMA WriteIs ==
    ASSUME NEW r \in Harmless, NEW d \in Int
    PROVE  Spi!Write(r, d) \in Free /\ Spi!Write(r, d) \in Plain
<1>1. r \in 0..255 /\ "write" \in Dos /\ "write" \in Spi!Switching
  BY DEF Harmless, Dos, Spi!Switching
<1>2. Spi!Write(r, d) \in Free
  BY <1>1, OpIs DEF Spi!Write
<1>3. Spi!Write(r, d).do = "write"
  BY DEF Spi!Write, Spi!Op
<1>4. Spi!Write(r, d) \notin Whens
  BY <1>3 DEF Whens
<1> QED BY <1>2, <1>4 DEF Free

\* Writes of a pair of registers.
LEMMA PairIs ==
    ASSUME NEW r \in Harmless, r + 1 \in Harmless, NEW d \in Int
    PROVE  Spi!Write16(r, d) \in Seq(Free) /\ Spi!Write16(r, d) \in Seq(Plain)
<1>1. d % 256 \in Int /\ d \div 256 \in Int
  OBVIOUS
<1>2. /\ Spi!Write(r, d % 256) \in Free \cap Plain
      /\ Spi!Write(r + 1, d \div 256) \in Free \cap Plain
  BY <1>1, WriteIs
<1> QED BY <1>2 DEF Spi!Write16

\* The registers the calls access, but for those that start an exchange.
LEMMA HarmlessRegisters ==
    /\ Spi!Reg.ERDPTL \in Harmless /\ Spi!Reg.ERDPTL + 1 \in Harmless
    /\ Spi!Reg.EWRPTL \in Harmless /\ Spi!Reg.EWRPTL + 1 \in Harmless
    /\ Spi!Reg.ETXSTL \in Harmless /\ Spi!Reg.ETXSTL + 1 \in Harmless
    /\ Spi!Reg.ETXNDL \in Harmless /\ Spi!Reg.ETXNDL + 1 \in Harmless
    /\ Spi!Reg.ERXSTL \in Harmless /\ Spi!Reg.ERXSTL + 1 \in Harmless
    /\ Spi!Reg.ERXNDL \in Harmless /\ Spi!Reg.ERXNDL + 1 \in Harmless
    /\ Spi!Reg.ERXRDPTL \in Harmless /\ Spi!Reg.ERXRDPTL + 1 \in Harmless
    /\ Spi!Reg.EPMCSL \in Harmless /\ Spi!Reg.EPMCSL + 1 \in Harmless
    /\ Spi!Reg.MAIPGL \in Harmless /\ Spi!Reg.MAIPGL + 1 \in Harmless
    /\ Spi!Reg.MAMXFLL \in Harmless /\ Spi!Reg.MAMXFLL + 1 \in Harmless
    /\ Spi!Reg.EPMM0 \in Harmless /\ Spi!Reg.EPMM1 \in Harmless
    /\ Spi!Reg.ERXFCON \in Harmless /\ Spi!Reg.EPKTCNT \in Harmless
    /\ Spi!Reg.MACON1 \in Harmless /\ Spi!Reg.MACON2 \in Harmless
    /\ Spi!Reg.MABBIPG \in Harmless /\ Spi!Reg.MIREGADR \in Harmless
    /\ Spi!Reg.MIWRL \in Harmless
    /\ Spi!Reg.EIE \in Harmless /\ Spi!ADDR_MASK(Spi!Reg.EIE) >= 27
    /\ Spi!Reg.EIR \in Harmless /\ Spi!ADDR_MASK(Spi!Reg.EIR) >= 27
    /\ Spi!Reg.ECON1 \in Harmless /\ Spi!ADDR_MASK(Spi!Reg.ECON1) >= 27
    /\ Spi!Reg.ECON2 \in Harmless /\ Spi!ADDR_MASK(Spi!Reg.ECON2) >= 27
    /\ Spi!Reg.MISTAT \in 0..255 /\ Spi!Reg.MIRDH \in 0..255 /\ Spi!Reg.MIRDL \in 0..255
    /\ Spi!Reg.EREVID \in 0..255
BY CellsAre DEF Harmless, Spi!CellOf, Spi!Cell, Spi!BANK_MASK, Spi!ADDR_MASK, Spi!Reg

\* The registers of the hardware address.
LEMMA MacRegisters ==
    /\ Spi!MacBytes \in [1..6 -> Int]
    /\ \A i \in 1..6 : Spi!MacBytes[i] \in Harmless
BY CellsAre DEF Spi!MacBytes, Harmless, Spi!CellOf, Spi!Cell, Spi!BANK_MASK, Spi!ADDR_MASK, Spi!Reg

\* Reads, and waits for a bit.
LEMMA ReadIs ==
    ASSUME NEW r \in 0..255
    PROVE  Spi!Read(r) \in Free /\ \A d \in Int : Spi!Until(r, d) \in Free
<1>1. /\ "read" \in Dos /\ "read" \notin Spi!Writing /\ "read" \in Spi!Switching
      /\ "until" \in Dos /\ "until" \notin Spi!Writing /\ "until" \in Spi!Switching
  BY DEF Dos, Spi!Writing, Spi!Switching
<1>2. Spi!Op("read", r, 0) \in Free
  BY <1>1, OpIs
<1>3. ASSUME NEW d \in Int PROVE Spi!Op("until", r, d) \in Free
  BY <1>1, OpIs
<1> QED BY <1>2, <1>3 DEF Spi!Read, Spi!Until

\* The wait for the PHY is free.
LEMMA UntilPhyIs ==
    UntilPhy \in Free
<1>1. Spi!MISTAT_BUSY \in Int
  BY DEF Spi!MISTAT_BUSY
<1> QED BY <1>1, ReadIs, HarmlessRegisters DEF UntilPhy

\* Three operations and one more.
LEMMA OneMore ==
    ASSUME NEW S, NEW s \in Seq(S), NEW u \in Seq(S)
    PROVE  Len(s) = 3 /\ Len(u) = 1 =>
              /\ s \o u \in Seq(S) /\ Len(s \o u) = 4
              /\ \A i \in 1..3 : (s \o u)[i] = s[i]
              /\ (s \o u)[4] = u[1]
<1> DEFINE t == s \o u
           m == Len(s)
           n == Len(u)
<1>1. /\ t \in Seq(S) /\ Len(t) = m + n
      /\ \A i \in 1..m : t[i] = s[i]
      /\ \A i \in 1..n : t[m + i] = u[i]
  BY JoinIs
<1> HIDE DEF t, m, n
<1>2. m = 3 /\ n = 1 => /\ t \in Seq(S) /\ Len(t) = 4
                         /\ \A i \in 1..3 : t[i] = s[i]
                         /\ t[4] = u[1]
  BY <1>1
<1> QED BY <1>2 DEF t, m, n

\* Four operations, as the calls put them together.
LEMMA FourIs == ASSUME NEW a, NEW b, NEW c, NEW d
    PROVE  <<a>> \o <<b, c>> \o <<d>> = <<a, b, c, d>>
<1> DEFINE S == {a, b, c, d}
           s == <<a>> \o <<b, c>>
           u == <<d>>
           t == s \o u
<1>1. s \in Seq(S) /\ Len(s) = 3 /\ s[1] = a /\ s[2] = b /\ s[3] = c
  OBVIOUS
<1>2. u \in Seq(S) /\ Len(u) = 1 /\ u[1] = d
  OBVIOUS
<1>3. <<a, b, c, d>> \in Seq(S) /\ Len(<<a, b, c, d>>) = 4
  OBVIOUS
<1> HIDE DEF s, u, S
<1>4. t \in Seq(S) /\ Len(t) = 4 /\ (\A i \in 1..3 : t[i] = s[i]) /\ t[4] = u[1]
  BY <1>1, <1>2, OneMore
<1> HIDE DEF t
<1>5. t[1] = a /\ t[2] = b /\ t[3] = c /\ t[4] = d
  BY <1>1, <1>2, <1>4
<1>6. t = <<a, b, c, d>>
  BY <1>3, <1>4, <1>5
<1> QED BY <1>6 DEF s, t, u

\* enc28j60PhyWrite: the write of MIWRH is followed by the wait.
LEMMA PhyWriteWhole ==
    ASSUME NEW a \in Int, NEW d \in Int
    PROVE  Whole(Spi!PhyWrite(a, d))
<1> DEFINE w1 == Spi!Write(Spi!Reg.MIREGADR, a)
           w2 == Spi!Write(Spi!Reg.MIWRL, d % 256)
           w3 == Spi!Write(Spi!Reg.MIWRL + 1, d \div 256)
           s == <<w1, w2, w3, UntilPhy>>
<1>1. d % 256 \in Int /\ d \div 256 \in Int
  OBVIOUS
<1>2. w1 \in Free /\ w2 \in Free /\ UntilPhy \in Free
  BY <1>1, WriteIs, HarmlessRegisters, UntilPhyIs
<1>3. w3 \in Ops /\ Banked(w3) /\ w3 # SetMacon3 /\ w3.do # "softreset"
  <2>1. /\ w3.do = "write" /\ w3.reg = Spi!Reg.MIWRL + 1 /\ w3.data = d \div 256
        /\ w3 = [do |-> "write", reg |-> Spi!Reg.MIWRL + 1, data |-> d \div 256]
    BY DEF Spi!Write, Spi!Op
  <2>2. Spi!Reg.MIWRL + 1 \in 0..255 /\ Spi!CellOf(Spi!Reg.MIWRL + 1) # Mistat
    BY CellsAre DEF Spi!Reg, Spi!CellOf, Spi!Cell, Spi!BANK_MASK, Spi!ADDR_MASK
  <2>3. w3 \in Accesses
    BY <1>1, <2>1, <2>2 DEF Accesses, Dos
  <2>4. SetMacon3.do = "set"
    BY DEF SetMacon3, Spi!WriteOp, Spi!Op
  <2> HIDE DEF w3
  <2> QED BY <2>1, <2>2, <2>3, <2>4 DEF Ops, Simple, At, Banked, Spi!Switching
<1>4. /\ w1 \in Ops /\ w2 \in Ops /\ UntilPhy \in Ops
      /\ \A op \in {w1, w2, UntilPhy} :
            Banked(op) /\ ~StartsPhy(op) /\ op # SetMacon3 /\ op.do # "softreset"
  BY <1>2, FreeIs
<1>5. Spi!PhyWrite(a, d) = <<w1>> \o <<w2, w3>> \o <<UntilPhy>>
  BY DEF Spi!PhyWrite, Spi!Write16, UntilPhy
<1> HIDE DEF w1, w2, w3
<1>6. s \in Seq(Ops) /\ Len(s) = 4 /\ s[1] = w1 /\ s[2] = w2 /\ s[3] = w3 /\ s[4] = UntilPhy
  BY <1>3, <1>4
<1> HIDE DEF s
<1>7. ASSUME NEW i \in 1..Len(s)
      PROVE  /\ Banked(s[i]) /\ s[i] # SetMacon3 /\ s[i].do # "softreset"
             /\ StartsPhy(s[i]) => i < Len(s) /\ s[i + 1] = UntilPhy
  <2>1. i \in {1, 2, 3, 4}
    BY <1>6
  <2> QED BY <1>3, <1>4, <1>6, <2>1
<1>8. Spi!PhyWrite(a, d) = s
  BY <1>5, FourIs DEF s
<1>9. Whole(s)
  BY <1>6, <1>7 DEF Whole, Ordered
<1> QED BY <1>8, <1>9

\* enc28j60PhyRead: the write of MICMD is followed by the wait.
LEMMA LinkupWhole ==
    ASSUME NEW s \in Spi!Linkup
    PROVE  Whole(s)
<1> DEFINE w1 == Spi!Write(Spi!Reg.MIREGADR, Spi!PHY.PHSTAT2)
           w2 == Spi!Write(Spi!Reg.MICMD, Spi!MICMD_MIIRD)
           w4 == Spi!Write(Spi!Reg.MICMD, 0)
           t == <<w1, w2, UntilPhy, w4>>
<1>1. PICK b \in { << Spi!Read(Spi!Reg.MIRDH), Spi!Read(Spi!Reg.MIRDL) >>,
                   << Spi!Read(Spi!Reg.MIRDL), Spi!Read(Spi!Reg.MIRDH) >> } : s = t \o b
  BY DEF Spi!Linkup, UntilPhy
<1>2. Spi!Read(Spi!Reg.MIRDH) \in Free /\ Spi!Read(Spi!Reg.MIRDL) \in Free
  BY HarmlessRegisters, ReadIs
<1>3. Whole(b)
  <2>1. /\ << Spi!Read(Spi!Reg.MIRDH), Spi!Read(Spi!Reg.MIRDL) >> \in Seq(Free)
        /\ << Spi!Read(Spi!Reg.MIRDL), Spi!Read(Spi!Reg.MIRDH) >> \in Seq(Free)
    BY <1>2
  <2>2. b \in Seq(Free)
    BY <1>1, <2>1
  <2> QED BY <2>2, FreeWhole
<1>4. w1 \in Free /\ UntilPhy \in Free
  <2>1. Spi!PHY.PHSTAT2 \in Int
    BY DEF Spi!PHY
  <2> QED BY <2>1, WriteIs, HarmlessRegisters, UntilPhyIs
<1>5. /\ w2.do # "softreset" /\ w4.do # "softreset"
      /\ w2 \in Ops /\ Banked(w2) /\ w2 # SetMacon3
      /\ w4 \in Ops /\ Banked(w4) /\ w4 # SetMacon3 /\ ~StartsPhy(w4)
  <2>1. /\ w2 = [do |-> "write", reg |-> Spi!Reg.MICMD, data |-> 1]
        /\ w4 = [do |-> "write", reg |-> Spi!Reg.MICMD, data |-> 0]
    BY DEF Spi!Write, Spi!Op, Spi!MICMD_MIIRD
  <2>2. Spi!Reg.MICMD \in 0..255 /\ Spi!CellOf(Spi!Reg.MICMD) = 82
    BY CellsAre DEF Spi!Reg, Micmd
  <2>3. w2 \in Accesses /\ w4 \in Accesses
    BY <2>1, <2>2 DEF Accesses, Dos
  <2>4. SetMacon3.do = "set"
    BY DEF SetMacon3, Spi!WriteOp, Spi!Op
  <2>5. /\ w2.do = "write" /\ w2.reg = Spi!Reg.MICMD
        /\ w4.do = "write" /\ w4.reg = Spi!Reg.MICMD /\ w4.data = 0
    BY <2>1
  <2> HIDE DEF w2, w4
  <2> QED BY <2>2, <2>3, <2>4, <2>5, CellsAre
          DEF Ops, Simple, At, Banked, Spi!Switching, StartsPhy
<1>6. /\ w1 \in Ops /\ UntilPhy \in Ops
      /\ \A op \in {w1, UntilPhy} :
            Banked(op) /\ ~StartsPhy(op) /\ op # SetMacon3 /\ op.do # "softreset"
  BY <1>4, FreeIs
<1>7. Whole(t)
  <2> HIDE DEF w1, w2, w4
  <2>1. t \in Seq(Ops) /\ Len(t) = 4 /\ t[1] = w1 /\ t[2] = w2 /\ t[3] = UntilPhy /\ t[4] = w4
    BY <1>5, <1>6
  <2> HIDE DEF t
  <2>2. ASSUME NEW i \in 1..Len(t)
        PROVE  /\ Banked(t[i]) /\ t[i] # SetMacon3 /\ t[i].do # "softreset"
               /\ StartsPhy(t[i]) => i < Len(t) /\ t[i + 1] = UntilPhy
    <3>1. i \in {1, 2, 3, 4}
      BY <2>1
    <3> QED BY <1>5, <1>6, <2>1, <3>1
  <2> QED BY <2>1, <2>2 DEF Whole, Ordered
<1> QED BY <1>1, <1>3, <1>7, JoinWhole

\* Conditional operations.
LEMMA WhenIs ==
    ASSUME NEW r \in 0..255, NEW d \in Int, NEW then \in Seq(Plain)
    PROVE  <<Spi!When(r, d, then)>> \in Seq(Free)
<1>1. Spi!When(r, d, then) \in Whens
  BY DEF Spi!When, Whens
<1> QED BY <1>1 DEF Free

\* Bits of registers that are in every bank.
LEMMA BitsAre ==
    ASSUME NEW r \in {Spi!Reg.EIE, Spi!Reg.EIR, Spi!Reg.ECON1, Spi!Reg.ECON2},
           NEW do \in {"set", "clear"}, NEW d \in Int
    PROVE  Spi!WriteOp(do, r, d) \in Plain
<1>1. r \in Harmless /\ Spi!ADDR_MASK(r) >= 27 /\ r \in 0..255 /\ do \in Dos
  BY HarmlessRegisters DEF Harmless, Dos
<1>2. Spi!WriteOp(do, r, d) \in Free
  BY <1>1, OpIs DEF Spi!WriteOp
<1>3. Spi!WriteOp(do, r, d).do = do
  BY DEF Spi!WriteOp, Spi!Op
<1>4. Spi!WriteOp(do, r, d) \notin Whens
  BY <1>3 DEF Whens
<1> QED BY <1>2, <1>4 DEF Free

\* What UnblockTransmitter does when it has to.
LEMMA UnblockIs ==
    /\ Spi!UnblockTransmitter = <<Spi!When(Spi!Reg.EIR, Spi!EIR_TXERIF, Unblock)>>
    /\ Unblock = << Spi!WriteOp("set", Spi!Reg.ECON1, 128), Spi!WriteOp("clear", Spi!Reg.ECON1, 128),
                    Spi!WriteOp("clear", Spi!Reg.EIR, 2) >>
    /\ Unblock \in Seq(Plain)
<1>1. Unblock = << Spi!WriteOp("set", Spi!Reg.ECON1, 128), Spi!WriteOp("clear", Spi!Reg.ECON1, 128),
                   Spi!WriteOp("clear", Spi!Reg.EIR, 2) >>
  BY DEF Unblock, Spi!UnblockTransmitter, Spi!When, Spi!ECON1_, Spi!EIR_TXERIF
<1>2. Spi!UnblockTransmitter = <<Spi!When(Spi!Reg.EIR, Spi!EIR_TXERIF, Unblock)>>
  BY DEF Unblock, Spi!UnblockTransmitter, Spi!When
<1>3. Unblock \in Seq(Plain)
  BY <1>1, BitsAre
<1> QED BY <1>1, <1>2, <1>3

\* enc28j60PacketSend.
LEMMA SendWhole ==
    ASSUME NEW len \in Frames
    PROVE  Whole(Spi!PacketSend(len))
<1>1. len \in Int /\ Spi!TXSTART_INIT \in Int /\ Spi!TXSTART_INIT + len \in Int
  BY DriverAssumption DEF Spi!DriverConstants, Spi!TXSTART_INIT, Spi!RXSTOP_INIT
<1>2. Spi!WaitForTransmitter \in Seq(Free)
  <2>1. /\ "poll" \in Dos /\ Spi!Reg.ECON1 \in 0..255 /\ Spi!ECON1_.TXRTS \in Int
        /\ Spi!Reg.ECON1 \in Harmless /\ Spi!ADDR_MASK(Spi!Reg.ECON1) >= 27
    BY HarmlessRegisters DEF Dos, Harmless, Spi!ECON1_
  <2>2. Spi!Op("poll", Spi!Reg.ECON1, Spi!ECON1_.TXRTS) \in Free
    BY <2>1, OpIs
  <2> QED BY <2>2 DEF Spi!WaitForTransmitter, Spi!PollUntil
<1>3. Spi!UnblockTransmitter \in Seq(Free)
  <2>1. Spi!Reg.EIR \in 0..255 /\ Spi!EIR_TXERIF \in Int
    BY HarmlessRegisters DEF Harmless, Spi!EIR_TXERIF
  <2> QED BY <2>1, UnblockIs, WhenIs
<1>4. /\ Spi!Write16(Spi!Reg.EWRPTL, Spi!TXSTART_INIT) \in Seq(Free)
      /\ Spi!Write16(Spi!Reg.ETXNDL, Spi!TXSTART_INIT + len) \in Seq(Free)
  BY <1>1, PairIs, HarmlessRegisters
<1>5. <<Spi!Op("buffer", 0, 1), Spi!Op("buffer", 0, len), Spi!Send(len)>> \in Seq(Free)
  <2>1. \A n \in Int : Spi!Op("buffer", 0, n) \in Free
    BY OpIs DEF Dos, Spi!Writing
  <2>2. Spi!Send(len) \in Sends
    BY DEF Spi!Send, Sends
  <2>3. /\ Spi!Send(len).do = "send" /\ Spi!Send(len).reg = Spi!Reg.ECON1
    BY DEF Spi!Send
  <2>4. Spi!Send(len) \in Free
    BY <2>2, <2>3, HarmlessRegisters
       DEF Free, Plain, Simple, Banked, AnyBank, StartsPhy, At, Harmless
  <2> QED BY <1>1, <2>1, <2>4
<1>6. Spi!PacketSend(len) \in Seq(Free)
  BY <1>2, <1>3, <1>4, <1>5 DEF Spi!PacketSend, Spi!Prepare
<1> QED BY <1>6, FreeWhole

\* enc28j60PacketReceive.
LEMMA ReceiveWhole ==
    Whole(Spi!PacketReceive)
<1> DEFINE a == Spi!Write16(Spi!Reg.ERDPTL, Spi!RXSTART_INIT)
           b == Spi!Write16(Spi!Reg.ERXRDPTL, Spi!RXSTOP_INIT)
           c == <<Spi!WriteOp("set", Spi!Reg.ECON2, Spi!ECON2_PKTDEC)>>
<1>1. a \in Seq(Plain) /\ b \in Seq(Plain)
  <2>1. Spi!RXSTART_INIT \in Int /\ Spi!RXSTOP_INIT \in Int
    BY DEF Spi!RXSTART_INIT, Spi!RXSTOP_INIT
  <2> QED BY <2>1, PairIs, HarmlessRegisters
<1>2. c \in Seq(Plain)
  BY BitsAre DEF Spi!ECON2_PKTDEC
<1>3. Spi!PacketReceive = <<Spi!When(Spi!Reg.EPKTCNT, 255, a \o b \o c)>>
  BY DEF Spi!PacketReceive
<1> HIDE DEF a, b, c
<1> DEFINE w == a \o b \o c
<1>4. w \in Seq(Plain)
  BY <1>1, <1>2
<1>5. Spi!Reg.EPKTCNT \in 0..255
  BY HarmlessRegisters DEF Harmless
<1>6. Spi!PacketReceive \in Seq(Free)
  <2>1. Spi!PacketReceive = <<Spi!When(Spi!Reg.EPKTCNT, 255, w)>>
    BY <1>3
  <2> HIDE DEF w
  <2>2. 255 \in Int
    OBVIOUS
  <2> QED BY <1>4, <1>5, <2>1, <2>2, WhenIs
<1> QED BY <1>6, FreeWhole

\* enc28j60EnableBroadcast and enc28j60DisableBroadcast.
LEMMA BroadcastWhole ==
    Whole(Spi!EnableBroadcast) /\ Whole(Spi!DisableBroadcast)
<1>1. \A do \in {"or", "andnot"} : Spi!Op(do, Spi!Reg.ERXFCON, Spi!ERXFCON_.BCEN) \in Free
  <2> TAKE do \in {"or", "andnot"}
  <2>1. /\ do \in Dos /\ do \in Spi!Switching /\ Spi!Reg.ERXFCON \in Harmless
        /\ Spi!Reg.ERXFCON \in 0..255 /\ Spi!ERXFCON_.BCEN \in Int
    BY HarmlessRegisters DEF Harmless, Dos, Spi!Switching, Spi!ERXFCON_
  <2> QED BY <2>1, OpIs
<1>2. Spi!Read(Spi!Reg.ERXFCON) \in Free
  BY ReadIs, HarmlessRegisters DEF Harmless
<1>3. Spi!EnableBroadcast \in Seq(Free) /\ Spi!DisableBroadcast \in Seq(Free)
  BY <1>1, <1>2 DEF Spi!EnableBroadcast, Spi!DisableBroadcast
<1> QED BY <1>3, FreeWhole

\* Every call that is made after enc28j60Init.
LEMMA CallsWhole ==
    ASSUME NEW s \in Spi!Calls
    PROVE  Whole(s)
<1>1. \A r \in 0..255 : Whole(<<Spi!Read(r)>>)
  <2> TAKE r \in 0..255
  <2>1. <<Spi!Read(r)>> \in Seq(Free)
    BY ReadIs
  <2> QED BY <2>1, FreeWhole
<1>2. Whole(<<Spi!Read(Spi!Reg.EPKTCNT)>>) /\ Whole(<<Spi!Read(Spi!Reg.EREVID)>>)
  <2>1. Spi!Reg.EPKTCNT \in 0..255 /\ Spi!Reg.EREVID \in 0..255
    BY HarmlessRegisters DEF Harmless
  <2> QED BY <1>1, <2>1
<1> QED BY <1>2, LinkupWhole, SendWhole, ReceiveWhole, BroadcastWhole, PhyWriteWhole
        DEF Spi!Calls, Spi!PHY

\* enc28j60Init; MACON3 is written without enc28j60SetBank, after MACON2.
LEMMA InitWhole ==
    /\ Ordered(Spi!EthInit) /\ Spi!EthInit # <<>>
    /\ Spi!EthInit[1] = Spi!Op("softreset", 0, 0)
<1> DEFINE R == Spi!Reg
           a == << Spi!Op("softreset", 0, 0) >>
           b == Spi!Write16(R.ERXSTL, Spi!RXSTART_INIT)
           c == Spi!Write16(R.ERXRDPTL, Spi!RXSTART_INIT)
           d == Spi!Write16(R.ERXNDL, Spi!RXSTOP_INIT)
           e == Spi!Write16(R.ETXSTL, Spi!TXSTART_INIT)
           f == Spi!Write16(R.ETXNDL, Spi!TXSTOP_INIT)
           g == << Spi!Write(R.ERXFCON, Spi!ERXFCON_.UCEN + Spi!ERXFCON_.CRCEN + Spi!ERXFCON_.PMEN),
                   Spi!Write(R.EPMM0, 63), Spi!Write(R.EPMM1, 48) >>
           h == Spi!Write16(R.EPMCSL, 63481)
           m == << Spi!Write(R.MACON1, 13), WriteMacon2, SetMacon3 >>
           n == Spi!Write16(R.MAIPGL, 3090)
           o == << Spi!Write(R.MABBIPG, 18) >>
           p == Spi!Write16(R.MAMXFLL, Spi!MAX_FRAMELEN)
           q == [i \in 1..6 |-> Spi!Write(Spi!MacBytes[i], i)]
           s == Spi!PhyWrite(Spi!PHY.PHCON2, 256)
           t == << Spi!Op("bank", R.ECON1, 0), Spi!WriteOp("set", R.EIE, 192),
                   Spi!WriteOp("set", R.ECON1, Spi!ECON1_.RXEN) >>
<1>1. Spi!EthInit = a \o b \o c \o d \o e \o f \o g \o h \o m \o n \o o \o p \o q \o s \o t
  BY DEF Spi!EthInit, WriteMacon2, SetMacon3
<1>2. Ordered(a) /\ a # <<>> /\ a[1] = Spi!Op("softreset", 0, 0)
  <2>1. a \in Seq(Ops) /\ Len(a) = 1 /\ a[1] = Spi!Op("softreset", 0, 0)
    BY DEF Ops, Simple, Accesses, Dos, Writes, Spi!Writing, Spi!Op
  <2>2. /\ a[1].do = "softreset" /\ Banked(a[1]) /\ ~StartsPhy(a[1]) /\ a[1] # SetMacon3
    BY <2>1 DEF Banked, StartsPhy, Writes, Spi!Writing, SetMacon3, Spi!WriteOp, Spi!Op
  <2> HIDE DEF a
  <2>3. \A i \in 1..Len(a) : i = 1
    BY <2>1
  <2> QED BY <2>1, <2>2, <2>3 DEF Ordered
<1>3. Whole(b) /\ Whole(c) /\ Whole(d) /\ Whole(e) /\ Whole(f) /\ Whole(h) /\ Whole(n) /\ Whole(p)
  <2>1. /\ Spi!RXSTART_INIT \in Int /\ Spi!RXSTOP_INIT \in Int /\ Spi!TXSTART_INIT \in Int
        /\ Spi!TXSTOP_INIT \in Int /\ Spi!MAX_FRAMELEN \in Int
    BY DEF Spi!RXSTART_INIT, Spi!RXSTOP_INIT, Spi!TXSTART_INIT, Spi!TXSTOP_INIT, Spi!MAX_FRAMELEN
  <2>2. b \in Seq(Free) /\ c \in Seq(Free) /\ d \in Seq(Free) /\ e \in Seq(Free)
    BY <2>1, PairIs, HarmlessRegisters
  <2>3. f \in Seq(Free) /\ p \in Seq(Free)
    BY <2>1, PairIs, HarmlessRegisters
  <2>4. h \in Seq(Free) /\ n \in Seq(Free)
    <3>1. 63481 \in Int /\ 3090 \in Int
      OBVIOUS
    <3>2. /\ Spi!Reg.EPMCSL \in Harmless /\ Spi!Reg.EPMCSL + 1 \in Harmless
          /\ Spi!Reg.MAIPGL \in Harmless /\ Spi!Reg.MAIPGL + 1 \in Harmless
      BY HarmlessRegisters
    <3> QED BY <3>1, <3>2, PairIs
  <2> HIDE DEF b, c, d, e, f, h, n, p
  <2> QED BY <2>2, <2>3, <2>4, FreeWhole
<1>4. Whole(g) /\ Whole(o)
  <2>1. g \in Seq(Free) /\ o \in Seq(Free)
    BY WriteIs, HarmlessRegisters DEF Spi!ERXFCON_
  <2> QED BY <2>1, FreeWhole
<1>5. Whole(m)
  <2>1. Spi!Write(R.MACON1, 13) \in Free /\ WriteMacon2 \in Free
    BY WriteIs, HarmlessRegisters DEF WriteMacon2
  <2>2. SetMacon3 \in Ops /\ ~StartsPhy(SetMacon3) /\ SetMacon3.do # "softreset"
    <3>1. SetMacon3 = [do |-> "set", reg |-> Spi!Reg.MACON3, data |-> 50]
      BY DEF SetMacon3, Spi!WriteOp, Spi!Op
    <3>2. Spi!Reg.MACON3 \in 0..255 /\ Spi!CellOf(Spi!Reg.MACON3) \notin {Mistat, Micmd, Miwrh}
      BY CellsAre DEF Spi!Reg, Spi!CellOf, Spi!Cell, Spi!BANK_MASK, Spi!ADDR_MASK
    <3> QED BY <3>1, <3>2 DEF Ops, Simple, Accesses, Dos, StartsPhy, At
  <2>3. /\ m \in Seq(Ops) /\ Len(m) = 3 /\ m[1] = Spi!Write(R.MACON1, 13) /\ m[2] = WriteMacon2
        /\ m[3] = SetMacon3
    BY <2>1, <2>2, FreeIs
  <2>4. \A op \in {m[1], m[2]} :
          Banked(op) /\ ~StartsPhy(op) /\ op # SetMacon3 /\ op.do # "softreset"
    BY <2>1, <2>3, FreeIs
  <2> HIDE DEF m
  <2>5. ASSUME NEW i \in 1..Len(m)
        PROVE  /\ Banked(m[i]) \/ m[i] = SetMacon3
               /\ m[i] = SetMacon3 /\ i > 1 => m[i - 1] = WriteMacon2
               /\ ~StartsPhy(m[i]) /\ m[i].do # "softreset"
    <3>1. i \in {1, 2, 3}
      BY <2>3
    <3> QED BY <2>2, <2>3, <2>4, <3>1
  <2> QED BY <2>3, <2>4, <2>5 DEF Whole, Ordered
<1>6. Whole(q)
  <2>2. \A i \in 1..6 : Spi!Write(Spi!MacBytes[i], i) \in Free
    BY MacRegisters, WriteIs
  <2>3. q \in Seq(Free)
    BY <2>2
  <2> QED BY <2>3, FreeWhole
<1>7. Whole(s)
  BY PhyWriteWhole DEF Spi!PHY
<1>8. Whole(t)
  <2>1. Spi!Op("bank", R.ECON1, 0) \in Free
    <3>1. /\ "bank" \in Dos /\ Spi!Reg.ECON1 \in 0..255 /\ Spi!Reg.ECON1 \in Harmless
          /\ Spi!ADDR_MASK(Spi!Reg.ECON1) >= 27 /\ 0 \in Int
      BY HarmlessRegisters DEF Dos, Harmless
    <3> QED BY <3>1, OpIs
  <2>2. Spi!WriteOp("set", R.EIE, 192) \in Free /\ Spi!WriteOp("set", R.ECON1, Spi!ECON1_.RXEN) \in Free
    BY BitsAre DEF Free, Spi!ECON1_
  <2>3. t \in Seq(Free)
    BY <2>1, <2>2
  <2> QED BY <2>3, FreeWhole
<1> HIDE DEF a, b, c, d, e, f, g, h, m, n, o, p, q, s, t
<1> DEFINE P(x) == Ordered(x) /\ x # <<>> /\ x[1] = Spi!Op("softreset", 0, 0)
<1>9. ASSUME NEW x, NEW y, P(x), Whole(y)
      PROVE  P(x \o y)
  BY <1>9, JoinOrdered
<1>10. P(a)
  BY <1>2
<1> HIDE DEF P
<1>11. P(a \o b \o c \o d \o e \o f \o g \o h)
  BY <1>3, <1>4, <1>9, <1>10
<1>12. P(Spi!EthInit)
  BY <1>1, <1>3, <1>4, <1>5, <1>6, <1>7, <1>8, <1>9, <1>11
<1> QED BY <1>12 DEF P

-----------------------------------------------------------------------------
(* Banks *)

\* What a cut leaves.
LEMMA OrderedTail ==
    ASSUME Ordered(todo), todo # <<>>
    PROVE  /\ Ordered(Tail(todo))
           /\ Tail(todo) # <<>> /\ Head(Tail(todo)) = SetMacon3 => Head(todo) = WriteMacon2
           /\ StartsPhy(Head(todo)) => Tail(todo) # <<>> /\ Head(Tail(todo)) = UntilPhy
           /\ Tail(todo) # <<>> => Head(Tail(todo)).do # "softreset"
<1> DEFINE t == Tail(todo)
<1>1. todo \in Seq(Ops)
  BY DEF Ordered
<1>2. /\ Head(todo) = todo[1] /\ t \in Seq(Ops)
      /\ Len(todo) \in Nat /\ Len(todo) > 0 /\ Len(t) = Len(todo) - 1
      /\ \A i \in 1..Len(t) : i + 1 \in 1..Len(todo) /\ t[i] = todo[i + 1]
      /\ t # <<>> => Head(t) = t[1] /\ 1 \in 1..Len(t)
  BY <1>1, TailIs
<1> HIDE DEF t
<1>3. ASSUME NEW i \in 1..Len(t)
      PROVE  /\ Banked(t[i]) \/ t[i] = SetMacon3
             /\ t[i] = SetMacon3 /\ i > 1 => t[i - 1] = WriteMacon2
             /\ StartsPhy(t[i]) => i < Len(t) /\ t[i + 1] = UntilPhy
             /\ t[i].do # "softreset"
  <2> DEFINE k == i + 1
  <2>1. k \in 1..Len(todo) /\ k > 1 /\ t[i] = todo[k] /\ k = i + 1
    BY <1>2
  <2> HIDE DEF k
  <2>2. /\ Banked(todo[k]) \/ todo[k] = SetMacon3
        /\ todo[k] = SetMacon3 /\ k > 1 => todo[k - 1] = WriteMacon2
        /\ StartsPhy(todo[k]) => k < Len(todo) /\ todo[k + 1] = UntilPhy
        /\ todo[k].do # "softreset"
    BY <2>1 DEF Ordered
  <2>3. i > 1 => i - 1 \in 1..Len(t) /\ k - 1 = (i - 1) + 1
    BY <1>2, <2>1
  <2>4. k < Len(todo) => i + 1 \in 1..Len(t) /\ k + 1 = (i + 1) + 1 /\ i < Len(t)
    BY <1>2, <2>1
  <2> QED BY <1>2, <2>1, <2>2, <2>3, <2>4
<1>4. t # <<>> => t[1] = todo[2] /\ 2 \in 1..Len(todo)
  <2>1. t # <<>> => 1 \in 1..Len(t)
    BY <1>2
  <2>2. 1 + 1 = 2
    OBVIOUS
  <2> QED BY <1>2, <2>1, <2>2
<1>5. t # <<>> /\ Head(t) = SetMacon3 => Head(todo) = WriteMacon2
  BY <1>2, <1>4 DEF Ordered
<1>6. StartsPhy(Head(todo)) => t # <<>> /\ Head(t) = UntilPhy
  <2> SUFFICES ASSUME StartsPhy(Head(todo)) PROVE t # <<>> /\ Head(t) = UntilPhy
    OBVIOUS
  <2>1. 1 \in 1..Len(todo) /\ StartsPhy(todo[1])
    BY <1>2
  <2>2. 1 < Len(todo) /\ todo[2] = UntilPhy
    BY <2>1 DEF Ordered
  <2>3. t # <<>>
    BY <1>2, <2>2
  <2> QED BY <1>2, <1>4, <2>2, <2>3
<1>7. t # <<>> => Head(t).do # "softreset"
  BY <1>2, <1>3
<1> QED BY <1>2, <1>3, <1>5, <1>6, <1>7 DEF t, Ordered

\* Every operation is one of the driver's.
LEMMA HeadIsOp ==
    ASSUME Ordered(todo), todo # <<>>
    PROVE  /\ Head(todo) \in Ops /\ (Banked(Head(todo)) \/ Head(todo) = SetMacon3)
           /\ Head(todo).reg \in 0..255 /\ Head(todo).data \in Int
<1>1. todo \in Seq(Ops)
  BY DEF Ordered
<1>2. Head(todo) \in Ops /\ Head(todo) = todo[1] /\ 1 \in 1..Len(todo)
  BY <1>1, TailIs
<1>3. Spi!Reg.ECON1 \in 0..255 /\ Spi!ECON1_.TXRTS \in Int
  BY HarmlessRegisters DEF Harmless, Spi!ECON1_
<1>4. Head(todo).reg \in 0..255 /\ Head(todo).data \in Int
  BY <1>2, <1>3 DEF Ops, Simple, Accesses, Sends, Whens
<1> QED BY <1>2, <1>4 DEF Ordered

\* What is left to do is ordered, too, and an exchange with the PHY that was
\* started is waited for.
LEMMA AfterOrdered ==
    ASSUME Ordered(todo), todo # <<>>, NEW byte
    PROVE  LET rest == Spi!After(Head(todo), byte, Tail(todo))
           IN  /\ Ordered(rest)
               /\ rest # <<>> /\ Head(rest) = SetMacon3 =>
                     Head(todo) = WriteMacon2 \/ Head(todo) = SetMacon3
               /\ StartsPhy(Head(todo)) => rest # <<>> /\ Head(rest) = UntilPhy
               /\ rest # <<>> => Head(rest).do # "softreset" \/ rest = todo
               /\ rest = todo \/ rest = Tail(todo) \/ Head(todo).do = "when"
               /\ Head(todo).do \notin {"until", "poll", "when"} => rest = Tail(todo)
<1> DEFINE op == Head(todo)
           rest == Spi!After(op, byte, Tail(todo))
<1>1. todo \in Seq(Ops) /\ op \in Ops
  BY HeadIsOp DEF Ordered
<1>2. <<op>> \o Tail(todo) = todo
  BY <1>1, HeadAndTail
<1>3. CASE op.do = "when"
  <2>1. op \in Whens
    BY <1>1, <1>3 DEF Ops, Simple, Accesses, Sends, Dos
  <2>2. op.then \in Seq(Plain)
    BY <2>1 DEF Whens
  <2>3. op.then \in Seq(Free)
    BY <2>2 DEF Free
  <2>4. Whole(op.then)
    BY <2>3, FreeWhole
  <2>5. op # WriteMacon2 /\ ~StartsPhy(op)
    BY <1>3 DEF WriteMacon2, Spi!Write, Spi!Op, StartsPhy, Writes, Spi!Writing
  <2>6. Whole(Tail(todo))
    <3>1. Tail(todo) \in Seq(Ops)
      BY <1>1
    <3>2. Tail(todo) # <<>> => Head(Tail(todo)) = Tail(todo)[1]
      BY <3>1
    <3> QED BY <2>5, <3>2, OrderedTail DEF Whole
  <2>7. Whole(op.then \o Tail(todo))
    BY <2>4, <2>6, JoinWhole
  <2>8. rest = op.then \o Tail(todo) \/ rest = Tail(todo)
    BY <1>3 DEF Spi!After
  <2>9. Whole(rest)
    BY <2>6, <2>7, <2>8
  <2>10. rest # <<>> => Head(rest) = rest[1]
    BY <2>9 DEF Whole, Ordered
  <2> QED BY <1>3, <2>5, <2>9, <2>10 DEF Whole
<1>4. CASE op.do # "when"
  <2>1. rest = todo \/ rest = Tail(todo)
    BY <1>2, <1>4 DEF Spi!After
  <2>2. op.do \notin {"until", "poll"} => rest = Tail(todo)
    BY <1>4 DEF Spi!After
  <2>3. StartsPhy(op) => op.do \notin {"until", "poll"}
    BY DEF StartsPhy, Writes, Spi!Writing
  <2> HIDE DEF rest
  <2>4. CASE rest = todo
    <3>1. ~StartsPhy(op) \/ rest = Tail(todo)
      BY <2>2, <2>3
    <3>2. StartsPhy(op) => rest # <<>> /\ Head(rest) = UntilPhy
      BY <3>1, OrderedTail
    <3> QED BY <2>2, <2>4, <3>2, <1>4 DEF rest
  <2>5. CASE rest = Tail(todo)
    BY <2>2, <2>5, <1>4, OrderedTail DEF rest
  <2> QED BY <2>1, <2>4, <2>5
<1> QED BY <1>3, <1>4

\* An operation lands on the cell of the register it names, unless it is no
\* register access.
LEMMA Lands ==
    ASSUME BankInv, todo # <<>>, ~Spi!NeedsBank(Head(todo)),
           Head(todo).do \notin {"softreset", "buffer"}
    PROVE  Spi!Cell(BSEL, Spi!ADDR_MASK(Head(todo).reg)) = At(Head(todo)) /\ stage = "start"
<1> DEFINE op == Head(todo)
<1>1. op \in Ops /\ (Banked(op) \/ op = SetMacon3) /\ op.reg \in 0..255
  BY HeadIsOp DEF BankInv
<1>2. stage = "start" /\ BSEL = Enc28j60Bank
  BY DEF BankInv, HeadIs
<1>3. CASE AnyBank(op)
  BY <1>2, <1>3 DEF AnyBank, Spi!Cell, At, Spi!CellOf
<1>4. CASE op = SetMacon3
  <2>1. Enc28j60Bank = 2
    BY <1>4 DEF BankInv
  <2>2. Spi!BANK_MASK(op.reg) = 2
    BY <1>4 DEF SetMacon3, Spi!WriteOp, Spi!Op, Spi!BANK_MASK, Spi!Reg
  <2> QED BY <1>2, <2>1, <2>2 DEF At, Spi!CellOf
<1>5. CASE op.do \in Spi!Switching \cup {"bank"}
  <2>1. Spi!BANK_MASK(op.reg) = Enc28j60Bank
    BY <1>5 DEF Spi!NeedsBank
  <2> QED BY <1>2, <2>1 DEF At, Spi!CellOf
<1> QED BY <1>1, <1>3, <1>4, <1>5 DEF Banked

\* Where the cell does not matter.
LEMMA CellIdle ==
    ASSUME NEW op, NEW f, NEW a, NEW b, NEW g, op.do \in {"softreset", "buffer"}
    PROVE  /\ Spi!Effects(f, op, a, g) = Spi!Effects(f, op, b, g)
           /\ \A x, y : Spi!Kept(op, x) = Spi!Kept(op, y)
           /\ \A x, y, r : Spi!After(op, x, r) = Spi!After(op, y, r)
BY DEF Spi!Effects, Spi!Kept, Spi!After

\* What an access does to the register it names.
LEMMA AccessIs ==
    ASSUME BankInv, Spi!Access
    PROVE  /\ todo # <<>> /\ ~Spi!NeedsBank(Head(todo)) /\ Head(todo) \in Ops
           /\ cells' \in Spi!Effects(cells, Head(todo), At(Head(todo)), got)
           /\ got' = Spi!Kept(Head(todo), Spi!Byte(cells, At(Head(todo))))
           /\ todo' = Spi!After(Head(todo), Spi!Byte(cells, At(Head(todo))), Tail(todo))
<1> DEFINE op == Head(todo)
           cell == Spi!Cell(BSEL, Spi!ADDR_MASK(op.reg))
<1>1. /\ todo # <<>> /\ ~Spi!NeedsBank(op)
      /\ cells' \in Spi!Effects(cells, op, cell, got)
      /\ got' = Spi!Kept(op, Spi!Byte(cells, cell))
      /\ todo' = Spi!After(op, Spi!Byte(cells, cell), Tail(todo))
  BY DEF Spi!Access
<1>2. op \in Ops
  BY <1>1, HeadIsOp DEF BankInv
<1>3. CASE op.do \in {"softreset", "buffer"}
  <2> HIDE DEF cell
  <2> QED BY <1>1, <1>2, <1>3, CellIdle
<1>4. CASE op.do \notin {"softreset", "buffer"}
  <2>1. cell = At(op)
    BY <1>1, <1>4, Lands
  <2> QED BY <1>1, <1>2, <2>1
<1> QED BY <1>3, <1>4

\* Registers stay numbers.
LEMMA EffectsTyped ==
    ASSUME cells \in [Spi!Cells -> Int], got \in Int, NEW op, op.data \in Int, NEW cell,
           NEW f \in Spi!Effects(cells, op, cell, got)
    PROVE  f \in [Spi!Cells -> Int]
<1>1. CASE op.do = "softreset"
  <2>1. f = [c \in Spi!Cells |-> 0]
    BY <1>1 DEF Spi!Effects, Spi!Writing
  <2> QED BY <2>1
<1>2. CASE op.do = "buffer"
  <2>1. f = Spi!Advanced(cells, Spi!Reg.EWRPTL, op.data)
    BY <1>2 DEF Spi!Effects, Spi!Writing
  <2>2. Spi!Pointer(cells, Spi!Reg.EWRPTL) \in Int
    BY CellsAre, AreCells DEF Spi!Pointer
  <2> DEFINE p == Spi!Pointer(cells, Spi!Reg.EWRPTL) + op.data
  <2>3. p \in Int
    BY <2>2
  <2>4. f = [cells EXCEPT ![2] = p % 256, ![3] = p \div 256]
    BY <2>1, CellsAre DEF Spi!Advanced
  <2> HIDE DEF p
  <2>5. p % 256 \in Int /\ p \div 256 \in Int
    BY <2>3
  <2> QED BY <2>4, <2>5
<1>3. CASE op.do \in Spi!Writing /\ cell \in Spi!Cells
  <2> DEFINE s == [cells EXCEPT ![cell] = Spi!Stored(op, @, got)]
  <2>1. Spi!Stored(op, cells[cell], got) \in Int
    BY <1>3, BytesInt DEF Spi!Stored
  <2>2. s \in [Spi!Cells -> Int]
    BY <2>1
  <2>3. f \in {s, [s EXCEPT ![Spi!CellOf(Spi!Reg.EIR)] = Spi!Or(@, Spi!EIR_TXERIF)],
               Spi!Reaction(s, cell)}
    BY <1>3 DEF Spi!Effects, Spi!Writing
  <2> HIDE DEF s
  <2>4. Spi!EIR_TXERIF \in Int /\ Spi!MISTAT_BUSY \in Int /\ Spi!ECON2_PKTDEC \in Int
    BY DEF Spi!EIR_TXERIF, Spi!MISTAT_BUSY, Spi!ECON2_PKTDEC
  <2>5. [s EXCEPT ![Spi!CellOf(Spi!Reg.EIR)] = Spi!Or(@, Spi!EIR_TXERIF)] \in [Spi!Cells -> Int]
    BY <2>2, <2>4, BytesInt, CellsAre, AreCells
  <2>6. [s EXCEPT ![Spi!CellOf(Spi!Reg.MISTAT)] = Spi!Or(@, Spi!MISTAT_BUSY)] \in [Spi!Cells -> Int]
    BY <2>2, <2>4, BytesInt, CellsAre, AreCells DEF Mistat
  <2>7. [s EXCEPT ![cell] = Spi!Without(@, Spi!ECON2_PKTDEC),
                  ![Spi!CellOf(Spi!Reg.EPKTCNT)] = @ - 1] \in [Spi!Cells -> Int]
    <3> DEFINE v == Spi!Without(s[cell], Spi!ECON2_PKTDEC)
               w == s[Spi!CellOf(Spi!Reg.EPKTCNT)] - 1
    <3>1. v \in Int
      BY <1>3, <2>2, <2>4, BytesInt
    <3>2. w \in Int
      BY <2>2, CellsAre, AreCells
    <3> HIDE DEF v, w
    <3>3. [s EXCEPT ![cell] = v, ![Spi!CellOf(Spi!Reg.EPKTCNT)] = w] \in [Spi!Cells -> Int]
      BY <2>2, <3>1, <3>2
    <3> QED BY <3>3 DEF v, w
  <2>8. Spi!Reaction(s, cell) \in [Spi!Cells -> Int]
    BY <2>2, <2>6, <2>7 DEF Spi!Reaction
  <2> QED BY <2>2, <2>3, <2>5, <2>8
<1>4. CASE ~(op.do = "softreset" \/ op.do = "buffer" \/ (op.do \in Spi!Writing /\ cell \in Spi!Cells))
  BY <1>4 DEF Spi!Effects
<1> QED BY <1>1, <1>2, <1>3, <1>4

\* BankInv holds at power-up,
LEMMA InitBank ==
    ASSUME Spi!Init
    PROVE  BankInv
<1>1. /\ cells = [c \in Spi!Cells |-> 0] /\ BSEL = 0 /\ Enc28j60Bank = 0 /\ todo = Spi!EthInit
      /\ stage = "start" /\ got = 0
  BY DEF Spi!Init
<1>2. Ordered(todo) /\ todo # <<>> /\ todo[1] # SetMacon3
  BY <1>1, InitWhole DEF SetMacon3, Spi!WriteOp, Spi!Op
<1>3. Head(todo) = todo[1]
  BY <1>2 DEF Ordered
<1> QED BY <1>1, <1>2, <1>3 DEF BankInv

\* when a call begins,
LEMMA CallBank ==
    ASSUME BankInv, Spi!Call
    PROVE  BankInv'
<1>1. /\ todo' \in Spi!Calls /\ UNCHANGED <<cells, BSEL, Enc28j60Bank, stage, got>>
      /\ todo = <<>>
  BY DEF Spi!Call
<1>2. Ordered(todo') /\ (todo' # <<>> => todo'[1] # SetMacon3 /\ todo'[1].do # "softreset")
  BY <1>1, CallsWhole DEF Whole
<1>3. todo' # <<>> => Head(todo') = todo'[1]
  BY <1>2 DEF Ordered
<1>4. stage = "start" /\ BSEL = Enc28j60Bank /\ ~HeadIs("softreset")'
  <2>1. stage = "start" /\ BSEL = Enc28j60Bank
    BY <1>1 DEF BankInv, HeadIs
  <2> QED BY <1>2, <1>3, <2>1 DEF HeadIs
<1>5. Ordered(todo)'
  BY <1>2 DEF Ordered
<1> QED BY <1>1, <1>2, <1>3, <1>4, <1>5 DEF BankInv

\* when the processor restarts,
LEMMA RestartBank ==
    ASSUME BankInv, Spi!Restart
    PROVE  BankInv'
<1>1. /\ todo' = Spi!EthInit /\ UNCHANGED <<cells, BSEL>> /\ Enc28j60Bank' = 0
      /\ stage' = "start" /\ got' = 0
  BY DEF Spi!Restart
<1>2. Ordered(todo') /\ todo' # <<>> /\ todo'[1] # SetMacon3 /\ todo'[1] = Spi!Op("softreset", 0, 0)
  BY <1>1, InitWhole DEF SetMacon3, Spi!WriteOp, Spi!Op
<1>3. Head(todo') = todo'[1]
  BY <1>2 DEF Ordered
<1>4. HeadIs("softreset")'
  BY <1>2, <1>3 DEF HeadIs, Spi!Op
<1>5. Ordered(todo)'
  BY <1>2 DEF Ordered
<1> QED BY <1>1, <1>2, <1>3, <1>4, <1>5 DEF BankInv

\* between and after the two steps of enc28j60SetBank,
LEMMA SelectBankKeeps ==
    ASSUME BankInv, Spi!ClearBank \/ Spi!SelectBank
    PROVE  BankInv'
<1>1. /\ UNCHANGED <<cells, todo, got>> /\ Ordered(todo)'
  BY DEF Spi!ClearBank, Spi!SelectBank, BankInv, Ordered
<1>2. CASE Spi!ClearBank
  <2>1. /\ todo # <<>> /\ Spi!NeedsBank(Head(todo)) /\ BSEL' = 0 /\ stage' = "cleared"
        /\ UNCHANGED Enc28j60Bank
    BY <1>2 DEF Spi!ClearBank
  <2>2. Spi!NeedsBank(Head(todo))'
    BY <1>1, <2>1 DEF Spi!NeedsBank
  <2>3. Head(todo) # SetMacon3
    BY <2>1 DEF Spi!NeedsBank, SetMacon3, Spi!WriteOp, Spi!Op, Spi!Switching
  <2>4. HeadIs("softreset")' => Enc28j60Bank' = 0
    BY <1>1, <2>1 DEF HeadIs, BankInv
  <2> QED BY <1>1, <2>1, <2>2, <2>3, <2>4 DEF BankInv
<1>3. CASE Spi!SelectBank
  <2> DEFINE bank == Spi!BANK_MASK(Head(todo).reg)
  <2>1. /\ stage = "cleared" /\ BSEL' = Spi!Or(BSEL, bank) /\ Enc28j60Bank' = bank
        /\ stage' = "start"
    BY <1>3 DEF Spi!SelectBank
  <2>2. todo # <<>> /\ BSEL = 0 /\ Spi!NeedsBank(Head(todo))
    BY <2>1 DEF BankInv
  <2>3. bank \in 0..3
    <3>1. Head(todo).reg \in 0..255
      BY <2>2, HeadIsOp DEF BankInv
    <3> QED BY <3>1 DEF Spi!BANK_MASK
  <2>4. BSEL' = bank
    BY <2>1, <2>2, <2>3, AndZero
  <2>5. Head(todo) # SetMacon3
    BY <2>2 DEF Spi!NeedsBank, SetMacon3, Spi!WriteOp, Spi!Op, Spi!Switching
  <2>6. ~HeadIs("softreset")'
    BY <1>1, <2>2 DEF Spi!NeedsBank, Spi!Switching, HeadIs
  <2> HIDE DEF bank
  <2> QED BY <1>1, <2>1, <2>3, <2>4, <2>5, <2>6 DEF BankInv
<1> QED BY <1>2, <1>3

\* and after an access.
LEMMA AccessBank ==
    ASSUME BankInv, Spi!Access
    PROVE  BankInv'
<1> DEFINE op == Head(todo)
           byte == Spi!Byte(cells, At(op))
<1>1. /\ todo # <<>> /\ ~Spi!NeedsBank(op) /\ op \in Ops
      /\ cells' \in Spi!Effects(cells, op, At(op), got)
      /\ got' = Spi!Kept(op, byte)
      /\ todo' = Spi!After(op, byte, Tail(todo))
  BY AccessIs
<1>2. /\ BSEL' = (IF op.do = "softreset" THEN 0 ELSE BSEL)
      /\ UNCHANGED <<Enc28j60Bank, stage>>
  BY DEF Spi!Access
<1>3. stage = "start" /\ (BSEL = Enc28j60Bank \/ op.do = "softreset")
  BY <1>1 DEF BankInv, HeadIs
<1>4. cells' \in [Spi!Cells -> Int] /\ got' \in Int
  <2>1. op.data \in Int
    BY <1>1, HeadIsOp DEF BankInv
  <2>2. byte \in Int
    BY DEF Spi!Byte, BankInv
  <2> QED BY <1>1, <2>1, <2>2, EffectsTyped DEF BankInv, Spi!Kept
<1>5. /\ Ordered(todo')
      /\ todo' # <<>> /\ Head(todo') = SetMacon3 => op = WriteMacon2 \/ op = SetMacon3
  BY <1>1, AfterOrdered DEF BankInv
<1>6. op = WriteMacon2 \/ op = SetMacon3 => Enc28j60Bank = 2
  <2>1. op = WriteMacon2 => op.do = "write" /\ Spi!BANK_MASK(op.reg) = 2
    BY DEF WriteMacon2, Spi!Write, Spi!Op, Spi!BANK_MASK, Spi!Reg
  <2>2. op = WriteMacon2 => Enc28j60Bank = 2
    BY <1>1, <2>1 DEF Spi!NeedsBank, Spi!Switching
  <2>3. op = SetMacon3 => Enc28j60Bank = 2
    BY <1>1 DEF BankInv
  <2> QED BY <2>2, <2>3
<1>7. Ordered(todo)'
  BY <1>5 DEF Ordered
<1>8. BSEL' = Enc28j60Bank' /\ BSEL' \in 0..3 /\ stage' = "start"
  <2>1. BSEL \in 0..3 /\ Enc28j60Bank' = Enc28j60Bank /\ stage' = stage
    BY <1>2 DEF BankInv
  <2>2. CASE op.do = "softreset"
    <3>1. BSEL' = 0
      BY <1>2, <2>2
    <3>2. Enc28j60Bank = 0
      BY <1>1, <2>2 DEF BankInv, HeadIs
    <3> QED BY <1>3, <2>1, <3>1, <3>2
  <2>3. CASE op.do # "softreset"
    <3>1. BSEL' = BSEL /\ BSEL = Enc28j60Bank
      BY <1>2, <1>3, <2>3
    <3> QED BY <1>3, <2>1, <3>1
  <2> QED BY <2>2, <2>3
<1>9. HeadIs("softreset")' => Enc28j60Bank' = 0
  <2>1. op.do = "softreset" => todo' = Tail(todo)
    BY <1>1, AfterOrdered DEF BankInv
  <2>2. op.do = "softreset" => ~HeadIs("softreset")'
    BY <1>1, <2>1, OrderedTail DEF BankInv, HeadIs
  <2>3. op.do # "softreset" => ~HeadIs("softreset")'
    <3>1. todo' # <<>> => Head(todo').do # "softreset" \/ todo' = todo
      BY <1>1, AfterOrdered DEF BankInv
    <3> QED BY <3>1 DEF HeadIs
  <2> QED BY <2>2, <2>3
<1> HIDE DEF op, byte
<1> QED BY <1>2, <1>4, <1>5, <1>6, <1>7, <1>8, <1>9 DEF BankInv

\* What the controller does on its own.
ControllerStep ==
    Spi!TransmitEnds \/ Spi!TransmitAborts \/ Spi!PhyEnds \/ Spi!PacketArrives

\* Registers and variables it leaves alone.
LEMMA ControllerTouches ==
    ASSUME BankInv, ControllerStep
    PROVE  /\ UNCHANGED <<BSEL, Enc28j60Bank, todo, stage, got>>
           /\ cells' \in [Spi!Cells -> Int]
           /\ \A c \in Spi!Cells \ {28, 31, 57, 89, 106} : cells'[c] = cells[c]
           /\ ~Spi!PhyEnds => cells'[106] = cells[106]
<1>1. cells \in [Spi!Cells -> Int]
  BY DEF BankInv
<1>2. CASE Spi!TransmitEnds
  <2>1. cells' = [cells EXCEPT ![31] = Spi!Without(@, Spi!ECON1_.TXRTS)]
    BY <1>2, CellsAre DEF Spi!TransmitEnds, Econ1
  <2>2. Spi!Without(cells[31], Spi!ECON1_.TXRTS) \in Int
    <3>1. cells[31] \in Int /\ Spi!ECON1_.TXRTS \in Int
      BY <1>1, AreCells DEF Spi!ECON1_
    <3> QED BY <3>1, BytesInt
  <2>3. UNCHANGED <<BSEL, Enc28j60Bank, todo, stage, got>>
    BY <1>2 DEF Spi!TransmitEnds, Spi!mcu
  <2> QED BY <1>1, <2>1, <2>2, <2>3, AreCells
<1>3. CASE Spi!TransmitAborts
  <2>1. cells' = [cells EXCEPT ![31] = Spi!Without(@, Spi!ECON1_.TXRTS),
                               ![28] = Spi!Or(@, Spi!EIR_TXERIF)]
    BY <1>3, CellsAre DEF Spi!TransmitAborts, Econ1
  <2>2. /\ Spi!Without(cells[31], Spi!ECON1_.TXRTS) \in Int
        /\ Spi!Or(cells[28], Spi!EIR_TXERIF) \in Int
    <3>1. /\ cells[31] \in Int /\ Spi!ECON1_.TXRTS \in Int
          /\ cells[28] \in Int /\ Spi!EIR_TXERIF \in Int
      BY <1>1, AreCells DEF Spi!ECON1_, Spi!EIR_TXERIF
    <3> QED BY <3>1, BytesInt
  <2>3. UNCHANGED <<BSEL, Enc28j60Bank, todo, stage, got>>
    BY <1>3 DEF Spi!TransmitAborts, Spi!mcu
  <2> QED BY <1>1, <2>1, <2>2, <2>3, AreCells
<1>4. CASE Spi!PhyEnds
  <2>1. PICK link \in {0, 4} :
           cells' = [cells EXCEPT ![106] = 0,
                        ![89] = IF cells[Spi!CellOf(Spi!Reg.MICMD)] = 0 THEN @ ELSE link]
    BY <1>4, CellsAre DEF Spi!PhyEnds, Mistat
  <2>2. UNCHANGED <<BSEL, Enc28j60Bank, todo, stage, got>>
    BY <1>4 DEF Spi!PhyEnds, Spi!mcu
  <2> QED BY <1>1, <1>4, <2>1, <2>2, AreCells
<1>5. CASE Spi!PacketArrives
  <2>1. cells' = [cells EXCEPT ![57] = @ + 1]
    BY <1>5, CellsAre DEF Spi!PacketArrives
  <2>2. UNCHANGED <<BSEL, Enc28j60Bank, todo, stage, got>>
    BY <1>5 DEF Spi!PacketArrives, Spi!mcu
  <2> QED BY <1>1, <2>1, <2>2, AreCells
<1> QED BY <1>2, <1>3, <1>4, <1>5 DEF ControllerStep

\* BankInv is inductive.
LEMMA BankInductive ==
    ASSUME BankInv, [Spi!Next]_drivervars
    PROVE  BankInv'
<1>1. CASE UNCHANGED drivervars
  BY <1>1 DEF drivervars, BankInv, Ordered, HeadIs, Spi!NeedsBank
<1>2. CASE ControllerStep
  BY <1>2, ControllerTouches DEF BankInv, Ordered, HeadIs, Spi!NeedsBank
<1> QED BY <1>1, <1>2, CallBank, RestartBank, SelectBankKeeps, AccessBank
        DEF Spi!Next, Spi!Driver, ControllerStep

-----------------------------------------------------------------------------
(* The banks are invisible *)

\* A call has something to do.
LEMMA CallsBusy ==
    ASSUME NEW s \in Spi!Calls
    PROVE  s # <<>>
<1>1. ASSUME NEW u, NEW v, NEW w, u \in Seq(Ops), v \in Seq(Ops), u # <<>>
      PROVE  u \o v # <<>>
  BY <1>1
<1>2. CASE s \in Spi!Linkup
  <2> DEFINE a == << Spi!Write(Spi!Reg.MIREGADR, Spi!PHY.PHSTAT2),
                     Spi!Write(Spi!Reg.MICMD, Spi!MICMD_MIIRD),
                     Spi!Until(Spi!Reg.MISTAT, Spi!MISTAT_BUSY), Spi!Write(Spi!Reg.MICMD, 0) >>
  <2>1. PICK b \in { << Spi!Read(Spi!Reg.MIRDH), Spi!Read(Spi!Reg.MIRDL) >>,
                     << Spi!Read(Spi!Reg.MIRDL), Spi!Read(Spi!Reg.MIRDH) >> } : s = a \o b
    BY <1>2 DEF Spi!Linkup
  <2>2. b = << Spi!Read(Spi!Reg.MIRDH), Spi!Read(Spi!Reg.MIRDL) >>
        \/ b = << Spi!Read(Spi!Reg.MIRDL), Spi!Read(Spi!Reg.MIRDH) >>
    BY <2>1
  <2> QED BY <2>1, <2>2
<1>3. CASE s = Spi!PhyWrite(Spi!PHY.PHLCON, 1142)
  BY <1>3 DEF Spi!PhyWrite, Spi!Write16
<1>4. CASE \E len \in Frames : s = Spi!PacketSend(len)
  BY <1>4 DEF Spi!PacketSend, Spi!Write16, Spi!Prepare, Spi!WaitForTransmitter, Spi!UnblockTransmitter
<1> QED BY <1>2, <1>3, <1>4 DEF Spi!Calls, Spi!PacketReceive, Spi!EnableBroadcast, Spi!DisableBroadcast

\* A step of the driver or of the controller is a step of the flat file, or none.
LEMMA StepImplements ==
    ASSUME BankInv, BankInv', [Spi!Next]_drivervars
    PROVE  [Spi!Flat!Next]_<<cells, todo, got>>
<1>1. CASE UNCHANGED drivervars
  BY <1>1 DEF drivervars
<1>2. CASE Spi!ClearBank \/ Spi!SelectBank
  BY <1>2 DEF Spi!ClearBank, Spi!SelectBank
<1>3. CASE Spi!Access
  <2> DEFINE op == Head(todo)
  <2>1. /\ todo # <<>>
        /\ cells' \in Spi!Effects(cells, op, Spi!CellOf(op.reg), got)
        /\ got' = Spi!Kept(op, Spi!Byte(cells, Spi!CellOf(op.reg)))
        /\ todo' = Spi!After(op, Spi!Byte(cells, Spi!CellOf(op.reg)), Tail(todo))
    BY <1>3, AccessIs DEF At
  <2>2. Spi!Flat!Perform
    BY <2>1, SameOps DEF Spi!Flat!Perform
  <2> QED BY <2>2 DEF Spi!Flat!Next
<1>4. CASE Spi!Call
  <2>1. Spi!Flat!Call
    BY <1>4, CallsBusy DEF Spi!Call, Spi!Flat!Call
  <2> QED BY <2>1 DEF Spi!Flat!Next
<1>5. CASE Spi!Restart
  <2>1. todo' = Spi!EthInit /\ got' = 0 /\ UNCHANGED cells
    BY <1>5 DEF Spi!Restart
  <2>2. Ordered(Spi!EthInit) /\ Spi!EthInit # <<>> /\ Spi!EthInit[1].do = "softreset"
    BY InitWhole DEF Spi!Op
  <2>3. Head(Spi!EthInit) = Spi!EthInit[1]
    BY <2>2 DEF Ordered
  <2>4. Spi!Flat!Restart
    BY <2>1, <2>2, <2>3 DEF Spi!Flat!Restart
  <2> QED BY <2>4 DEF Spi!Flat!Next
<1>6. CASE ControllerStep
  <2>1. /\ UNCHANGED <<todo, got>>
        /\ \A c \in Spi!Cells \ {28, 31, 57, 89, 106} : cells'[c] = cells[c]
    BY <1>6, ControllerTouches
  <2>2. Spi!Flat!StatusCells = {31, 28, 57, 106, 89}
    BY DEF Spi!Flat!StatusCells, Spi!Flat!CellOf, Spi!Flat!Cell, Spi!Flat!Reg,
           Spi!Flat!BANK_MASK, Spi!Flat!ADDR_MASK
  <2>3. Spi!Flat!Controller
    BY <2>1, <2>2, SameOps DEF Spi!Flat!Controller
  <2> QED BY <2>3 DEF Spi!Flat!Next
<1> QED BY <1>1, <1>2, <1>3, <1>4, <1>5, <1>6
        DEF Spi!Next, Spi!Driver, ControllerStep

\* The file is cleared at power-up.
LEMMA InitImplements ==
    ASSUME Spi!Init
    PROVE  Spi!Flat!Init
BY InitWhole, SameOps DEF Spi!Init, Spi!Flat!Init

\* A step of the ring is none of the registers.
LEMMA RegistersStep ==
    ASSUME [MCNext]_mcvars
    PROVE  [Spi!Next]_drivervars
BY DEF MCNext, Registers, mcvars

\* The bank the driver remembers is the one the controller shows, but between the
\* two steps of enc28j60SetBank and before the soft reset of a restart.
THEOREM DriverBanks ==
    MCSpec => []BankInv
<1>1. MCInit => BankInv
  BY InitBank DEF MCInit
<1>2. BankInv /\ [MCNext]_mcvars => BankInv'
  BY RegistersStep, BankInductive
<1> QED BY <1>1, <1>2, PTL DEF MCSpec

\* enc28j60.c:91-126: the driver implements the flat register file.  Every access of
\* a call takes effect on the register it names, whatever bank was left selected and
\* wherever the processor restarted.
THEOREM DriverImplementsRegisterFile ==
    MCSpec => ReachesRegister
<1>1. MCInit => Spi!Flat!Init
  BY InitImplements DEF MCInit
<1>2. BankInv /\ BankInv' /\ [MCNext]_mcvars => [Spi!Flat!Next]_<<cells, todo, got>>
  BY RegistersStep, StepImplements
<1> QED BY <1>1, <1>2, DriverBanks, PTL DEF MCSpec, ReachesRegister, Spi!ReachesRegister, Spi!Flat!Spec

-----------------------------------------------------------------------------
(* Exchanges with the PHY *)

\* An operation that starts no exchange leaves MISTAT alone.
LEMMA MistatKept ==
    ASSUME cells \in [Spi!Cells -> Int], got \in Int, NEW op \in Ops, op.data \in Int,
           op.do # "softreset", ~StartsPhy(op),
           NEW f \in Spi!Effects(cells, op, At(op), got)
    PROVE  f[Mistat] = cells[Mistat]
<1>0. Mistat = 106 /\ 106 \in Spi!Cells
  BY CellsAre, AreCells
<1>1. CASE op.do = "buffer"
  <2>1. f = Spi!Advanced(cells, Spi!Reg.EWRPTL, op.data)
    BY <1>1 DEF Spi!Effects, Spi!Writing
  <2> DEFINE p == Spi!Pointer(cells, Spi!Reg.EWRPTL) + op.data
  <2>2. f = [cells EXCEPT ![2] = p % 256, ![3] = p \div 256]
    BY <2>1, CellsAre DEF Spi!Advanced
  <2> HIDE DEF p
  <2> QED BY <2>2, <1>0
<1>2. CASE op.do \in Spi!Writing /\ At(op) \in Spi!Cells
  <2> DEFINE s == [cells EXCEPT ![At(op)] = Spi!Stored(op, @, got)]
  <2>1. At(op) # Mistat
    <3>1. op \in Simple
      BY <1>2 DEF Ops, Whens, Spi!Writing
    <3> QED BY <1>2, <3>1 DEF Simple, Writes
  <2>2. s \in [Spi!Cells -> Int] /\ s[Mistat] = cells[Mistat]
    <3>1. Spi!Stored(op, cells[At(op)], got) \in Int
      BY <1>2, BytesInt DEF Spi!Stored
    <3> QED BY <1>0, <2>1, <3>1
  <2>3. f \in {s, [s EXCEPT ![28] = Spi!Or(@, Spi!EIR_TXERIF)], Spi!Reaction(s, At(op))}
    BY <1>2, CellsAre DEF Spi!Effects, Spi!Writing
  <2>4. At(op) # Miwrh /\ (At(op) = Micmd => s[At(op)] = 0)
    <3>1. At(op) = Micmd => op.do = "write" /\ op.data = 0
      BY <1>2 DEF StartsPhy, Writes
    <3>2. op.do = "write" => Spi!Stored(op, cells[At(op)], got) = op.data
      BY DEF Spi!Stored
    <3> QED BY <1>2, <3>1, <3>2 DEF StartsPhy, Writes
  <2> HIDE DEF s
  <2>5. Spi!Reaction(s, At(op)) \in
          {s, [s EXCEPT ![At(op)] = Spi!Without(@, Spi!ECON2_PKTDEC), ![57] = @ - 1]}
    <3>1. Spi!MICMD_MIIRD \in Int
      BY DEF Spi!MICMD_MIIRD
    <3>2. At(op) = Micmd => Spi!And(s[At(op)], Spi!MICMD_MIIRD) = 0
      BY <2>4, <3>1, AndZero
    <3> QED BY <2>4, <3>2, CellsAre DEF Spi!Reaction, Miwrh, Micmd
  <2> QED BY <1>0, <2>1, <2>2, <2>3, <2>5
<1>3. CASE op.do # "buffer" /\ ~(op.do \in Spi!Writing /\ At(op) \in Spi!Cells)
  BY <1>3 DEF Spi!Effects
<1> QED BY <1>1, <1>2, <1>3

\* An exchange that is under way is waited for.
LEMMA AccessPhy ==
    ASSUME BankInv, PhyInv, Spi!Access
    PROVE  PhyInv'
<1> DEFINE op == Head(todo)
           byte == Spi!Byte(cells, At(op))
<1>1. /\ todo # <<>> /\ op \in Ops
      /\ cells' \in Spi!Effects(cells, op, At(op), got)
      /\ todo' = Spi!After(op, byte, Tail(todo))
  BY AccessIs
<1>2. Mistat = 106 /\ 106 \in Spi!Cells /\ Spi!MISTAT_BUSY = 1
  BY CellsAre, AreCells DEF Spi!MISTAT_BUSY
<1>3. CASE op.do = "softreset"
  <2>1. cells' = [c \in Spi!Cells |-> 0]
    BY <1>1, <1>3 DEF Spi!Effects, Spi!Writing
  <2>2. cells'[Mistat] = 0
    BY <1>2, <2>1
  <2>3. ~Busy'
    BY <1>2, <2>2, AndZero DEF Busy, Mistat, Spi!CellOf, Spi!Cell, Spi!Reg,
                               Spi!BANK_MASK, Spi!ADDR_MASK
  <2> QED BY <2>3 DEF PhyInv
<1>4. CASE StartsPhy(op)
  <2>1. todo' # <<>> /\ Head(todo') = UntilPhy
    BY <1>1, <1>4, AfterOrdered DEF BankInv
  <2> QED BY <2>1 DEF PhyInv
<1>5. CASE op.do # "softreset" /\ ~StartsPhy(op)
  <2>1. op.data \in Int
    BY <1>1, HeadIsOp DEF BankInv
  <2>2. cells'[Mistat] = cells[Mistat]
    BY <1>1, <1>5, <2>1, MistatKept DEF BankInv
  <2>3. Busy' => Busy
    BY <2>2 DEF Busy
  <2>4. Busy => op = UntilPhy
    BY <1>5 DEF PhyInv
  <2>5. Busy => todo' = todo
    <3> SUFFICES ASSUME Busy PROVE todo' = todo
      OBVIOUS
    <3>1. op.do = "until" /\ op.reg = Spi!Reg.MISTAT /\ op.data = Spi!MISTAT_BUSY
      BY <2>4 DEF UntilPhy, Spi!Until, Spi!Op
    <3>2. byte = cells[Mistat]
      BY <1>2, <3>1 DEF Spi!Byte, At, Mistat
    <3>3. todo' = <<op>> \o Tail(todo)
      BY <1>1, <3>1, <3>2 DEF Spi!After, Busy
    <3> QED BY <1>1, <3>3, HeadAndTail DEF BankInv, Ordered
  <2> QED BY <1>1, <2>3, <2>4, <2>5 DEF PhyInv
<1> QED BY <1>3, <1>4, <1>5

\* PhyInv is inductive.
LEMMA PhyInductive ==
    ASSUME BankInv, PhyInv, [Spi!Next]_drivervars
    PROVE  PhyInv'
<1>1. CASE UNCHANGED <<cells, todo>>
  BY <1>1 DEF PhyInv, Busy
<1>2. CASE Spi!Call
  BY <1>2 DEF Spi!Call, PhyInv, Busy
<1>3. CASE Spi!Restart
  <2>1. todo' = Spi!EthInit
    BY <1>3 DEF Spi!Restart
  <2>2. Ordered(todo') /\ todo' # <<>> /\ todo'[1].do = "softreset"
    BY <2>1, InitWhole DEF Spi!Op
  <2>3. Head(todo') = todo'[1]
    BY <2>2 DEF Ordered
  <2> QED BY <2>2, <2>3 DEF PhyInv
<1>4. CASE ControllerStep
  <2>1. UNCHANGED todo /\ (~Spi!PhyEnds => cells'[106] = cells[106])
    BY <1>4, ControllerTouches
  <2>2. CASE Spi!PhyEnds
    <3>1. PICK link \in {0, 4} :
             cells' = [cells EXCEPT ![106] = 0,
                          ![89] = IF cells[Spi!CellOf(Spi!Reg.MICMD)] = 0 THEN @ ELSE link]
      BY <2>2, CellsAre DEF Spi!PhyEnds, Mistat
    <3>2. cells'[106] = 0
      BY <3>1, AreCells DEF BankInv
    <3>3. Spi!And(0, Spi!MISTAT_BUSY) = 0
      BY AndZero DEF Spi!MISTAT_BUSY
    <3>4. ~Busy'
      BY <3>2, <3>3, CellsAre DEF Busy
    <3> QED BY <3>4 DEF PhyInv
  <2>3. CASE ~Spi!PhyEnds
    <3>1. Busy' => Busy
      BY <2>1, <2>3, CellsAre DEF Busy
    <3> QED BY <2>1, <3>1 DEF PhyInv
  <2> QED BY <2>2, <2>3
<1>5. CASE Spi!ClearBank \/ Spi!SelectBank \/ UNCHANGED drivervars
  <2>1. UNCHANGED <<cells, todo>>
    BY <1>5 DEF Spi!ClearBank, Spi!SelectBank, drivervars
  <2> QED BY <1>1, <2>1
<1> QED BY <1>2, <1>3, <1>4, <1>5, AccessPhy
        DEF Spi!Next, Spi!Driver, ControllerStep

\* enc28j60.c:109-119, 128-138: while an exchange with the PHY is under way the
\* driver touches none of the registers it goes through.
THEOREM DriverPhyExchangesApart ==
    MCSpec => []PhyExchangesApart
<1>1. MCInit => PhyInv
  <2> SUFFICES ASSUME MCInit PROVE ~Busy
    BY DEF PhyInv
  <2>1. cells[106] = 0
    BY AreCells DEF MCInit, Spi!Init
  <2>2. Spi!And(0, Spi!MISTAT_BUSY) = 0
    BY AndZero DEF Spi!MISTAT_BUSY
  <2> QED BY <2>1, <2>2, CellsAre DEF Busy
<1>2. BankInv /\ PhyInv /\ [MCNext]_mcvars => PhyInv'
  BY RegistersStep, PhyInductive
<1>3. PhyInv => PhyExchangesApart
  <2>1. UntilPhy.reg \notin { Spi!Reg.MIREGADR, Spi!Reg.MICMD, Spi!Reg.MIWRL, Spi!Reg.MIWRH,
                              Spi!Reg.MIRDL, Spi!Reg.MIRDH }
    BY DEF UntilPhy, Spi!Until, Spi!Op, Spi!Reg
  <2> QED BY <2>1 DEF PhyInv, Busy, Mistat, PhyExchangesApart, Spi!PhyExchangesApart
<1> QED BY <1>1, <1>2, <1>3, DriverBanks, PTL DEF MCSpec

-----------------------------------------------------------------------------
(* The transmitter *)

\* Bit by bit.
LEMMA AndEight ==
    ASSUME NEW a \in Int
    PROVE  Spi!And(a, 8) = 8 * Spi!Bit(a, 8)
BY DEF Spi!And, Spi!Bit

\* The other bits of ECON1 the driver sets.
LEMMA AndOneBit ==
    ASSUME NEW a \in Int
    PROVE  /\ Spi!And(a, 128) = 128 * Spi!Bit(a, 128) /\ Spi!And(a, 4) = 4 * Spi!Bit(a, 4)
           /\ Spi!Bit(a, 128) \in {0, 1} /\ Spi!Bit(a, 4) \in {0, 1}
BY DEF Spi!And, Spi!Bit

\* A bit more or less does not change another one.
LEMMA OtherBit ==
    ASSUME NEW a \in Int
    PROVE  /\ Spi!Bit(a + 128, 8) = Spi!Bit(a, 8)
           /\ Spi!Bit(a - 128, 8) = Spi!Bit(a, 8)
           /\ Spi!Bit(a, 4) = 0 => Spi!Bit(a + 4, 8) = Spi!Bit(a, 8)
BY DEF Spi!Bit

\* Setting or clearing TXRST, and setting RXEN, leave TXRTS as it is.
LEMMA TxrtsKept ==
    ASSUME NEW a \in Int
    PROVE  /\ Spi!And(Spi!Or(a, 128), 8) = Spi!And(a, 8)
           /\ Spi!And(Spi!Without(a, 128), 8) = Spi!And(a, 8)
           /\ Spi!And(Spi!Or(a, 4), 8) = Spi!And(a, 8)
<1>1. Spi!Or(a, 128) \in {a, a + 128}
  <2>1. Spi!Or(a, 128) = a + 128 - Spi!And(a, 128)
    BY DEF Spi!Or
  <2> QED BY <2>1, AndOneBit
<1>2. Spi!Without(a, 128) \in {a, a - 128}
  <2>1. Spi!Without(a, 128) = a - Spi!And(a, 128)
    BY DEF Spi!Without
  <2> QED BY <2>1, AndOneBit
<1>3. Spi!Or(a, 4) = a \/ (Spi!Bit(a, 4) = 0 /\ Spi!Or(a, 4) = a + 4)
  <2>1. Spi!Or(a, 4) = a + 4 - Spi!And(a, 4)
    BY DEF Spi!Or
  <2> QED BY <2>1, AndOneBit
<1>4. /\ Spi!And(a + 128, 8) = Spi!And(a, 8) /\ Spi!And(a - 128, 8) = Spi!And(a, 8)
      /\ Spi!Bit(a, 4) = 0 => Spi!And(a + 4, 8) = Spi!And(a, 8)
  <2>1. a + 128 \in Int /\ a - 128 \in Int /\ a + 4 \in Int
    OBVIOUS
  <2> QED BY <2>1, AndEight, OtherBit
<1> QED BY <1>1, <1>2, <1>3, <1>4

\* The end of a sequence, from an index on.
LEMMA SuffixIs ==
    ASSUME NEW S, NEW s \in Seq(S), NEW k \in 1..Len(s)
    PROVE  LET t == SubSeq(s, k, Len(s))
           IN  /\ t \in Seq(S) /\ t # <<>> /\ Head(t) = s[k]
               /\ Tail(t) = SubSeq(s, k + 1, Len(s))
<1> DEFINE n == Len(s)
           t == SubSeq(s, k, n)
           u == SubSeq(s, k + 1, n)
<1>1. n \in Nat /\ k \in Nat /\ k >= 1 /\ k <= n
  OBVIOUS
<1>2. /\ t \in Seq(S) /\ Len(t) = n - k + 1
      /\ \A i \in 1..(n - k + 1) : t[i] = s[k + i - 1]
  BY <1>1
<1>3. /\ u \in Seq(S) /\ Len(u) = n - k
      /\ \A i \in 1..(n - k) : u[i] = s[k + i]
  BY <1>1
<1> HIDE DEF t, u, n
<1>4. t # <<>>
  BY <1>1, <1>2
<1>5. /\ Head(t) = t[1] /\ Tail(t) \in Seq(S) /\ Len(Tail(t)) = Len(t) - 1
      /\ \A i \in 1..Len(Tail(t)) : i + 1 \in 1..Len(t) /\ Tail(t)[i] = t[i + 1]
  BY <1>2, <1>4, TailIs
<1>6. Head(t) = s[k]
  <2>1. 1 \in 1..(n - k + 1) /\ k + 1 - 1 = k
    BY <1>1
  <2>2. t[1] = s[k + 1 - 1]
    BY <1>2, <2>1
  <2> QED BY <1>5, <2>1, <2>2
<1>7. Len(Tail(t)) = n - k
  BY <1>1, <1>2, <1>5
<1>8. ASSUME NEW i \in 1..(n - k) PROVE Tail(t)[i] = u[i]
  <2>1. i + 1 \in 1..(n - k + 1) /\ k + (i + 1) - 1 = k + i
    BY <1>1
  <2>2. t[i + 1] = s[k + (i + 1) - 1]
    BY <1>2, <2>1
  <2>3. Tail(t)[i] = t[i + 1]
    BY <1>5, <1>7
  <2> QED BY <1>3, <2>1, <2>2, <2>3
<1>9. Tail(t) = u
  BY <1>3, <1>5, <1>7, <1>8
<1> QED BY <1>2, <1>4, <1>6, <1>9 DEF t, u, n

\* The whole of it, and nothing of it.
LEMMA SuffixEnds ==
    ASSUME NEW S, NEW s \in Seq(S)
    PROVE  SubSeq(s, 1, Len(s)) = s /\ SubSeq(s, Len(s) + 1, Len(s)) = <<>>
OBVIOUS

\* Two elements more.
LEMMA TwoMore ==
    ASSUME NEW S, NEW s \in Seq(S), NEW a \in S, NEW b \in S
    PROVE  LET u == s \o <<a, b>>
           IN  /\ u \in Seq(S) /\ Len(u) = Len(s) + 2 /\ Len(s) \in Nat
               /\ \A i \in 1..Len(s) : u[i] = s[i]
               /\ u[Len(s) + 1] = a /\ u[Len(s) + 2] = b
OBVIOUS

\* Cells of ECON1 and of the pointers of the transmitter.
TxRegs == {2, 3, 4, 5, 6, 7, 31}

\* Their cells.
LEMMA TxRegsAre ==
    TxRegs \subseteq Spi!Cells /\ TxCells = {4, 5, 6, 7, 31} /\ StartCells = {4, 5}
BY CellsAre, AreCells DEF TxRegs, TxCells, StartCells, Econ1

\* An access changes those of them it writes.
LEMMA Touches ==
    ASSUME cells \in [Spi!Cells -> Int], got \in Int, NEW op \in Ops, op.data \in Int,
           op.do \notin {"softreset", "buffer"},
           NEW f \in Spi!Effects(cells, op, At(op), got), NEW c \in TxRegs
    PROVE  IF Writes(op) /\ At(op) = c THEN f[c] = Spi!Stored(op, cells[c], got)
                                      ELSE f[c] = cells[c]
<1>0. c \in Spi!Cells /\ c \notin {28, 30, 57, 82, 87, 106}
  BY TxRegsAre DEF TxRegs
<1>1. CASE op.do \in Spi!Writing /\ At(op) \in Spi!Cells
  <2> DEFINE s == [cells EXCEPT ![At(op)] = Spi!Stored(op, @, got)]
  <2>1. s \in [Spi!Cells -> Int]
    <3>1. Spi!Stored(op, cells[At(op)], got) \in Int
      BY <1>1, BytesInt DEF Spi!Stored
    <3> QED BY <3>1
  <2>2. IF At(op) = c THEN s[c] = Spi!Stored(op, cells[c], got) ELSE s[c] = cells[c]
    BY <1>0, <1>1
  <2>3. f \in {s, [s EXCEPT ![28] = Spi!Or(@, Spi!EIR_TXERIF)], Spi!Reaction(s, At(op))}
    BY <1>1, CellsAre DEF Spi!Effects, Spi!Writing
  <2> HIDE DEF s
  <2>4. Spi!Reaction(s, At(op)) \in
          {s, [s EXCEPT ![106] = Spi!Or(@, Spi!MISTAT_BUSY)],
           [s EXCEPT ![30] = Spi!Without(@, Spi!ECON2_PKTDEC), ![57] = @ - 1]}
    BY CellsAre DEF Spi!Reaction, Mistat
  <2>5. f[c] = s[c]
    BY <1>0, <2>1, <2>3, <2>4
  <2> QED BY <1>1, <2>2, <2>5 DEF Writes
<1>2. CASE ~(op.do \in Spi!Writing /\ At(op) \in Spi!Cells)
  <2>1. f = cells
    BY <1>2 DEF Spi!Effects
  <2> QED BY <1>0, <1>2, <2>1 DEF Writes
<1> QED BY <1>1, <1>2

\* The operations of PacketSend.
LEMMA SendSteps ==
    ASSUME NEW len \in Frames
    PROVE  LET s == Spi!PacketSend(len)
           IN  /\ s \in Seq(Ops) /\ Len(s) = 9
               /\ s[1] = Spi!Op("poll", Spi!Reg.ECON1, Spi!ECON1_.TXRTS)
               /\ s[2] = Spi!When(Spi!Reg.EIR, Spi!EIR_TXERIF, Unblock)
               /\ s[3] = Spi!Write(Spi!Reg.EWRPTL, Low(Spi!TXSTART_INIT))
               /\ s[4] = Spi!Write(Spi!Reg.EWRPTL + 1, High(Spi!TXSTART_INIT))
               /\ s[5] = Spi!Write(Spi!Reg.ETXNDL, Low(Spi!TXSTART_INIT + len))
               /\ s[6] = Spi!Write(Spi!Reg.ETXNDL + 1, High(Spi!TXSTART_INIT + len))
               /\ s[7] = Spi!Op("buffer", 0, 1) /\ s[8] = Spi!Op("buffer", 0, len)
               /\ s[9] = Spi!Send(len)
<1> DEFINE p1 == Spi!Op("poll", Spi!Reg.ECON1, Spi!ECON1_.TXRTS)
           p2 == Spi!When(Spi!Reg.EIR, Spi!EIR_TXERIF, Unblock)
           p3 == Spi!Write(Spi!Reg.EWRPTL, Low(Spi!TXSTART_INIT))
           p4 == Spi!Write(Spi!Reg.EWRPTL + 1, High(Spi!TXSTART_INIT))
           p5 == Spi!Write(Spi!Reg.ETXNDL, Low(Spi!TXSTART_INIT + len))
           p6 == Spi!Write(Spi!Reg.ETXNDL + 1, High(Spi!TXSTART_INIT + len))
           p7 == Spi!Op("buffer", 0, 1)
           p8 == Spi!Op("buffer", 0, len)
           p9 == Spi!Send(len)
           S == {p1, p2, p3, p4, p5, p6, p7, p8, p9}
           s == Spi!PacketSend(len)
           a == <<p1>> \o <<p2>>
           b == a \o <<p3, p4>>
           c == b \o <<p5, p6>>
           d == c \o <<p7, p8, p9>>
<1>1. s \in Seq(Ops)
  BY SendWhole DEF Whole, Ordered
<1>2. s = d
  BY UnblockIs DEF Spi!PacketSend, Spi!Prepare, Spi!WaitForTransmitter, Spi!PollUntil,
                   Spi!Write16, Low, High
<1> HIDE DEF p1, p2, p3, p4, p5, p6, p7, p8, p9, s
<1>3. /\ p1 \in S /\ p2 \in S /\ p3 \in S /\ p4 \in S /\ p5 \in S /\ p6 \in S
      /\ p7 \in S /\ p8 \in S /\ p9 \in S
  OBVIOUS
<1> HIDE DEF S
<1>4. a \in Seq(S) /\ Len(a) = 2 /\ a[1] = p1 /\ a[2] = p2
  BY <1>3
<1> HIDE DEF a, b, c, d
<1>5. /\ b \in Seq(S) /\ Len(b) = Len(a) + 2 /\ \A i \in 1..Len(a) : b[i] = a[i]
      /\ b[Len(a) + 1] = p3 /\ b[Len(a) + 2] = p4
  <2>1. a \in Seq(S)
    BY <1>4
  <2>2. b = a \o <<p3, p4>>
    BY DEF b
  <2> QED BY <1>3, <2>1, <2>2, TwoMore
<1>6. b \in Seq(S) /\ Len(b) = 4 /\ b[1] = p1 /\ b[2] = p2 /\ b[3] = p3 /\ b[4] = p4
  BY <1>4, <1>5
<1>7. /\ c \in Seq(S) /\ Len(c) = Len(b) + 2 /\ \A i \in 1..Len(b) : c[i] = b[i]
      /\ c[Len(b) + 1] = p5 /\ c[Len(b) + 2] = p6
  <2>1. b \in Seq(S)
    BY <1>6
  <2>2. c = b \o <<p5, p6>>
    BY DEF c
  <2> QED BY <1>3, <2>1, <2>2, TwoMore
<1>8. /\ c \in Seq(S) /\ Len(c) = 6 /\ c[1] = p1 /\ c[2] = p2 /\ c[3] = p3 /\ c[4] = p4
      /\ c[5] = p5 /\ c[6] = p6
  BY <1>6, <1>7
<1> DEFINE e == <<p7, p8, p9>>
<1>9. e \in Seq(S) /\ Len(e) = 3 /\ e[1] = p7 /\ e[2] = p8 /\ e[3] = p9
  BY <1>3
<1>10. d = c \o e
  BY DEF d
<1> HIDE DEF e
<1>11. /\ Len(d) = Len(c) + Len(e) /\ \A i \in 1..Len(c) : d[i] = c[i]
       /\ \A i \in 1..Len(e) : d[Len(c) + i] = e[i]
  <2>1. c \in Seq(S) /\ e \in Seq(S)
    BY <1>8, <1>9
  <2> QED BY <1>10, <2>1, JoinIs
<1>12. /\ Len(d) = 9 /\ d[1] = p1 /\ d[2] = p2 /\ d[3] = p3 /\ d[4] = p4
       /\ d[5] = p5 /\ d[6] = p6 /\ d[7] = p7 /\ d[8] = p8 /\ d[9] = p9
  BY <1>8, <1>9, <1>11
<1>13. /\ s \in Seq(Ops) /\ Len(s) = 9 /\ s[1] = p1 /\ s[2] = p2 /\ s[3] = p3 /\ s[4] = p4
       /\ s[5] = p5 /\ s[6] = p6 /\ s[7] = p7 /\ s[8] = p8 /\ s[9] = p9
  BY <1>1, <1>2, <1>12
<1> QED BY <1>13 DEF p1, p2, p3, p4, p5, p6, p7, p8, p9, s

\* What is left of it.
LEMMA FromIs ==
    ASSUME NEW len \in Frames, NEW k \in 1..9
    PROVE  /\ From(len, k) \in Seq(Ops) /\ From(len, k) # <<>>
           /\ Head(From(len, k)) = Spi!PacketSend(len)[k]
           /\ Tail(From(len, k)) = From(len, k + 1)
           /\ From(len, 1) = Spi!PacketSend(len) /\ From(len, 10) = <<>>
<1> DEFINE s == Spi!PacketSend(len)
<1>1. s \in Seq(Ops) /\ Len(s) = 9
  BY SendSteps
<1> HIDE DEF s
<1>2. k \in 1..Len(s)
  BY <1>1
<1>3. LET t == SubSeq(s, k, Len(s))
      IN  /\ t \in Seq(Ops) /\ t # <<>> /\ Head(t) = s[k]
          /\ Tail(t) = SubSeq(s, k + 1, Len(s))
  BY <1>1, <1>2, SuffixIs
<1>4. SubSeq(s, 1, Len(s)) = s /\ SubSeq(s, Len(s) + 1, Len(s)) = <<>>
  BY <1>1, SuffixEnds
<1>5. 9 + 1 = 10
  OBVIOUS
<1> QED BY <1>1, <1>3, <1>4, <1>5 DEF From, s

-----------------------------------------------------------------------------
\* Operations that neither fill nor use the transmitter.
LEMMA OpQuiet ==
    ASSUME NEW do \in Dos \ {"softreset", "buffer"}, NEW r \in 0..255, NEW d \in Int,
           Spi!CellOf(r) \notin TxCells \cup {Mistat} \/ do \notin Spi!Writing
    PROVE  Spi!Op(do, r, d) \in QuietOps
<1> DEFINE op == Spi!Op(do, r, d)
<1>1. op.do = do /\ op.reg = r /\ op.data = d /\ op \in Accesses
  BY DEF Spi!Op, Accesses
<1> HIDE DEF op
<1>2. op \in Ops /\ Quiet(op) /\ op.do # "when"
  BY <1>1 DEF Ops, Simple, Quiet, Writes, At, Dos
<1>3. op \in QuietOps
  BY <1>2 DEF QuietOps
<1> QED BY <1>3 DEF op

\* Registers that are none of the transmitter's.
Aside == { r \in 0..255 : Spi!CellOf(r) \notin TxCells \cup {Mistat} }

\* The registers of the calls other than enc28j60PacketSend.
LEMMA AsideRegisters ==
    /\ Spi!Reg.ERDPTL \in Aside /\ Spi!Reg.ERDPTL + 1 \in Aside
    /\ Spi!Reg.ERXRDPTL \in Aside /\ Spi!Reg.ERXRDPTL + 1 \in Aside
    /\ Spi!Reg.MIREGADR \in Aside /\ Spi!Reg.MICMD \in Aside
    /\ Spi!Reg.MIWRL \in Aside /\ Spi!Reg.MIWRL + 1 \in Aside
    /\ Spi!Reg.ERXFCON \in Aside /\ Spi!Reg.ECON2 \in Aside
    /\ Spi!Reg.MISTAT \in 0..255 /\ Spi!Reg.MIRDH \in 0..255 /\ Spi!Reg.MIRDL \in 0..255
    /\ Spi!Reg.EPKTCNT \in 0..255 /\ Spi!Reg.EREVID \in 0..255 /\ Spi!Reg.EIR \in Aside
BY CellsAre, TxRegsAre
   DEF Aside, Spi!CellOf, Spi!Cell, Spi!BANK_MASK, Spi!ADDR_MASK, Spi!Reg

\* Writes to them,
LEMMA WritesQuiet ==
    ASSUME NEW r \in Aside, NEW d \in Int
    PROVE  /\ Spi!Write(r, d) \in QuietOps
           /\ \A do \in {"or", "andnot", "set"} : Spi!Op(do, r, d) \in QuietOps
<1>1. r \in 0..255 /\ Spi!CellOf(r) \notin TxCells \cup {Mistat}
  BY DEF Aside
<1>2. \A do \in {"write", "or", "andnot", "set"} : do \in Dos \ {"softreset", "buffer"}
  BY DEF Dos
<1>3. \A do \in {"write", "or", "andnot", "set"} : Spi!Op(do, r, d) \in QuietOps
  BY <1>1, <1>2, OpQuiet
<1> QED BY <1>3 DEF Spi!Write

\* and reads of any register.
LEMMA ReadsQuiet ==
    ASSUME NEW r \in 0..255
    PROVE  Spi!Read(r) \in QuietOps /\ \A d \in Int : Spi!Until(r, d) \in QuietOps
<1>1. \A do \in {"read", "until"} : do \in Dos \ {"softreset", "buffer"} /\ do \notin Spi!Writing
  BY DEF Dos, Spi!Writing
<1>2. \A do \in {"read", "until"}, d \in Int : Spi!Op(do, r, d) \in QuietOps
  BY <1>1, OpQuiet
<1> QED BY <1>2 DEF Spi!Read, Spi!Until

\* enc28j60PhyWrite leaves the transmitter alone,
LEMMA PhyWriteQuiet ==
    ASSUME NEW a \in Int, NEW d \in Int
    PROVE  Spi!PhyWrite(a, d) \in Seq(QuietOps)
<1>1. d % 256 \in Int /\ d \div 256 \in Int /\ Spi!MISTAT_BUSY \in Int
  BY DEF Spi!MISTAT_BUSY
<1>2. /\ Spi!Write(Spi!Reg.MIREGADR, a) \in QuietOps
      /\ Spi!Write(Spi!Reg.MIWRL, d % 256) \in QuietOps
      /\ Spi!Write(Spi!Reg.MIWRL + 1, d \div 256) \in QuietOps
      /\ Spi!Until(Spi!Reg.MISTAT, Spi!MISTAT_BUSY) \in QuietOps
  BY <1>1, AsideRegisters, WritesQuiet, ReadsQuiet
<1> QED BY <1>2 DEF Spi!PhyWrite, Spi!Write16

\* so does enc28j60linkup,
LEMMA LinkupQuiet ==
    ASSUME NEW s \in Spi!Linkup
    PROVE  s \in Seq(QuietOps)
<1> DEFINE t == << Spi!Write(Spi!Reg.MIREGADR, Spi!PHY.PHSTAT2),
                   Spi!Write(Spi!Reg.MICMD, Spi!MICMD_MIIRD),
                   Spi!Until(Spi!Reg.MISTAT, Spi!MISTAT_BUSY), Spi!Write(Spi!Reg.MICMD, 0) >>
<1>1. PICK b \in { << Spi!Read(Spi!Reg.MIRDH), Spi!Read(Spi!Reg.MIRDL) >>,
                   << Spi!Read(Spi!Reg.MIRDL), Spi!Read(Spi!Reg.MIRDH) >> } : s = t \o b
  BY DEF Spi!Linkup
<1>2. b \in Seq(QuietOps)
  <2>1. Spi!Read(Spi!Reg.MIRDH) \in QuietOps /\ Spi!Read(Spi!Reg.MIRDL) \in QuietOps
    BY AsideRegisters, ReadsQuiet
  <2>2. /\ << Spi!Read(Spi!Reg.MIRDH), Spi!Read(Spi!Reg.MIRDL) >> \in Seq(QuietOps)
        /\ << Spi!Read(Spi!Reg.MIRDL), Spi!Read(Spi!Reg.MIRDH) >> \in Seq(QuietOps)
    BY <2>1
  <2> QED BY <1>1, <2>2
<1>3. t \in Seq(QuietOps)
  <2>1. Spi!PHY.PHSTAT2 \in Int /\ Spi!MICMD_MIIRD \in Int /\ Spi!MISTAT_BUSY \in Int /\ 0 \in Int
    BY DEF Spi!PHY, Spi!MICMD_MIIRD, Spi!MISTAT_BUSY
  <2>2. /\ Spi!Write(Spi!Reg.MIREGADR, Spi!PHY.PHSTAT2) \in QuietOps
        /\ Spi!Write(Spi!Reg.MICMD, Spi!MICMD_MIIRD) \in QuietOps
        /\ Spi!Until(Spi!Reg.MISTAT, Spi!MISTAT_BUSY) \in QuietOps
        /\ Spi!Write(Spi!Reg.MICMD, 0) \in QuietOps
    BY <2>1, AsideRegisters, WritesQuiet, ReadsQuiet
  <2> QED BY <2>2
<1> HIDE DEF t
<1> QED BY <1>1, <1>2, <1>3

\* enc28j60PacketReceive,
LEMMA ReceiveQuiet ==
    Spi!PacketReceive \in Seq(QuietOps)
<1> DEFINE a == Spi!Write16(Spi!Reg.ERDPTL, Spi!RXSTART_INIT)
           b == Spi!Write16(Spi!Reg.ERXRDPTL, Spi!RXSTOP_INIT)
           c == <<Spi!WriteOp("set", Spi!Reg.ECON2, Spi!ECON2_PKTDEC)>>
           w == a \o b \o c
<1>1. a \in Seq(QuietOps) /\ b \in Seq(QuietOps)
  <2>1. \A r \in Aside, d \in Int : r + 1 \in Aside => Spi!Write16(r, d) \in Seq(QuietOps)
    <3> TAKE r \in Aside, d \in Int
    <3> HAVE r + 1 \in Aside
    <3>1. d % 256 \in Int /\ d \div 256 \in Int
      OBVIOUS
    <3>2. Spi!Write(r, d % 256) \in QuietOps /\ Spi!Write(r + 1, d \div 256) \in QuietOps
      BY <3>1, WritesQuiet
    <3> QED BY <3>2 DEF Spi!Write16
  <2>2. Spi!RXSTART_INIT \in Int /\ Spi!RXSTOP_INIT \in Int
    BY DEF Spi!RXSTART_INIT, Spi!RXSTOP_INIT
  <2> QED BY <2>1, <2>2, AsideRegisters
<1>2. c \in Seq(QuietOps)
  <2>1. Spi!ECON2_PKTDEC \in Int
    BY DEF Spi!ECON2_PKTDEC
  <2>2. Spi!Op("set", Spi!Reg.ECON2, Spi!ECON2_PKTDEC) \in QuietOps
    BY <2>1, AsideRegisters, WritesQuiet
  <2> QED BY <2>2 DEF Spi!WriteOp
<1>3. Spi!PacketReceive = <<Spi!When(Spi!Reg.EPKTCNT, 255, w)>>
  BY DEF Spi!PacketReceive
<1>4. Whole(Spi!PacketReceive)
  BY ReceiveWhole
<1> HIDE DEF a, b, c
<1>5. w \in Seq(QuietOps)
  BY <1>1, <1>2
<1> HIDE DEF w
<1> DEFINE op == Spi!When(Spi!Reg.EPKTCNT, 255, w)
<1>6. op \in Ops
  <2>1. <<op>> \in Seq(Ops)
    BY <1>3, <1>4 DEF Whole, Ordered
  <2> QED BY <2>1
<1>7. op.do = "when" /\ op.then = w
  BY DEF Spi!When
<1> HIDE DEF op
<1>8. op \in QuietOps
  <2>1. \A i \in 1..Len(w) : Quiet(w[i])
    BY <1>5 DEF QuietOps
  <2>2. Quiet(op)
    BY <1>7 DEF Quiet, Writes, Spi!Writing
  <2> QED BY <1>6, <1>7, <2>1, <2>2 DEF QuietOps
<1> QED BY <1>3, <1>8 DEF op

\* and every call that sends nothing.
LEMMA CallsQuiet ==
    ASSUME NEW s \in Spi!Calls
    PROVE  s \in Seq(QuietOps) \/ \E len \in Frames : s = Spi!PacketSend(len)
<1>1. Spi!Read(Spi!Reg.EPKTCNT) \in QuietOps /\ Spi!Read(Spi!Reg.EREVID) \in QuietOps
      /\ Spi!Read(Spi!Reg.ERXFCON) \in QuietOps
  <2>1. Spi!Reg.ERXFCON \in 0..255
    BY AsideRegisters DEF Aside
  <2> QED BY <2>1, AsideRegisters, ReadsQuiet
<1>2. <<Spi!Read(Spi!Reg.EPKTCNT)>> \in Seq(QuietOps) /\ <<Spi!Read(Spi!Reg.EREVID)>> \in Seq(QuietOps)
  BY <1>1
<1>3. Spi!EnableBroadcast \in Seq(QuietOps) /\ Spi!DisableBroadcast \in Seq(QuietOps)
  <2>1. Spi!ERXFCON_.BCEN \in Int
    BY DEF Spi!ERXFCON_
  <2>2. /\ Spi!Op("or", Spi!Reg.ERXFCON, Spi!ERXFCON_.BCEN) \in QuietOps
        /\ Spi!Op("andnot", Spi!Reg.ERXFCON, Spi!ERXFCON_.BCEN) \in QuietOps
    BY <2>1, AsideRegisters, WritesQuiet
  <2> QED BY <1>1, <2>2 DEF Spi!EnableBroadcast, Spi!DisableBroadcast
<1>4. Spi!PhyWrite(Spi!PHY.PHLCON, 1142) \in Seq(QuietOps)
  BY PhyWriteQuiet DEF Spi!PHY
<1>5. \/ s \in Spi!Linkup \/ \E len \in Frames : s = Spi!PacketSend(len)
      \/ s = Spi!PacketReceive \/ s = Spi!EnableBroadcast \/ s = Spi!DisableBroadcast
      \/ s = Spi!PhyWrite(Spi!PHY.PHLCON, 1142)
      \/ s = <<Spi!Read(Spi!Reg.EPKTCNT)>> \/ s = <<Spi!Read(Spi!Reg.EREVID)>>
  BY DEF Spi!Calls
<1>6. s \in Spi!Linkup => s \in Seq(QuietOps)
  BY LinkupQuiet
<1>7. Spi!PacketReceive \in Seq(QuietOps)
  BY ReceiveQuiet
<1>8. \/ s \in Seq(QuietOps) \/ \E len \in Frames : s = Spi!PacketSend(len)
      \/ s \in {Spi!PacketReceive, Spi!EnableBroadcast, Spi!DisableBroadcast,
               Spi!PhyWrite(Spi!PHY.PHLCON, 1142),
               <<Spi!Read(Spi!Reg.EPKTCNT)>>, <<Spi!Read(Spi!Reg.EREVID)>>}
  BY <1>5, <1>6
<1>9. CASE s = Spi!PacketReceive
  BY <1>7, <1>9
<1>10. CASE s = Spi!EnableBroadcast \/ s = Spi!DisableBroadcast
  BY <1>3, <1>10
<1>11. CASE s = Spi!PhyWrite(Spi!PHY.PHLCON, 1142)
  BY <1>4, <1>11
<1>12. CASE s = <<Spi!Read(Spi!Reg.EPKTCNT)>> \/ s = <<Spi!Read(Spi!Reg.EREVID)>>
  BY <1>2, <1>12
<1> QED BY <1>8, <1>9, <1>10, <1>11, <1>12

-----------------------------------------------------------------------------
\* The operations of enc28j60Init.
LEMMA OpBoots ==
    ASSUME NEW do \in Dos \ {"buffer"}, NEW r \in 0..255, NEW d \in Int,
           Spi!CellOf(r) \notin StartCells \cup {Econ1} \/ do \notin Spi!Writing
    PROVE  Spi!Op(do, r, d) \in BootOps
<1> DEFINE op == Spi!Op(do, r, d)
<1>1. op.do = do /\ op.reg = r /\ op.data = d /\ op \in Accesses
  BY DEF Spi!Op, Accesses
<1> HIDE DEF op
<1>2. op \in BootOps
  BY <1>1 DEF BootOps, Writes, At
<1> QED BY <1>2 DEF op

Apart == { r \in 0..255 : Spi!CellOf(r) \notin StartCells \cup {Econ1} }

\* The registers enc28j60Init writes without a condition.
LEMMA ApartRegisters ==
    /\ Spi!Reg.ERXSTL \in Apart /\ Spi!Reg.ERXSTL + 1 \in Apart
    /\ Spi!Reg.ERXRDPTL \in Apart /\ Spi!Reg.ERXRDPTL + 1 \in Apart
    /\ Spi!Reg.ERXNDL \in Apart /\ Spi!Reg.ERXNDL + 1 \in Apart
    /\ Spi!Reg.ETXNDL \in Apart /\ Spi!Reg.ETXNDL + 1 \in Apart
    /\ Spi!Reg.ERXFCON \in Apart /\ Spi!Reg.EPMM0 \in Apart /\ Spi!Reg.EPMM1 \in Apart
    /\ Spi!Reg.EPMCSL \in Apart /\ Spi!Reg.EPMCSL + 1 \in Apart
    /\ Spi!Reg.MACON1 \in Apart /\ Spi!Reg.MACON2 \in Apart /\ Spi!Reg.MACON3 \in Apart
    /\ Spi!Reg.MAIPGL \in Apart /\ Spi!Reg.MAIPGL + 1 \in Apart
    /\ Spi!Reg.MABBIPG \in Apart
    /\ Spi!Reg.MAMXFLL \in Apart /\ Spi!Reg.MAMXFLL + 1 \in Apart
    /\ Spi!Reg.MIREGADR \in Apart /\ Spi!Reg.MIWRL \in Apart /\ Spi!Reg.MIWRL + 1 \in Apart
    /\ Spi!Reg.EIE \in Apart
    /\ Spi!Reg.MISTAT \in 0..255 /\ Spi!Reg.ECON1 \in 0..255
BY CellsAre, TxRegsAre
   DEF Apart, Spi!CellOf, Spi!Cell, Spi!BANK_MASK, Spi!ADDR_MASK, Spi!Reg

\* The registers of the hardware address are among them.
LEMMA MacApart ==
    /\ Spi!MacBytes \in [1..6 -> Int]
    /\ \A i \in 1..6 : Spi!MacBytes[i] \in Apart
BY CellsAre, TxRegsAre
   DEF Spi!MacBytes, Apart, Spi!CellOf, Spi!Cell, Spi!BANK_MASK, Spi!ADDR_MASK, Spi!Reg

\* Writes to them are operations of enc28j60Init.
LEMMA WritesBoot ==
    ASSUME NEW r \in Apart, NEW d \in Int
    PROVE  /\ Spi!Write(r, d) \in BootOps /\ Spi!WriteOp("set", r, d) \in BootOps
           /\ r + 1 \in Apart => Spi!Write16(r, d) \in Seq(BootOps)
<1>1. \A x \in Apart : x \in 0..255 /\ Spi!CellOf(x) \notin StartCells \cup {Econ1}
  BY DEF Apart
<1>2. \A do \in {"write", "set"} : do \in Dos \ {"buffer"}
  BY DEF Dos
<1>3. \A do \in {"write", "set"}, x \in Apart, e \in Int : Spi!Op(do, x, e) \in BootOps
  BY <1>1, <1>2, OpBoots
<1>4. \A x \in Apart, e \in Int : Spi!Write(x, e) \in BootOps
  BY <1>3 DEF Spi!Write
<1>5. d % 256 \in Int /\ d \div 256 \in Int
  OBVIOUS
<1>6. r + 1 \in Apart => Spi!Write(r, d % 256) \in BootOps /\ Spi!Write(r + 1, d \div 256) \in BootOps
  BY <1>4, <1>5
<1>7. r + 1 \in Apart => Spi!Write16(r, d) \in Seq(BootOps)
  BY <1>6 DEF Spi!Write16
<1> QED BY <1>3, <1>4, <1>7 DEF Spi!WriteOp

Has(s, op) == \E i \in 1..Len(s) : s[i] = op

\* enc28j60Init sets ETXST and does not request a transmission.
LEMMA InitBoots ==
    /\ Spi!EthInit \in Seq(BootOps)
    /\ Has(Spi!EthInit, StartL) /\ Has(Spi!EthInit, StartH)
<1> DEFINE R == Spi!Reg
           a == << Spi!Op("softreset", 0, 0) >>
           b == Spi!Write16(R.ERXSTL, Spi!RXSTART_INIT)
           c == Spi!Write16(R.ERXRDPTL, Spi!RXSTART_INIT)
           d == Spi!Write16(R.ERXNDL, Spi!RXSTOP_INIT)
           e == Spi!Write16(R.ETXSTL, Spi!TXSTART_INIT)
           f == Spi!Write16(R.ETXNDL, Spi!TXSTOP_INIT)
           g == << Spi!Write(R.ERXFCON, Spi!ERXFCON_.UCEN + Spi!ERXFCON_.CRCEN + Spi!ERXFCON_.PMEN),
                   Spi!Write(R.EPMM0, 63), Spi!Write(R.EPMM1, 48) >>
           h == Spi!Write16(R.EPMCSL, 63481)
           m == << Spi!Write(R.MACON1, 13), Spi!Write(R.MACON2, 0), Spi!WriteOp("set", R.MACON3, 50) >>
           n == Spi!Write16(R.MAIPGL, 3090)
           o == << Spi!Write(R.MABBIPG, 18) >>
           p == Spi!Write16(R.MAMXFLL, Spi!MAX_FRAMELEN)
           q == [i \in 1..6 |-> Spi!Write(Spi!MacBytes[i], i)]
           s == Spi!PhyWrite(Spi!PHY.PHCON2, 256)
           t == << Spi!Op("bank", R.ECON1, 0), Spi!WriteOp("set", R.EIE, 192),
                   Spi!WriteOp("set", R.ECON1, Spi!ECON1_.RXEN) >>
           B == Seq(BootOps)
<1>1. Spi!EthInit = a \o b \o c \o d \o e \o f \o g \o h \o m \o n \o o \o p \o q \o s \o t
  BY DEF Spi!EthInit
<1>2. a \in B
  <2>1. /\ "softreset" \in Dos \ {"buffer"} /\ "softreset" \notin Spi!Writing /\ 0 \in 0..255
        /\ 0 \in Int
    BY DEF Dos, Spi!Writing
  <2>2. Spi!Op("softreset", 0, 0) \in BootOps
    BY <2>1, OpBoots
  <2> QED BY <2>2
<1>3. b \in B /\ c \in B /\ d \in B /\ f \in B /\ h \in B /\ n \in B /\ p \in B
  <2>1. /\ Spi!RXSTART_INIT \in Int /\ Spi!RXSTOP_INIT \in Int
        /\ Spi!TXSTOP_INIT \in Int /\ Spi!MAX_FRAMELEN \in Int /\ 63481 \in Int /\ 3090 \in Int
    BY DEF Spi!RXSTART_INIT, Spi!RXSTOP_INIT, Spi!TXSTOP_INIT, Spi!MAX_FRAMELEN
  <2>2. ASSUME NEW r \in Apart, NEW k \in Int, r + 1 \in Apart PROVE Spi!Write16(r, k) \in B
    BY <2>2, WritesBoot
  <2> HIDE DEF B
  <2>3. b \in B
    <3>1. R.ERXSTL \in Apart /\ R.ERXSTL + 1 \in Apart
      BY ApartRegisters
    <3> QED BY <2>1, <2>2, <3>1
  <2>4. c \in B
    <3>1. R.ERXRDPTL \in Apart /\ R.ERXRDPTL + 1 \in Apart
      BY ApartRegisters
    <3> QED BY <2>1, <2>2, <3>1
  <2>5. d \in B
    <3>1. R.ERXNDL \in Apart /\ R.ERXNDL + 1 \in Apart
      BY ApartRegisters
    <3> QED BY <2>1, <2>2, <3>1
  <2>6. f \in B
    <3>1. R.ETXNDL \in Apart /\ R.ETXNDL + 1 \in Apart
      BY ApartRegisters
    <3> QED BY <2>1, <2>2, <3>1
  <2>7. h \in B
    <3>1. R.EPMCSL \in Apart /\ R.EPMCSL + 1 \in Apart
      BY ApartRegisters
    <3> QED BY <2>1, <2>2, <3>1
  <2>8. n \in B
    <3>1. R.MAIPGL \in Apart /\ R.MAIPGL + 1 \in Apart
      BY ApartRegisters
    <3> QED BY <2>1, <2>2, <3>1
  <2>9. p \in B
    <3>1. R.MAMXFLL \in Apart /\ R.MAMXFLL + 1 \in Apart
      BY ApartRegisters
    <3> QED BY <2>1, <2>2, <3>1
  <2> QED BY <2>3, <2>4, <2>5, <2>6, <2>7, <2>8, <2>9
<1>4. g \in B /\ m \in B /\ o \in B
  <2>1. \A k \in Int, r \in Apart : Spi!Write(r, k) \in BootOps /\ Spi!WriteOp("set", r, k) \in BootOps
    BY WritesBoot
  <2>2. Spi!ERXFCON_.UCEN + Spi!ERXFCON_.CRCEN + Spi!ERXFCON_.PMEN \in Int
    BY DEF Spi!ERXFCON_
  <2>3. /\ Spi!Write(R.ERXFCON, Spi!ERXFCON_.UCEN + Spi!ERXFCON_.CRCEN + Spi!ERXFCON_.PMEN) \in BootOps
        /\ Spi!Write(R.EPMM0, 63) \in BootOps /\ Spi!Write(R.EPMM1, 48) \in BootOps
    BY <2>1, <2>2, ApartRegisters
  <2>4. /\ Spi!Write(R.MACON1, 13) \in BootOps /\ Spi!Write(R.MACON2, 0) \in BootOps
        /\ Spi!WriteOp("set", R.MACON3, 50) \in BootOps /\ Spi!Write(R.MABBIPG, 18) \in BootOps
    BY <2>1, ApartRegisters
  <2> QED BY <2>3, <2>4
<1>5. q \in B
  <2>1. \A i \in 1..6 : Spi!Write(Spi!MacBytes[i], i) \in BootOps
    <3> TAKE i \in 1..6
    <3>1. Spi!MacBytes[i] \in Apart /\ i \in Int
      BY MacApart
    <3> QED BY <3>1, WritesBoot
  <2> QED BY <2>1
<1>6. s \in B
  <2>1. /\ Spi!PHY.PHCON2 \in Int /\ 256 \in Int /\ Spi!MISTAT_BUSY \in Int
        /\ "until" \in Dos \ {"buffer"} /\ "until" \notin Spi!Writing
    BY DEF Spi!PHY, Spi!MISTAT_BUSY, Dos, Spi!Writing
  <2>2. /\ Spi!Write(Spi!Reg.MIREGADR, Spi!PHY.PHCON2) \in BootOps
        /\ Spi!Write16(Spi!Reg.MIWRL, 256) \in B
    BY <2>1, ApartRegisters, WritesBoot
  <2>3. Spi!Until(Spi!Reg.MISTAT, Spi!MISTAT_BUSY) \in BootOps
    BY <2>1, ApartRegisters, OpBoots DEF Spi!Until
  <2> DEFINE u == Spi!Write16(Spi!Reg.MIWRL, 256)
             v == << Spi!Write(Spi!Reg.MIREGADR, Spi!PHY.PHCON2) >>
             w == << Spi!Until(Spi!Reg.MISTAT, Spi!MISTAT_BUSY) >>
  <2>4. u \in B /\ v \in B /\ w \in B
    BY <2>2, <2>3
  <2>5. s = v \o u \o w
    BY DEF Spi!PhyWrite
  <2> HIDE DEF s, u, v, w
  <2> QED BY <2>4, <2>5
<1>7. t \in B
  <2>1. /\ "bank" \in Dos \ {"buffer"} /\ "bank" \notin Spi!Writing /\ 0 \in Int /\ 192 \in Int
    BY DEF Dos, Spi!Writing
  <2>2. Spi!Op("bank", R.ECON1, 0) \in BootOps /\ Spi!WriteOp("set", R.EIE, 192) \in BootOps
    BY <2>1, ApartRegisters, OpBoots, WritesBoot
  <2>3. SetRxen \in BootOps
    <3>1. /\ SetRxen.do = "set" /\ SetRxen.reg = Spi!Reg.ECON1 /\ SetRxen.data \in Int
          /\ SetRxen = [do |-> "set", reg |-> Spi!Reg.ECON1, data |-> SetRxen.data]
      BY DEF SetRxen, Spi!WriteOp, Spi!Op, Spi!ECON1_
    <3>2. SetRxen \in Accesses
      BY <3>1, ApartRegisters DEF Accesses, Dos
    <3>3. At(SetRxen) = 31
      BY <3>1, CellsAre DEF At, Econ1
    <3> QED BY <3>1, <3>2, <3>3, TxRegsAre DEF BootOps
  <2> QED BY <2>2, <2>3 DEF SetRxen
<1>8. e \in B /\ Has(e, StartL) /\ Has(e, StartH)
  <2>1. e = <<StartL, StartH>>
    <3>1. Spi!Reg.ETXSTL + 1 = Spi!Reg.ETXSTH
      BY DEF Spi!Reg
    <3> QED BY <3>1 DEF Spi!Write16, StartL, StartH, Low, High
  <2>2. StartL \in BootOps /\ StartH \in BootOps
    <3>1. /\ StartL = [do |-> "write", reg |-> 4, data |-> Low(Spi!TXSTART_INIT)]
          /\ StartH = [do |-> "write", reg |-> 5, data |-> High(Spi!TXSTART_INIT)]
      BY DEF StartL, StartH, Spi!Write, Spi!Op, Spi!Reg
    <3>2. Low(Spi!TXSTART_INIT) \in Int /\ High(Spi!TXSTART_INIT) \in Int
      BY DEF Low, High, Spi!TXSTART_INIT, Spi!RXSTOP_INIT
    <3>3. StartL \in Accesses /\ StartH \in Accesses
      BY <3>1, <3>2 DEF Accesses, Dos
    <3>4. Spi!CellOf(4) # 31 /\ Spi!CellOf(5) # 31
      BY DEF Spi!CellOf, Spi!Cell, Spi!BANK_MASK, Spi!ADDR_MASK
    <3>5. At(StartL) # Econ1 /\ At(StartH) # Econ1
      BY <3>1, <3>4, CellsAre DEF At
    <3>6. StartL.do # "buffer" /\ StartH.do # "buffer"
      BY <3>1
    <3> QED BY <3>3, <3>5, <3>6 DEF BootOps
  <2> HIDE DEF e
  <2>3. e \in B /\ Len(e) = 2 /\ e[1] = StartL /\ e[2] = StartH
    BY <2>1, <2>2
  <2> QED BY <2>3 DEF Has
<1> HIDE DEF a, b, c, d, e, f, g, h, m, n, o, p, q, s, t
<1> DEFINE P(x) == x \in B /\ Has(x, StartL) /\ Has(x, StartH)
<1>9. ASSUME NEW x \in B, NEW y \in B PROVE x \o y \in B
  OBVIOUS
<1>10. ASSUME NEW x \in B, NEW y \in B, NEW z, Has(x, z) \/ Has(y, z) PROVE Has(x \o y, z)
  <2> DEFINE j == x \o y
  <2>1. /\ Len(j) = Len(x) + Len(y) /\ Len(x) \in Nat /\ Len(y) \in Nat
        /\ \A i \in 1..Len(x) : j[i] = x[i]
        /\ \A i \in 1..Len(y) : j[Len(x) + i] = y[i]
    BY JoinIs
  <2> HIDE DEF j
  <2>2. CASE Has(x, z)
    <3>1. PICK i \in 1..Len(x) : x[i] = z
      BY <2>2 DEF Has
    <3>2. i \in 1..Len(j) /\ j[i] = z
      BY <2>1, <3>1
    <3> QED BY <3>2 DEF Has, j
  <2>3. CASE Has(y, z)
    <3>1. PICK i \in 1..Len(y) : y[i] = z
      BY <2>3 DEF Has
    <3>2. Len(x) + i \in 1..Len(j) /\ j[Len(x) + i] = z
      BY <2>1, <3>1
    <3> QED BY <3>2 DEF Has, j
  <2> QED BY <1>10, <2>2, <2>3
<1>11. a \o b \o c \o d \in B
  BY <1>2, <1>3
<1> DEFINE r0 == a \o b \o c \o d
           r1 == r0 \o e
<1>12. P(r1)
  BY <1>8, <1>9, <1>10, <1>11
<1>13. ASSUME NEW x, NEW y \in B, P(x) PROVE P(x \o y)
  BY <1>9, <1>10, <1>13
<1>14. Spi!EthInit = r1 \o f \o g \o h \o m \o n \o o \o p \o q \o s \o t
  BY <1>1
<1> HIDE DEF P, B, r1, r0
<1>15. P(r1 \o f \o g \o h \o m)
  BY <1>3, <1>4, <1>12, <1>13
<1>16. P(Spi!EthInit)
  BY <1>3, <1>4, <1>5, <1>6, <1>7, <1>13, <1>14, <1>15
<1> QED BY <1>16 DEF P, B

-----------------------------------------------------------------------------
\* Nothing is lost when the registers of the transmitter keep their bytes, or
\* the controller has released TXRTS.
LEMMA TxKept ==
    ASSUME TxInv, UNCHANGED <<todo, txbuf, given>>, \A c \in {2, 3, 4, 5, 6, 7} : cells'[c] = cells[c],
           On' => On
    PROVE  TxInv'
<1>1. /\ Started' = Started /\ SentAsGiven' = SentAsGiven
      /\ \A len \in Frames, k \in 1..9 : Filled(len, k) => Filled(len, k)'
  <2>1. /\ cells'[2] = cells[2] /\ cells'[3] = cells[3] /\ cells'[4] = cells[4]
        /\ cells'[5] = cells[5] /\ cells'[6] = cells[6] /\ cells'[7] = cells[7]
    OBVIOUS
  <2> QED BY <2>1, CellsAre DEF Started, SentAsGiven, Filled, Holds, Spi!Pointer
<1>2. Booting => Booting'
  <2>1. cells'[4] = cells[4] /\ cells'[5] = cells[5]
    OBVIOUS
  <2> QED BY <2>1, CellsAre DEF Booting, HeadIs, Ahead, Holds
<1>3. Serving => Serving'
  BY <1>1 DEF Serving
<1>4. ASSUME NEW len \in Frames, Sending(len) PROVE Sending(len)'
  BY <1>1, <1>4 DEF Sending
<1> QED BY <1>1, <1>2, <1>3, <1>4 DEF TxInv

\* The controller clears TXRTS, and never sets it.
LEMMA ControllerTx ==
    ASSUME BankInv, TxInv, ControllerStep
    PROVE  TxInv'
<1>1. /\ UNCHANGED todo
      /\ \A c \in Spi!Cells \ {28, 31, 57, 89, 106} : cells'[c] = cells[c]
  BY ControllerTouches
<1>2. \A c \in {2, 3, 4, 5, 6, 7} : cells'[c] = cells[c]
  BY <1>1, TxRegsAre DEF TxRegs
<1>3. UNCHANGED <<txbuf, given>>
  BY DEF ControllerStep, Spi!TransmitEnds, Spi!TransmitAborts, Spi!PhyEnds, Spi!PacketArrives,
         Spi!transmitter
<1>4. On' => On
  <2>1. CASE Spi!TransmitEnds \/ Spi!TransmitAborts
    BY <2>1 DEF Spi!TransmitEnds, Spi!TransmitAborts, Spi!Transmitting, On, Econ1
  <2>2. CASE Spi!PhyEnds \/ Spi!PacketArrives
    <3>1. cells \in [Spi!Cells -> Int] /\ 31 \in Spi!Cells
      BY AreCells DEF BankInv
    <3>2. cells'[31] = cells[31]
      <4>1. CASE Spi!PhyEnds
        <5>1. PICK link \in {0, 4} :
                 cells' = [cells EXCEPT ![106] = 0,
                              ![89] = IF cells[Spi!CellOf(Spi!Reg.MICMD)] = 0 THEN @ ELSE link]
          BY <4>1, CellsAre DEF Spi!PhyEnds, Mistat
        <5> QED BY <3>1, <5>1
      <4>2. CASE Spi!PacketArrives
        <5>1. cells' = [cells EXCEPT ![57] = @ + 1]
          BY <4>2, CellsAre DEF Spi!PacketArrives
        <5> QED BY <3>1, <5>1
      <4> QED BY <2>2, <4>1, <4>2
    <3> QED BY <3>2, CellsAre DEF On
  <2> QED BY <2>1, <2>2 DEF ControllerStep
<1> QED BY <1>1, <1>2, <1>3, <1>4, TxKept

\* A call begins when ETXST is set.
LEMMA CallTx ==
    ASSUME TxInv, Spi!Call
    PROVE  TxInv'
<1>1. /\ todo = <<>> /\ todo' \in Spi!Calls /\ UNCHANGED <<cells, txbuf, given>>
  BY DEF Spi!Call, Spi!transmitter
<1>2. Started
  <2>1. Booting => Started
    <3>1. ~Ahead(StartL) /\ ~Ahead(StartH) /\ ~HeadIs("softreset")
      BY <1>1 DEF Ahead, HeadIs
    <3> QED BY <3>1 DEF Booting, Started
  <2> QED BY <2>1 DEF TxInv, Serving, Sending
<1>3. Started' /\ (On' => SentAsGiven')
  BY <1>1, <1>2 DEF TxInv, Started, Holds, On, SentAsGiven
<1>4. CASE todo' \in Seq(QuietOps)
  BY <1>3, <1>4 DEF TxInv, Serving
<1>5. CASE \E len \in Frames : todo' = Spi!PacketSend(len)
  <2>1. PICK len \in Frames : todo' = Spi!PacketSend(len)
    BY <1>5
  <2>2. todo' = From(len, 1)
    BY <2>1, FromIs
  <2>3. Filled(len, 1)'
    BY DEF Filled
  <2>4. Sending(len)'
    BY <1>3, <2>2, <2>3 DEF Sending
  <2> QED BY <1>3, <2>4 DEF TxInv
<1> QED BY <1>1, <1>4, <1>5, CallsQuiet

\* A restart leaves a transmission in progress alone.
LEMMA RestartTx ==
    ASSUME TxInv, Spi!Restart
    PROVE  TxInv'
<1>1. todo' = Spi!EthInit /\ UNCHANGED <<cells, txbuf, given>>
  BY DEF Spi!Restart, Spi!transmitter
<1>2. Ordered(Spi!EthInit) /\ Spi!EthInit # <<>> /\ Spi!EthInit[1].do = "softreset"
  BY InitWhole DEF Spi!Op
<1>3. Head(Spi!EthInit) = Spi!EthInit[1]
  BY <1>2 DEF Ordered
<1>4. Booting'
  BY <1>1, <1>2, <1>3, InitBoots DEF Booting, HeadIs, Ahead, Has
<1> QED BY <1>1, <1>4 DEF TxInv, On, SentAsGiven

\* What an access leaves to do.
LEMMA Leaves ==
    ASSUME BankInv, Spi!Access
    PROVE  /\ todo \in Seq(Ops) /\ todo # <<>> /\ Head(todo) \in Ops
           /\ Head(todo).data \in Int /\ cells \in [Spi!Cells -> Int] /\ got \in Int
           /\ \/ todo' = todo
              \/ todo' = Tail(todo)
              \/ Head(todo).do = "when" /\ todo' = Head(todo).then \o Tail(todo)
           /\ Head(todo).do \notin {"until", "poll", "when"} => todo' = Tail(todo)
           /\ Head(todo).do = "when" =>
                 todo' = Tail(todo) \/ todo' = Head(todo).then \o Tail(todo)
           /\ Head(todo).do # "buffer" => txbuf' = txbuf
           /\ Head(todo).do # "send" => given' = given
<1> DEFINE op == Head(todo)
           byte == Spi!Byte(cells, At(op))
<1>1. todo # <<>> /\ op \in Ops /\ todo' = Spi!After(op, byte, Tail(todo))
  BY AccessIs
<1>2. todo \in Seq(Ops) /\ op.data \in Int /\ cells \in [Spi!Cells -> Int] /\ got \in Int
  BY <1>1, HeadIsOp DEF BankInv, Ordered
<1>3. todo' = todo \/ todo' = Tail(todo) \/ op.do = "when"
  BY <1>1, AfterOrdered DEF BankInv
<1>4. /\ op.do = "when" => todo' = Tail(todo) \/ todo' = op.then \o Tail(todo)
      /\ op.do \notin {"until", "poll", "when"} => todo' = Tail(todo)
  BY <1>1 DEF Spi!After
<1>5. /\ op.do # "buffer" => txbuf' = txbuf
      /\ op.do # "send" => given' = given
  <2>1. Spi!Transmitter(op)
    BY DEF Spi!Access
  <2> HIDE DEF op
  <2> QED BY <2>1 DEF Spi!Transmitter
<1> QED BY <1>1, <1>2, <1>3, <1>4, <1>5

\* The start of the transmit area is written, or will be.
LEMMA StartComes ==
    ASSUME BankInv, Spi!Access, NEW c \in {4, 5}, NEW st, st.do = "write", At(st) = c,
           Writes(Head(todo)) /\ At(Head(todo)) = c => Head(todo) = st,
           Head(todo).do # "buffer",
           Ahead(st) \/ (Head(todo).do # "softreset" /\ cells[c] = st.data)
    PROVE  Ahead(st)' \/ cells'[c] = st.data
<1> DEFINE op == Head(todo)
<1>1. /\ todo \in Seq(Ops) /\ todo # <<>> /\ op \in Ops /\ op.data \in Int
      /\ cells \in [Spi!Cells -> Int] /\ got \in Int
      /\ todo' = todo \/ todo' = Tail(todo) \/ (op.do = "when" /\ todo' = op.then \o Tail(todo))
  BY Leaves
<1>2. cells' \in Spi!Effects(cells, op, At(op), got)
  BY AccessIs
<1>3. c \in TxRegs
  BY DEF TxRegs
<1>4. CASE op = st
  <2>1. Writes(op) /\ At(op) = c /\ op.do \notin {"softreset", "buffer"}
    BY <1>4 DEF Writes, Spi!Writing
  <2>2. cells'[c] = Spi!Stored(op, cells[c], got)
    BY <1>1, <1>2, <1>3, <2>1, Touches
  <2> QED BY <1>4, <2>2 DEF Spi!Stored
<1>5. CASE op # st /\ Ahead(st)
  <2>1. PICK i \in 1..Len(todo) : todo[i] = st
    BY <1>5 DEF Ahead
  <2> DEFINE t == Tail(todo)
  <2>2. /\ op = todo[1] /\ t \in Seq(Ops) /\ Len(todo) \in Nat /\ Len(t) = Len(todo) - 1
        /\ \A k \in 1..Len(t) : t[k] = todo[k + 1]
    BY <1>1, TailIs
  <2> HIDE DEF t
  <2>3. i - 1 \in 1..Len(t) /\ (i - 1) + 1 = i
    BY <1>5, <2>1, <2>2
  <2>4. t[i - 1] = st
    BY <2>1, <2>2, <2>3
  <2>5. \E k \in 1..Len(t) : t[k] = st
    BY <2>3, <2>4
  <2>6. CASE todo' = todo \/ todo' = t
    BY <1>5, <2>5, <2>6 DEF Ahead
  <2>7. CASE op.do = "when" /\ todo' = op.then \o t
    <3> DEFINE u == op.then
    <3>1. u \in Seq(Ops)
      <4>1. op \in Whens
        BY <1>1, <2>7 DEF Ops, Simple, Accesses, Sends, Dos
      <4>2. u \in Seq(Plain)
        BY <4>1 DEF Whens
      <4> QED BY <4>2 DEF Plain, Ops
    <3> HIDE DEF u
    <3>2. /\ Len(u \o t) = Len(u) + Len(t) /\ Len(u) \in Nat /\ Len(t) \in Nat
          /\ \A k \in 1..Len(t) : (u \o t)[Len(u) + k] = t[k]
      <4>1. t \in Seq(Ops) /\ Len(t) \in Nat /\ Len(u) \in Nat
        BY <2>2, <3>1
      <4> QED BY <3>1, <4>1, JoinIs
    <3>3. PICK k \in 1..Len(t) : t[k] = st
      BY <2>5
    <3> DEFINE j == u \o t
    <3>4. todo' = j
      BY <2>7 DEF u
    <3> HIDE DEF j
    <3>5. Len(u) + k \in 1..Len(j) /\ j[Len(u) + k] = st
      BY <3>2, <3>3 DEF j
    <3> QED BY <3>4, <3>5 DEF Ahead
  <2> QED BY <1>1, <2>6, <2>7 DEF t
<1>6. CASE op # st /\ op.do # "softreset" /\ cells[c] = st.data
  <2>1. ~(Writes(op) /\ At(op) = c)
    BY <1>6
  <2>2. cells'[c] = cells[c]
    BY <1>1, <1>2, <1>3, <1>6, <2>1, Touches
  <2> QED BY <1>6, <2>2
<1> QED BY <1>4, <1>5, <1>6

\* The initialisation ends transmissions and sets ETXST.
LEMMA BootTx ==
    ASSUME BankInv, Booting, Spi!Access
    PROVE  ~On' /\ Booting'
<1> DEFINE op == Head(todo)
<1>1. /\ todo \in Seq(BootOps) /\ todo # <<>> /\ op.data \in Int /\ op \in Ops
      /\ cells \in [Spi!Cells -> Int] /\ got \in Int
      /\ cells' \in Spi!Effects(cells, op, At(op), got)
  BY Leaves, AccessIs DEF Booting
<1>2. op \in BootOps /\ Tail(todo) \in Seq(BootOps)
  BY <1>1, TailIs
<1>3. /\ op \in Accesses /\ op.do # "buffer" /\ op.do # "when"
      /\ Writes(op) /\ At(op) = Econ1 => op = SetRxen
      /\ Writes(op) /\ At(op) \in StartCells => op \in {StartL, StartH}
  BY <1>2 DEF BootOps, Accesses, Dos
<1>4. todo' = todo \/ todo' = Tail(todo)
  BY <1>3, Leaves
<1>5. ~On'
  <2>1. CASE op.do = "softreset"
    <3>1. cells' = [c \in Spi!Cells |-> 0]
      BY <1>1, <2>1 DEF Spi!Effects, Spi!Writing
    <3>2. cells'[31] = 0
      BY <3>1, AreCells
    <3>3. Spi!And(0, Spi!ECON1_.TXRTS) = 0
      BY AndZero DEF Spi!ECON1_
    <3> QED BY <3>2, <3>3, CellsAre DEF On
  <2>2. CASE op.do # "softreset"
    <3>1. ~On
      BY <2>2 DEF Booting, HeadIs
    <3>2. 31 \in TxRegs /\ Econ1 = 31 /\ cells[31] \in Int
      BY <1>1, CellsAre, AreCells DEF TxRegs
    <3>3. IF Writes(op) /\ At(op) = 31 THEN cells'[31] = Spi!Stored(op, cells[31], got)
                                       ELSE cells'[31] = cells[31]
      BY <1>1, <1>3, <2>2, <3>2, Touches
    <3>4. CASE Writes(op) /\ At(op) = 31
      <4>1. op.do = "set" /\ op.data = 4
        BY <1>3, <3>2, <3>4 DEF SetRxen, Spi!WriteOp, Spi!Op, Spi!ECON1_
      <4>2. cells'[31] = Spi!Or(cells[31], 4)
        BY <3>3, <3>4, <4>1 DEF Spi!Stored
      <4>3. Spi!And(cells'[31], 8) = Spi!And(cells[31], 8)
        BY <3>2, <4>2, TxrtsKept
      <4> QED BY <3>1, <3>2, <4>3 DEF On, Spi!ECON1_
    <3>5. CASE ~(Writes(op) /\ At(op) = 31)
      BY <3>1, <3>2, <3>3, <3>5 DEF On
    <3> QED BY <3>4, <3>5
  <2> QED BY <2>1, <2>2
<1>6. ~HeadIs("softreset")'
  <2>1. op.do = "softreset" => todo' = Tail(todo)
    BY Leaves
  <2>2. Tail(todo) # <<>> => Head(Tail(todo)).do # "softreset"
    BY <1>1, OrderedTail DEF BankInv
  <2> QED BY <1>4, <2>1, <2>2 DEF HeadIs
<1>7. /\ StartL.do = "write" /\ At(StartL) = 4 /\ StartL.data = Low(Spi!TXSTART_INIT)
      /\ StartH.do = "write" /\ At(StartH) = 5 /\ StartH.data = High(Spi!TXSTART_INIT)
  BY CellsAre DEF StartL, StartH, Spi!Write, Spi!Op, At
<1>8. /\ Ahead(StartL) \/ (op.do # "softreset" /\ cells[4] = StartL.data)
      /\ Ahead(StartH) \/ (op.do # "softreset" /\ cells[5] = StartH.data)
  BY <1>1, <1>7, CellsAre DEF Booting, HeadIs, Holds
<1>9. /\ Writes(op) /\ At(op) = 4 => op = StartL
      /\ Writes(op) /\ At(op) = 5 => op = StartH
  BY <1>3, <1>7, TxRegsAre
<1>10. Ahead(StartL)' \/ cells'[4] = StartL.data
  BY <1>3, <1>7, <1>8, <1>9, StartComes
<1>11. Ahead(StartH)' \/ cells'[5] = StartH.data
  BY <1>3, <1>7, <1>8, <1>9, StartComes
<1>12. todo' \in Seq(BootOps)
  BY <1>1, <1>2, <1>4
<1> QED BY <1>5, <1>6, <1>7, <1>10, <1>11, <1>12, CellsAre DEF Booting, Holds

\* Other calls leave the transmitter alone.
LEMMA QuietTx ==
    ASSUME BankInv, Serving, On => SentAsGiven, Spi!Access
    PROVE  (On' => SentAsGiven') /\ Serving'
<1> DEFINE op == Head(todo)
<1>1. /\ todo \in Seq(QuietOps) /\ todo # <<>> /\ op.data \in Int /\ op \in Ops
      /\ cells \in [Spi!Cells -> Int] /\ got \in Int
      /\ cells' \in Spi!Effects(cells, op, At(op), got)
  BY Leaves, AccessIs DEF Serving
<1>2. op \in QuietOps /\ Tail(todo) \in Seq(QuietOps)
  BY <1>1, TailIs
<1>3. /\ op.do \notin {"buffer", "send", "softreset"} /\ ~(Writes(op) /\ At(op) \in TxCells)
      /\ op.do = "when" => \A i \in 1..Len(op.then) : Quiet(op.then[i])
  BY <1>2 DEF QuietOps, Quiet
<1>4. txbuf' = txbuf /\ given' = given
  BY <1>3, Leaves
<1>5. \A c \in {4, 5, 6, 7, 31} : cells'[c] = cells[c]
  <2> TAKE c \in {4, 5, 6, 7, 31}
  <2>1. c \in TxRegs /\ ~(Writes(op) /\ At(op) = c)
    BY <1>3, TxRegsAre DEF TxRegs
  <2> QED BY <1>1, <1>3, <2>1, Touches
<1>6. On' = On /\ SentAsGiven' = SentAsGiven /\ Started' = Started
  <2>1. /\ cells'[4] = cells[4] /\ cells'[5] = cells[5] /\ cells'[6] = cells[6]
        /\ cells'[7] = cells[7] /\ cells'[31] = cells[31]
    BY <1>5
  <2> QED BY <1>4, <2>1, CellsAre DEF On, SentAsGiven, Started, Holds, Spi!Pointer
<1>7. op.do = "when" => op.then \in Seq(QuietOps)
  <2> SUFFICES ASSUME op.do = "when" PROVE op.then \in Seq(QuietOps)
    OBVIOUS
  <2> DEFINE u == op.then
  <2>1. op \in Whens
    BY <1>1 DEF Ops, Simple, Accesses, Sends, Dos
  <2>2. u \in Seq(Plain)
    BY <2>1 DEF Whens
  <2>3. \A i \in 1..Len(u) : Quiet(u[i])
    BY <1>3
  <2> HIDE DEF u
  <2>4. ASSUME NEW i \in 1..Len(u) PROVE u[i] \in QuietOps
    <3>1. u[i] \in Plain
      BY <2>2
    <3>2. u[i] \in Ops /\ u[i].do # "when"
      BY <3>1 DEF Plain, Ops, Simple, Accesses, Sends, Dos
    <3> QED BY <2>3, <3>2 DEF QuietOps
  <2>5. u \in Seq(QuietOps)
    BY <2>2, <2>4
  <2> QED BY <2>5 DEF u
<1>8. todo' \in Seq(QuietOps)
  <2>1. todo' = todo \/ todo' = Tail(todo) \/ (op.do = "when" /\ todo' = op.then \o Tail(todo))
    BY Leaves
  <2> HIDE DEF op
  <2>2. CASE op.do = "when" /\ todo' = op.then \o Tail(todo)
    <3> DEFINE u == op.then
               t == Tail(todo)
    <3>1. u \in Seq(QuietOps) /\ t \in Seq(QuietOps) /\ todo' = u \o t
      BY <1>2, <1>7, <2>2
    <3> HIDE DEF u, t
    <3> QED BY <3>1
  <2> QED BY <1>1, <1>2, <2>1, <2>2
<1> QED BY <1>6, <1>8 DEF Serving

\* The operations of that way out.
LEMMA UnblockSteps ==
    /\ Unblock \in Seq(Ops) /\ Len(Unblock) = 3
    /\ Unblock[1] = Spi!WriteOp("set", Spi!Reg.ECON1, 128)
    /\ Unblock[2] = Spi!WriteOp("clear", Spi!Reg.ECON1, 128)
    /\ Unblock[3] = Spi!WriteOp("clear", Spi!Reg.EIR, 2)
    /\ SubSeq(Unblock, 1, 3) = Unblock /\ SubSeq(Unblock, 4, 3) = <<>>
<1>1. /\ Len(Unblock) = 3
      /\ Unblock[1] = Spi!WriteOp("set", Spi!Reg.ECON1, 128)
      /\ Unblock[2] = Spi!WriteOp("clear", Spi!Reg.ECON1, 128)
      /\ Unblock[3] = Spi!WriteOp("clear", Spi!Reg.EIR, 2)
  BY UnblockIs
<1>2. Unblock \in Seq(Ops)
  <2>1. Unblock \in Seq(Plain)
    BY UnblockIs
  <2> QED BY <2>1 DEF Plain, Ops
<1>3. SubSeq(Unblock, 1, Len(Unblock)) = Unblock /\ SubSeq(Unblock, Len(Unblock) + 1, Len(Unblock)) = <<>>
  BY <1>2, SuffixEnds
<1>4. 3 + 1 = 4
  OBVIOUS
<1> QED BY <1>1, <1>2, <1>3, <1>4

\* The operations of PacketSend, one after the other.
LEMMA SendingStep ==
    ASSUME BankInv, NEW len \in Frames, Started, NEW k \in 1..9, todo = From(len, k),
           Filled(len, k), On => SentAsGiven, Spi!Access
    PROVE  (On' => SentAsGiven') /\ (Sending(len)' \/ Serving')
<1> DEFINE op == Head(todo)
           s == Spi!PacketSend(len)
<1>1. /\ todo # <<>> /\ op.data \in Int /\ op \in Ops
      /\ cells \in [Spi!Cells -> Int] /\ got \in Int
      /\ cells' \in Spi!Effects(cells, op, At(op), got)
      /\ todo' = Spi!After(op, Spi!Byte(cells, At(op)), Tail(todo))
  BY Leaves, AccessIs
<1>2. op = s[k] /\ Tail(todo) = From(len, k + 1)
  BY FromIs
<1>3. TxRegs \subseteq Spi!Cells /\ Econ1 = 31 /\ cells[31] \in Int
  BY <1>1, CellsAre, AreCells, TxRegsAre
<1>a. \A p \in Int : Low(p) + 256 * High(p) = p /\ Low(p) \in Int /\ High(p) \in Int
  BY DEF Low, High
<1>4. ASSUME NEW c \in TxRegs, op.do \notin {"softreset", "buffer"}
      PROVE  IF Writes(op) /\ At(op) = c THEN cells'[c] = Spi!Stored(op, cells[c], got)
                                        ELSE cells'[c] = cells[c]
  BY <1>1, <1>4, Touches
<1>5. CASE k = 1
  <2>1. op = Spi!Op("poll", Spi!Reg.ECON1, Spi!ECON1_.TXRTS)
    BY <1>2, <1>5, SendSteps
  <2>2. op.do = "poll" /\ op.reg = Spi!Reg.ECON1 /\ op.data = Spi!ECON1_.TXRTS
    BY <2>1 DEF Spi!Op
  <2>3. UNCHANGED <<txbuf, given, cells>>
    BY <1>1, <2>2, Leaves DEF Spi!Effects, Spi!Writing
  <2>4. On' = On /\ SentAsGiven' = SentAsGiven /\ Started' = Started
    BY <2>3 DEF On, SentAsGiven, Started, Holds
  <2>5. Spi!Byte(cells, At(op)) = cells[Econ1]
    BY <1>3, <2>2 DEF Spi!Byte, At, Econ1, TxRegs
  <2>6. CASE On
    <3>1. todo' = <<op>> \o Tail(todo)
      BY <1>1, <2>2, <2>5, <2>6 DEF Spi!After, On
    <3>2. todo' = todo
      BY <1>1, <3>1, HeadAndTail, FromIs
    <3>3. Filled(len, 1)'
      BY DEF Filled
    <3>4. todo' = From(len, 1)
      BY <1>5, <3>2
    <3>5. Sending(len)'
      BY <2>4, <3>3, <3>4 DEF Sending
    <3> QED BY <2>4, <3>5
  <2>7. CASE ~On
    <3>1. todo' = From(len, 2)
      BY <1>1, <1>2, <1>5, <2>2, <2>5, <2>7 DEF Spi!After, On
    <3>2. Filled(len, 2)'
      BY <2>4, <2>7 DEF Filled
    <3> QED BY <2>4, <2>7, <3>1, <3>2 DEF Sending
  <2> QED BY <2>6, <2>7
<1>6. CASE k = 2
  <2>1. ~On
    BY <1>6 DEF Filled
  <2>2. op = Spi!When(Spi!Reg.EIR, Spi!EIR_TXERIF, Unblock)
    BY <1>2, <1>6, SendSteps
  <2>3. op.do = "when" /\ op.then = Unblock
    BY <2>2 DEF Spi!When
  <2>4. UNCHANGED <<txbuf, given, cells>>
    BY <1>1, <2>3, Leaves DEF Spi!Effects, Spi!Writing
  <2>5. ~On' /\ Started'
    BY <2>1, <2>4 DEF On, Started, Holds
  <2>6. todo' = From(len, 3) \/ todo' = Unblock \o From(len, 3)
    <3>1. todo' = Tail(todo) \/ todo' = op.then \o Tail(todo)
      BY <2>3, Leaves
    <3>2. Tail(todo) = From(len, 3)
      BY <1>2, <1>6
    <3> QED BY <2>3, <3>1, <3>2
  <2>7. CASE todo' = From(len, 3)
    <3>1. Filled(len, 3)'
      BY <2>5 DEF Filled
    <3> QED BY <2>5, <2>7, <3>1 DEF Sending
  <2>8. CASE todo' = Unblock \o From(len, 3)
    <3>1. todo' = SubSeq(Unblock, 1, 3) \o From(len, 3)
      BY <2>8, UnblockSteps
    <3> QED BY <2>5, <3>1 DEF Sending
  <2> QED BY <2>6, <2>7, <2>8
<1>7. CASE k \in 3..6
  <2> DEFINE r == IF k = 3 THEN 2 ELSE IF k = 4 THEN 3 ELSE IF k = 5 THEN 6 ELSE 7
             v == IF k = 3 THEN Low(Spi!TXSTART_INIT) ELSE IF k = 4 THEN High(Spi!TXSTART_INIT)
                  ELSE IF k = 5 THEN Low(Spi!TXSTART_INIT + len) ELSE High(Spi!TXSTART_INIT + len)
  <2>1. op.do = "write" /\ At(op) = r /\ op.data = v
    <3>1. /\ k = 3 => op = Spi!Write(Spi!Reg.EWRPTL, Low(Spi!TXSTART_INIT))
          /\ k = 4 => op = Spi!Write(Spi!Reg.EWRPTL + 1, High(Spi!TXSTART_INIT))
          /\ k = 5 => op = Spi!Write(Spi!Reg.ETXNDL, Low(Spi!TXSTART_INIT + len))
          /\ k = 6 => op = Spi!Write(Spi!Reg.ETXNDL + 1, High(Spi!TXSTART_INIT + len))
      BY <1>2, SendSteps
    <3> HIDE DEF op
    <3> QED BY <1>7, <3>1, CellsAre DEF Spi!Write, Spi!Op, At
  <2>2. r \in TxRegs /\ r # 31 /\ r \notin {4, 5} /\ Writes(op)
    BY <2>1 DEF TxRegs, Writes, Spi!Writing
  <2> HIDE DEF v, op
  <2>3. cells'[r] = v /\ \A c \in TxRegs \ {r} : cells'[c] = cells[c]
    BY <1>4, <2>1, <2>2 DEF Spi!Stored
  <2>4. todo' = From(len, k + 1) /\ UNCHANGED <<txbuf, given>>
    BY <1>2, <2>1, Leaves DEF op
  <2>5. ~On' /\ Started'
    <3>1. ~On
      BY <1>7 DEF Filled
    <3>2. cells'[31] = cells[31] /\ cells'[4] = cells[4] /\ cells'[5] = cells[5]
      BY <2>2, <2>3 DEF TxRegs
    <3> QED BY <3>1, <3>2, <1>3, CellsAre DEF On, Started, Holds
  <2>6. Filled(len, k + 1)'
    <3>1. /\ k = 3 => cells'[2] = Low(Spi!TXSTART_INIT)
          /\ k = 4 => cells'[3] = High(Spi!TXSTART_INIT) /\ cells'[2] = cells[2]
          /\ k = 5 => /\ cells'[6] = Low(Spi!TXSTART_INIT + len) /\ cells'[2] = cells[2]
                      /\ cells'[3] = cells[3]
          /\ k = 6 => /\ cells'[7] = High(Spi!TXSTART_INIT + len) /\ cells'[2] = cells[2]
                      /\ cells'[3] = cells[3] /\ cells'[6] = cells[6]
      BY <2>3 DEF TxRegs, v
    <3>2. k \in {3, 4, 5, 6}
      BY <1>7
    <3> HIDE DEF r
    <3> QED BY <2>5, <3>1, <3>2, CellsAre DEF Filled, Holds
  <2>7. k + 1 \in 1..9
    BY <1>7
  <2> QED BY <2>4, <2>5, <2>6, <2>7 DEF Sending
<1>8. CASE k \in {7, 8}
  <2>1. op.do = "buffer" /\ op.data = IF k = 7 THEN 1 ELSE len
    <3>1. (k = 7 => op = Spi!Op("buffer", 0, 1)) /\ (k = 8 => op = Spi!Op("buffer", 0, len))
      BY <1>2, SendSteps
    <3> HIDE DEF op
    <3> QED BY <1>8, <3>1 DEF Spi!Op
  <2>2. \A c \in {4, 5, 6, 7, 31} : cells'[c] = cells[c]
    <3>1. cells' = Spi!Advanced(cells, Spi!Reg.EWRPTL, op.data)
      BY <1>1, <2>1 DEF Spi!Effects, Spi!Writing
    <3> DEFINE p == Spi!Pointer(cells, Spi!Reg.EWRPTL) + op.data
    <3>2. cells' = [cells EXCEPT ![2] = p % 256, ![3] = p \div 256]
      BY <3>1, CellsAre DEF Spi!Advanced
    <3> HIDE DEF p
    <3>3. cells \in [Spi!Cells -> Int] /\ {4, 5, 6, 7, 31} \subseteq Spi!Cells
      BY <1>1, AreCells
    <3> QED BY <3>2, <3>3
  <2>3. /\ cells'[4] = cells[4] /\ cells'[5] = cells[5] /\ cells'[6] = cells[6]
        /\ cells'[7] = cells[7] /\ cells'[31] = cells[31]
    BY <2>2
  <2>4. ~On' /\ Started'
    <3>1. ~On
      BY <1>8 DEF Filled
    <3> QED BY <3>1, <2>3, CellsAre DEF On, Started, Holds
  <2>5. todo' = From(len, k + 1)
    BY <1>2, <2>1, Leaves
  <2>6. Spi!Transmitter(op)
    BY DEF Spi!Access
  <2>7. (k = 7 => txbuf' = Spi!Control) /\ (k = 8 => txbuf' = len)
    <3>1. k = 7 => Spi!Pointer(cells, Spi!Reg.EWRPTL) = Spi!TXSTART_INIT
      <4>1. k = 7 => cells[2] = Low(Spi!TXSTART_INIT) /\ cells[3] = High(Spi!TXSTART_INIT)
        BY CellsAre DEF Filled, Holds
      <4>2. Spi!TXSTART_INIT \in Int
        BY DEF Spi!TXSTART_INIT, Spi!RXSTOP_INIT
      <4> QED BY <1>a, <4>1, <4>2, CellsAre DEF Spi!Pointer
    <3>2. k = 7 => txbuf' = Spi!Control
      <4> HIDE DEF op
      <4> QED BY <2>1, <2>6, <3>1 DEF Spi!Transmitter
    <3>3. k = 8 => txbuf' = len
      <4>1. len # 1
        BY DriverAssumption DEF Spi!DriverConstants
      <4>2. k = 8 => txbuf = Spi!Control
        BY DEF Filled
      <4> HIDE DEF op
      <4> QED BY <2>1, <2>6, <4>1, <4>2 DEF Spi!Transmitter
    <3> QED BY <3>2, <3>3
  <2>8. Filled(len, k + 1)'
    <3>1. /\ cells[6] = Low(Spi!TXSTART_INIT + len)
          /\ cells[7] = High(Spi!TXSTART_INIT + len)
      BY <1>8, CellsAre DEF Filled, Holds
    <3> QED BY <1>8, <2>3, <2>4, <2>7, <3>1, CellsAre DEF Filled, Holds
  <2>9. k + 1 \in 1..9
    BY <1>8
  <2> QED BY <2>4, <2>5, <2>8, <2>9 DEF Sending
<1>9. CASE k = 9
  <2>1. op = Spi!Send(len)
    BY <1>2, <1>9, SendSteps
  <2>2. op.do = "send" /\ op.reg = Spi!Reg.ECON1 /\ op.frame = len
    BY <2>1 DEF Spi!Send
  <2>3. At(op) = 31
    BY <2>2, CellsAre DEF At, Econ1
  <2>4. \A c \in {4, 5, 6, 7} : cells'[c] = cells[c]
    <3> HIDE DEF op
    <3> TAKE c \in {4, 5, 6, 7}
    <3>1. c \in TxRegs /\ c # 31
      BY DEF TxRegs
    <3> QED BY <1>4, <2>2, <2>3, <3>1
  <2>5. cells'[4] = cells[4] /\ cells'[5] = cells[5] /\ cells'[6] = cells[6] /\ cells'[7] = cells[7]
    BY <2>4
  <2>6. todo' = <<>>
    <3>1. From(len, 10) = <<>>
      BY FromIs
    <3> QED BY <1>2, <1>9, <2>2, <3>1, Leaves
  <2>7. txbuf' = len /\ given' = len
    <3>1. Spi!Transmitter(op)
      BY DEF Spi!Access
    <3>2. txbuf = len
      BY <1>9 DEF Filled
    <3> HIDE DEF op
    <3> QED BY <2>2, <3>1, <3>2 DEF Spi!Transmitter
  <2>8. Started'
    BY <2>5, CellsAre DEF Started, Holds
  <2>9. /\ Holds(Spi!Reg.ETXNDL, Low(Spi!TXSTART_INIT + len))'
        /\ Holds(Spi!Reg.ETXNDH, High(Spi!TXSTART_INIT + len))'
    BY <1>9, <2>5, CellsAre DEF Filled, Holds
  <2>10. SentAsGiven'
    <3>1. len \in Int /\ Spi!TXSTART_INIT \in Int /\ Spi!TXSTART_INIT + len \in Int
      BY DriverAssumption DEF Spi!DriverConstants, Spi!TXSTART_INIT, Spi!RXSTOP_INIT
    <3>2. /\ Spi!Pointer(cells', Spi!Reg.ETXSTL) = Low(Spi!TXSTART_INIT) + 256 * High(Spi!TXSTART_INIT)
          /\ Spi!Pointer(cells', Spi!Reg.ETXNDL)
               = Low(Spi!TXSTART_INIT + len) + 256 * High(Spi!TXSTART_INIT + len)
      BY <2>8, <2>9, CellsAre DEF Started, Holds, Spi!Pointer
    <3>3. /\ Spi!Pointer(cells', Spi!Reg.ETXSTL) = Spi!TXSTART_INIT
          /\ Spi!Pointer(cells', Spi!Reg.ETXNDL) = Spi!TXSTART_INIT + len
      BY <1>a, <3>1, <3>2
    <3>4. Spi!Pointer(cells', Spi!Reg.ETXNDL) - Spi!Pointer(cells', Spi!Reg.ETXSTL) = len
      BY <3>1, <3>3
    <3> QED BY <2>7, <3>4 DEF SentAsGiven
  <2>11. Serving'
    BY <2>6, <2>8 DEF Serving
  <2> QED BY <2>10, <2>11
<1> QED BY <1>5, <1>6, <1>7, <1>8, <1>9

\* The way out of an aborted transmission, on the way to the next one.
LEMMA UnblockStep ==
    ASSUME BankInv, NEW len \in Frames, Started, NEW j \in 1..3,
           todo = SubSeq(Unblock, j, 3) \o From(len, 3), ~On, Spi!Access
    PROVE  ~On' /\ Sending(len)'
<1> DEFINE op == Head(todo)
           u == SubSeq(Unblock, j, 3)
           t == From(len, 3)
<1>1. /\ todo # <<>> /\ op.data \in Int /\ op \in Ops
      /\ cells \in [Spi!Cells -> Int] /\ got \in Int
      /\ cells' \in Spi!Effects(cells, op, At(op), got)
  BY Leaves, AccessIs
<1>2. u \in Seq(Ops) /\ u # <<>> /\ Head(u) = Unblock[j] /\ Tail(u) = SubSeq(Unblock, j + 1, 3)
  <2>1. Unblock \in Seq(Ops) /\ j \in 1..Len(Unblock) /\ Len(Unblock) = 3
    BY UnblockSteps
  <2> HIDE DEF u
  <2>2. LET v == SubSeq(Unblock, j, Len(Unblock))
        IN  /\ v \in Seq(Ops) /\ v # <<>> /\ Head(v) = Unblock[j]
            /\ Tail(v) = SubSeq(Unblock, j + 1, Len(Unblock))
    BY <2>1, SuffixIs
  <2> QED BY <2>1, <2>2 DEF u
<1>3. t \in Seq(Ops)
  BY FromIs
<1>4. todo = u \o t
  OBVIOUS
<1> HIDE DEF u, t
<1>5. Head(todo) = Unblock[j] /\ Tail(todo) = SubSeq(Unblock, j + 1, 3) \o t
  BY <1>2, <1>3, <1>4, HeadTailOfJoin
<1>6. /\ j = 1 => op.do = "set" /\ op.reg = Spi!Reg.ECON1 /\ op.data = 128
      /\ j = 2 => op.do = "clear" /\ op.reg = Spi!Reg.ECON1 /\ op.data = 128
      /\ j = 3 => op.do = "clear" /\ op.reg = Spi!Reg.EIR /\ op.data = 2
  <2>1. /\ j = 1 => op = Spi!WriteOp("set", Spi!Reg.ECON1, 128)
        /\ j = 2 => op = Spi!WriteOp("clear", Spi!Reg.ECON1, 128)
        /\ j = 3 => op = Spi!WriteOp("clear", Spi!Reg.EIR, 2)
    BY <1>5, UnblockSteps
  <2> HIDE DEF op
  <2> QED BY <2>1 DEF Spi!WriteOp, Spi!Op
<1>7. op.do \in {"set", "clear"} /\ (j < 3 => At(op) = 31) /\ (j = 3 => At(op) = 28)
  BY <1>6, CellsAre DEF At, Econ1
<1>8. ASSUME NEW c \in TxRegs
      PROVE  IF Writes(op) /\ At(op) = c THEN cells'[c] = Spi!Stored(op, cells[c], got)
                                        ELSE cells'[c] = cells[c]
  BY <1>1, <1>7, <1>8, Touches
<1>9. Writes(op) /\ {4, 5, 31} \subseteq TxRegs /\ cells[31] \in Int
  BY <1>1, <1>7, AreCells DEF Writes, Spi!Writing, TxRegs
<1> HIDE DEF op
<1>10. Started'
  <2>1. cells'[4] = cells[4] /\ cells'[5] = cells[5]
    BY <1>7, <1>8, <1>9
  <2> QED BY <2>1, CellsAre DEF Started, Holds
<1>11. ~On'
  <2>1. Spi!And(cells'[31], 8) = Spi!And(cells[31], 8)
    <3>1. j = 1 => cells'[31] = Spi!Or(cells[31], 128)
      BY <1>6, <1>7, <1>8, <1>9 DEF Spi!Stored
    <3>2. j = 2 => cells'[31] = Spi!Without(cells[31], 128)
      BY <1>6, <1>7, <1>8, <1>9 DEF Spi!Stored
    <3>3. j = 3 => cells'[31] = cells[31]
      BY <1>7, <1>8, <1>9
    <3> QED BY <1>9, <3>1, <3>2, <3>3, TxrtsKept
  <2> QED BY <2>1, CellsAre DEF On, Spi!ECON1_
<1>12. todo' = Tail(todo)
  BY <1>7, Leaves DEF op
<1>13. CASE j < 3
  <2>1. j + 1 \in 1..3
    BY <1>13
  <2>2. todo' = SubSeq(Unblock, j + 1, 3) \o t
    BY <1>5, <1>12
  <2>3. todo' = SubSeq(Unblock, j + 1, 3) \o From(len, 3)
    BY <2>2 DEF t
  <2> QED BY <1>10, <1>11, <2>1, <2>3 DEF Sending
<1>14. CASE j = 3
  <2>1. SubSeq(Unblock, j + 1, 3) = <<>>
    BY <1>14, UnblockSteps
  <2>2. <<>> \o t = t
    BY <1>3
  <2>3. todo' = From(len, 3)
    BY <1>5, <1>12, <2>1, <2>2 DEF t
  <2>4. Filled(len, 3)'
    BY <1>11 DEF Filled
  <2> QED BY <1>10, <1>11, <2>3, <2>4 DEF Sending
<1> QED BY <1>11, <1>13, <1>14

\* TxInv is inductive.
LEMMA TxInductive ==
    ASSUME BankInv, TxInv, [Spi!Next]_drivervars
    PROVE  TxInv'
<1>1. CASE Spi!ClearBank \/ Spi!SelectBank \/ UNCHANGED drivervars
  <2>1. UNCHANGED <<cells, todo, txbuf, given>>
    BY <1>1 DEF Spi!ClearBank, Spi!SelectBank, Spi!transmitter, drivervars
  <2> QED BY <2>1, TxKept DEF On
<1>2. CASE Spi!Access
  <2>1. CASE Booting
    BY <1>2, <2>1, BootTx DEF TxInv
  <2>2. CASE Serving
    BY <1>2, <2>2, QuietTx DEF TxInv
  <2>3. CASE \E len \in Frames : Sending(len)
    <3>1. PICK len \in Frames : Sending(len)
      BY <2>3
    <3>2. CASE \E k \in 1..9 : todo = From(len, k) /\ Filled(len, k)
      BY <1>2, <3>1, <3>2, SendingStep DEF TxInv, Sending
    <3>3. CASE \E j \in 1..3 : todo = SubSeq(Unblock, j, 3) \o From(len, 3) /\ ~On
      BY <1>2, <3>1, <3>3, UnblockStep DEF TxInv, Sending
    <3> QED BY <3>1, <3>2, <3>3 DEF Sending
  <2> QED BY <2>1, <2>2, <2>3 DEF TxInv
<1> QED BY <1>1, <1>2, CallTx, RestartTx, ControllerTx
        DEF Spi!Next, Spi!Driver, ControllerStep

\* Nothing is sent at power-up.
LEMMA InitTx ==
    ASSUME Spi!Init
    PROVE  TxInv
<1>1. todo = Spi!EthInit /\ cells = [c \in Spi!Cells |-> 0]
  BY DEF Spi!Init
<1>2. Ordered(Spi!EthInit) /\ Spi!EthInit # <<>> /\ Spi!EthInit[1].do = "softreset"
  BY InitWhole DEF Spi!Op
<1>3. Head(Spi!EthInit) = Spi!EthInit[1]
  BY <1>2 DEF Ordered
<1>4. Booting
  BY <1>1, <1>2, <1>3, InitBoots DEF Booting, HeadIs, Ahead, Has
<1>5. cells[31] = 0
  BY <1>1, AreCells
<1>6. Spi!And(0, Spi!ECON1_.TXRTS) = 0
  BY AndZero DEF Spi!ECON1_
<1>7. ~On
  BY <1>5, <1>6, CellsAre DEF On
<1> QED BY <1>4, <1>7 DEF TxInv

\* enc28j60.c:285-309: what the controller transmits is the frame given, and all of
\* it, though the call that gave it has returned.
THEOREM DriverFrameAsGiven ==
    MCSpec => []FrameAsGiven
<1>1. MCInit => TxInv
  BY InitTx DEF MCInit
<1>2. BankInv /\ TxInv /\ [MCNext]_mcvars => TxInv'
  BY RegistersStep, TxInductive
<1>3. TxInv => FrameAsGiven
  BY DEF TxInv, On, SentAsGiven, Econ1, FrameAsGiven, Spi!FrameAsGiven, Spi!Transmitting
<1> QED BY <1>1, <1>2, <1>3, DriverBanks, PTL DEF MCSpec
=============================================================================
