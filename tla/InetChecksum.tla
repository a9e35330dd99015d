---------------------------- MODULE InetChecksum ---------------------------
(***************************************************************************)
(* checksum() of avr/gpsdo/net/ip_arp_udp_tcp.c, which every IP, ICMP, UDP *)
(* and TCP header the board sends gets its checksum from, as the loop it   *)
(* is: words are added into a wide sum, a last odd byte is padded with     *)
(* zero, carries are folded back until none is left, and the complement is *)
(* returned.  The receiver's test is defined without any of this: a total  *)
(* is acceptable when it is a positive multiple of WORD - 1.               *)
(*                                                                         *)
(* A packet that is a ping is then answered: the reply is the request with *)
(* another type, and its checksum is not computed but corrected.  The      *)
(* request is another host's, with the checksum any host would compute.    *)
(***************************************************************************)
EXTENDS Integers, Sequences, Functions

CONSTANTS
    BYTE,       \* 256
    MAX_LEN,    \* longest packet that is summed
    STARTS,     \* what the pseudo header adds: protocol and length, or 0 (ICMP)
    ECHOREQUEST \* 8: the ICMP type of a request, the one of a reply is 0

WORD == BYTE * BYTE
Byte == 0..(BYTE - 1)

ChecksumConstants ==
    /\ BYTE \in Nat /\ BYTE >= 2 /\ MAX_LEN \in Nat
    /\ ECHOREQUEST \in 1..(BYTE - 1)
    /\ \A s \in STARTS : s \in Nat /\ s + (MAX_LEN + 1) * WORD < WORD * WORD

VARIABLES bytes, start, i, sum, pc, ck

vars == <<bytes, start, i, sum, pc, ck>>

Init ==
    /\ \E n \in 0..MAX_LEN : bytes \in [1..n -> Byte]
    /\ start \in STARTS
    /\ i = 1 /\ sum = start
    /\ pc = "add" /\ ck = 0

AddWord ==
    /\ pc = "add" /\ i < Len(bytes)
    /\ sum' = sum + bytes[i] * BYTE + bytes[i + 1]
    /\ i' = i + 2
    /\ UNCHANGED <<bytes, start, pc, ck>>

\* Mutant of Padded: the odd byte is taken for the low one.
PaddedLow(b) == b
Padded(b) == b * BYTE
AddOddByte ==
    /\ pc = "add" /\ i = Len(bytes)
    /\ sum' = sum + Padded(bytes[i])
    /\ i' = i + 1
    /\ UNCHANGED <<bytes, start, pc, ck>>

AddDone ==
    /\ pc = "add" /\ i > Len(bytes)
    /\ pc' = "fold"
    /\ UNCHANGED <<bytes, start, i, sum, ck>>

\* Mutant of Folded: the carry is dropped.
FoldedNoCarry(s) == s % WORD
Folded(s) == (s % WORD) + (s \div WORD)
FoldCarry ==
    /\ pc = "fold" /\ sum >= WORD
    /\ sum' = Folded(sum)
    /\ UNCHANGED <<bytes, start, i, pc, ck>>

Complemented(s) == (WORD - 1) - s
Complement ==
    /\ pc = "fold" /\ sum < WORD
    /\ ck' = Complemented(sum)
    /\ pc' = "done"
    /\ UNCHANGED <<bytes, start, i, sum>>

\* Mutant of Corrected: the high byte alone.
CorrectedHighOnly(c) ==
    ((c \div BYTE + ECHOREQUEST) % BYTE) * BYTE + (c % BYTE)
\* The difference is added to the high byte, and its carry to the low one, whose
\* own carry goes nowhere.
Corrected(c) ==
    LET hi == c \div BYTE
        lo == c % BYTE
    IN  ((hi + ECHOREQUEST) % BYTE) * BYTE
            + (IF hi > BYTE - 1 - ECHOREQUEST THEN (lo + 1) % BYTE ELSE lo)

\* make_echo_reply_from_request
EchoReply ==
    /\ pc = "done" /\ start = 0 /\ Len(bytes) >= 2 /\ bytes[1] = ECHOREQUEST
    /\ bytes' = [bytes EXCEPT ![1] = 0]
    /\ ck' = Corrected(ck)
    /\ pc' = "replied"
    /\ UNCHANGED <<start, i, sum>>

Next == AddWord \/ AddOddByte \/ AddDone \/ FoldCarry \/ Complement \/ EchoReply

Spec == Init /\ [][Next]_vars

-----------------------------------------------------------------------------
(* Properties *)

\* The receiver: what it adds up over the packet and the checksum.
Acceptable(total) == total > 0 /\ total % (WORD - 1) = 0
Weight(k) == IF k % 2 = 1 THEN BYTE ELSE 1
Total(s) == SumFunction([k \in DOMAIN s |-> s[k] * Weight(k)])

\* Whatever the packet and however many carries the sum needs, a packet that is
\* sent with the checksum of checksum() is acceptable to its receiver.
ReceiverAccepts == pc = "done" => Acceptable(start + Total(bytes) + ck)

\* ip_arp_udp_tcp.c:383-386: the corrected checksum of a reply is acceptable to
\* its receiver, except in one case, and always except then: the carry out of the
\* high byte has made the low byte wrap, and that second carry was lost.
CarryLost == ck \div BYTE < ECHOREQUEST /\ ck % BYTE = 0
EchoReplyValid == pc = "replied" => (Acceptable(Total(bytes) + ck) <=> ~CarryLost)

\* The checksum fits its two bytes, and the 32-bit sum never overflows.
TypeOK == ck \in 0..(WORD - 1) /\ sum < WORD * WORD
=============================================================================
