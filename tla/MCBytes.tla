------------------------------ MODULE MCBytes -------------------------------
(***************************************************************************)
(* For TLC, the parts that go through a buffer byte by byte: the frames    *)
(* built in the packet buffer (Frames), the look-up of a name with such    *)
(* frames (DnsLookup), the receiver's sentences (NmeaRx) and the loop of   *)
(* checksum() on every short packet (InetChecksum).  They share no         *)
(* variable; `part` says which one a behaviour is about, and the others    *)
(* stay in an initial state, so that the states of the parts add up and do *)
(* not multiply.                                                           *)
(***************************************************************************)
EXTENDS Frames

CONSTANTS
    Parts,                                  \* the parts of a run
    Names, AddressOf(_), Forms, Extras, TID, INDEX, MaxRequests, \* of DnsLookup
    LAST, Bytes,                            \* of NmeaRx
    BYTE, MAX_LEN, STARTS, ECHOREQUEST      \* of InetChecksum

VARIABLES
    part,
    dnstid_l, haveDNSanswer, dns_ansError, dns_answerip, dns, asked, questions, dnsNet, hung, taken,
    rx, rx_cnt, record, page_pc, page_at, page_len, overrun, heard, shown,
    packet, ck_start, ck_pos, ck_sum, ck_pc, ck

\* For the runs: names of ten and of twelve characters, one with a dot, so that an
\* address record for one lies where one for the other would not.  The first character
\* is the first octet of the address.
LongNames ==
    { << [k \in 1..10 |-> 97] >>, << [k \in 1..5 |-> 98], [k \in 1..6 |-> 99] >> }
FirstCharacter(name) == name[1][1]

Dns == INSTANCE DnsLookup
Nmea == INSTANCE NmeaRx WITH pc <- page_pc, at <- page_at, len <- page_len
Inet == INSTANCE InetChecksum WITH
    bytes <- packet, start <- ck_start, i <- ck_pos, sum <- ck_sum, pc <- ck_pc

ASSUME BytesAssumption ==
    Dns!DnsConstants /\ Nmea!NmeaConstants /\ Inet!ChecksumConstants /\ 0 \in STARTS

dnsvars ==
    <<dnstid_l, haveDNSanswer, dns_ansError, dns_answerip, dns, asked, questions, dnsNet, hung, taken>>
linevars == <<rx, rx_cnt, record, page_pc, page_at, page_len, overrun, heard, shown>>
inetvars == <<packet, ck_start, ck_pos, ck_sum, ck_pc, ck>>
mcvars == <<part, framevars, dnsvars, linevars, inetvars>>

MCInit ==
    /\ part \in Parts
    /\ Init /\ Dns!Init /\ Nmea!Init /\ Inet!Init
    /\ part # "sum" => packet = <<>> /\ ck_start = 0

MCNext ==
    /\ UNCHANGED part
    /\ \/ part = "frames" /\ Next /\ UNCHANGED <<dnsvars, linevars, inetvars>>
       \/ part = "names" /\ Dns!Next /\ UNCHANGED <<framevars, linevars, inetvars>>
       \/ part = "line" /\ Nmea!Next /\ UNCHANGED <<framevars, dnsvars, inetvars>>
       \/ part = "sum" /\ Inet!Next /\ UNCHANGED <<framevars, dnsvars, linevars>>

MCSpec == MCInit /\ [][MCNext]_mcvars

\* DnsLookup: the address handed out belongs to the name asked for.
AnswerIsForQuestion == Dns!AnswerIsForQuestion

\* DnsLookup: an answer is walked to its first address, or reported to have none.
AnswerIsRead == Dns!AnswerIsRead

\* DnsLookup: the walk through an answer ends.
WalkEnds == Dns!WalkEnds

\* DnsLookup: an answer without a record is not accepted.
EmptyNotAccepted == Dns!EmptyNotAccepted

\* NmeaRx: neither the interrupt nor the page leaves its buffer.
StaysInside == Nmea!StaysInside

\* NmeaRx: strlen finds a terminator at or after the byte it looks at.
TerminatorAhead == Nmea!TerminatorAhead

\* NmeaRx: a record shows what was received from a "$" to a newline.
RecordAsReceived == Nmea!RecordAsReceived

\* NmeaRx: the text of a record ends at its first newline.
RecordEndsAtNewline == Nmea!RecordEndsAtNewline

\* InetChecksum: what is sent with the checksum of checksum() is acceptable.
ReceiverAccepts == Inet!ReceiverAccepts

\* InetChecksum: the corrected checksum of an echo reply, and its one exception.
EchoReplyValid == Inet!EchoReplyValid
=============================================================================
