----------------------------- MODULE WebServer -----------------------------
(***************************************************************************)
(* The web server: packetloop_arp_icmp_tcp and the reply functions of      *)
(* avr/gpsdo/net/ip_arp_udp_tcp.c under the serving loop of main.c.        *)
(*                                                                         *)
(* The board keeps no connection: everything in a reply but the start of a *)
(* session comes from the segment it answers, and it never sends anything  *)
(* again.  The clients do: they keep their connection and retransmit what  *)
(* was not acknowledged, over a network that loses, duplicates and         *)
(* reorders.                                                               *)
(*                                                                         *)
(* A segment is a record; ports are the connection it belongs to.  Headers,*)
(* checksums and the text of the page are abstracted; a page is its length.*)
(* The request is one segment, as the window announced to it makes it.     *)
(***************************************************************************)
EXTENDS Integers, FiniteSets

CONSTANTS
    Conns,          \* connections, each used once
    BYTE,           \* 256
    STEP,           \* 3: step of seqnum between two sessions
    SEQ,            \* 2^32: sequence numbers are below it
    CLIENT_ISN, GET_LEN,    \* the client's first number and request length
    PageLens,       \* lengths of the pages the server may have to send
    Lossy,          \* kinds of segments the network may lose
    MaxLosses, MaxDups

ASSUME ServerAssumption ==
    /\ {BYTE, STEP, CLIENT_ISN, GET_LEN, MaxLosses, MaxDups} \subseteq Nat
    /\ BYTE > 0 /\ GET_LEN > 0 /\ STEP > 0
    /\ SEQ \in Nat /\ SEQ > BYTE * BYTE
    /\ \A n \in PageLens : n \in Nat \ {0} /\ n + 2 <= STEP * BYTE

VARIABLES
    seqnum,     \* the one thing the server remembers
    client,     \* connection -> [st, base, acked, page], the client's side
    net,        \* segments in flight
    losses, dups

vars == <<seqnum, client, net, losses, dups>>

Plus(n, d) == (n + d) % SEQ

-----------------------------------------------------------------------------
(* Segments *)

Seg(c, kind, seq, ack, len) ==
    [conn |-> c, kind |-> kind, seq |-> seq, ack |-> ack, len |-> len]
Kinds == {"syn", "get", "ack", "fin", "synack", "sack", "page"}
FromClient(m) == m.kind \in {"syn", "get", "ack", "fin"}

\* get_tcp_data_len of a segment from a client
DataLen(m) == IF m.kind = "get" THEN m.len ELSE 0

\* step_seq and make_tcphead: the numbers of the reply to m, which acknowledges
\* rel more.  Its mutant starts every reply at the preset number.
PresetNumbers(m, rel, cp_seq) == [seq |-> 0, ack |-> Plus(m.seq, rel)]
SteppedNumbers(m, rel, cp_seq) ==
    [seq |-> IF cp_seq THEN m.ack ELSE 0, ack |-> Plus(m.seq, rel)]

\* make_tcp_ack_from_any, and the data segment sent right after it: a segment
\* without data counts as one.  Mutants: it does not; every segment counts one more.
AckNumbersBare(m, datlen) == SteppedNumbers(m, datlen, TRUE)
AckNumbersOneMore(m, datlen) == SteppedNumbers(m, datlen + 1, TRUE)
AckNumbers(m, datlen) == SteppedNumbers(m, IF datlen = 0 THEN 1 ELSE datlen, TRUE)

-----------------------------------------------------------------------------
(* Clients (external) *)

Idle == [st |-> "closed", base |-> 0, acked |-> FALSE, page |-> 0]

Init ==
    /\ seqnum = 10 % BYTE
    /\ client = [c \in Conns |-> Idle]
    /\ net = {}
    /\ losses = 0 /\ dups = 0

Request(c) == Plus(CLIENT_ISN, 1)           \* number of its first data byte
Finish(c) == Plus(Request(c), GET_LEN)      \* number of its FIN
Expected(c) ==                              \* what the client expects next
    IF client[c].page = 0 THEN Plus(client[c].base, 1)
    ELSE Plus(client[c].base, client[c].page + 2)

Syn(c) == Seg(c, "syn", CLIENT_ISN, 0, 0)
GetFor(c, base) == Seg(c, "get", Request(c), Plus(base, 1), GET_LEN)
FinFor(c, base, len) == Seg(c, "fin", Finish(c), Plus(base, len + 2), 0)

\* A segment leaves the network; a duplicate of it may stay.
Take(m, sent) ==
    \/ net' = (net \ {m}) \cup sent /\ UNCHANGED dups
    \/ dups < MaxDups /\ dups' = dups + 1 /\ net' = net \cup sent

Connect(c) ==
    /\ client[c].st = "closed"
    /\ client' = [client EXCEPT ![c].st = "synsent"]
    /\ net' = net \cup {Syn(c)}
    /\ UNCHANGED <<seqnum, losses, dups>>

\* What was sent and is not acknowledged, when its timer runs out.
Unacked(c) ==
    LET k == client[c]
    IN  CASE k.st = "synsent" -> {Syn(c)}
          [] k.st = "open" /\ ~k.acked -> {GetFor(c, k.base)}
          [] k.st = "closing" -> {FinFor(c, k.base, k.page)}
          [] OTHER -> {}
\* The timer is longer than a segment lives; when it is not, what it sends
\* again counts as a duplicate.
Late(c) == \E m \in net : m.conn = c
Retransmit(c) ==
    /\ Unacked(c) # {}
    /\ net' = net \cup Unacked(c)
    /\ \/ ~Late(c) /\ UNCHANGED dups
       \/ Late(c) /\ dups < MaxDups /\ dups' = dups + 1
    /\ UNCHANGED <<seqnum, client, losses>>

TakeSynack(c, m) ==
    /\ client' = [client EXCEPT ![c].st = "open", ![c].base = m.seq]
    /\ Take(m, {GetFor(c, m.seq), Seg(c, "ack", Request(c), Plus(m.seq, 1), 0)})

TakeAck(c, m) ==
    /\ client' = [client EXCEPT ![c].acked = TRUE]
    /\ Take(m, {})

TakePage(c, m) ==
    /\ client' = [client EXCEPT ![c].st = "closing", ![c].acked = TRUE, ![c].page = m.len]
    /\ Take(m, {FinFor(c, client[c].base, m.len)})

TakeLastAck(c, m) ==
    /\ client' = [client EXCEPT ![c].st = "done"]
    /\ Take(m, {})

DropSegment(m) ==
    /\ net' = net \ {m}
    /\ UNCHANGED <<client, dups>>

\* A client takes what continues its connection and drops anything else.
ClientTakes(c, m) ==
    /\ m.conn = c /\ ~FromClient(m)
    /\ LET st == client[c].st
       IN  CASE m.kind = "synack" /\ st = "synsent" /\ m.ack = Request(c) -> TakeSynack(c, m)
             [] m.kind = "sack" /\ st = "open" /\ m.ack = Finish(c) -> TakeAck(c, m)
             [] m.kind = "page" /\ st = "open" /\ m.ack = Finish(c)
                    /\ m.seq = Expected(c) -> TakePage(c, m)
             [] m.kind = "sack" /\ st = "closing" /\ m.ack = Plus(Finish(c), 1)
                    /\ m.seq = Expected(c) -> TakeLastAck(c, m)
             [] OTHER -> DropSegment(m)
    /\ UNCHANGED <<seqnum, losses>>

Lose(m) ==
    /\ m.kind \in Lossy /\ losses < MaxLosses
    /\ losses' = losses + 1
    /\ net' = net \ {m}
    /\ UNCHANGED <<seqnum, client, dups>>

-----------------------------------------------------------------------------
(* The server *)

\* make_tcp_synack_from_syn: only the second byte of the number is not zero
SessionStart == seqnum * BYTE
\* Mutant of NextSeqnum: sessions start one step of the byte apart.
NextSeqnumByOne == (seqnum + 1) % BYTE
NextSeqnum == (seqnum + STEP) % BYTE

AnswerSyn(m) ==
    /\ m.kind = "syn"
    /\ LET n == SteppedNumbers(m, 1, FALSE)
       IN  Take(m, {Seg(m.conn, "synack", SessionStart, n.ack, 0)})
    /\ seqnum' = NextSeqnum
    /\ UNCHANGED <<client, losses>>

\* A request: an acknowledgement, then the whole page and the end of the stream.
AnswerGet(m, len) ==
    /\ m.kind = "get" /\ DataLen(m) > 0
    /\ LET n == AckNumbers(m, DataLen(m))
       IN  Take(m, { Seg(m.conn, "sack", n.seq, n.ack, 0),
                     Seg(m.conn, "page", n.seq, n.ack, len) })
    /\ UNCHANGED <<seqnum, client, losses>>

AnswerFin(m) ==
    /\ m.kind = "fin" /\ DataLen(m) = 0
    /\ LET n == AckNumbers(m, DataLen(m))
       IN  Take(m, {Seg(m.conn, "sack", n.seq, n.ack, 0)})
    /\ UNCHANGED <<seqnum, client, losses>>

\* Just an ack with no data.
IgnoreAck(m) ==
    /\ m.kind = "ack"
    /\ Take(m, {})
    /\ UNCHANGED <<seqnum, client, losses>>

Packetloop ==
    \E m \in net :
        AnswerSyn(m) \/ AnswerFin(m) \/ IgnoreAck(m) \/ \E len \in PageLens : AnswerGet(m, len)

-----------------------------------------------------------------------------
Client(c) == Retransmit(c) \/ \E m \in net : ClientTakes(c, m)

Next ==
    \/ \E c \in Conns : Connect(c) \/ Client(c)
    \/ Packetloop
    \/ \E m \in net : Lose(m)

Spec == Init /\ [][Next]_vars

\* The server polls, clients retransmit, what is not lost is delivered.
FairSpec ==
    /\ Spec
    /\ WF_vars(Packetloop)
    /\ \A c \in Conns :
        /\ WF_vars(Connect(c))
        /\ WF_vars(Retransmit(c))
        /\ WF_vars(\E m \in net : ClientTakes(c, m))

-----------------------------------------------------------------------------
(* Properties *)

Number == 0..(SEQ - 1)
Segment == [conn : Conns, kind : Kinds, seq : Number, ack : Number, len : Nat]

\* Every variable is in its range.
TypeOK ==
    /\ seqnum \in 0..(BYTE - 1)
    /\ client \in [Conns -> [st : {"closed", "synsent", "open", "closing", "done"},
                             base : Number, acked : BOOLEAN, page : PageLens \cup {0}]]
    /\ net \subseteq Segment

FromServer == { m \in net : m.kind \in {"sack", "page"} }

\* The server keeps no connection, and a duplicated SYN starts a second session
\* with other numbers; still every page it sends fits the one session the client
\* has chosen, whatever was retransmitted, duplicated or came late.
PageInOrder ==
    \A m \in FromServer :
        m.kind = "page" => m.seq = Plus(client[m.conn].base, 1)

\* The server never acknowledges what the client has not sent: a FIN is counted
\* as one, and only a FIN is.
SentBy(c) == IF client[c].st \in {"closing", "done"} THEN Plus(Finish(c), 1) ELSE Finish(c)
NeverAcksUnsent ==
    \A m \in FromServer :
        (m.ack - CLIENT_ISN) % SEQ <= (SentBy(m.conn) - CLIENT_ISN) % SEQ

\* ip_arp_udp_tcp.c:594-600: stepping one byte by three keeps the numbers of
\* sessions apart: no page in flight, with its FIN, overlaps the page of another
\* connection.
Span(m) == m.seq .. (m.seq + m.len)
SessionsApart ==
    \A m, n \in { x \in FromServer : x.kind = "page" } :
        m.conn # n.conn => Span(m) \cap Span(n) = {}

\* Every fetch ends, in spite of losing anything but the page itself: the only
\* timers are the clients', and they only run while something is unacknowledged.
EveryFetchEnds == \A c \in Conns : <>(client[c].st = "done")
=============================================================================
