-------------------------- MODULE WebServerProofs --------------------------
(***************************************************************************)
(* Theorems about WebServer for any number of connections, losses and      *)
(* duplicates, every byte, step and sequence width: pages fit the session  *)
(* the client chose, only what the client has sent is acknowledged, and    *)
(* pages of two connections share no number, although the server remembers *)
(* no connection.                                                          *)
(***************************************************************************)
EXTENDS WebServer, TLAPS, FiniteSetTheorems

States == {"closed", "synsent", "open", "closing", "done"}
AnyClient == [st : States, base : Int, acked : BOOLEAN, page : Int]
AnySegment == [conn : Conns, kind : Kinds, seq : Int, ack : Int, len : Int]

\* The client has chosen a session, and will not choose another.
Chosen(c) == client[c].st \in {"open", "closing", "done"}

\* A request, and hence the page that answers it, exists only for a chosen
\* session and carries its number: the client acknowledges it in every request.
Sound(m) ==
    /\ m.kind = "get" => Chosen(m.conn) /\ m.ack = Plus(client[m.conn].base, 1)
    /\ m.kind = "page" => Chosen(m.conn) /\ m.seq = Plus(client[m.conn].base, 1)

SessionInv ==
    /\ seqnum \in Int
    /\ client \in [Conns -> AnyClient]
    /\ \A m \in net : m \in AnySegment /\ Sound(m)

-----------------------------------------------------------------------------
(* Steps in general *)

\* Sequence numbers stay integers.
LEMMA PlusInt ==
    ASSUME NEW n \in Int, NEW d \in Int
    PROVE  Plus(n, d) \in Int
BY ServerAssumption DEF Plus

\* A segment has the fields it was given.
LEMMA SegTyped ==
    ASSUME NEW c \in Conns, NEW kind \in Kinds, NEW s \in Int, NEW a \in Int, NEW l \in Int
    PROVE  /\ Seg(c, kind, s, a, l) \in AnySegment
           /\ Seg(c, kind, s, a, l).kind = kind /\ Seg(c, kind, s, a, l).conn = c
           /\ Seg(c, kind, s, a, l).seq = s /\ Seg(c, kind, s, a, l).ack = a
BY DEF Seg, AnySegment

\* What is in flight after a step was there, or was sent.
LEMMA TakeSends ==
    ASSUME NEW m, NEW sent, Take(m, sent)
    PROVE  \A x \in net' : x \in net \/ x \in sent
BY DEF Take

\* While no client moves, it is enough that what is sent is sound.
LEMMA OnlySends ==
    ASSUME SessionInv, UNCHANGED client, seqnum' \in Int,
           \A x \in net' : x \in net \/ (x \in AnySegment /\ Sound(x))
    PROVE  SessionInv'
BY DEF SessionInv, Sound, Chosen

\* A client that keeps the session it has chosen leaves all segments sound.
LEMMA ClientMoves ==
    ASSUME SessionInv, UNCHANGED seqnum, NEW c \in Conns,
           client' \in [Conns -> AnyClient],
           \A d \in Conns \ {c} : client'[d] = client[d],
           Chosen(c)',
           Chosen(c) => client'[c].base = client[c].base,
           \A x \in net' : x \in net \/ (x \in AnySegment /\ Sound(x)')
    PROVE  SessionInv'
<1>1. \A d \in Conns : Chosen(d) => Chosen(d)' /\ client'[d].base = client[d].base
  BY DEF Chosen
<1>2. \A x \in net : x.conn \in Conns
  BY DEF SessionInv, AnySegment
<1>3. \A x \in net : Sound(x)'
  BY <1>1, <1>2 DEF SessionInv, Sound
<1> QED BY <1>3 DEF SessionInv

-----------------------------------------------------------------------------
(* Clients *)

\* Numbers of the client's own segments.
LEMMA OwnNumbers ==
    ASSUME NEW c \in Conns
    PROVE  Request(c) \in Int /\ Finish(c) \in Int /\ CLIENT_ISN \in Int /\ GET_LEN \in Int
<1>1. CLIENT_ISN \in Int /\ GET_LEN \in Int
  BY ServerAssumption
<1>2. Request(c) \in Int
  BY <1>1, PlusInt DEF Request
<1>3. Finish(c) \in Int
  BY <1>1, <1>2, PlusInt DEF Finish
<1> QED BY <1>1, <1>2, <1>3

\* What a client sends is typed; its request is sound in the session it names.
LEMMA GetTyped ==
    ASSUME NEW c \in Conns, NEW base \in Int
    PROVE  /\ GetFor(c, base) \in AnySegment
           /\ GetFor(c, base).kind = "get" /\ GetFor(c, base).conn = c
           /\ GetFor(c, base).ack = Plus(base, 1)
<1>1. Plus(base, 1) \in Int /\ "get" \in Kinds
  BY PlusInt DEF Kinds
<1>2. Request(c) \in Int /\ GET_LEN \in Int
  BY OwnNumbers
<1> QED BY <1>1, <1>2, SegTyped DEF GetFor

\* So has the answer to a closing client.
LEMMA FinTyped ==
    ASSUME NEW c \in Conns, NEW base \in Int, NEW len \in Int
    PROVE  FinFor(c, base, len) \in AnySegment /\ FinFor(c, base, len).kind = "fin"
<1>1. Plus(base, len + 2) \in Int /\ "fin" \in Kinds
  BY PlusInt DEF Kinds
<1>2. Finish(c) \in Int
  BY OwnNumbers
<1> QED BY <1>1, <1>2, SegTyped DEF FinFor

\* What one client has sent says nothing of another.
LEMMA OthersSound ==
    ASSUME NEW c \in Conns
    PROVE  /\ Syn(c) \in AnySegment /\ Sound(Syn(c)) /\ Sound(Syn(c))'
           /\ \A base, len \in Int :
                FinFor(c, base, len) \in AnySegment /\ Sound(FinFor(c, base, len))
                /\ Sound(FinFor(c, base, len))'
<1>1. Syn(c) \in AnySegment /\ Syn(c).kind = "syn"
  BY OwnNumbers, SegTyped DEF Syn, Kinds
<1> QED BY <1>1, FinTyped DEF Sound

\* A client that connects has chosen nothing yet.
LEMMA ConnectStep ==
    ASSUME SessionInv, NEW c \in Conns, Connect(c)
    PROVE  SessionInv'
<1>1. client' = [client EXCEPT ![c].st = "synsent"] /\ UNCHANGED seqnum
  BY DEF Connect
<1>2. client' \in [Conns -> AnyClient]
  BY <1>1 DEF SessionInv, AnyClient, States
<1>3. ~Chosen(c) /\ \A d \in Conns \ {c} : client'[d] = client[d]
  BY <1>1 DEF Connect, Chosen, SessionInv
<1>4. \A x \in net : x.conn \in Conns
  BY DEF SessionInv, AnySegment
<1>5. \A x \in net : Sound(x)'
  BY <1>3, <1>4 DEF SessionInv, Sound, Chosen
<1>6. \A x \in net' : x \in net \/ x = Syn(c)
  BY DEF Connect
<1> QED BY <1>1, <1>2, <1>5, <1>6, OthersSound DEF SessionInv

\* A client repeats only what it has sent before.
LEMMA RetransmitStep ==
    ASSUME SessionInv, NEW c \in Conns, Retransmit(c)
    PROVE  SessionInv'
<1>1. client[c] \in AnyClient
  BY DEF SessionInv
<1>2. ASSUME NEW x \in Unacked(c) PROVE x \in AnySegment /\ Sound(x)
  <2>1. CASE client[c].st = "synsent"
    BY <1>2, <2>1, OthersSound DEF Unacked
  <2>2. CASE client[c].st = "open"
    <3>1. x = GetFor(c, client[c].base) /\ client[c].base \in Int
      BY <1>1, <1>2, <2>2 DEF Unacked, AnyClient
    <3> QED BY <2>2, <3>1, GetTyped DEF Sound, Chosen
  <2>3. CASE client[c].st = "closing"
    <3>1. /\ x = FinFor(c, client[c].base, client[c].page)
          /\ client[c].base \in Int /\ client[c].page \in Int
      BY <1>1, <1>2, <2>3 DEF Unacked, AnyClient
    <3> QED BY <3>1, OthersSound
  <2>4. CASE client[c].st \notin {"synsent", "open", "closing"}
    BY <1>2, <2>4 DEF Unacked
  <2> QED BY <2>1, <2>2, <2>3, <2>4
<1>3. UNCHANGED <<client, seqnum>> /\ seqnum \in Int
  BY DEF Retransmit, SessionInv
<1>4. \A x \in net' : x \in net \/ x \in Unacked(c)
  BY DEF Retransmit
<1> QED BY <1>2, <1>3, <1>4, OnlySends

\* The first SYNACK a client takes is the session it chooses; its request says so.
LEMMA SynackStep ==
    ASSUME SessionInv, NEW c \in Conns, NEW m \in net, UNCHANGED seqnum,
           client[c].st = "synsent", TakeSynack(c, m)
    PROVE  SessionInv'
<1> DEFINE ack == Seg(c, "ack", Request(c), Plus(m.seq, 1), 0)
<1>1. m.seq \in Int
  BY DEF SessionInv, AnySegment
<1>2. client' = [client EXCEPT ![c].st = "open", ![c].base = m.seq]
  BY DEF TakeSynack
<1>3. /\ client' \in [Conns -> AnyClient]
      /\ \A d \in Conns \ {c} : client'[d] = client[d]
      /\ client'[c].st = "open" /\ client'[c].base = m.seq
  BY <1>1, <1>2 DEF SessionInv, AnyClient, States
<1>4. ~Chosen(c) /\ Chosen(c)'
  BY <1>3 DEF Chosen
<1>5. ack \in AnySegment /\ Sound(ack)'
  <2>1. Plus(m.seq, 1) \in Int /\ Request(c) \in Int /\ "ack" \in Kinds
    BY <1>1, ServerAssumption, OwnNumbers DEF Plus, Kinds
  <2>2. ack \in AnySegment /\ ack.kind = "ack"
    BY <2>1, SegTyped
  <2> QED BY <2>2 DEF Sound
<1>6. GetFor(c, m.seq) \in AnySegment /\ Sound(GetFor(c, m.seq))'
  BY <1>1, <1>3, <1>4, GetTyped DEF Sound
<1>7. \A x \in net' : x \in net \/ x = GetFor(c, m.seq) \/ x = ack
  BY TakeSends DEF TakeSynack
<1> HIDE DEF ack
<1> QED BY <1>3, <1>4, <1>5, <1>6, <1>7, ClientMoves

\* A bare acknowledgement leaves the session alone.
LEMMA AckStep ==
    ASSUME SessionInv, NEW c \in Conns, NEW m \in net, UNCHANGED seqnum,
           client[c].st = "open", TakeAck(c, m)
    PROVE  SessionInv'
<1>1. client' = [client EXCEPT ![c].acked = TRUE] /\ \A x \in net' : x \in net
  BY TakeSends DEF TakeAck
<1>2. /\ client' \in [Conns -> AnyClient]
      /\ \A d \in Conns \ {c} : client'[d] = client[d]
      /\ client'[c].st = "open" /\ client'[c].base = client[c].base
  BY <1>1 DEF SessionInv, AnyClient
<1>3. Chosen(c)'
  BY <1>2 DEF Chosen
<1> QED BY <1>1, <1>2, <1>3, ClientMoves

\* A page that arrives closes the session it was chosen for.
LEMMA PageStep ==
    ASSUME SessionInv, NEW c \in Conns, NEW m \in net, UNCHANGED seqnum,
           client[c].st = "open", TakePage(c, m)
    PROVE  SessionInv'
<1>1. m.len \in Int /\ client[c].base \in Int
  BY DEF SessionInv, AnySegment, AnyClient
<1>2. client' = [client EXCEPT ![c].st = "closing", ![c].acked = TRUE, ![c].page = m.len]
  BY DEF TakePage
<1>3. /\ client' \in [Conns -> AnyClient]
      /\ \A d \in Conns \ {c} : client'[d] = client[d]
      /\ client'[c].st = "closing" /\ client'[c].base = client[c].base
  <2>1. client \in [Conns -> AnyClient] /\ client[c] \in AnyClient
    BY DEF SessionInv
  <2>2. [client[c] EXCEPT !.st = "closing", !.acked = TRUE, !.page = m.len] \in AnyClient
    BY <1>1, <2>1 DEF AnyClient, States
  <2> QED BY <1>2, <2>1, <2>2
<1>4. Chosen(c)'
  BY <1>3 DEF Chosen
<1>5. ASSUME NEW x \in net'
      PROVE  x \in net \/ (x \in AnySegment /\ Sound(x)')
  <2>1. x \in net \/ x = FinFor(c, client[c].base, m.len)
    BY TakeSends DEF TakePage
  <2>2. ASSUME x = FinFor(c, client[c].base, m.len)
        PROVE  x \in AnySegment /\ x.kind = "fin"
    BY <1>1, <2>2, FinTyped
  <2> QED BY <2>1, <2>2 DEF Sound
<1> QED BY <1>1, <1>3, <1>4, <1>5, ClientMoves

\* The last acknowledgement ends the session.
LEMMA LastAckStep ==
    ASSUME SessionInv, NEW c \in Conns, NEW m \in net, UNCHANGED seqnum,
           client[c].st = "closing", TakeLastAck(c, m)
    PROVE  SessionInv'
<1>1. client' = [client EXCEPT ![c].st = "done"] /\ \A x \in net' : x \in net
  BY TakeSends DEF TakeLastAck
<1>2. /\ client' \in [Conns -> AnyClient]
      /\ \A d \in Conns \ {c} : client'[d] = client[d]
      /\ client'[c].st = "done" /\ client'[c].base = client[c].base
  BY <1>1 DEF SessionInv, AnyClient, States
<1>3. Chosen(c)'
  BY <1>2 DEF Chosen
<1> QED BY <1>1, <1>2, <1>3, ClientMoves

\* Every step of a client is one of these.
LEMMA ClientStep ==
    ASSUME SessionInv, NEW c \in Conns, NEW m \in net, ClientTakes(c, m)
    PROVE  SessionInv'
<1>1. UNCHANGED seqnum
  BY DEF ClientTakes
<1>2. \/ client[c].st = "synsent" /\ TakeSynack(c, m)
      \/ client[c].st = "open" /\ TakeAck(c, m)
      \/ client[c].st = "open" /\ TakePage(c, m)
      \/ client[c].st = "closing" /\ TakeLastAck(c, m)
      \/ DropSegment(m)
  BY DEF ClientTakes
<1>3. CASE DropSegment(m)
  <2>1. UNCHANGED client /\ seqnum' \in Int /\ \A x \in net' : x \in net
    BY <1>1, <1>3 DEF DropSegment, SessionInv
  <2> QED BY <2>1, OnlySends
<1> QED BY <1>1, <1>2, <1>3, SynackStep, AckStep, PageStep, LastAckStep

-----------------------------------------------------------------------------
(* The server *)

\* The server answers a request with the number the request acknowledges.
LEMMA ServerStep ==
    ASSUME SessionInv, NEW m \in net,
           AnswerSyn(m) \/ AnswerFin(m) \/ IgnoreAck(m) \/ \E len \in PageLens : AnswerGet(m, len)
    PROVE  SessionInv'
<1>1. /\ m.conn \in Conns /\ m.seq \in Int /\ m.ack \in Int /\ m.len \in Int
      /\ Sound(m) /\ seqnum \in Int /\ UNCHANGED client
  BY DEF SessionInv, AnySegment, AnswerSyn, AnswerFin, IgnoreAck, AnswerGet
<1>2. seqnum' \in Int /\ SessionStart \in Int
  <2>1. NextSeqnum \in Int /\ SessionStart \in Int
    BY <1>1, ServerAssumption DEF NextSeqnum, SessionStart
  <2> QED BY <1>1, <2>1 DEF AnswerSyn, AnswerFin, IgnoreAck, AnswerGet
<1>3. ASSUME NEW d \in Int
      PROVE  AckNumbers(m, d).seq = m.ack /\ AckNumbers(m, d).ack \in Int
  <2>1. Plus(m.seq, IF d = 0 THEN 1 ELSE d) \in Int
    BY <1>1, ServerAssumption DEF Plus
  <2> QED BY <2>1 DEF AckNumbers, SteppedNumbers
<1>4. DataLen(m) \in Int
  BY <1>1 DEF DataLen
<1>5. CASE AnswerSyn(m)
  <2>1. SteppedNumbers(m, 1, FALSE).ack \in Int
    <3>1. Plus(m.seq, 1) \in Int
      BY <1>1, ServerAssumption DEF Plus
    <3> QED BY <3>1 DEF SteppedNumbers
  <2> DEFINE r == Seg(m.conn, "synack", SessionStart, SteppedNumbers(m, 1, FALSE).ack, 0)
  <2>2. r \in AnySegment /\ r.kind = "synack"
    <3>1. "synack" \in Kinds
      BY DEF Kinds
    <3> DEFINE a == SteppedNumbers(m, 1, FALSE).ack
    <3> HIDE DEF a
    <3>2. a \in Int
      BY <2>1 DEF a
    <3>3. m.conn \in Conns /\ SessionStart \in Int /\ 0 \in Int
      BY <1>1, <1>2
    <3>4. /\ Seg(m.conn, "synack", SessionStart, a, 0) \in AnySegment
          /\ Seg(m.conn, "synack", SessionStart, a, 0).kind = "synack"
      BY <3>1, <3>2, <3>3 DEF Seg, AnySegment
    <3> QED BY <3>4 DEF a
  <2>3. \A x \in net' : x \in net \/ x = r
    <3>1. Take(m, {r})
      BY <1>5 DEF AnswerSyn
    <3> HIDE DEF r
    <3> QED BY <3>1, TakeSends
  <2> HIDE DEF r
  <2> QED BY <1>1, <1>2, <2>2, <2>3, OnlySends DEF Sound
<1>6. CASE AnswerFin(m)
  <2> DEFINE n == AckNumbers(m, DataLen(m))
             r == Seg(m.conn, "sack", n.seq, n.ack, 0)
  <2>1. n.seq \in Int /\ n.ack \in Int
    BY <1>1, <1>3, <1>4
  <2>2. \A x \in net' : x \in net \/ x = r
    <3>1. Take(m, {r})
      BY <1>6 DEF AnswerFin
    <3> HIDE DEF r
    <3> QED BY <3>1, TakeSends
  <2> HIDE DEF n
  <2>3. r \in AnySegment /\ r.kind = "sack"
    <3>1. "sack" \in Kinds
      BY DEF Kinds
    <3>2. m.conn \in Conns /\ n.seq \in Int /\ n.ack \in Int /\ 0 \in Int
      BY <1>1, <2>1
    <3> QED BY <3>1, <3>2 DEF Seg, AnySegment
  <2> HIDE DEF r
  <2> QED BY <1>1, <1>2, <2>2, <2>3, OnlySends DEF Sound
<1>7. CASE IgnoreAck(m)
  <2>1. \A x \in net' : x \in net
    BY <1>7, TakeSends DEF IgnoreAck
  <2> QED BY <1>1, <1>2, <2>1, OnlySends
<1>8. ASSUME NEW len \in PageLens, AnswerGet(m, len)
      PROVE  SessionInv'
  <2> DEFINE n == AckNumbers(m, DataLen(m))
             r == Seg(m.conn, "sack", n.seq, n.ack, 0)
             p == Seg(m.conn, "page", n.seq, n.ack, len)
  <2>1. n.seq = m.ack /\ n.ack \in Int /\ len \in Int
    BY <1>3, <1>4, ServerAssumption
  <2>2. \A x \in net' : x \in net \/ x = r \/ x = p
    <3>1. Take(m, {r, p})
      BY <1>8 DEF AnswerGet
    <3> HIDE DEF r, p
    <3> QED BY <3>1, TakeSends
  <2> HIDE DEF n
  <2>3. r \in AnySegment /\ r.kind = "sack"
    <3>1. "sack" \in Kinds
      BY DEF Kinds
    <3>2. m.conn \in Conns /\ n.seq \in Int /\ n.ack \in Int /\ 0 \in Int
      BY <1>1, <2>1
    <3> QED BY <3>1, <3>2 DEF Seg, AnySegment
  <2>4. p \in AnySegment /\ p.kind = "page" /\ p.conn = m.conn /\ p.seq = m.ack
    <3>1. "page" \in Kinds
      BY DEF Kinds
    <3>2. m.conn \in Conns /\ n.seq \in Int /\ n.ack \in Int
      BY <1>1, <2>1
    <3> QED BY <2>1, <3>1, <3>2 DEF Seg, AnySegment
  <2>5. Chosen(m.conn) /\ m.ack = Plus(client[m.conn].base, 1)
    BY <1>1, <1>8 DEF AnswerGet, Sound
  <2> HIDE DEF r, p
  <2>6. Sound(r) /\ Sound(p)
    BY <2>3, <2>4, <2>5 DEF Sound
  <2> QED BY <1>1, <1>2, <2>2, <2>3, <2>4, <2>6, OnlySends
<1> QED BY <1>5, <1>6, <1>7, <1>8

-----------------------------------------------------------------------------
\* What is in flight is sound in every behaviour.
LEMMA SessionStarts == Init => SessionInv
<1>1. 10 % BYTE \in Int
  BY ServerAssumption
<1> QED BY <1>1 DEF Init, Idle, SessionInv, AnyClient, States

\* Every step keeps it so.
LEMMA SessionInductive ==
    ASSUME SessionInv, [Next]_vars
    PROVE  SessionInv'
<1>1. ASSUME NEW m \in net, Lose(m) PROVE SessionInv'
  <2>1. UNCHANGED client /\ seqnum' \in Int /\ \A x \in net' : x \in net
    BY <1>1 DEF Lose, SessionInv
  <2> QED BY <2>1, OnlySends
<1>2. CASE UNCHANGED vars
  BY <1>2 DEF vars, SessionInv, Sound, Chosen
<1> QED BY <1>1, <1>2, ConnectStep, RetransmitStep, ClientStep, ServerStep
        DEF Next, Client, Packetloop

\* ip_arp_udp_tcp.c:594-641: whatever was lost, repeated or came late, and
\* however many sessions a repeated SYN has started, every page in flight has the
\* number the client expects in the session it chose.
THEOREM PagesFitSession == Spec => []PageInOrder
<1>1. SessionInv /\ [Next]_vars => SessionInv'
  BY SessionInductive
<1>2. SessionInv => PageInOrder
  BY DEF SessionInv, Sound, PageInOrder, FromServer
<1> QED BY SessionStarts, <1>1, <1>2, PTL DEF Spec

-----------------------------------------------------------------------------
(* What is acknowledged *)

\* A quotient and a remainder are what the division says.
LEMMA Division ==
    ASSUME NEW x \in Int, NEW d \in Nat \ {0}
    PROVE  /\ x \div d \in Int /\ x % d \in 0..(d - 1)
           /\ x = d * (x \div d) + (x % d)
OBVIOUS

\* Only one remainder is left by a multiple and less than the divisor.
LEMMA RemainderUnique ==
    ASSUME NEW d \in Nat \ {0}, NEW q \in Int, NEW r \in 0..(d - 1)
    PROVE  (d * q + r) % d = r
OBVIOUS

\* A number lies as far behind another one as was added to it.
LEMMA Distance ==
    ASSUME NEW x \in Nat, NEW k \in Nat, k < SEQ
    PROVE  (Plus(x, k) - x) % SEQ = k
<1> DEFINE q == (x + k) \div SEQ
           r == (x + k) % SEQ
<1>1. SEQ \in Nat \ {0} /\ k \in 0..(SEQ - 1)
  BY ServerAssumption
<1>2. q \in Int /\ r \in Int /\ x + k = SEQ * q + r
  BY <1>1, Division
<1>3. Plus(x, k) = r
  BY DEF Plus
<1> HIDE DEF q, r
<1>4. SEQ * (-q) = -(SEQ * q) /\ -q \in Int
  BY <1>1, <1>2
<1>5. r - x = SEQ * (-q) + k
  BY <1>1, <1>2, <1>4
<1>6. (SEQ * (-q) + k) % SEQ = k
  BY <1>1, <1>4, RemainderUnique
<1> QED BY <1>3, <1>5, <1>6

\* The remainder of a sum.
LEMMA RemainderAdds ==
    ASSUME NEW x \in Nat, NEW b \in Nat, NEW d \in Nat \ {0}
    PROVE  ((x % d) + b) % d = (x + b) % d
<1> DEFINE q == x \div d
           r == x % d
           p == (r + b) \div d
           t == (r + b) % d
<1>1. q \in Int /\ r \in Int /\ x = d * q + r
  BY Division
<1>2. p \in Int /\ t \in 0..(d - 1) /\ r + b = d * p + t
  <2>1. r + b \in Int /\ d \in Nat \ {0}
    BY <1>1
  <2> DEFINE s == r + b
  <2>2. s \in Int
    BY <2>1
  <2> HIDE DEF s
  <2>3. s \div d \in Int /\ s % d \in 0..(d - 1) /\ s = d * (s \div d) + (s % d)
    BY <2>1, <2>2, Division
  <2> QED BY <2>3 DEF s
<1> HIDE DEF q, r, p, t
<1>3. d * (q + p) = d * q + d * p /\ q + p \in Int
  BY <1>1, <1>2
<1>4. x + b = d * (q + p) + t
  BY <1>1, <1>2, <1>3
<1>5. (d * (q + p) + t) % d = t
  BY <1>2, <1>3, RemainderUnique
<1> QED BY <1>4, <1>5 DEF r, t

\* Numbers add up.
LEMMA PlusPlus ==
    ASSUME NEW x \in Nat, NEW a \in Nat, NEW b \in Nat
    PROVE  Plus(Plus(x, a), b) = Plus(x, a + b)
<1> DEFINE y == x + a
<1>1. SEQ \in Nat \ {0} /\ y \in Nat
  BY ServerAssumption
<1>2. y + b = x + (a + b)
  OBVIOUS
<1> HIDE DEF y
<1>3. ((y % SEQ) + b) % SEQ = (y + b) % SEQ
  BY <1>1, RemainderAdds
<1> QED BY <1>2, <1>3 DEF Plus, y

\* The client has sent its FIN.
Finishing(c) == client[c].st \in {"closing", "done"}

\* What clients send has their numbers, and is answered by the number after it.
Honest(m) ==
    /\ m.kind = "get" => m.seq = Request(m.conn) /\ m.len = GET_LEN
    /\ m.kind = "fin" => m.seq = Finish(m.conn) /\ Finishing(m.conn)
    /\ m.kind \in {"sack", "page"} =>
          \/ m.ack = Finish(m.conn)
          \/ m.ack = Plus(Finish(m.conn), 1) /\ Finishing(m.conn)

AckInv == \A m \in net : Honest(m)

\* A client that has sent its FIN has sent it for good.
LEMMA HonestKept ==
    ASSUME SessionInv, AckInv,
           \A d \in Conns : Finishing(d) => Finishing(d)',
           \A x \in net' : x \in net \/ Honest(x)'
    PROVE  AckInv'
<1>1. ASSUME NEW x \in net PROVE Honest(x)'
  <2>1. x.conn \in Conns /\ Honest(x)
    BY DEF AckInv, SessionInv, AnySegment
  <2>2. /\ Request(x.conn)' = Request(x.conn) /\ Finish(x.conn)' = Finish(x.conn)
        /\ Plus(Finish(x.conn), 1)' = Plus(Finish(x.conn), 1)
    BY DEF Request, Finish, Plus
  <2> QED BY <2>1, <2>2 DEF Honest
<1> QED BY <1>1 DEF AckInv

\* A client's own segments have its numbers.
LEMMA OwnHonest ==
    ASSUME NEW c \in Conns, NEW base, NEW len
    PROVE  /\ Honest(Syn(c)) /\ Honest(Syn(c))'
           /\ Honest(GetFor(c, base)) /\ Honest(GetFor(c, base))'
           /\ Finishing(c) => Honest(FinFor(c, base, len))
           /\ Finishing(c)' => Honest(FinFor(c, base, len))'
<1>1. Request(c)' = Request(c) /\ Finish(c)' = Finish(c)
  BY DEF Request, Finish, Plus
<1> QED BY <1>1 DEF Syn, GetFor, FinFor, Seg, Honest

\* So has a FIN of a client that is finishing, whatever it acknowledges.
LEMMA FinHonest ==
    ASSUME NEW c \in Conns, NEW base, NEW len, NEW x, x = FinFor(c, base, len), Finishing(c)'
    PROVE  Honest(x)'
<1>1. Finish(c)' = Finish(c)
  BY DEF Request, Finish, Plus
<1>2. x.kind = "fin" /\ x.conn = c /\ x.seq = Finish(c)
  BY DEF FinFor, Seg
<1> QED BY <1>1, <1>2 DEF Honest

\* Every step of a client keeps its segments honest.
LEMMA ClientHonest ==
    ASSUME SessionInv, AckInv, NEW c \in Conns, Connect(c) \/ Client(c)
    PROVE  AckInv'
<1>1. CASE Connect(c)
  <2>1. client' = [client EXCEPT ![c].st = "synsent"] /\ client[c].st = "closed"
    BY <1>1 DEF Connect
  <2>2. \A d \in Conns : Finishing(d) => Finishing(d)'
    BY <2>1 DEF Finishing, SessionInv
  <2>3. \A x \in net' : x \in net \/ x = Syn(c)
    BY <1>1 DEF Connect
  <2> QED BY <2>2, <2>3, OwnHonest, HonestKept
<1>2. CASE Retransmit(c)
  <2>1. UNCHANGED client /\ \A x \in net' : x \in net \/ x \in Unacked(c)
    BY <1>2 DEF Retransmit
  <2>2. \A d \in Conns : Finishing(d) => Finishing(d)'
    BY <2>1 DEF Finishing
  <2>3. ASSUME NEW x \in Unacked(c) PROVE Honest(x)'
    <3>1. CASE client[c].st = "synsent"
      BY <2>3, <3>1, OwnHonest DEF Unacked
    <3>2. CASE client[c].st = "open"
      BY <2>3, <3>2, OwnHonest DEF Unacked
    <3>3. CASE client[c].st = "closing"
      <4>1. x = FinFor(c, client[c].base, client[c].page) /\ Finishing(c)'
        BY <2>1, <2>3, <3>3 DEF Unacked, Finishing
      <4> QED BY <4>1, OwnHonest
    <3>4. CASE client[c].st \notin {"synsent", "open", "closing"}
      BY <2>3, <3>4 DEF Unacked
    <3> QED BY <3>1, <3>2, <3>3, <3>4
  <2> QED BY <2>1, <2>2, <2>3, HonestKept
<1>3. ASSUME NEW m \in net, client[c].st = "synsent", TakeSynack(c, m) PROVE AckInv'
  <2> DEFINE ack == Seg(c, "ack", Request(c), Plus(m.seq, 1), 0)
  <2>1. client' = [client EXCEPT ![c].st = "open", ![c].base = m.seq]
    BY <1>3 DEF TakeSynack
  <2>2. \A d \in Conns : Finishing(d) => Finishing(d)'
    BY <1>3, <2>1 DEF Finishing, SessionInv
  <2>3. \A x \in net' : x \in net \/ x = GetFor(c, m.seq) \/ x = ack
    BY <1>3, TakeSends DEF TakeSynack
  <2>4. Honest(ack)'
    BY DEF Seg, Honest
  <2> HIDE DEF ack
  <2> QED BY <2>2, <2>3, <2>4, OwnHonest, HonestKept
<1>4. ASSUME NEW m \in net, TakeAck(c, m) PROVE AckInv'
  <2>1. client' = [client EXCEPT ![c].acked = TRUE] /\ \A x \in net' : x \in net
    BY <1>4, TakeSends DEF TakeAck
  <2>2. \A d \in Conns : Finishing(d) => Finishing(d)'
    BY <2>1 DEF Finishing, SessionInv, AnyClient
  <2> QED BY <2>1, <2>2, HonestKept
<1>5. ASSUME NEW m \in net, TakePage(c, m) PROVE AckInv'
  <2>1. client' = [client EXCEPT ![c].st = "closing", ![c].acked = TRUE, ![c].page = m.len]
    BY <1>5 DEF TakePage
  <2>2. Finishing(c)' /\ \A d \in Conns : Finishing(d) => Finishing(d)'
    BY <2>1 DEF Finishing, SessionInv, AnyClient
  <2>3. ASSUME NEW x \in net' PROVE x \in net \/ Honest(x)'
    <3>1. x \in net \/ x = FinFor(c, client[c].base, m.len)
      BY <1>5, TakeSends DEF TakePage
    <3> QED BY <2>2, <3>1, FinHonest
  <2> QED BY <2>2, <2>3, HonestKept
<1>6. ASSUME NEW m \in net, TakeLastAck(c, m) PROVE AckInv'
  <2>1. client' = [client EXCEPT ![c].st = "done"] /\ \A x \in net' : x \in net
    BY <1>6, TakeSends DEF TakeLastAck
  <2>2. \A d \in Conns : Finishing(d) => Finishing(d)'
    BY <2>1 DEF Finishing, SessionInv, AnyClient
  <2> QED BY <2>1, <2>2, HonestKept
<1>7. ASSUME NEW m \in net, DropSegment(m) PROVE AckInv'
  <2>1. UNCHANGED client /\ \A x \in net' : x \in net
    BY <1>7 DEF DropSegment
  <2>2. \A d \in Conns : Finishing(d) => Finishing(d)'
    BY <2>1 DEF Finishing
  <2> QED BY <2>1, <2>2, HonestKept
<1>8. ASSUME NEW m \in net, ClientTakes(c, m) PROVE AckInv'
  <2>1. \/ client[c].st = "synsent" /\ TakeSynack(c, m)
        \/ TakeAck(c, m) \/ TakePage(c, m) \/ TakeLastAck(c, m) \/ DropSegment(m)
    BY <1>8 DEF ClientTakes
  <2> QED BY <2>1, <1>3, <1>4, <1>5, <1>6, <1>7
<1> QED BY <1>1, <1>2, <1>8 DEF Client

\* The server acknowledges all of a request, and a FIN only when there is one.
LEMMA ServerHonest ==
    ASSUME SessionInv, AckInv, NEW m \in net,
           AnswerSyn(m) \/ AnswerFin(m) \/ IgnoreAck(m) \/ \E len \in PageLens : AnswerGet(m, len)
    PROVE  AckInv'
<1>1. m.conn \in Conns /\ Honest(m)
  BY DEF SessionInv, AnySegment, AckInv
<1>2. UNCHANGED client
  BY DEF AnswerSyn, AnswerFin, IgnoreAck, AnswerGet
<1>3. \A d \in Conns : Finishing(d) => Finishing(d)'
  BY <1>2 DEF Finishing
<1>4. Finish(m.conn)' = Finish(m.conn) /\ Plus(Finish(m.conn), 1)' = Plus(Finish(m.conn), 1)
  BY DEF Request, Finish, Plus
<1>5. CASE AnswerSyn(m)
  <2> DEFINE r == Seg(m.conn, "synack", SessionStart, SteppedNumbers(m, 1, FALSE).ack, 0)
  <2>1. r.kind = "synack"
    BY DEF Seg
  <2>2. \A x \in net' : x \in net \/ x = r
    <3>1. Take(m, {r})
      BY <1>5 DEF AnswerSyn
    <3> HIDE DEF r
    <3> QED BY <3>1, TakeSends
  <2>3. ASSUME NEW x \in net' PROVE x \in net \/ Honest(x)'
    <3> HIDE DEF r
    <3> QED BY <2>1, <2>2 DEF Honest
  <2> QED BY <1>3, <2>3, HonestKept
<1>6. CASE AnswerFin(m)
  <2> DEFINE n == AckNumbers(m, DataLen(m))
             r == Seg(m.conn, "sack", n.seq, n.ack, 0)
  <2>1. m.kind = "fin" /\ DataLen(m) = 0
    BY <1>6 DEF AnswerFin
  <2>2. m.seq = Finish(m.conn) /\ Finishing(m.conn)'
    BY <1>1, <1>2, <2>1 DEF Honest, Finishing
  <2>3. r.kind = "sack" /\ r.conn = m.conn /\ r.ack = Plus(Finish(m.conn), 1)
    BY <2>1, <2>2 DEF Seg, AckNumbers, SteppedNumbers
  <2>4. \A x \in net' : x \in net \/ x = r
    <3>1. Take(m, {r})
      BY <1>6 DEF AnswerFin
    <3> HIDE DEF r
    <3> QED BY <3>1, TakeSends
  <2>5. ASSUME NEW x \in net' PROVE x \in net \/ Honest(x)'
    <3> HIDE DEF r
    <3> QED BY <1>4, <2>2, <2>3, <2>4 DEF Honest
  <2> QED BY <1>3, <2>5, HonestKept
<1>7. CASE IgnoreAck(m)
  <2>1. \A x \in net' : x \in net
    BY <1>7, TakeSends DEF IgnoreAck
  <2> QED BY <1>3, <2>1, HonestKept
<1>8. ASSUME NEW len \in PageLens, AnswerGet(m, len)
      PROVE  AckInv'
  <2> DEFINE n == AckNumbers(m, DataLen(m))
             r == Seg(m.conn, "sack", n.seq, n.ack, 0)
             p == Seg(m.conn, "page", n.seq, n.ack, len)
  <2>1. m.seq = Request(m.conn) /\ DataLen(m) = GET_LEN /\ GET_LEN # 0
    BY <1>1, <1>8, ServerAssumption DEF AnswerGet, Honest, DataLen
  <2>2. n.ack = Finish(m.conn)
    BY <2>1 DEF AckNumbers, SteppedNumbers, Finish
  <2>3. /\ r.kind = "sack" /\ r.conn = m.conn /\ r.ack = Finish(m.conn)
        /\ p.kind = "page" /\ p.conn = m.conn /\ p.ack = Finish(m.conn)
    <3> HIDE DEF n
    <3> QED BY <2>2 DEF Seg
  <2>4. \A x \in net' : x \in net \/ x = r \/ x = p
    <3>1. Take(m, {r, p})
      BY <1>8 DEF AnswerGet
    <3> HIDE DEF r, p
    <3> QED BY <3>1, TakeSends
  <2>5. ASSUME NEW x \in net' PROVE x \in net \/ Honest(x)'
    <3> HIDE DEF r, p
    <3> QED BY <1>4, <2>3, <2>4 DEF Honest
  <2> QED BY <1>3, <2>5, HonestKept
<1> QED BY <1>5, <1>6, <1>7, <1>8

\* Every step keeps everything in flight honest.
LEMMA AckInductive ==
    ASSUME SessionInv, AckInv, [Next]_vars
    PROVE  AckInv'
<1>1. ASSUME NEW m \in net, Lose(m) PROVE AckInv'
  <2>1. UNCHANGED client /\ \A x \in net' : x \in net
    BY <1>1 DEF Lose
  <2>2. \A d \in Conns : Finishing(d) => Finishing(d)'
    BY <2>1 DEF Finishing
  <2> QED BY <2>1, <2>2, HonestKept
<1>2. CASE UNCHANGED vars
  <2>1. UNCHANGED client /\ net' = net
    BY <1>2 DEF vars
  <2>2. \A d \in Conns : Finishing(d) => Finishing(d)'
    BY <2>1 DEF Finishing
  <2> QED BY <2>1, <2>2, HonestKept
<1> QED BY <1>1, <1>2, ClientHonest, ServerHonest DEF Next, Packetloop

\* Counted from the client's first number, its FIN comes after the request, and
\* the number after the FIN after that.
LEMMA Offsets ==
    ASSUME GET_LEN + 2 < SEQ, NEW c \in Conns
    PROVE  /\ (Finish(c) - CLIENT_ISN) % SEQ = GET_LEN + 1
           /\ (Plus(Finish(c), 1) - CLIENT_ISN) % SEQ = GET_LEN + 2
<1>1. {CLIENT_ISN, GET_LEN, SEQ} \subseteq Nat
  BY ServerAssumption
<1>2. Finish(c) = Plus(CLIENT_ISN, 1 + GET_LEN)
  BY <1>1, PlusPlus DEF Finish, Request
<1>3. Plus(Finish(c), 1) = Plus(CLIENT_ISN, (1 + GET_LEN) + 1)
  <2>1. 1 + GET_LEN \in Nat
    BY <1>1
  <2> QED BY <1>1, <1>2, <2>1, PlusPlus
<1>4. /\ 1 + GET_LEN \in Nat /\ 1 + GET_LEN < SEQ /\ 1 + GET_LEN = GET_LEN + 1
      /\ (1 + GET_LEN) + 1 \in Nat /\ (1 + GET_LEN) + 1 < SEQ
      /\ (1 + GET_LEN) + 1 = GET_LEN + 2
  BY <1>1
<1> QED BY <1>1, <1>2, <1>3, <1>4, Distance

\* ip_arp_udp_tcp.c:448-481: a segment without data is counted as one, and only
\* a FIN is answered that way, so the server never acknowledges what the client
\* has not sent, whatever was repeated or came late.  The request must not fill
\* the whole range of sequence numbers.
THEOREM NeverAcksMore ==
    ASSUME GET_LEN + 2 < SEQ
    PROVE  Spec => []NeverAcksUnsent
<1>1. Init => AckInv
  BY DEF Init, AckInv
<1>2. SessionInv /\ AckInv /\ [Next]_vars => SessionInv' /\ AckInv'
  BY SessionInductive, AckInductive
<1>3. SessionInv /\ AckInv => NeverAcksUnsent
  <2> SUFFICES ASSUME SessionInv, AckInv, NEW m \in FromServer
               PROVE  (m.ack - CLIENT_ISN) % SEQ <= (SentBy(m.conn) - CLIENT_ISN) % SEQ
    BY DEF NeverAcksUnsent
  <2>1. m.conn \in Conns /\ m.kind \in {"sack", "page"} /\ Honest(m)
    BY DEF FromServer, SessionInv, AnySegment, AckInv
  <2>2. SentBy(m.conn) = IF Finishing(m.conn) THEN Plus(Finish(m.conn), 1) ELSE Finish(m.conn)
    BY DEF SentBy, Finishing
  <2>3. /\ (Finish(m.conn) - CLIENT_ISN) % SEQ = GET_LEN + 1
        /\ (Plus(Finish(m.conn), 1) - CLIENT_ISN) % SEQ = GET_LEN + 2
    BY <2>1, Offsets
  <2>4. GET_LEN \in Nat
    BY ServerAssumption
  <2>5. CASE Finishing(m.conn)
    <3>1. m.ack = Finish(m.conn) \/ m.ack = Plus(Finish(m.conn), 1)
      BY <2>1 DEF Honest
    <3> QED BY <2>2, <2>3, <2>4, <2>5, <3>1
  <2>6. CASE ~Finishing(m.conn)
    <3>1. m.ack = Finish(m.conn)
      BY <2>1, <2>6 DEF Honest
    <3> QED BY <2>2, <2>3, <2>4, <2>6, <3>1
  <2> QED BY <2>5, <2>6
<1> QED BY SessionStarts, <1>1, <1>2, <1>3, PTL DEF Spec

-----------------------------------------------------------------------------
(* Sessions *)

\* Where the session starts that is opened after j others.
Start(j) == ((10 + STEP * j) % BYTE) * BYTE

\* The sessions a connection has been offered, or has chosen.
Joining(c) == { m \in net : m.kind = "synack" /\ m.conn = c }
SessionsOf(c) ==
    { m.seq : m \in Joining(c) } \cup (IF Chosen(c) THEN {client[c].base} ELSE {})

\* Connections that have been used, and those that may have another session opened
\* without anything being lost or repeated.
Started == { c \in Conns : client[c].st # "closed" }
Pending == { c \in Conns : \/ Syn(c) \in net
                           \/ client[c].st = "synsent" /\ Joining(c) = {} }

\* What the numbers of sessions rest on.
Regular(m) ==
    /\ m.kind = "syn" => m = Syn(m.conn)
    /\ m.kind = "synack" => m.ack = Request(m.conn)
    /\ m.kind = "page" => m.len \in PageLens

StartInv ==
    /\ losses \in 0..MaxLosses /\ dups \in 0..MaxDups
    /\ \A m \in net : Regular(m)

\* n sessions have been opened: one for every connection used, loss and duplicate
\* at most.  Every session is one of these, and no two connections have the same.
Opened(n) ==
    /\ seqnum = (10 + STEP * n) % BYTE
    /\ n + Cardinality(Pending) <= Cardinality(Started) + losses + dups
    /\ \A c \in Conns : \A b \in SessionsOf(c) : \E j \in 0..(n - 1) : b = Start(j)
    /\ \A c, d \in Conns : c # d => SessionsOf(c) \cap SessionsOf(d) = {}

MostSessions == Cardinality(Conns) + MaxLosses + MaxDups

\* A segment is read as it was written.
LEMMA SegIs ==
    \A c, kind, s, a, l :
        /\ Seg(c, kind, s, a, l).conn = c /\ Seg(c, kind, s, a, l).kind = kind
        /\ Seg(c, kind, s, a, l).seq = s /\ Seg(c, kind, s, a, l).ack = a
        /\ Seg(c, kind, s, a, l).len = l
BY DEF Seg

\* No number of the client's own segments changes.
LEMMA SameNumbers ==
    /\ \A c : Syn(c)' = Syn(c) /\ Syn(c).kind = "syn" /\ Syn(c).conn = c
              /\ Syn(c).seq = CLIENT_ISN
    /\ \A c : Request(c)' = Request(c)
BY DEF Syn, Request, Plus, Seg

\* A connection is offered or has chosen no session it was not offered before.
LEMMA NoNewSession ==
    ASSUME NEW c \in Conns,
           \A x \in net' : x.kind = "synack" => x \in net,
           Chosen(c)' => \/ Chosen(c) /\ client'[c].base = client[c].base
                         \/ client'[c].base \in SessionsOf(c)
    PROVE  SessionsOf(c)' \subseteq SessionsOf(c)
<1>1. \A b \in SessionsOf(c)' : \/ \E x \in net' : x.kind = "synack" /\ x.conn = c /\ b = x.seq
                                \/ Chosen(c)' /\ b = client'[c].base
  BY DEF SessionsOf, Joining
<1>2. \A x \in net : x.kind = "synack" /\ x.conn = c => x.seq \in SessionsOf(c)
  BY DEF SessionsOf, Joining
<1>3. Chosen(c) => client[c].base \in SessionsOf(c)
  BY DEF SessionsOf
<1> QED BY <1>1, <1>2, <1>3

\* Counts of connections.
LEMMA Counts ==
    ASSUME IsFiniteSet(Conns)
    PROVE  /\ Cardinality(Pending) \in Nat /\ Cardinality(Pending)' \in Nat
           /\ Cardinality(Started) \in Nat /\ Cardinality(Started)' \in Nat
           /\ Cardinality(Conns) \in Nat
           /\ Cardinality(Started) <= Cardinality(Conns)
           /\ Started \subseteq Started' => Cardinality(Started) <= Cardinality(Started)'
           /\ Pending' \subseteq Pending => Cardinality(Pending)' <= Cardinality(Pending)
           /\ \A c : Pending' \subseteq Pending \cup {c} =>
                        Cardinality(Pending)' <= Cardinality(Pending) + 1
           /\ \A c : c \in Pending /\ Pending' \subseteq Pending \ {c} =>
                        Cardinality(Pending)' + 1 <= Cardinality(Pending)
           /\ \A c \in Conns : c \notin Started /\ Started' = Started \cup {c} =>
                        Cardinality(Started)' = Cardinality(Started) + 1
<1> DEFINE P == Pending
           Q == Pending'
           S == Started
           T == Started'
<1>1. /\ P \subseteq Conns /\ Q \subseteq Conns /\ S \subseteq Conns /\ T \subseteq Conns
  BY DEF Pending, Started
<1> HIDE DEF P, Q, S, T
<1>2. IsFiniteSet(P) /\ IsFiniteSet(Q) /\ IsFiniteSet(S) /\ IsFiniteSet(T)
  BY <1>1, FS_Subset
<1>3. /\ Cardinality(P) \in Nat /\ Cardinality(Q) \in Nat /\ Cardinality(S) \in Nat
      /\ Cardinality(T) \in Nat /\ Cardinality(Conns) \in Nat
  BY <1>2, FS_CardinalityType
<1>4. /\ Cardinality(S) <= Cardinality(Conns)
      /\ S \subseteq T => Cardinality(S) <= Cardinality(T)
      /\ Q \subseteq P => Cardinality(Q) <= Cardinality(P)
  BY <1>1, <1>2, FS_Subset
<1>5. ASSUME NEW c, Q \subseteq P \cup {c} PROVE Cardinality(Q) <= Cardinality(P) + 1
  <2>1. /\ IsFiniteSet(P \cup {c})
        /\ Cardinality(P \cup {c}) = IF c \in P THEN Cardinality(P) ELSE Cardinality(P) + 1
    BY <1>2, FS_AddElement
  <2>2. Cardinality(Q) <= Cardinality(P \cup {c})
    BY <1>5, <2>1, FS_Subset
  <2> QED BY <1>3, <2>1, <2>2
<1>6. ASSUME NEW c, c \in P, Q \subseteq P \ {c} PROVE Cardinality(Q) + 1 <= Cardinality(P)
  <2>1. IsFiniteSet(P \ {c}) /\ Cardinality(P \ {c}) = Cardinality(P) - 1
    BY <1>2, <1>6, FS_RemoveElement
  <2>2. Cardinality(Q) <= Cardinality(P \ {c})
    BY <1>6, <2>1, FS_Subset
  <2> QED BY <1>3, <2>1, <2>2
<1>7. ASSUME NEW c \in Conns, c \notin S, T = S \cup {c}
      PROVE  Cardinality(T) = Cardinality(S) + 1
  BY <1>2, <1>7, FS_AddElement
<1> QED BY <1>3, <1>4, <1>5, <1>6, <1>7 DEF P, Q, S, T

\* Sessions are paid for before the step and after it.
LEMMA Budget ==
    ASSUME NEW n \in Nat, NEW p \in Nat, NEW q \in Nat, NEW s \in Nat, NEW t \in Nat,
           NEW a \in Nat, NEW b \in Nat, NEW d \in Nat, NEW e \in Nat
    PROVE  /\ n + p <= s + a + d /\ q + s + a + d <= p + t + b + e => n + q <= t + b + e
           /\ s <= t /\ q <= p /\ b >= a /\ e >= d => q + s + a + d <= p + t + b + e
           /\ s <= t /\ q <= p + 1 /\ b + e >= a + d + 1 => q + s + a + d <= p + t + b + e
OBVIOUS

\* A step that opens no session: what becomes pending must have been paid for.
LEMMA NothingOpened ==
    ASSUME StartInv, StartInv', NEW n \in Nat, Opened(n), IsFiniteSet(Conns),
           UNCHANGED seqnum,
           \A c \in Conns : SessionsOf(c)' \subseteq SessionsOf(c),
           Cardinality(Pending)' + Cardinality(Started) + losses + dups
               <= Cardinality(Pending) + Cardinality(Started)' + losses' + dups'
    PROVE  Opened(n)'
<1>1. losses \in Nat /\ dups \in Nat /\ losses' \in Nat /\ dups' \in Nat
  BY ServerAssumption DEF StartInv
<1>2. /\ Cardinality(Pending) \in Nat /\ Cardinality(Pending)' \in Nat
      /\ Cardinality(Started) \in Nat /\ Cardinality(Started)' \in Nat
  BY Counts
<1> DEFINE p == Cardinality(Pending)
           q == Cardinality(Pending)'
           s == Cardinality(Started)
           t == Cardinality(Started)'
<1>3. n + p <= s + losses + dups /\ q + s + losses + dups <= p + t + losses' + dups'
  BY DEF Opened
<1>4. p \in Nat /\ q \in Nat /\ s \in Nat /\ t \in Nat
  BY <1>2
<1> HIDE DEF p, q, s, t
<1>5. n + q <= t + losses' + dups'
  <2> DEFINE a == losses
             b == losses'
             d == dups
             e == dups'
  <2>1. /\ n \in Nat /\ a \in Nat /\ b \in Nat /\ d \in Nat /\ e \in Nat
        /\ n + p <= s + a + d /\ q + s + a + d <= p + t + b + e
    BY <1>1, <1>3
  <2> HIDE DEF a, b, d, e
  <2>2. n + q <= t + b + e
    BY <1>4, <2>1
  <2> QED BY <2>2 DEF b, e
<1>6. n + Cardinality(Pending)' <= Cardinality(Started)' + losses' + dups'
  BY <1>5 DEF q, t
<1>7. \A c \in Conns : \A b \in SessionsOf(c)' : \E j \in 0..(n - 1) : b = Start(j)
  BY DEF Opened
<1>8. \A c, d \in Conns : c # d => SessionsOf(c)' \cap SessionsOf(d)' = {}
  BY DEF Opened
<1>9. \A j : Start(j)' = Start(j)
  BY DEF Start
<1> QED BY <1>6, <1>7, <1>8, <1>9 DEF Opened

\* So in a step that makes nothing pending, or one connection for a loss or a
\* duplicate.
LEMMA NothingPending ==
    ASSUME StartInv, StartInv', NEW n \in Nat, Opened(n), IsFiniteSet(Conns),
           UNCHANGED seqnum,
           \A c \in Conns : SessionsOf(c)' \subseteq SessionsOf(c),
           Started \subseteq Started', losses' >= losses, dups' >= dups,
           NEW c, Pending' \subseteq Pending \cup {c},
           Pending' \subseteq Pending \/ losses' + dups' >= losses + dups + 1
    PROVE  Opened(n)'
<1>1. losses \in Nat /\ dups \in Nat /\ losses' \in Nat /\ dups' \in Nat
  BY ServerAssumption DEF StartInv
<1> DEFINE p == Cardinality(Pending)
           q == Cardinality(Pending)'
           s == Cardinality(Started)
           t == Cardinality(Started)'
<1>2. p \in Nat /\ q \in Nat /\ s \in Nat /\ t \in Nat /\ s <= t /\ q <= p + 1
  BY Counts
<1>3. Pending' \subseteq Pending => q <= p
  BY Counts
<1> HIDE DEF p, q, s, t
<1>4. q + s + losses + dups <= p + t + losses' + dups'
  BY <1>1, <1>2, <1>3, Budget
<1> QED BY <1>4, NothingOpened DEF p, q, s, t

-----------------------------------------------------------------------------
(* Regular segments *)

\* What is sent by clients and the server has the numbers it should have.
LEMMA RegularKept ==
    ASSUME SessionInv, StartInv, losses' \in 0..MaxLosses, dups' \in 0..MaxDups,
           \A x \in net' : x \in net \/ Regular(x)
    PROVE  StartInv'
<1>1. \A x : Regular(x)' <=> Regular(x)
  BY SameNumbers DEF Regular
<1> QED BY <1>1 DEF StartInv

\* The kinds that carry no number of interest.
LEMMA OtherRegular ==
    /\ \A c : Regular(Syn(c))
    /\ \A c, b : Regular(GetFor(c, b)) /\ GetFor(c, b).kind = "get"
                 /\ GetFor(c, b).conn = c
    /\ \A c, b, l : Regular(FinFor(c, b, l)) /\ FinFor(c, b, l).kind = "fin"
    /\ \A c, s, a, l : Regular(Seg(c, "ack", s, a, l)) /\ Regular(Seg(c, "sack", s, a, l))
BY SegIs, SameNumbers DEF Regular, GetFor, FinFor

\* A duplicate is counted, and what leaves the network without one is gone.
LEMMA TakeCounts ==
    ASSUME StartInv, NEW m, NEW sent, Take(m, sent)
    PROVE  /\ dups' \in 0..MaxDups /\ dups' \in Nat /\ dups \in Nat
           /\ \/ dups' = dups /\ net' = (net \ {m}) \cup sent
              \/ dups' = dups + 1 /\ net' = net \cup sent
<1>1. dups \in 0..MaxDups /\ MaxDups \in Nat
  BY ServerAssumption DEF StartInv
<1> QED BY <1>1 DEF Take

\* Every step keeps segments regular.
LEMMA RegularStep ==
    ASSUME SessionInv, StartInv, [Next]_vars
    PROVE  StartInv'
<1>1. /\ losses \in 0..MaxLosses /\ dups \in 0..MaxDups
      /\ MaxLosses \in Nat /\ MaxDups \in Nat
  BY ServerAssumption DEF StartInv
<1>2. ASSUME NEW c \in Conns, Connect(c) PROVE StartInv'
  <2>1. \A x \in net' : x \in net \/ x = Syn(c)
    BY <1>2 DEF Connect
  <2>2. UNCHANGED <<losses, dups>>
    BY <1>2 DEF Connect
  <2> QED BY <1>1, <2>1, <2>2, OtherRegular, RegularKept
<1>3. ASSUME NEW c \in Conns, Retransmit(c) PROVE StartInv'
  <2>1. \A x \in net' : x \in net \/ x \in Unacked(c)
    BY <1>3 DEF Retransmit
  <2>2. losses' \in 0..MaxLosses /\ dups' \in 0..MaxDups
    BY <1>1, <1>3 DEF Retransmit
  <2>3. \A x \in Unacked(c) : Regular(x)
    BY OtherRegular DEF Unacked
  <2> QED BY <2>1, <2>2, <2>3, RegularKept
<1>4. ASSUME NEW c \in Conns, NEW m \in net, ClientTakes(c, m) PROVE StartInv'
  <2>1. losses' = losses
    BY <1>4 DEF ClientTakes
  <2>2. \/ TakeSynack(c, m) \/ TakeAck(c, m) \/ TakePage(c, m) \/ TakeLastAck(c, m)
        \/ DropSegment(m)
    BY <1>4 DEF ClientTakes
  <2>3. CASE DropSegment(m)
    BY <1>1, <2>1, <2>3, RegularKept DEF DropSegment
  <2>4. CASE TakeSynack(c, m)
    <3>1. Take(m, {GetFor(c, m.seq), Seg(c, "ack", Request(c), Plus(m.seq, 1), 0)})
      BY <2>4 DEF TakeSynack
    <3> QED BY <1>1, <2>1, <3>1, TakeCounts, TakeSends, OtherRegular, RegularKept
  <2>5. CASE TakePage(c, m)
    <3>1. Take(m, {FinFor(c, client[c].base, m.len)})
      BY <2>5 DEF TakePage
    <3> QED BY <1>1, <2>1, <3>1, TakeCounts, TakeSends, OtherRegular, RegularKept
  <2>6. CASE TakeAck(c, m) \/ TakeLastAck(c, m)
    <3>1. Take(m, {})
      BY <2>6 DEF TakeAck, TakeLastAck
    <3> QED BY <1>1, <2>1, <3>1, TakeCounts, TakeSends, RegularKept
  <2> QED BY <2>2, <2>3, <2>4, <2>5, <2>6
<1>5. ASSUME NEW m \in net, AnswerSyn(m) PROVE StartInv'
  <2> DEFINE r == Seg(m.conn, "synack", SessionStart, SteppedNumbers(m, 1, FALSE).ack, 0)
  <2>1. Take(m, {r}) /\ losses' = losses
    BY <1>5 DEF AnswerSyn
  <2>2. m.seq = CLIENT_ISN
    BY <1>5, SameNumbers DEF AnswerSyn, StartInv, Regular
  <2>3. r.kind = "synack" /\ r.conn = m.conn /\ r.ack = Request(m.conn)
    BY <2>2, SegIs DEF SteppedNumbers, Request
  <2> HIDE DEF r
  <2>4. Regular(r)
    BY <2>3 DEF Regular
  <2> QED BY <1>1, <2>1, <2>4, TakeCounts, TakeSends, RegularKept
<1>6. ASSUME NEW m \in net, AnswerFin(m) \/ IgnoreAck(m) PROVE StartInv'
  <2>1. losses' = losses /\ \/ Take(m, {})
                            \/ \E s, a : Take(m, {Seg(m.conn, "sack", s, a, 0)})
    BY <1>6 DEF AnswerFin, IgnoreAck
  <2>2. dups' \in 0..MaxDups
    BY <2>1, TakeCounts
  <2>3. \A x \in net' : x \in net \/ \E s, a : x = Seg(m.conn, "sack", s, a, 0)
    <3>1. CASE Take(m, {})
      BY <3>1, TakeSends
    <3>2. ASSUME NEW s, NEW a, Take(m, {Seg(m.conn, "sack", s, a, 0)})
          PROVE  \A x \in net' : x \in net \/ x = Seg(m.conn, "sack", s, a, 0)
      BY <3>2, TakeSends
    <3> QED BY <2>1, <3>1, <3>2
  <2> QED BY <1>1, <2>1, <2>2, <2>3, OtherRegular, RegularKept
<1>7. ASSUME NEW m \in net, NEW len \in PageLens, AnswerGet(m, len) PROVE StartInv'
  <2> DEFINE n == AckNumbers(m, DataLen(m))
             r == Seg(m.conn, "sack", n.seq, n.ack, 0)
             p == Seg(m.conn, "page", n.seq, n.ack, len)
  <2>1. Take(m, {r, p}) /\ losses' = losses
    BY <1>7 DEF AnswerGet
  <2> HIDE DEF n
  <2>2. Regular(r) /\ p.kind = "page" /\ p.len \in PageLens
    BY <1>7, OtherRegular, SegIs
  <2> HIDE DEF r, p
  <2>3. Regular(p)
    BY <2>2 DEF Regular
  <2> QED BY <1>1, <2>1, <2>2, <2>3, TakeCounts, TakeSends, RegularKept
<1>8. ASSUME NEW m \in net, Lose(m) PROVE StartInv'
  BY <1>1, <1>8, RegularKept DEF Lose
<1>9. CASE UNCHANGED vars
  BY <1>1, <1>9, RegularKept DEF vars
<1> QED BY <1>2, <1>3, <1>4, <1>5, <1>6, <1>7, <1>8, <1>9 DEF Next, Client, Packetloop

-----------------------------------------------------------------------------
(* Steps and the sessions opened *)

\* Pending connections, and who is no longer.
LEMMA PendingIs ==
    /\ \A c \in Conns : c \in Pending <=>
          \/ Syn(c) \in net
          \/ client[c].st = "synsent" /\ \A x \in net : ~(x.kind = "synack" /\ x.conn = c)
    /\ \A c \in Conns : c \in Pending' <=>
          \/ Syn(c) \in net'
          \/ client'[c].st = "synsent" /\ \A x \in net' : ~(x.kind = "synack" /\ x.conn = c)
    /\ Pending \subseteq Conns /\ Pending' \subseteq Conns
<1>1. \A c : Joining(c) = {} <=> \A x \in net : ~(x.kind = "synack" /\ x.conn = c)
  BY DEF Joining
<1>2. \A c : Joining(c)' = {} <=> \A x \in net' : ~(x.kind = "synack" /\ x.conn = c)
  BY DEF Joining
<1>3. \A c : Syn(c)' = Syn(c)
  BY SameNumbers
<1> QED BY <1>1, <1>2, <1>3 DEF Pending

\* A connection is used, and its SYN sent.
LEMMA ConnectOpens ==
    ASSUME SessionInv, StartInv, StartInv', NEW n \in Nat, Opened(n), IsFiniteSet(Conns),
           NEW c \in Conns, Connect(c)
    PROVE  Opened(n)'
<1>1. /\ client' = [client EXCEPT ![c].st = "synsent"] /\ client[c].st = "closed"
      /\ net' = net \cup {Syn(c)} /\ UNCHANGED <<seqnum, losses, dups>>
  BY DEF Connect
<1>2. /\ client'[c].st = "synsent"
      /\ \A d \in Conns \ {c} : client'[d] = client[d]
  BY <1>1 DEF SessionInv, AnyClient
<1>3. ASSUME NEW d \in Conns PROVE SessionsOf(d)' \subseteq SessionsOf(d)
  <2>1. Chosen(d)' => Chosen(d) /\ client'[d].base = client[d].base
    BY <1>2 DEF Chosen
  <2>2. \A x \in net' : x.kind = "synack" => x \in net
    BY <1>1, SameNumbers
  <2> QED BY <2>1, <2>2, NoNewSession
<1>4. Pending' \subseteq Pending \cup {c}
  <2> SUFFICES ASSUME NEW d \in Pending', d # c PROVE d \in Pending
    OBVIOUS
  <2>1. d \in Conns /\ client'[d] = client[d]
    BY <1>2, PendingIs
  <2>2. Syn(d) # Syn(c)
    BY SameNumbers
  <2> QED BY <1>1, <2>1, <2>2, PendingIs
<1>5. c \notin Started /\ Started' = Started \cup {c}
  BY <1>1, <1>2 DEF Started
<1> DEFINE p == Cardinality(Pending)
           q == Cardinality(Pending)'
           s == Cardinality(Started)
           t == Cardinality(Started)'
<1>6. q <= p + 1 /\ t = s + 1 /\ p \in Nat /\ q \in Nat /\ s \in Nat /\ t \in Nat
  BY <1>4, <1>5, Counts
<1>7. losses \in Nat /\ dups \in Nat /\ losses' = losses /\ dups' = dups
  BY <1>1, ServerAssumption DEF StartInv
<1> HIDE DEF p, q, s, t
<1>8. q + s + losses + dups <= p + t + losses' + dups'
  BY <1>6, <1>7
<1> QED BY <1>1, <1>3, <1>8, NothingOpened DEF p, q, s, t

\* A SYN is repeated when nothing of the connection is left in flight, in which case
\* something has been lost, or at the cost of a duplicate.
LEMMA RetransmitOpens ==
    ASSUME SessionInv, StartInv, StartInv', NEW n \in Nat, Opened(n), IsFiniteSet(Conns),
           NEW c \in Conns, Retransmit(c)
    PROVE  Opened(n)'
<1>1. /\ net' = net \cup Unacked(c) /\ UNCHANGED <<seqnum, client, losses>>
      /\ \/ ~Late(c) /\ dups' = dups
         \/ dups' = dups + 1
  BY DEF Retransmit
<1>2. /\ losses \in Nat /\ dups \in Nat
  BY ServerAssumption DEF StartInv
<1>3. \A x \in Unacked(c) : /\ x.kind # "synack"
                            /\ x.kind = "syn" => x = Syn(c) /\ client[c].st = "synsent"
  <2>1. /\ \A b : GetFor(c, b).kind = "get"
        /\ \A b, l : FinFor(c, b, l).kind = "fin"
    BY OtherRegular
  <2> QED BY <2>1, SameNumbers DEF Unacked
<1>4. ASSUME NEW d \in Conns PROVE SessionsOf(d)' \subseteq SessionsOf(d)
  <2>1. Chosen(d)' => Chosen(d) /\ client'[d].base = client[d].base
    BY <1>1 DEF Chosen
  <2>2. \A x \in net' : x.kind = "synack" => x \in net
    BY <1>1, <1>3
  <2> QED BY <2>1, <2>2, NoNewSession
<1>5. ASSUME NEW d \in Pending'
      PROVE  d \in Pending \/ (d = c /\ client[c].st = "synsent")
  <2>1. d \in Conns /\ client'[d] = client[d] /\ Syn(d).kind = "syn" /\ Syn(d).conn = d
    BY <1>1, SameNumbers, PendingIs
  <2>2. CASE Syn(d) \in Unacked(c)
    <3>1. Syn(d) = Syn(c) /\ client[c].st = "synsent"
      BY <1>3, <2>1, <2>2
    <3> QED BY <3>1, SameNumbers
  <2>3. CASE Syn(d) \notin Unacked(c)
    BY <1>1, <2>1, <2>3, PendingIs
  <2> QED BY <2>2, <2>3
<1>6. ~Late(c) /\ client[c].st = "synsent" => c \in Pending
  BY PendingIs DEF Late
<1>7. Pending' \subseteq Pending \cup {c}
  BY <1>5
<1>8. Pending' \subseteq Pending \/ losses' + dups' >= losses + dups + 1
  <2>1. CASE ~Late(c)
    BY <1>5, <1>6, <2>1
  <2>2. CASE dups' = dups + 1
    BY <1>1, <1>2, <2>2
  <2> QED BY <1>1, <2>1, <2>2
<1>9. Started \subseteq Started' /\ losses' >= losses /\ dups' >= dups
  BY <1>1, <1>2 DEF Started
<1> QED BY <1>1, <1>4, <1>7, <1>8, <1>9, NothingPending

\* A client that takes or drops a segment makes nothing pending: it only drops the
\* offer of a session when it has chosen one.
LEMMA ClientOpens ==
    ASSUME SessionInv, StartInv, StartInv', NEW n \in Nat, Opened(n), IsFiniteSet(Conns),
           NEW c \in Conns, NEW m \in net, ClientTakes(c, m)
    PROVE  Opened(n)'
<1>1. /\ UNCHANGED <<seqnum, losses>> /\ m.conn = c /\ losses \in Nat /\ dups \in Nat
      /\ m.kind # "syn"
  BY ServerAssumption DEF ClientTakes, StartInv, FromClient
<1>2. client \in [Conns -> AnyClient]
  BY DEF SessionInv
<1>3. ASSUME NEW k, client' = [client EXCEPT ![c] = k], k.st # "synsent", k.st # "closed",
             \/ k.base = m.seq /\ m.kind = "synack"
             \/ client[c].st \in {"open", "closing"} /\ k.base = client[c].base,
             \A x \in net' : x \in net \/ x.kind \notin {"syn", "synack"},
             \A x \in net : x \in net' \/ x = m,
             dups' >= dups
      PROVE  Opened(n)'
  <2>1. client'[c] = k /\ \A d \in Conns \ {c} : client'[d] = client[d]
    BY <1>2, <1>3
  <2>2. ASSUME NEW d \in Conns PROVE SessionsOf(d)' \subseteq SessionsOf(d)
    <3>1. CASE d # c
      <4>1. Chosen(d)' => Chosen(d) /\ client'[d].base = client[d].base
        BY <2>1, <3>1 DEF Chosen
      <4> QED BY <1>3, <4>1, NoNewSession
    <3>2. CASE d = c
      <4>1. k.base = m.seq /\ m.kind = "synack" => k.base \in SessionsOf(c)
        BY <1>1 DEF SessionsOf, Joining
      <4>2. client[c].st \in {"open", "closing"} => Chosen(c)
        BY DEF Chosen
      <4>3. Chosen(c)' => \/ Chosen(c) /\ client'[c].base = client[c].base
                          \/ client'[c].base \in SessionsOf(c)
        BY <1>3, <2>1, <4>1, <4>2
      <4> QED BY <1>3, <3>2, <4>3, NoNewSession
    <3> QED BY <3>1, <3>2
  <2>3. ASSUME NEW d \in Pending' PROVE d \in Pending
    <3>1. d \in Conns /\ Syn(d).kind = "syn"
      BY SameNumbers, PendingIs
    <3>2. Syn(d) \in net' => Syn(d) \in net
      BY <1>3, <3>1
    <3>3. CASE d = c
      BY <1>3, <2>1, <3>1, <3>2, <3>3, PendingIs
    <3>4. CASE d # c
      BY <1>1, <1>3, <2>1, <3>1, <3>2, <3>4, PendingIs
    <3> QED BY <3>3, <3>4
  <2>4. Started \subseteq Started'
    BY <1>3, <2>1 DEF Started
  <2>5. Pending' \subseteq Pending \cup {c} /\ Pending' \subseteq Pending /\ losses' >= losses
    BY <1>1, <2>3
  <2> QED BY <1>1, <1>3, <2>2, <2>4, <2>5, NothingPending
<1>4. client[c] \in AnyClient
  BY <1>2
<1>5. CASE client[c].st = "synsent" /\ m.kind = "synack" /\ TakeSynack(c, m)
  <2> DEFINE k == [client[c] EXCEPT !.st = "open", !.base = m.seq]
             a == GetFor(c, m.seq)
             b == Seg(c, "ack", Request(c), Plus(m.seq, 1), 0)
  <2>1. client' = [client EXCEPT ![c] = k] /\ Take(m, {a, b})
    BY <1>2, <1>4, <1>5 DEF TakeSynack, AnyClient
  <2>2. k.st = "open" /\ k.base = m.seq
    BY <1>4 DEF AnyClient
  <2>3. a.kind = "get" /\ b.kind = "ack"
    BY OtherRegular, SegIs
  <2> HIDE DEF k, a, b
  <2>4. /\ \A x \in net' : x \in net \/ x.kind \notin {"syn", "synack"}
        /\ \A x \in net : x \in net' \/ x = m
        /\ dups' >= dups
    BY <2>1, <2>3, TakeCounts
  <2> QED BY <1>3, <1>5, <2>1, <2>2, <2>4
<1>6. CASE client[c].st = "open" /\ TakeAck(c, m)
  <2> DEFINE k == [client[c] EXCEPT !.acked = TRUE]
  <2>1. client' = [client EXCEPT ![c] = k] /\ Take(m, {})
    BY <1>2, <1>4, <1>6 DEF TakeAck, AnyClient
  <2>2. k.st = "open" /\ k.base = client[c].base
    BY <1>4, <1>6 DEF AnyClient
  <2> HIDE DEF k
  <2>3. /\ \A x \in net' : x \in net
        /\ \A x \in net : x \in net' \/ x = m
        /\ dups' >= dups
    BY <2>1, TakeCounts
  <2> QED BY <1>3, <1>6, <2>1, <2>2, <2>3
<1>7. CASE client[c].st = "open" /\ TakePage(c, m)
  <2> DEFINE k == [client[c] EXCEPT !.st = "closing", !.acked = TRUE, !.page = m.len]
             f == FinFor(c, client[c].base, m.len)
  <2>1. client' = [client EXCEPT ![c] = k] /\ Take(m, {f})
    BY <1>2, <1>4, <1>7 DEF TakePage, AnyClient
  <2>2. k.st = "closing" /\ k.base = client[c].base
    BY <1>4 DEF AnyClient
  <2>3. f.kind = "fin"
    BY OtherRegular
  <2> HIDE DEF k, f
  <2>4. /\ \A x \in net' : x \in net \/ x.kind \notin {"syn", "synack"}
        /\ \A x \in net : x \in net' \/ x = m
        /\ dups' >= dups
    BY <2>1, <2>3, TakeCounts
  <2> QED BY <1>3, <1>7, <2>1, <2>2, <2>4
<1>8. CASE client[c].st = "closing" /\ TakeLastAck(c, m)
  <2> DEFINE k == [client[c] EXCEPT !.st = "done"]
  <2>1. client' = [client EXCEPT ![c] = k] /\ Take(m, {})
    BY <1>2, <1>4, <1>8 DEF TakeLastAck, AnyClient
  <2>2. k.st = "done" /\ k.base = client[c].base
    BY <1>4 DEF AnyClient
  <2> HIDE DEF k
  <2>3. /\ \A x \in net' : x \in net
        /\ \A x \in net : x \in net' \/ x = m
        /\ dups' >= dups
    BY <2>1, TakeCounts
  <2> QED BY <1>3, <1>8, <2>1, <2>2, <2>3
<1>9. CASE DropSegment(m) /\ ~(m.kind = "synack" /\ client[c].st = "synsent")
  <2>1. net' = net \ {m} /\ UNCHANGED <<client, dups>>
    BY <1>9 DEF DropSegment
  <2>2. ASSUME NEW d \in Conns PROVE SessionsOf(d)' \subseteq SessionsOf(d)
    <3>1. Chosen(d)' => Chosen(d) /\ client'[d].base = client[d].base
      BY <2>1 DEF Chosen
    <3> QED BY <2>1, <3>1, NoNewSession
  <2>3. ASSUME NEW d \in Pending' PROVE d \in Pending
    <3>1. d \in Conns
      BY PendingIs
    <3> QED BY <1>1, <1>9, <2>1, <3>1, PendingIs
  <2>4. Started \subseteq Started' /\ losses' >= losses /\ dups' >= dups
    BY <1>1, <2>1 DEF Started
  <2>5. Pending' \subseteq Pending \cup {c} /\ Pending' \subseteq Pending
    BY <2>3
  <2> QED BY <1>1, <2>2, <2>4, <2>5, NothingPending
<1>10. m.kind = "synack" /\ client[c].st = "synsent" => TakeSynack(c, m)
  <2>1. m.kind = "synack" => m.ack = Request(c)
    BY <1>1 DEF StartInv, Regular
  <2> QED BY <2>1 DEF ClientTakes
<1>11. \/ client[c].st = "synsent" /\ m.kind = "synack" /\ TakeSynack(c, m)
       \/ client[c].st = "open" /\ TakeAck(c, m)
       \/ client[c].st = "open" /\ TakePage(c, m)
       \/ client[c].st = "closing" /\ TakeLastAck(c, m)
       \/ DropSegment(m)
  BY DEF ClientTakes
<1> QED BY <1>5, <1>6, <1>7, <1>8, <1>9, <1>10, <1>11

\* Only the answer to a SYN opens a session; anything else the server does not.
LEMMA ServerOpensNone ==
    ASSUME SessionInv, StartInv, StartInv', NEW n \in Nat, Opened(n), IsFiniteSet(Conns),
           NEW m \in net,
           AnswerFin(m) \/ IgnoreAck(m) \/ \E len \in PageLens : AnswerGet(m, len)
    PROVE  Opened(n)'
<1>1. PICK sent : /\ Take(m, sent)
                  /\ \A x \in sent : x.kind \in {"sack", "page"}
  <2>1. CASE AnswerFin(m)
    <3>1. PICK s, a : Take(m, {Seg(m.conn, "sack", s, a, 0)})
      BY <2>1 DEF AnswerFin
    <3>2. \A x \in {Seg(m.conn, "sack", s, a, 0)} : x.kind \in {"sack", "page"}
      BY SegIs
    <3> QED BY <3>1, <3>2
  <2>2. CASE IgnoreAck(m)
    BY <2>2 DEF IgnoreAck
  <2>3. ASSUME NEW len \in PageLens, AnswerGet(m, len)
        PROVE  \E sent : Take(m, sent) /\ \A x \in sent : x.kind \in {"sack", "page"}
    <3>1. PICK s, a : Take(m, {Seg(m.conn, "sack", s, a, 0), Seg(m.conn, "page", s, a, len)})
      BY <2>3 DEF AnswerGet
    <3>2. \A x \in {Seg(m.conn, "sack", s, a, 0), Seg(m.conn, "page", s, a, len)} :
              x.kind \in {"sack", "page"}
      BY SegIs
    <3> QED BY <3>1, <3>2
  <2> QED BY <2>1, <2>2, <2>3
<1>2. /\ UNCHANGED <<seqnum, client, losses>> /\ m.kind \in {"fin", "ack", "get"}
      /\ losses \in Nat /\ dups \in Nat
  <2>1. CASE AnswerFin(m) \/ IgnoreAck(m)
    BY <2>1 DEF AnswerFin, IgnoreAck, StartInv
  <2>2. ASSUME NEW len \in PageLens, AnswerGet(m, len)
        PROVE  UNCHANGED <<seqnum, client, losses>> /\ m.kind = "get"
    BY <2>2 DEF AnswerGet
  <2>3. losses \in Nat /\ dups \in Nat
    BY DEF StartInv
  <2> QED BY <2>1, <2>2, <2>3
<1>3. /\ \A x \in net' : x \in net \/ x.kind \in {"sack", "page"}
      /\ \A x \in net : x \in net' \/ x = m
      /\ dups' >= dups
  BY <1>1, TakeCounts
<1>4. ASSUME NEW d \in Conns PROVE SessionsOf(d)' \subseteq SessionsOf(d)
  <2>1. Chosen(d)' => Chosen(d) /\ client'[d].base = client[d].base
    BY <1>2 DEF Chosen
  <2> QED BY <1>3, <2>1, NoNewSession
<1>5. ASSUME NEW d \in Pending' PROVE d \in Pending
  <2>1. d \in Conns /\ Syn(d).kind = "syn"
    BY SameNumbers, PendingIs
  <2> QED BY <1>2, <1>3, <2>1, PendingIs
<1>6. Started \subseteq Started' /\ losses' >= losses
  BY <1>2 DEF Started
<1>7. Pending' \subseteq Pending \cup {m.conn} /\ Pending' \subseteq Pending
  BY <1>5
<1> QED BY <1>2, <1>3, <1>4, <1>6, <1>7, NothingPending

\* What is lost may have to be sent again.
LEMMA LoseOpens ==
    ASSUME SessionInv, StartInv, StartInv', NEW n \in Nat, Opened(n), IsFiniteSet(Conns),
           NEW m \in net, Lose(m)
    PROVE  Opened(n)'
<1>1. /\ net' = net \ {m} /\ losses' = losses + 1 /\ UNCHANGED <<seqnum, client, dups>>
      /\ losses \in Nat /\ dups \in Nat
  BY ServerAssumption DEF Lose, StartInv
<1>2. ASSUME NEW d \in Conns PROVE SessionsOf(d)' \subseteq SessionsOf(d)
  <2>1. Chosen(d)' => Chosen(d) /\ client'[d].base = client[d].base
    BY <1>1 DEF Chosen
  <2> QED BY <1>1, <2>1, NoNewSession
<1>3. ASSUME NEW d \in Pending' PROVE d \in Pending \/ d = m.conn
  <2>1. d \in Conns
    BY PendingIs
  <2> QED BY <1>1, <2>1, PendingIs
<1>4. Started \subseteq Started'
  BY <1>1 DEF Started
<1>5. losses' >= losses /\ dups' >= dups /\ losses' + dups' >= losses + dups + 1
  BY <1>1
<1>6. Pending' \subseteq Pending \cup {m.conn}
  BY <1>3
<1> QED BY <1>1, <1>2, <1>4, <1>5, <1>6, NothingPending

\* Two of the first BYTE / STEP sessions are at least STEP of the byte apart.
LEMMA StartsApart ==
    ASSUME NEW k \in Nat, STEP * k <= BYTE, NEW i \in 0..(k - 1), NEW j \in 0..(k - 1), i < j,
           NEW a, a = (10 + STEP * i) % BYTE, NEW b, b = (10 + STEP * j) % BYTE
    PROVE  /\ a \in 0..(BYTE - 1) /\ b \in 0..(BYTE - 1)
           /\ a + STEP <= b \/ b + STEP <= a
<1>1. STEP \in Nat \ {0} /\ BYTE \in Nat \ {0}
  BY ServerAssumption
<1> DEFINE x == 10 + STEP * i
           d == STEP * (j - i)
<1>2. x \in Nat /\ d \in Nat /\ 10 + STEP * j = x + d
  BY <1>1
<1>3. STEP <= d /\ d + STEP <= BYTE
  <2>1. j - i >= 1 /\ j - i <= k - 1
    OBVIOUS
  <2>2. d >= STEP * 1
    BY <1>1, <2>1
  <2>3. STEP * (j - i) + STEP = STEP * (j - i + 1)
    BY <1>1
  <2>4. STEP * (j - i + 1) <= STEP * k
    BY <1>1, <2>1
  <2> QED BY <1>1, <2>2, <2>3, <2>4
<1> HIDE DEF x, d
<1>4. a = x % BYTE /\ b = (x + d) % BYTE
  BY <1>2 DEF x
<1>5. b = (a + d) % BYTE /\ a \in 0..(BYTE - 1) /\ b \in 0..(BYTE - 1)
  <2>1. x % BYTE \in 0..(BYTE - 1) /\ (x + d) % BYTE \in 0..(BYTE - 1)
    BY <1>1, <1>2, Division
  <2>2. ((x % BYTE) + d) % BYTE = (x + d) % BYTE
    BY <1>1, <1>2, RemainderAdds
  <2> QED BY <1>4, <2>1, <2>2
<1>6. b = IF a + d < BYTE THEN a + d ELSE a + d - BYTE
  <2>1. CASE a + d < BYTE
    <3> DEFINE v == a + d
    <3>1. BYTE * 0 + v = v /\ v \in 0..(BYTE - 1) /\ BYTE \in Nat \ {0} /\ 0 \in Int
      BY <1>1, <1>2, <1>5, <2>1
    <3> HIDE DEF v
    <3>2. (BYTE * 0 + v) % BYTE = v
      BY <3>1, RemainderUnique
    <3>3. v % BYTE = v
      BY <3>1, <3>2
    <3> QED BY <1>5, <2>1, <3>3 DEF v
  <2>2. CASE ~(a + d < BYTE)
    <3> DEFINE v == a + d - BYTE
    <3>1. BYTE * 1 + v = a + d /\ v \in 0..(BYTE - 1) /\ BYTE \in Nat \ {0} /\ 1 \in Int
      BY <1>1, <1>2, <1>3, <1>5, <2>2
    <3> HIDE DEF v
    <3>2. (BYTE * 1 + v) % BYTE = v
      BY <3>1, RemainderUnique
    <3>3. (a + d) % BYTE = v
      BY <3>1, <3>2
    <3> QED BY <1>5, <2>2, <3>3 DEF v
  <2> QED BY <2>1, <2>2
<1>7. a + STEP <= b \/ b + STEP <= a
  BY <1>1, <1>2, <1>3, <1>5, <1>6
<1> QED BY <1>5, <1>7

\* No more sessions are opened than there are connections, losses and duplicates.
LEMMA FewOpened ==
    ASSUME StartInv, IsFiniteSet(Conns), NEW n \in Nat, Opened(n)
    PROVE  /\ MostSessions \in Nat /\ n <= MostSessions
           /\ Pending # {} => n + 1 <= MostSessions
<1> DEFINE p == Cardinality(Pending)
           s == Cardinality(Started)
           c == Cardinality(Conns)
<1>1. p \in Nat /\ s \in Nat /\ c \in Nat /\ s <= c
  BY Counts
<1>2. Pending # {} => p # 0
  <2>1. Pending \subseteq Conns
    BY PendingIs
  <2> QED BY <2>1, FS_Subset, FS_EmptySet
<1>3. /\ losses \in Nat /\ dups \in Nat /\ MaxLosses \in Nat /\ MaxDups \in Nat
      /\ losses <= MaxLosses /\ dups <= MaxDups
  BY ServerAssumption DEF StartInv
<1>4. n + p <= s + losses + dups /\ MostSessions = c + MaxLosses + MaxDups
  BY DEF Opened, MostSessions
<1> HIDE DEF p, s, c
<1>5. MostSessions \in Nat /\ n + p <= MostSessions
  BY <1>1, <1>3, <1>4
<1> QED BY <1>1, <1>2, <1>5

\* A SYN opens one session, with a number that no other connection has.
LEMMA SynOpens ==
    ASSUME SessionInv, StartInv, StartInv', NEW n \in Nat, Opened(n), IsFiniteSet(Conns),
           STEP * MostSessions <= BYTE, NEW m \in net, AnswerSyn(m)
    PROVE  Opened(n + 1)'
<1> DEFINE c == m.conn
           g == SteppedNumbers(m, 1, FALSE).ack
           r == Seg(c, "synack", SessionStart, g, 0)
<1>1. /\ Take(m, {r}) /\ seqnum' = NextSeqnum /\ UNCHANGED <<client, losses>>
      /\ m = Syn(c) /\ c \in Conns /\ m.kind = "syn"
  BY DEF AnswerSyn, StartInv, Regular, SessionInv, AnySegment
<1>2. r.kind = "synack" /\ r.conn = c /\ r.seq = seqnum * BYTE
  <2> HIDE DEF c, g
  <2> QED BY DEF SessionStart, Seg
<1> HIDE DEF c, r
<1>3. STEP \in Nat \ {0} /\ BYTE \in Nat \ {0} /\ losses \in Nat /\ dups \in Nat
      /\ dups' \in Nat /\ losses' = losses
  BY <1>1, ServerAssumption, TakeCounts DEF StartInv
<1>4. /\ seqnum = (10 + STEP * n) % BYTE /\ r.seq = Start(n)
  BY <1>2 DEF Opened, Start
<1>5. seqnum' = (10 + STEP * (n + 1)) % BYTE
  <2>1. STEP * (n + 1) = STEP * n + STEP /\ 10 + STEP * n \in Nat
    BY <1>3
  <2>2. seqnum' = (((10 + STEP * n) % BYTE) + STEP) % BYTE
    BY <1>1, <1>4 DEF NextSeqnum
  <2>3. seqnum' = ((10 + STEP * n) + STEP) % BYTE
    BY <1>3, <2>1, <2>2, RemainderAdds
  <2>4. (10 + STEP * n) + STEP = 10 + STEP * (n + 1)
    BY <1>3, <2>1
  <2> QED BY <2>3, <2>4
<1>6. c \in Pending
  BY <1>1, PendingIs
<1>7. n + 1 <= MostSessions /\ MostSessions \in Nat
  BY <1>6, FewOpened
<1>8. ASSUME NEW d \in Conns, NEW b \in SessionsOf(d)'
      PROVE  b \in SessionsOf(d) \/ (d = c /\ b = Start(n))
  <2>1. \/ \E x \in net' : x.kind = "synack" /\ x.conn = d /\ b = x.seq
        \/ Chosen(d) /\ b = client[d].base
    BY <1>1, <1>8 DEF SessionsOf, Joining, Chosen
  <2>2. \A x \in net : x.kind = "synack" /\ x.conn = d => x.seq \in SessionsOf(d)
    BY DEF SessionsOf, Joining
  <2>3. Chosen(d) => client[d].base \in SessionsOf(d)
    BY DEF SessionsOf
  <2>4. \A x \in net' : x \in net \/ x = r
    BY <1>1, TakeSends
  <2> QED BY <1>2, <1>4, <2>1, <2>2, <2>3, <2>4
<1>9. ASSUME NEW d \in Conns, NEW b \in SessionsOf(d)
      PROVE  \E j \in 0..(n - 1) : b = Start(j)
  BY <1>9 DEF Opened
<1>10. ASSUME NEW j \in 0..(n - 1) PROVE Start(j) # Start(n)
  <2> DEFINE a == (10 + STEP * j) % BYTE
             b == (10 + STEP * n) % BYTE
             k == MostSessions
  <2>1. /\ j \in 0..(k - 1) /\ n \in 0..(k - 1) /\ j < n /\ k \in Nat /\ STEP * k <= BYTE
        /\ a = (10 + STEP * j) % BYTE /\ b = (10 + STEP * n) % BYTE
    BY <1>7
  <2>2. Start(j) = a * BYTE /\ Start(n) = b * BYTE
    BY DEF Start
  <2> HIDE DEF a, b, k
  <2>3. /\ a \in 0..(BYTE - 1) /\ b \in 0..(BYTE - 1)
        /\ a + STEP <= b \/ b + STEP <= a
    BY <2>1, StartsApart
  <2>4. a # b
    BY <1>3, <2>3
  <2>5. a * BYTE # b * BYTE
    BY <1>3, <2>3, <2>4
  <2> QED BY <2>2, <2>5
<1>11. \A d \in Conns : \A b \in SessionsOf(d)' : \E j \in 0..((n + 1) - 1) : b = Start(j)
  BY <1>8, <1>9
<1>12. ASSUME NEW d \in Conns, NEW e \in Conns, d # e,
              NEW b \in SessionsOf(d)', b \in SessionsOf(e)'
       PROVE  FALSE
  <2>1. SessionsOf(d) \cap SessionsOf(e) = {}
    BY <1>12 DEF Opened
  <2> QED BY <1>8, <1>9, <1>10, <1>12, <2>1
<1>13. \A d, e \in Conns : d # e => SessionsOf(d)' \cap SessionsOf(e)' = {}
  BY <1>12
<1>14. (n + 1) + Cardinality(Pending)' <= Cardinality(Started)' + losses' + dups'
  <2>1. Started' = Started
    BY <1>1 DEF Started
  <2>2. ASSUME NEW d \in Pending' PROVE d \in Pending /\ (d # c \/ Syn(c) \in net')
    <3>1. d \in Conns /\ Syn(d).kind = "syn"
      BY PendingIs, SameNumbers
    <3>2. r \in net'
      BY <1>1 DEF Take
    <3>3. \A x \in net' : x \in net \/ x = r
      BY <1>1, TakeSends
    <3>4. \A x \in net : x \in net' \/ x = m
      BY <1>1, TakeCounts
    <3>5. d = c => Syn(c) \in net'
      BY <1>2, <3>1, <3>2, PendingIs
    <3>6. d \in Pending
      <4>1. CASE Syn(d) \in net'
        BY <1>2, <3>1, <3>3, <4>1, PendingIs
      <4>2. CASE Syn(d) \notin net'
        BY <1>1, <3>1, <3>4, <4>2, PendingIs
      <4> QED BY <4>1, <4>2
    <3> QED BY <3>5, <3>6
  <2> DEFINE p == Cardinality(Pending)
             q == Cardinality(Pending)'
             s == Cardinality(Started)
             t == Cardinality(Started)'
  <2>3. /\ n + p <= s + losses + dups /\ t = s
        /\ p \in Nat /\ q \in Nat /\ s \in Nat
    BY <2>1, Counts DEF Opened
  <2>4. CASE dups' = dups + 1
    <3>1. q <= p
      BY <2>2, Counts
    <3> HIDE DEF p, q, s, t
    <3>2. (n + 1) + q <= t + losses' + dups'
      BY <1>3, <2>3, <2>4, <3>1
    <3> QED BY <3>2 DEF q, t
  <2>5. CASE dups' = dups /\ net' = (net \ {m}) \cup {r}
    <3>1. Syn(c) \notin net'
      BY <1>1, <1>2, <2>5
    <3>2. Pending' \subseteq Pending \ {c}
      BY <2>2, <3>1
    <3>3. q + 1 <= p
      BY <1>6, <3>2, Counts
    <3> HIDE DEF p, q, s, t
    <3>4. (n + 1) + q <= t + losses' + dups'
      BY <1>3, <2>3, <2>5, <3>3
    <3> QED BY <3>4 DEF q, t
  <2> QED BY <1>1, <2>4, <2>5, TakeCounts
<1>15. \A j : Start(j)' = Start(j)
  BY DEF Start
<1> QED BY <1>5, <1>11, <1>13, <1>14, <1>15 DEF Opened

\* Some number of sessions has been opened.
SomeOpened == \E n \in Nat : Opened(n)

LEMMA OpenedStep ==
    ASSUME SessionInv, StartInv, StartInv', SomeOpened, [Next]_vars, IsFiniteSet(Conns),
           STEP * MostSessions <= BYTE
    PROVE  SomeOpened'
<1>1. PICK n \in Nat : Opened(n)
  BY DEF SomeOpened
<1>2. CASE UNCHANGED vars
  <2>1. Opened(n)'
    BY <1>1, <1>2 DEF vars, Opened, Pending, Started, SessionsOf, Joining, Chosen, Start, Syn,
                      Seg
  <2> QED BY <2>1 DEF SomeOpened
<1>3. ASSUME NEW m \in net, AnswerSyn(m) PROVE SomeOpened'
  <2>1. Opened(n + 1)' /\ n + 1 \in Nat
    BY <1>1, <1>3, SynOpens
  <2> QED BY <2>1 DEF SomeOpened
<1>4. CASE \/ \E c \in Conns : Connect(c) \/ Client(c)
           \/ \E m \in net : \/ AnswerFin(m) \/ IgnoreAck(m) \/ Lose(m)
                             \/ \E len \in PageLens : AnswerGet(m, len)
  <2>1. Opened(n)'
    BY <1>1, <1>4, ConnectOpens, RetransmitOpens, ClientOpens, ServerOpensNone, LoseOpens
       DEF Client
  <2> QED BY <2>1 DEF SomeOpened
<1> QED BY <1>2, <1>3, <1>4 DEF Next, Packetloop

\* ip_arp_udp_tcp.c:594-600: as long as the byte has room for the sessions that are
\* opened (85 in the code), no page in flight, with its FIN, overlaps one of
\* another connection, whatever SYNs were lost and repeated.
THEOREM SessionsKeptApart ==
    ASSUME IsFiniteSet(Conns), STEP * MostSessions <= BYTE
    PROVE  Spec => []SessionsApart
<1>1. Init => StartInv /\ SomeOpened
  <2> SUFFICES ASSUME Init PROVE StartInv /\ SomeOpened
    OBVIOUS
  <2>1. StartInv
    BY ServerAssumption DEF Init, StartInv
  <2>2. Pending = {}
    BY DEF Init, Pending, Idle
  <2>3. Opened(0)
    <3>1. seqnum = (10 + STEP * 0) % BYTE
      BY ServerAssumption DEF Init
    <3>2. losses = 0 /\ dups = 0 /\ \A c \in Conns : SessionsOf(c) = {}
      BY DEF Init, SessionsOf, Joining, Chosen, Idle
    <3>3. Cardinality(Pending) = 0 /\ Cardinality(Started) \in Nat
      BY <2>2, FS_EmptySet, Counts
    <3> QED BY <3>1, <3>2, <3>3 DEF Opened
  <2> QED BY <2>1, <2>3 DEF SomeOpened
<1>2. SessionInv /\ StartInv /\ SomeOpened /\ [Next]_vars
          => SessionInv' /\ StartInv' /\ SomeOpened'
  BY SessionInductive, RegularStep, OpenedStep
<1>3. SessionInv /\ StartInv /\ SomeOpened => SessionsApart
  <2> SUFFICES ASSUME SessionInv, StartInv, SomeOpened,
                      NEW m \in net, m.kind = "page", NEW k \in net, k.kind = "page",
                      m.conn # k.conn
               PROVE  Span(m) \cap Span(k) = {}
    BY DEF SessionsApart, FromServer
  <2>1. PICK n \in Nat : Opened(n)
    BY DEF SomeOpened
  <2>2. ASSUME NEW x \in net, x.kind = "page"
        PROVE  \E j \in 0..(n - 1) : /\ Start(j) \in SessionsOf(x.conn)
                                     /\ x.seq = Start(j) + 1
                                     /\ x.len \in Nat /\ x.len + 2 <= STEP * BYTE
    <3>1. /\ x.conn \in Conns /\ Chosen(x.conn) /\ x.seq = Plus(client[x.conn].base, 1)
          /\ x.len \in PageLens
      BY <2>2 DEF SessionInv, AnySegment, Sound, StartInv, Regular
    <3>2. client[x.conn].base \in SessionsOf(x.conn)
      BY <3>1 DEF SessionsOf
    <3>3. PICK j \in 0..(n - 1) : client[x.conn].base = Start(j)
      BY <2>1, <3>1, <3>2 DEF Opened
    <3>4. Plus(Start(j), 1) = Start(j) + 1
      <4> DEFINE a == (10 + STEP * j) % BYTE
      <4>1. /\ BYTE \in Nat \ {0} /\ STEP \in Nat /\ 10 + STEP * j \in Nat
            /\ SEQ \in Nat /\ SEQ > BYTE * BYTE
        BY ServerAssumption
      <4>2. a \in 0..(BYTE - 1)
        <5> DEFINE e == 10 + STEP * j
        <5>1. e \in Int /\ BYTE \in Nat \ {0}
          BY <4>1
        <5> HIDE DEF e
        <5>2. e % BYTE \in 0..(BYTE - 1)
          BY <5>1, Division
        <5> QED BY <5>2 DEF e
      <4>3. Start(j) = a * BYTE
        BY DEF Start
      <4> HIDE DEF a
      <4>4. a * BYTE \in Nat /\ a * BYTE <= (BYTE - 1) * BYTE
        BY <4>1, <4>2
      <4>5. (BYTE - 1) * BYTE = BYTE * BYTE - BYTE
        BY <4>1
      <4>6. Start(j) + 1 \in 0..(SEQ - 1)
        BY <4>1, <4>3, <4>4, <4>5
      <4>7. (SEQ * 0 + (Start(j) + 1)) % SEQ = Start(j) + 1
        BY <4>1, <4>6, RemainderUnique
      <4>8. SEQ * 0 + (Start(j) + 1) = Start(j) + 1
        BY <4>1, <4>6
      <4> QED BY <4>7, <4>8 DEF Plus
    <3>5. x.len \in Nat /\ x.len + 2 <= STEP * BYTE
      BY <3>1, ServerAssumption
    <3> QED BY <3>1, <3>2, <3>3, <3>4, <3>5
  <2>3. PICK i \in 0..(n - 1) : /\ Start(i) \in SessionsOf(m.conn) /\ m.seq = Start(i) + 1
                                /\ m.len \in Nat /\ m.len + 2 <= STEP * BYTE
    BY <2>2
  <2>4. PICK j \in 0..(n - 1) : /\ Start(j) \in SessionsOf(k.conn) /\ k.seq = Start(j) + 1
                                /\ k.len \in Nat /\ k.len + 2 <= STEP * BYTE
    BY <2>2
  <2>5. i # j
    <3>1. m.conn \in Conns /\ k.conn \in Conns
      BY DEF SessionInv, AnySegment
    <3> QED BY <2>1, <2>3, <2>4, <3>1 DEF Opened
  <2>6. n <= MostSessions /\ MostSessions \in Nat
    BY <2>1, FewOpened
  <2> DEFINE a == (10 + STEP * i) % BYTE
             b == (10 + STEP * j) % BYTE
             M == MostSessions
  <2>7. Start(i) = a * BYTE /\ Start(j) = b * BYTE
    BY DEF Start
  <2>8. /\ a \in 0..(BYTE - 1) /\ b \in 0..(BYTE - 1)
        /\ a + STEP <= b \/ b + STEP <= a
    <3>1. /\ i \in 0..(M - 1) /\ j \in 0..(M - 1) /\ M \in Nat /\ STEP * M <= BYTE
          /\ i < j \/ j < i
          /\ a = (10 + STEP * i) % BYTE /\ b = (10 + STEP * j) % BYTE
      BY <2>5, <2>6
    <3> HIDE DEF a, b, M
    <3> QED BY <3>1, StartsApart
  <2>9. BYTE \in Nat \ {0} /\ STEP \in Nat \ {0}
    BY ServerAssumption
  <2> HIDE DEF a, b, M
  <2>10. \/ a * BYTE + STEP * BYTE <= b * BYTE
         \/ b * BYTE + STEP * BYTE <= a * BYTE
    <3>1. ASSUME NEW x \in Nat, NEW y \in Nat, x + STEP <= y
          PROVE  x * BYTE + STEP * BYTE <= y * BYTE
      <4>1. (x + STEP) * BYTE <= y * BYTE
        BY <2>9, <3>1
      <4> QED BY <2>9, <4>1
    <3> QED BY <2>8, <2>9, <3>1
  <2>11. a * BYTE \in Nat /\ b * BYTE \in Nat /\ STEP * BYTE \in Nat
    BY <2>8, <2>9
  <2> DEFINE u == a * BYTE
             v == b * BYTE
             w == STEP * BYTE
  <2>12. /\ u \in Nat /\ v \in Nat /\ w \in Nat /\ (u + w <= v \/ v + w <= u)
         /\ m.seq = u + 1 /\ k.seq = v + 1
         /\ m.len \in Nat /\ m.len + 2 <= w /\ k.len \in Nat /\ k.len + 2 <= w
    BY <2>3, <2>4, <2>7, <2>10, <2>11
  <2> HIDE DEF u, v, w
  <2> SUFFICES ASSUME NEW z, z \in Span(m), z \in Span(k)
               PROVE  FALSE
    OBVIOUS
  <2> DEFINE p == m.len
             q == k.len
  <2>13. z \in (u + 1)..(u + 1 + p) /\ z \in (v + 1)..(v + 1 + q)
    BY <2>12 DEF Span
  <2>14. p \in Nat /\ p + 2 <= w /\ q \in Nat /\ q + 2 <= w
    BY <2>12
  <2>15. u \in Nat /\ v \in Nat /\ w \in Nat /\ (u + w <= v \/ v + w <= u)
    BY <2>12
  <2> HIDE DEF p, q
  <2>16. z \in Int /\ u + 1 <= z /\ z <= u + 1 + p /\ v + 1 <= z /\ z <= v + 1 + q
    BY <2>13, <2>14, <2>15
  <2>17. z < u + w /\ z < v + w
    BY <2>14, <2>15, <2>16
  <2> QED BY <2>14, <2>15, <2>16, <2>17
<1> QED BY SessionStarts, <1>1, <1>2, <1>3, PTL DEF Spec
=============================================================================
