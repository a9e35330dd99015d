--------------------------- MODULE ClientsProofs ---------------------------
(***************************************************************************)
(* Theorems about the two clients.  TcpClient, for every number of         *)
(* descriptors, every set of servers and any number of requests and        *)
(* duplicates: what an application takes for the data of its request is of *)
(* its request, and comes once.  ArpResolver, for any hosts, any losses    *)
(* and link failures and any width of the counter: what is taken for the   *)
(* gateway's address is the gateway's.                                     *)
(***************************************************************************)
EXTENDS MCClients, TLAPS

-----------------------------------------------------------------------------
(* Arithmetic of descriptors *)

\* A quotient and a remainder are what the division says.
LEMMA Division ==
    ASSUME NEW x \in Nat, NEW d \in Nat \ {0}
    PROVE  /\ x \div d \in Nat /\ x % d \in 0..(d - 1)
           /\ x = d * (x \div d) + (x % d)
OBVIOUS

\* Only one remainder is left by a multiple and less than the divisor.
LEMMA RemainderUnique ==
    ASSUME NEW d \in Nat \ {0}, NEW q \in Nat, NEW r \in 0..(d - 1)
    PROVE  (d * q + r) % d = r
OBVIOUS

\* Stepping the descriptor is stepping the number of the request.
LEMMA DescriptorStep ==
    ASSUME NEW x \in Nat, NEW d \in Nat \ {0}
    PROVE  ((x % d) + 1) % d = (x + 1) % d
<1> DEFINE q == x \div d
           r == x % d
<1>1. q \in Nat /\ r \in 0..(d - 1) /\ x = d * q + r
  BY Division
<1> HIDE DEF q, r
<1>2. CASE r + 1 < d
  <2>1. r + 1 \in 0..(d - 1) /\ x + 1 = d * q + (r + 1)
    BY <1>1, <1>2
  <2>2. (x + 1) % d = r + 1
    BY <1>1, <2>1, RemainderUnique
  <2>3. (r + 1) % d = r + 1
    BY <2>1
  <2> QED BY <2>2, <2>3 DEF r
<1>3. CASE r + 1 = d
  <2>1. d * (q + 1) = d * q + d
    BY <1>1
  <2>2. x + 1 = d * (q + 1) + 0 /\ 0 \in 0..(d - 1)
    BY <1>1, <1>3, <2>1
  <2>3. (x + 1) % d = 0
    BY <1>1, <2>2, RemainderUnique
  <2>4. d % d = 0
    OBVIOUS
  <2> QED BY <1>3, <2>3, <2>4 DEF r
<1> QED BY <1>1, <1>2, <1>3

\* Requests with the same descriptor are the same, or all descriptors apart.
LEMMA SameDescriptor ==
    ASSUME NEW x \in Nat, NEW y \in Nat, NEW d \in Nat \ {0},
           x % d = y % d, y <= x, x - y < d
    PROVE  y = x
<1> DEFINE p == x \div d
           q == y \div d
           r == x % d
<1>1. /\ p \in Nat /\ q \in Nat /\ r \in Nat
      /\ x = d * p + r /\ y = d * q + r
  <2>1. p \in Nat /\ r \in 0..(d - 1) /\ x = d * p + r
    BY Division
  <2>2. q \in Nat /\ y = d * q + (y % d)
    BY Division
  <2> QED BY <2>1, <2>2
<1> HIDE DEF p, q, r
<1>2. ASSUME q + 1 <= p PROVE FALSE
  <2>1. d * (q + 1) <= d * p /\ d * (q + 1) = d * q + d
    BY <1>1, <1>2
  <2> QED BY <1>1, <2>1
<1>3. ASSUME p + 1 <= q PROVE FALSE
  <2>1. d * (p + 1) <= d * q /\ d * (p + 1) = d * p + d
    BY <1>1, <1>3
  <2> QED BY <1>1, <2>1
<1>4. p = q
  BY <1>1, <1>2, <1>3
<1> QED BY <1>1, <1>4

-----------------------------------------------------------------------------
(* Whose data it is *)

\* Every segment carries the descriptor of its request.
SegmentsInv ==
    /\ fetch \in Nat /\ tcp_fd = fetch % FDS
    /\ \A m \in segments : m.about \in 0..fetch /\ m.fd = m.about % FDS

\* What was taken for data came with the descriptor of the last request.
ToldInv ==
    \A t \in told :
        /\ t.about \in 0..fetch
        /\ t.code \in {0, 200} => t.about % FDS = fetch % FDS

\* A pass with a packet sends nothing but an answer about the same request.
LEMMA PassSends ==
    ASSUME NEW m \in segments, PacketPass(m), NEW x \in segments'
    PROVE  x \in segments \/ (x.about = m.about /\ x.fd = m.fd)
<1>1. ASSUME NEW answers, Deliver(m, answers)
      PROVE  x \in segments \/ x \in answers
  BY <1>1 DEF Deliver
<1>2. ASSUME NEW kind, x \in Answer(m, kind)
      PROVE  x.about = m.about /\ x.fd = m.fd
  BY <1>2 DEF Answer, Segment
<1>3. ASSUME NEW state, NEW kind, Go(m, state, kind)
      PROVE  x \in segments \/ (x.about = m.about /\ x.fd = m.fd)
  BY <1>1, <1>2, <1>3 DEF Go
<1>4. ASSUME NEW state, Follow(m, state)
      PROVE  x \in segments \/ (x.about = m.about /\ x.fd = m.fd)
  BY <1>1, <1>2, <1>3, <1>4 DEF Follow
<1> QED BY <1>1, <1>3, <1>4 DEF PacketPass, Ignored, Stay, Reset, SynSent, Established

\* A callback speaks of the segment's request, and calls it data only if the
\* descriptor is the last request's.
LEMMA CallbackTells ==
    ASSUME NEW m \in segments, NEW code \in {0, 3}, Callback(m, code), NEW t \in told'
    PROVE  \/ t \in told
           \/ t.about = m.about /\ (t.code \in {0, 200} => m.fd = tcp_fd)
<1>1. ASSUME t \notin told
      PROVE  \E c \in Results(m.fd, code, m.content) : t = [code |-> c, about |-> m.about]
  BY <1>1 DEF Callback
<1>2. ASSUME NEW c \in Results(m.fd, code, m.content), c \in {0, 200}
      PROVE  m.fd = tcp_fd
  BY <1>2 DEF Results, HttpResult
<1> QED BY <1>1, <1>2

\* A pass that takes a segment tells only of the request the segment belongs to.
LEMMA PassTells ==
    ASSUME NEW m \in segments, PacketPass(m), NEW t \in told'
    PROVE  \/ t \in told
           \/ t.about = m.about /\ (t.code \in {0, 200} => m.fd = tcp_fd)
<1>1. told' = told \/ Callback(m, 0) \/ Callback(m, 3)
  BY DEF PacketPass, Ignored, Reset, SynSent, Established
<1> QED BY <1>1, CallbackTells

\* The invariant of requests and segments is inductive.
LEMMA OwnStep ==
    ASSUME TcpConstants, SegmentsInv, ToldInv, [Next]_tcpvars
    PROVE  SegmentsInv' /\ ToldInv'
<1>0. FDS \in Nat \ {0} /\ fetch \in Nat
  BY DEF TcpConstants, SegmentsInv
<1>1. ASSUME NEW server \in Servers, NEW isHttp \in BOOLEAN, Request(server, isHttp)
      PROVE  SegmentsInv' /\ ToldInv'
  <2>1. tcp_fd' = (fetch + 1) % FDS
    BY <1>0, <1>1, DescriptorStep DEF Request, SegmentsInv
  <2>2. /\ fetch' = fetch + 1 /\ told' = {} /\ UNCHANGED segments
        /\ \A m \in segments : m.about \in 0..fetch
    BY <1>1 DEF Request, SegmentsInv
  <2>3. \A m \in segments : m.about \in 0..(fetch + 1)
    BY <1>0, <2>2
  <2> QED BY <1>0, <2>1, <2>2, <2>3 DEF SegmentsInv, ToldInv
<1>2. CASE SendSyn
  <2>1. fetch \in 0..fetch
    BY <1>0
  <2> QED BY <1>2, <2>1 DEF SendSyn, Segment, request, SegmentsInv, ToldInv
<1>3. ASSUME NEW m \in segments, PacketPass(m)
      PROVE  SegmentsInv' /\ ToldInv'
  <2>1. UNCHANGED <<fetch, tcp_fd>> /\ m.about \in 0..fetch /\ m.fd = m.about % FDS
    BY <1>3 DEF PacketPass, request, SegmentsInv
  <2>2. SegmentsInv'
    BY <1>3, <2>1, PassSends DEF SegmentsInv
  <2>3. ToldInv'
    BY <1>3, <2>1, PassTells DEF SegmentsInv, ToldInv
  <2> QED BY <2>2, <2>3
<1>4. CASE ServerReacts
  <2>1. UNCHANGED <<fetch, tcp_fd, told>>
    BY <1>4 DEF ServerReacts, request
  <2>2. ASSUME NEW x \in segments'
        PROVE  x.about \in 0..fetch /\ x.fd = x.about % FDS
    <3>1. x \in segments \/ \E m \in segments : x.about = m.about /\ x.fd = m.fd
      BY <1>4, <2>2 DEF ServerReacts, Segment
    <3> QED BY <3>1 DEF SegmentsInv
  <2> QED BY <2>1, <2>2 DEF SegmentsInv, ToldInv
<1>5. CASE UNCHANGED tcpvars
  BY <1>5 DEF tcpvars, request, SegmentsInv, ToldInv
<1> QED BY <1>1, <1>2, <1>3, <1>4, <1>5 DEF Next, Board

\* ip_arp_udp_tcp.c:1386 matches segments by half of the port: still no data of
\* an earlier request is taken for the last one's, however many there were, as
\* long as not all descriptors have been used in between.
THEOREM DataOfItsRequest ==
    ASSUME TcpConstants
    PROVE  Spec => []DataIsOwn
<1> DEFINE IInv == SegmentsInv /\ ToldInv
<1>1. Init => IInv
  <2>1. FDS \in Nat \ {0} /\ 0 % FDS = 0
    BY DEF TcpConstants
  <2> QED BY <2>1 DEF Init, SegmentsInv, ToldInv
<1>2. IInv /\ [Next]_tcpvars => IInv'
  BY OwnStep
<1>3. IInv => DataIsOwn
  <2> SUFFICES ASSUME IInv, NEW t \in told, t.code \in {0, 200}, fetch - t.about < FDS
               PROVE  t.about = fetch
    BY DEF DataIsOwn
  <2>1. t.about \in 0..fetch /\ fetch \in Nat /\ FDS \in Nat \ {0}
    BY DEF TcpConstants, SegmentsInv, ToldInv
  <2>2. fetch % FDS = t.about % FDS
    BY DEF ToldInv
  <2> DEFINE a == t.about
  <2>3. /\ fetch \in Nat /\ a \in Nat /\ FDS \in Nat \ {0}
        /\ fetch % FDS = a % FDS /\ a <= fetch /\ fetch - a < FDS
    BY <2>1, <2>2
  <2> HIDE DEF a
  <2>4. a = fetch
    BY <2>3, SameDescriptor
  <2> QED BY <2>4 DEF a
<1> QED BY <1>1, <1>2, <1>3, PTL DEF Spec

-----------------------------------------------------------------------------
(* Data once *)

\* Data is handed over on the way from state 3 to 4 or 5, and the only way back
\* below is another request.
OnceInv ==
    /\ tcp_client_state \in 0..7
    /\ datas = 0 \/ (datas = 1 /\ tcp_client_state \in 4..7)

\* ip_arp_udp_tcp.c:1443-1447: one call of the callback with data per request.
THEOREM DataHandedOverOnce == Spec => []DataOnce
<1>1. Init => OnceInv
  BY DEF Init, OnceInv
<1>2. OnceInv /\ [Next]_tcpvars => OnceInv'
  <2> SUFFICES ASSUME OnceInv, [Next]_tcpvars PROVE OnceInv'
    OBVIOUS
  <2>1. ASSUME NEW server \in Servers, NEW isHttp \in BOOLEAN, Request(server, isHttp)
        PROVE  OnceInv'
    BY <2>1 DEF Request, OnceInv
  <2>2. CASE SendSyn
    BY <2>2 DEF SendSyn, OnceInv
  <2>3. ASSUME NEW m \in segments, PacketPass(m) PROVE OnceInv'
    <3>1. CASE Ignored(m)
      BY <3>1 DEF Ignored, Stay, OnceInv
    <3>2. CASE Reset(m)
      BY <3>2 DEF Reset, OnceInv
    <3>3. CASE SynSent(m)
      BY <3>3 DEF SynSent, Go, OnceInv
    <3>4. CASE Established(m)
      <4>1. ASSUME NEW s \in 0..7, Follow(m, s)
            PROVE  tcp_client_state' \in {s, 5, 6, 7}
        BY <4>1 DEF Follow, Go
      <4>2. CASE FirstData(m)
        <5>1. datas = 0 /\ datas' = 1
          BY <3>4, <4>2 DEF Established, FirstData, OnceInv
        <5>2. tcp_client_state' \in 4..7
          BY <3>4, <4>1, <4>2 DEF Established, Go
        <5> QED BY <5>1, <5>2 DEF OnceInv
      <4>3. CASE ~FirstData(m)
        <5>1. UNCHANGED datas /\ tcp_client_state' \in {tcp_client_state, 5, 6, 7}
          BY <3>4, <4>1, <4>3 DEF Established, OnceInv
        <5> QED BY <5>1 DEF OnceInv
      <4> QED BY <4>2, <4>3
    <3> QED BY <2>3, <3>1, <3>2, <3>3, <3>4 DEF PacketPass
  <2>4. CASE ServerReacts
    BY <2>4 DEF ServerReacts, OnceInv
  <2>5. CASE UNCHANGED tcpvars
    BY <2>5 DEF tcpvars, OnceInv
  <2> QED BY <2>1, <2>2, <2>3, <2>4, <2>5 DEF Next, Board
<1>3. OnceInv => DataOnce
  BY DEF OnceInv, DataOnce
<1> QED BY <1>1, <1>2, <1>3, PTL DEF Spec

-----------------------------------------------------------------------------
(* The gateway's address *)

\* Where the search stands: main goes on only with an answer, an answer is never
\* given up again, and it was the gateway's.
SearchInv ==
    /\ phase \in {"start", "wait", "serve"}
    /\ arpip_state \in {0, Arp!INITIAL_ARP, Arp!HAVE_MAC, Arp!INITIAL_ARP + Arp!ACCEPT_ARP_REPLY}
    /\ phase = "start" => arpip_state = 0
    /\ phase = "serve" => arpip_state = Arp!HAVE_MAC
    /\ gwmac = IF arpip_state = Arp!HAVE_MAC THEN Gateway ELSE Arp!NoMac

\* Every step of the search keeps it.
LEMMA SearchStep ==
    ASSUME SearchInv, Arp!Next
    PROVE  SearchInv'
<1> USE DEF Arp!INITIAL_ARP, Arp!HAVE_MAC, Arp!ACCEPT_ARP_REPLY
<1>1. CASE Arp!GetMacWithArp
  BY <1>1 DEF Arp!GetMacWithArp, SearchInv
<1>2. CASE Arp!IdlePass
  <2>1. \/ UNCHANGED arpip_state
        \/ arpip_state = 1 /\ arpip_state' = 9
    BY <1>2 DEF Arp!IdlePass
  <2>2. UNCHANGED <<phase, gwmac>> /\ phase # "start"
    BY <1>2 DEF Arp!IdlePass
  <2> QED BY <2>1, <2>2 DEF SearchInv
<1>3. CASE Arp!WaitOver
  BY <1>3 DEF Arp!WaitOver, Arp!arpVars, SearchInv
<1>4. ASSUME NEW m \in net, Arp!PacketPass(m) PROVE SearchInv'
  <2> DEFINE buf == IF m.op = "request" THEN Arp!AnswerTo(m) ELSE m
  <2>1. UNCHANGED phase /\ phase # "start"
    BY <1>4 DEF Arp!PacketPass
  <2>2. CASE m.target = Me /\ Arp!IsOurAnswer(buf)
    <3>1. arpip_state' = Arp!HAVE_MAC /\ gwmac' = Gateway
      BY <1>4, <2>2 DEF Arp!PacketPass, Arp!IsOurAnswer
    <3> QED BY <2>1, <3>1 DEF SearchInv
  <2>3. CASE ~(m.target = Me /\ Arp!IsOurAnswer(buf))
    <3>1. UNCHANGED <<arpip_state, gwmac>>
      BY <1>4, <2>3 DEF Arp!PacketPass
    <3> QED BY <2>1, <3>1 DEF SearchInv
  <2> QED BY <2>2, <2>3
<1>5. ASSUME NEW h \in Arp!Hosts, Arp!Answer(h) \/ Arp!Speak(h) PROVE SearchInv'
  BY <1>5 DEF Arp!Answer, Arp!Speak, Arp!arpVars, SearchInv
<1>6. CASE Arp!Lose \/ Arp!LinkFails \/ Arp!LinkReturns
  BY <1>6 DEF Arp!Lose, Arp!LinkFails, Arp!LinkReturns, Arp!arpVars, SearchInv
<1> QED BY <1>1, <1>2, <1>3, <1>4, <1>5, <1>6 DEF Arp!Next

\* The search starts in it.
LEMMA SearchInit == Arp!Init => SearchInv
BY DEF Arp!Init, SearchInv, Arp!INITIAL_ARP, Arp!HAVE_MAC, Arp!ACCEPT_ARP_REPLY

\* Steps of the TCP client and stuttering leave it alone.
LEMMA SearchKept ==
    ASSUME SearchInv, UNCHANGED arpvars
    PROVE  SearchInv'
BY DEF SearchInv, arpvars

\* ip_arp_udp_tcp.c:1357-1361, main.c:150-155: whatever hosts speak unasked and
\* whatever is lost, main goes on from the wait only with the gateway's address,
\* and nothing else is ever taken for it: no host's that asked for the board, and
\* not the board's own, which the answer to a request leaves in the buffer.
THEOREM OnlyTheGateway == MCSpec => []GatewayIsGateway
<1>1. MCInit => SearchInv
  BY SearchInit DEF MCInit
<1>2. SearchInv /\ [MCNext]_mcvars => SearchInv'
  <2> SUFFICES ASSUME SearchInv, [MCNext]_mcvars PROVE SearchInv'
    OBVIOUS
  <2>1. CASE OfArp(Arp!Next)
    BY <2>1, SearchStep DEF OfArp
  <2>2. CASE OfTcp(Next)
    BY <2>2, SearchKept DEF OfTcp
  <2>3. CASE UNCHANGED mcvars
    BY <2>3, SearchKept DEF mcvars
  <2> QED BY <2>1, <2>2, <2>3 DEF MCNext
<1>3. SearchInv => GatewayIsGateway
  BY DEF SearchInv, GatewayIsGateway, Arp!GatewayIsGateway
<1> QED BY <1>1, <1>2, <1>3, PTL DEF MCSpec

\* The counter wraps within its sixteen bits, and frames are between the board
\* and hosts that are there.
LEMMA SearchTypedStep ==
    ASSUME Arp!TypeOK, Arp!Next
    PROVE  Arp!TypeOK'
<1> USE DEF Arp!INITIAL_ARP, Arp!HAVE_MAC, Arp!ACCEPT_ARP_REPLY
<1>0. /\ CNT_HALF \in Nat /\ CNT_HALF >= 2
      /\ arp_delaycnt \in (-CNT_HALF)..(CNT_HALF - 1)
  BY ClientsAssumption DEF Arp!ArpConstants, Arp!TypeOK
<1>1. CASE Arp!GetMacWithArp
  BY <1>1 DEF Arp!GetMacWithArp, Arp!bounds, Arp!TypeOK
<1>2. CASE Arp!IdlePass
  <2> DEFINE c == IF arpip_state = Arp!INITIAL_ARP /\ link THEN 0 ELSE arp_delaycnt
  <2>1. arp_delaycnt' = Arp!Inc(c) /\ c \in (-CNT_HALF)..(CNT_HALF - 1)
    BY <1>0, <1>2 DEF Arp!IdlePass
  <2>2. Arp!Inc(c) \in (-CNT_HALF)..(CNT_HALF - 1)
    <3> HIDE DEF c
    <3> QED BY <1>0, <2>1 DEF Arp!Inc
  <2>3. UNCHANGED <<phase, gwmac>> /\ arpip_state' \in {arpip_state, 9}
    BY <1>2 DEF Arp!IdlePass
  <2>4. \A m \in net' : m \in net \/ m \in Arp!WhoHas
    BY <1>2 DEF Arp!IdlePass
  <2>5. \A m \in Arp!WhoHas : /\ m.op = "request"
                              /\ {m.sender, m.target, m.to} \subseteq Arp!Hosts \cup {Me}
    BY DEF Arp!WhoHas, Arp!Arp, Arp!Hosts
  <2> QED BY <2>1, <2>2, <2>3, <2>4, <2>5 DEF Arp!TypeOK
<1>3. CASE Arp!WaitOver
  BY <1>3 DEF Arp!WaitOver, Arp!arpVars, Arp!TypeOK
<1>4. ASSUME NEW m \in net, Arp!PacketPass(m) PROVE Arp!TypeOK'
  <2>1. \A x \in net' : x \in net \/ x = Arp!AnswerTo(m)
    BY <1>4 DEF Arp!PacketPass
  <2>2. /\ Arp!AnswerTo(m).op = "reply"
        /\ {Arp!AnswerTo(m).sender, Arp!AnswerTo(m).target, Arp!AnswerTo(m).to}
              \subseteq {Me, m.sender}
    BY DEF Arp!AnswerTo, Arp!Arp
  <2>3. {m.sender, Me} \subseteq Arp!Hosts \cup {Me}
    BY DEF Arp!TypeOK
  <2>4. \A x \in net' : /\ x.op \in {"request", "reply"}
                        /\ {x.sender, x.target, x.to} \subseteq Arp!Hosts \cup {Me}
    BY <2>1, <2>2, <2>3 DEF Arp!TypeOK
  <2>5. UNCHANGED <<phase, arp_delaycnt>>
    BY <1>4 DEF Arp!PacketPass
  <2>6. arpip_state' \in {arpip_state, Arp!HAVE_MAC} /\ gwmac' \in {gwmac, Gateway}
    BY <1>4 DEF Arp!PacketPass, Arp!IsOurAnswer
  <2> QED BY <2>4, <2>5, <2>6 DEF Arp!TypeOK, Arp!Hosts
<1>5. ASSUME NEW h \in Arp!Hosts, Arp!Answer(h) PROVE Arp!TypeOK'
  <2>1. \A m \in net' :
            \/ m \in net
            \/ m.op = "reply" /\ {m.sender, m.target, m.to} \subseteq {h, Me}
    BY <1>5 DEF Arp!Answer, Arp!Arp
  <2> QED BY <1>5, <2>1 DEF Arp!Answer, Arp!arpVars, Arp!TypeOK
<1>6. ASSUME NEW h \in Arp!Hosts, Arp!Speak(h) PROVE Arp!TypeOK'
  <2>1. \A m \in net' :
            \/ m \in net
            \/ /\ m.op \in {"request", "reply"}
               /\ {m.sender, m.target, m.to} \subseteq {h, Me}
    BY <1>6 DEF Arp!Speak, Arp!Arp
  <2> QED BY <1>6, <2>1 DEF Arp!Speak, Arp!arpVars, Arp!TypeOK
<1>7. CASE Arp!Lose \/ Arp!LinkFails \/ Arp!LinkReturns
  BY <1>7 DEF Arp!Lose, Arp!LinkFails, Arp!LinkReturns, Arp!arpVars, Arp!TypeOK
<1> QED BY <1>1, <1>2, <1>3, <1>4, <1>5, <1>6, <1>7 DEF Arp!Next

\* ip_arp_udp_tcp.c:81-83: the search has one of the four states the code names,
\* and its timer is the 16-bit counter, however often it wraps.
THEOREM SearchTyped == MCSpec => []Arp!TypeOK
<1>1. MCInit => Arp!TypeOK
  BY ClientsAssumption DEF MCInit, Arp!Init, Arp!TypeOK, Arp!ArpConstants
<1>2. Arp!TypeOK /\ [MCNext]_mcvars => Arp!TypeOK'
  <2> SUFFICES ASSUME Arp!TypeOK, [MCNext]_mcvars PROVE Arp!TypeOK'
    OBVIOUS
  <2>1. CASE OfArp(Arp!Next)
    BY <2>1, SearchTypedStep DEF OfArp
  <2>2. CASE UNCHANGED arpvars
    BY <2>2 DEF arpvars, Arp!TypeOK
  <2> QED BY <2>1, <2>2 DEF MCNext, OfTcp, mcvars
<1> QED BY <1>1, <1>2, PTL DEF MCSpec
=============================================================================
