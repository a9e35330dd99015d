-------------------------- MODULE DhcpClientProofs --------------------------
(***************************************************************************)
(* Theorems about DhcpClient, whatever the network loses, repeats, delays  *)
(* and reorders, and however often a server refuses, for all intervals and *)
(* counter widths.  For any boards and servers: the types of everything,   *)
(* messages included, and the renewal of a lease before it runs out.  For  *)
(* one board and one server: the board never serves with an address it was *)
(* not granted.                                                            *)
(***************************************************************************)
EXTENDS DhcpClient, TLAPS

\* The setting of OnlyGrantedAddress; without each of the three it fails.
CONSTANTS TheBoard, TheServer
OneOfEach ==
    /\ Boards = {TheBoard} /\ Servers = {TheServer}
    /\ MaxRestarts = 0

TheAddress == <<TheServer, TheBoard>>

-----------------------------------------------------------------------------
(* The invariant *)

Discovers == [type : {"discover"}, kind : {1}, tid : Int, from : Boards, to : SUBSET Servers]
Requests == [type : {"request"}, kind : {1, 2}, tid : Int, from : Boards,
             server : Servers \cup {None}, ip : {TheAddress, None}]
Answered == [type : {"offer", "ack", "nak"}, kind : {1, 2}, tid : Int, server : Servers,
             ip : {TheAddress, None}, secs : Leases, to : SUBSET Boards]
Messages == Discovers \cup Requests \cup Answered

\* An offer is of the one address; a first request, and with it any answer to it,
\* exists only once that offer was taken; what was acknowledged was granted.
Sound(m) ==
    /\ m \in Messages
    /\ m.type = "offer" => m.ip = TheAddress
    /\ m.type = "request" /\ m.kind = 1 => yiaddr[TheBoard] = TheAddress
    /\ m.type = "ack" /\ m.kind = 1 =>
          yiaddr[TheBoard] = TheAddress /\ TheAddress \in granted[TheBoard]

StateInv ==
    /\ yiaddr \in [Boards -> {TheAddress, None}]
    /\ tid \in [Boards -> Int] /\ leaseSecs \in Leases
    /\ granted \in [Boards -> SUBSET {TheAddress}]
    /\ phase \in [Boards -> {"dhcp", "arp", "serve"}]
    /\ myip \in [Boards -> {TheAddress, None}]
    /\ Bound(TheBoard) => myip[TheBoard] = TheAddress /\ TheAddress \in granted[TheBoard]

\* The faults counted so far.
Budgets == [losses : Nat, dups : Nat, flaps : Nat, restarts : Nat, naks : Nat]

GrantInv == budget \in Budgets /\ StateInv /\ \A m \in net : Sound(m)

-----------------------------------------------------------------------------
(* Messages *)

\* A message of which one receiver has had its copy is otherwise the same.
LEMMA TakenSound ==
    ASSUME GrantInv, NEW m \in net, NEW r, m \in Discovers \cup Answered, NEW x \in Taken(m, r)
    PROVE  Sound(x)
<1> DEFINE rest == [m EXCEPT !.to = @ \ {r}]
<1>1. x \in net \/ x = rest
  BY DEF Taken
<1>2. Sound(m)
  BY DEF GrantInv
<1>3. CASE m \in Discovers
  <2>1. rest \in Discovers /\ rest.type = "discover"
    BY <1>3 DEF Discovers
  <2> HIDE DEF rest
  <2> QED BY <1>1, <2>1 DEF GrantInv, Sound, Messages
<1>4. CASE m \in Answered
  <2>1. /\ rest \in Answered
        /\ rest.type = m.type /\ rest.kind = m.kind /\ rest.ip = m.ip
    BY <1>4 DEF Answered
  <2>2. rest.type # "request"
    BY <1>4, <2>1 DEF Answered
  <2> HIDE DEF rest
  <2> QED BY <1>1, <1>2, <2>1, <2>2 DEF GrantInv, Sound, Messages
<1> QED BY <1>3, <1>4

\* What a board leaves in flight of a message it takes, and sends.
LEMMA TakeFromNetSound ==
    ASSUME GrantInv, NEW m \in net, NEW b, m \in Answered, NEW sent, TakeFromNet(m, b, sent),
           NEW x \in net'
    PROVE  Sound(x) \/ x \in sent
<1>1. x \in Taken(m, b) \/ x \in net \/ x \in sent
  BY DEF TakeFromNet
<1> QED BY <1>1, TakenSound DEF GrantInv

\* Only replies reach a board.
LEMMA AcceptedAnswer ==
    ASSUME GrantInv, NEW m \in net, NEW b, Accepts(b, m)
    PROVE  m \in Answered
BY DEF GrantInv, Sound, Messages, Accepts, IsReply, Discovers, Requests, Answered

\* A step that touches none of the state and sends nothing unsound.
LEMMA StateKept ==
    ASSUME GrantInv, UNCHANGED <<yiaddr, tid, leaseSecs, granted, phase, myip>>,
           budget' \in Budgets, \A x \in net' : Sound(x)
    PROVE  GrantInv'
BY DEF GrantInv, StateInv, Sound, Bound

\* Every fault that is counted adds to the budget, a duplicate among them.
LEMMA TakeBudget ==
    ASSUME GrantInv, NEW m, NEW b, NEW sent, TakeFromNet(m, b, sent)
    PROVE  budget' \in Budgets
BY DEF GrantInv, Budgets, TakeFromNet

-----------------------------------------------------------------------------
(* The board in the assignment loop *)

\* A stepped transaction id is an id.
LEMMA TidStep ==
    ASSUME GrantInv, NEW b \in Boards
    PROVE  Inc(tid, b, TID_WRAP) \in [Boards -> Int] /\ Set(tid, b, InitialTid) \in [Boards -> Int]
<1>1. tid \in [Boards -> Int] /\ TID_WRAP \in Nat \ {0}
  BY DhcpAssumption DEF GrantInv, StateInv
<1>2. (tid[b] + 1) % TID_WRAP \in Int /\ InitialTid \in Int
  BY <1>1 DEF InitialTid
<1> QED BY <1>1, <1>2 DEF Inc, Set

\* The assignment loop without a packet sends a DISCOVER or counts.
LEMMA InitialIdleStep ==
    ASSUME GrantInv, NEW b \in Boards, InitialIdle(b)
    PROVE  GrantInv'
<1>1. /\ UNCHANGED <<yiaddr, leaseSecs, granted, phase, myip, budget>>
      /\ tid' = tid \/ tid' = Inc(tid, b, TID_WRAP) \/ tid' = Set(tid, b, InitialTid)
      /\ net' = net \/ net' = net \cup {Discover(b)}
  BY DEF InitialIdle, FirstDiscover, RetryDiscover, CountInit, NothingDue, SendDiscover,
         mainVars, ageVars
<1>2. tid' \in [Boards -> Int]
  BY <1>1, TidStep DEF GrantInv, StateInv
<1>3. Discover(b) \in Discovers /\ Discover(b).type = "discover"
  BY <1>2 DEF Discover, Discovers
<1>4. \A x \in net' : Sound(x)
  BY <1>1, <1>3 DEF GrantInv, Sound, Messages
<1> QED BY <1>1, <1>2, <1>4 DEF GrantInv, StateInv, Sound, Bound

\* The one OFFER that can arrive carries the one address, and is requested.
LEMMA TakeOfferStep ==
    ASSUME OneOfEach, GrantInv, NEW b \in Boards, NEW m \in net, m \in Answered,
           phase[b] = "dhcp", TakeOffer(b, m), UNCHANGED <<leaseSecs, granted>>
    PROVE  GrantInv'
<1>1. /\ b = TheBoard /\ m.ip = TheAddress /\ m.server \in Servers
      /\ yiaddr' = Set(yiaddr, b, m.ip) /\ UNCHANGED <<tid, phase, myip>>
      /\ TakeFromNet(m, b, {Request(b, m.server, m.ip)})
  BY DEF OneOfEach, TakeOffer, IsOffer, GrantInv, Sound, Answered, mainVars
<1>2. yiaddr' \in [Boards -> {TheAddress, None}] /\ yiaddr'[TheBoard] = TheAddress
  BY <1>1 DEF GrantInv, StateInv, Set
<1>3. /\ Request(b, m.server, m.ip) \in Requests
      /\ Request(b, m.server, m.ip).type = "request"
  BY <1>1 DEF Request, Requests, GrantInv, StateInv
<1>4. ASSUME NEW x \in net' PROVE Sound(x)'
  <2>1. Sound(x) \/ x = Request(b, m.server, m.ip)
    BY <1>1, TakeFromNetSound
  <2>2. CASE Sound(x)
    BY <1>2, <2>2 DEF Sound, GrantInv, StateInv
  <2>3. CASE x = Request(b, m.server, m.ip)
    BY <1>2, <1>3, <2>3 DEF Sound, Messages
  <2> QED BY <2>1, <2>2, <2>3
<1>5. budget' \in Budgets
  BY <1>1, TakeBudget
<1>6. ~Bound(TheBoard)
  BY <1>1 DEF Bound
<1> QED BY <1>1, <1>2, <1>4, <1>5, <1>6 DEF GrantInv, StateInv, Bound

\* An ACK that can arrive acknowledges the address that was taken.
LEMMA TakeAckStep ==
    ASSUME OneOfEach, GrantInv, NEW b \in Boards, NEW m \in net, m \in Answered, m.kind = 1,
           TakeAck(b, m), UNCHANGED <<leaseSecs, granted>>
    PROVE  GrantInv'
<1>1. /\ b = TheBoard /\ m.type = "ack"
      /\ phase' = Set(phase, b, "arp") /\ myip' = Set(myip, b, yiaddr[b])
      /\ UNCHANGED <<yiaddr, tid>> /\ TakeFromNet(m, b, {})
  BY DEF OneOfEach, TakeAck, IsAck
<1>2. yiaddr[TheBoard] = TheAddress /\ TheAddress \in granted[TheBoard]
  BY <1>1 DEF GrantInv, Sound
<1>3. /\ phase' \in [Boards -> {"dhcp", "arp", "serve"}]
      /\ myip' \in [Boards -> {TheAddress, None}] /\ myip'[TheBoard] = TheAddress
  BY <1>1, <1>2 DEF GrantInv, StateInv, Set
<1>4. \A x \in net' : Sound(x)
  BY <1>1, TakeFromNetSound
<1>5. budget' \in Budgets
  BY <1>1, TakeBudget
<1> QED BY <1>1, <1>2, <1>3, <1>4, <1>5 DEF GrantInv, StateInv, Sound, Bound

\* The assignment loop with a packet: an OFFER, an ACK or neither.
LEMMA InitialPacketStep ==
    ASSUME OneOfEach, GrantInv, NEW b \in Boards, NEW m \in net, InitialPacket(b, m)
    PROVE  GrantInv'
<1>1. m \in Answered /\ phase[b] = "dhcp" /\ UNCHANGED <<leaseSecs, granted>>
  BY AcceptedAnswer DEF InitialPacket, ageVars
<1>2. \/ TakeOffer(b, m)
      \/ m.kind = 1 /\ TakeAck(b, m)
      \/ IgnoreReply(b, m)
  BY DEF InitialPacket
<1>3. CASE IgnoreReply(b, m)
  <2>1. /\ TakeFromNet(m, b, {}) /\ UNCHANGED <<yiaddr, tid, phase, myip>>
    BY <1>3 DEF IgnoreReply, clientVars, mainVars
  <2>2. budget' \in Budgets /\ \A x \in net' : Sound(x)
    BY <1>1, <2>1, TakeBudget, TakeFromNetSound
  <2> QED BY <1>1, <2>1, <2>2, StateKept
<1> QED BY <1>1, <1>2, <1>3, TakeOfferStep, TakeAckStep

-----------------------------------------------------------------------------
(* The board in the other loops *)

\* The renew handler takes its packet from the net and binds nothing new.
LEMMA ServingPacketStep ==
    ASSUME GrantInv, NEW b \in Boards, NEW m \in net, ArpPacket(b, m) \/ ServePacket(b, m)
    PROVE  GrantInv'
<1>1. /\ m \in Answered /\ TakeFromNet(m, b, {})
      /\ UNCHANGED <<yiaddr, tid, leaseSecs, granted, phase, myip>>
  BY AcceptedAnswer DEF ArpPacket, ServePacket, IgnoreReply, clientVars, mainVars, ageVars
<1>2. budget' \in Budgets /\ \A x \in net' : Sound(x)
  BY <1>1, TakeBudget, TakeFromNetSound
<1> QED BY <1>1, <1>2, StateKept

\* The wait for the gateway keeps the address the board came with.
LEMMA GatewayStep ==
    ASSUME GrantInv, NEW b \in Boards, GatewayAnswers(b)
    PROVE  GrantInv'
<1>1. /\ phase[b] = "arp" /\ phase' = Set(phase, b, "serve")
      /\ UNCHANGED <<yiaddr, tid, leaseSecs, granted, myip, net, budget>>
  BY DEF GatewayAnswers, clientVars, ageVars
<1>2. phase' \in [Boards -> {"dhcp", "arp", "serve"}] /\ (Bound(TheBoard)' => Bound(TheBoard))
  BY <1>1 DEF GrantInv, StateInv, Set, Bound
<1> QED BY <1>1, <1>2 DEF GrantInv, StateInv, Sound

\* The renew handler without a packet sends a renewal or nothing.
LEMMA ServeIdleStep ==
    ASSUME GrantInv, NEW b \in Boards, ServeIdle(b)
    PROVE  GrantInv'
<1>1. /\ UNCHANGED <<yiaddr, leaseSecs, granted, phase, myip, budget>>
      /\ \/ tid' = tid /\ net' = net
         \/ tid' = Inc(tid, b, TID_WRAP) /\ net' = net \cup {Renew(b)}
  BY DEF ServeIdle
<1>2. tid' \in [Boards -> Int]
  BY <1>1, TidStep DEF GrantInv, StateInv
<1>3. Renew(b) \in Requests /\ Renew(b).type = "request" /\ Renew(b).kind = 2
  BY <1>2 DEF Renew, Requests, GrantInv, StateInv
<1>4. \A x \in net' : Sound(x)
  BY <1>1, <1>3 DEF GrantInv, Sound, Messages
<1> QED BY <1>1, <1>2, <1>4 DEF GrantInv, StateInv, Sound, Bound

\* The countdown and the tick interrupt touch neither address nor message.
LEMMA CountStep ==
    ASSUME GrantInv, NEW b \in Boards, MinuteTest(b) \/ MinuteReset(b) \/ Tick(b)
    PROVE  GrantInv'
<1>1. UNCHANGED <<yiaddr, tid, leaseSecs, granted, phase, myip, net, budget>>
  BY DEF MinuteTest, MinuteReset, Tick, clientVars, mainVars, ageVars
<1> QED BY <1>1, StateKept DEF GrantInv

-----------------------------------------------------------------------------
(* The server and the network *)

\* A server offers a board its own address.
LEMMA OfferStep ==
    ASSUME OneOfEach, GrantInv, NEW s \in Servers, NEW m \in net, ServerOffers(s, m)
    PROVE  GrantInv'
<1> DEFINE r == Reply("offer", m, s, <<s, m.from>>, Boards)
<1>1. m \in Discovers
  BY DEF ServerOffers, GrantInv, Sound, Messages, Discovers, Requests, Answered
<1>2. <<s, m.from>> = TheAddress /\ m.kind = 1 /\ m.tid \in Int
  BY <1>1 DEF OneOfEach, TheAddress, Discovers
<1>3. r \in Answered /\ r.type = "offer" /\ r.ip = TheAddress
  BY <1>2 DEF Reply, Answered, GrantInv, StateInv
<1>4. \A x \in net' : x \in Taken(m, s) \/ x = r
  BY DEF ServerOffers
<1>5. UNCHANGED <<yiaddr, tid, leaseSecs, granted, phase, myip, budget>>
  BY DEF ServerOffers, clientVars, mainVars, ageVars
<1> HIDE DEF r
<1>6. Sound(r)
  BY <1>3 DEF Sound, Messages
<1>7. \A x \in net' : Sound(x)
  BY <1>1, <1>4, <1>6, TakenSound
<1> QED BY <1>5, <1>7, StateKept DEF GrantInv

\* A server acknowledges what it was asked for, and has then granted it.
LEMMA AckSentStep ==
    ASSUME OneOfEach, GrantInv, NEW s \in Servers, NEW m \in net, ServerAcks(s, m)
    PROVE  GrantInv'
<1> DEFINE r == Reply("ack", m, s, m.ip, IF m.kind = 1 THEN Boards ELSE {m.from})
<1>1. m \in Requests /\ Sound(m)
  BY DEF ServerAcks, Answers, GrantInv, Sound, Messages, Discovers, Requests, Answered
<1>2. m.from = TheBoard /\ m.ip = TheAddress /\ m.kind \in {1, 2} /\ m.tid \in Int
  BY <1>1 DEF ServerAcks, OneOfEach, TheAddress, Requests
<1>3. r \in Answered /\ r.type = "ack" /\ r.kind = m.kind
  BY <1>2 DEF OneOfEach, Reply, Answered, GrantInv, StateInv
<1>4. /\ granted' = [granted EXCEPT ![m.from] = @ \cup {m.ip}]
      /\ \A x \in net' : x \in net \/ x = r
      /\ UNCHANGED <<yiaddr, tid, leaseSecs, phase, myip, budget>>
  BY DEF ServerAcks, clientVars, mainVars
<1>5. granted' \in [Boards -> SUBSET {TheAddress}] /\ TheAddress \in granted'[TheBoard]
  BY <1>2, <1>4 DEF OneOfEach, GrantInv, StateInv
<1> HIDE DEF r
<1>6. ASSUME NEW x \in net' PROVE Sound(x)'
  <2>1. CASE x \in net
    BY <1>4, <1>5, <2>1 DEF GrantInv, Sound
  <2>2. CASE x = r
    <3>1. m.kind = 1 => yiaddr[TheBoard] = TheAddress
      BY <1>1 DEF Sound, Requests
    <3> QED BY <1>3, <1>4, <1>5, <2>2, <3>1 DEF Sound, Messages
  <2> QED BY <1>4, <2>1, <2>2
<1> QED BY <1>4, <1>5, <1>6 DEF GrantInv, StateInv, Bound

\* A refusal grants nothing.
LEMMA NakSentStep ==
    ASSUME OneOfEach, GrantInv, NEW s \in Servers, NEW m \in net, ServerNaks(s, m)
    PROVE  GrantInv'
<1> DEFINE r == Reply("nak", m, s, m.ip, IF m.kind = 1 THEN Boards ELSE {m.from})
<1>1. m \in Requests
  BY DEF ServerNaks, Answers, GrantInv, Sound, Messages, Discovers, Requests, Answered
<1>2. r \in Answered /\ r.type = "nak"
  BY <1>1 DEF Requests, Reply, Answered, GrantInv, StateInv
<1>3. /\ \A x \in net' : x \in net \/ x = r
      /\ UNCHANGED <<yiaddr, tid, leaseSecs, granted, phase, myip>>
  BY DEF ServerNaks, clientVars, mainVars, ageVars
<1>4. budget' \in Budgets
  BY DEF ServerNaks, GrantInv, Budgets
<1> HIDE DEF r
<1>5. \A x \in net' : Sound(x)
  BY <1>2, <1>3 DEF GrantInv, Sound, Messages
<1> QED BY <1>3, <1>4, <1>5, StateKept

\* Losses, duplicates and link failures add no message that was not there.
LEMMA FaultStep ==
    ASSUME OneOfEach, GrantInv, Environment
    PROVE  GrantInv'
<1>1. ASSUME NEW m \in net, Lose(m) PROVE GrantInv'
  <2>1. /\ UNCHANGED <<yiaddr, tid, leaseSecs, granted, phase, myip>>
        /\ \A x \in net' : x \in net
    BY <1>1 DEF Lose, clientVars, mainVars, ageVars
  <2>2. budget' \in Budgets
    BY <1>1 DEF Lose, GrantInv, Budgets
  <2> QED BY <2>1, <2>2, StateKept DEF GrantInv
<1>2. ASSUME NEW b \in Boards, LinkFails(b) PROVE GrantInv'
  <2>1. UNCHANGED <<yiaddr, tid, leaseSecs, granted, phase, myip, net>>
    BY <1>2 DEF LinkFails, clientVars, mainVars
  <2>2. budget' \in Budgets
    BY <1>2 DEF LinkFails, GrantInv, Budgets
  <2> QED BY <2>1, <2>2, StateKept DEF GrantInv
<1>3. ASSUME NEW b \in Boards, LinkReturns(b) PROVE GrantInv'
  <2>1. UNCHANGED <<yiaddr, tid, leaseSecs, granted, phase, myip, net, budget>>
    BY <1>3 DEF LinkReturns, clientVars, mainVars, ageVars
  <2> QED BY <2>1, StateKept DEF GrantInv
<1>4. ASSUME NEW b \in Boards, Restart(b) PROVE FALSE
  BY <1>4 DEF Restart, OneOfEach, GrantInv, Budgets
<1> QED BY <1>1, <1>2, <1>3, <1>4 DEF Environment

-----------------------------------------------------------------------------
\* dhcp_client.c:431-449: one board, one server, any losses, duplicates, delays,
\* refusals and link failures: the address the board leaves the assignment loop
\* with is one the server acknowledged to it, for every setting of the counters.
THEOREM OnlyGrantedAddress ==
    ASSUME OneOfEach
    PROVE  Spec => []AddressWasGranted
<1>1. Init => GrantInv
  BY DEF OneOfEach, Init, NoBudget, GrantInv, StateInv, Budgets, Bound
<1>2. GrantInv /\ [Next]_vars => GrantInv'
  <2> SUFFICES ASSUME GrantInv, [Next]_vars PROVE GrantInv'
    OBVIOUS
  <2>1. ASSUME NEW b \in Boards, Board(b) PROVE GrantInv'
    BY <2>1, InitialIdleStep, GatewayStep, CountStep, ServeIdleStep, InitialPacketStep,
       ServingPacketStep DEF Board
  <2>2. ASSUME NEW b \in Boards, Tick(b) PROVE GrantInv'
    BY <2>2, CountStep
  <2>3. ASSUME NEW s \in Servers, Server(s) PROVE GrantInv'
    BY <2>3, OfferStep, AckSentStep, NakSentStep DEF Server
  <2>4. CASE Environment
    BY <2>4, FaultStep
  <2>5. CASE UNCHANGED vars
    <3>1. UNCHANGED <<yiaddr, tid, leaseSecs, granted, phase, myip, net, budget>>
      BY <2>5 DEF vars, clientVars, mainVars, ageVars
    <3> QED BY <3>1, StateKept DEF GrantInv
  <2> QED BY <2>1, <2>2, <2>3, <2>4, <2>5 DEF Next
<1>3. GrantInv => AddressWasGranted
  BY DEF OneOfEach, GrantInv, StateInv, AddressWasGranted
<1> QED BY <1>1, <1>2, <1>3, PTL DEF Spec

-----------------------------------------------------------------------------
(* Types, for every number of boards and servers *)

DiscoverType ==
    [type : {"discover"}, kind : {1}, tid : 0..(TID_WRAP - 1), from : Boards,
     to : SUBSET Servers]
RequestType ==
    [type : {"request"}, kind : {1, 2}, tid : 0..(TID_WRAP - 1), from : Boards,
     server : Servers \cup {None}, ip : Addresses \cup {None}]
MessageType == DiscoverType \cup RequestType \cup Replies

\* TypeOK with the types of the histories, of the environment and of all messages.
TypeInv ==
    /\ TypeOK
    /\ age \in [Boards -> Nat] /\ asked \in [Boards -> BOOLEAN]
    /\ polled \in [Boards -> BOOLEAN] /\ disturbed \in [Boards -> BOOLEAN]
    /\ leaseSecs \in Leases /\ budget \in Budgets
    /\ net \subseteq MessageType

\* The counters wrap.
LEMMA IncTyped ==
    ASSUME NEW n \in Nat \ {0}, NEW f \in [Boards -> 0..(n - 1)], NEW b \in Boards
    PROVE  /\ Inc(f, b, n) \in [Boards -> 0..(n - 1)] /\ Inc(f, b, n)[b] = (f[b] + 1) % n
           /\ \A c \in Boards \ {b} : Inc(f, b, n)[c] = f[c]
<1>1. (f[b] + 1) % n \in 0..(n - 1)
  OBVIOUS
<1> QED BY <1>1 DEF Inc

\* More than any finite lease.
LEMMA Forever == FOREVER \in Nat /\ FOREVER > 65533
BY DEF FOREVER

\* A finite lease is at least five of the driver's minutes, and less than forever.
LEMMA LeaseRange ==
    ASSUME NEW l \in Leases
    PROVE  /\ LeaseMinutes(l) \in 5..FOREVER
           /\ l # Infinite => LeaseMinutes(l) < FOREVER
<1>1. CASE l = Infinite
  BY <1>1, Forever DEF LeaseMinutes
<1>2. CASE l # Infinite
  <2>1. l \in Nat
    BY <1>2, DhcpAssumption
  <2> DEFINE m == l \div 64
  <2>2. m \in Int
    BY <2>1
  <2>3. LeaseMinutes(l) = IF m > 65533 THEN 65533 ELSE IF m < 5 THEN 5 ELSE m
    BY <1>2 DEF LeaseMinutes
  <2> HIDE DEF m
  <2>4. LeaseMinutes(l) \in Int /\ 5 <= LeaseMinutes(l) /\ LeaseMinutes(l) <= 65533
    BY <2>2, <2>3
  <2> QED BY <2>4, Forever
<1> QED BY <1>1, <1>2

\* What is left in flight of a message one receiver has taken.
LEMMA LeftOver ==
    ASSUME NEW m \in DiscoverType \cup Replies, NEW r
    PROVE  LET rest == [m EXCEPT !.to = @ \ {r}]
           IN  /\ rest \in DiscoverType \cup Replies
               /\ rest.type = m.type /\ rest.kind = m.kind /\ rest.to \subseteq m.to
               /\ IsReply(m) => rest.secs = m.secs
BY DEF DiscoverType, Replies, IsReply

\* What is in flight after a board has taken a message and sent some.
LEMMA InFlight ==
    ASSUME net \subseteq MessageType, NEW m \in net, IsReply(m), NEW b, NEW sent, TakeFromNet(m, b, sent),
           NEW x \in net'
    PROVE  \/ x \in net \/ x \in sent
           \/ /\ x \in Replies /\ x.type = m.type /\ x.kind = m.kind /\ x.to \subseteq m.to
              /\ x.secs = m.secs
<1> DEFINE rest == [m EXCEPT !.to = @ \ {b}]
<1>1. m \in Replies
  BY DEF MessageType, DiscoverType, RequestType, IsReply
<1>2. x \in net \/ x \in sent \/ x = rest
  BY DEF TakeFromNet, Taken
<1>3. /\ rest \in DiscoverType \cup Replies
      /\ rest.type = m.type /\ rest.kind = m.kind /\ rest.to \subseteq m.to /\ rest.secs = m.secs
  BY <1>1, LeftOver
<1>4. rest \in Replies
  BY <1>3 DEF IsReply, DiscoverType
<1> HIDE DEF rest
<1> QED BY <1>2, <1>3, <1>4

\* So its type is a message's.
LEMMA InFlightTyped ==
    ASSUME net \subseteq MessageType, budget \in Budgets, NEW m \in net, NEW b, Accepts(b, m),
           NEW sent \in SUBSET MessageType, TakeFromNet(m, b, sent)
    PROVE  net' \subseteq MessageType /\ budget' \in Budgets
<1>1. IsReply(m)
  BY DEF Accepts
<1>2. ASSUME NEW x \in net' PROVE x \in MessageType
  <2>1. x \in net \/ x \in sent \/ x \in Replies
    BY <1>1, InFlight
  <2> QED BY <2>1 DEF MessageType
<1>3. budget' \in Budgets
  BY DEF Budgets, TakeFromNet
<1> QED BY <1>2, <1>3

\* Only the messages of a reply's type are replies.
LEMMA RepliesTyped ==
    ASSUME net \subseteq MessageType, NEW m \in net, IsReply(m)
    PROVE  m \in Replies
BY DEF MessageType, DiscoverType, RequestType, IsReply

\* What the constants are good for.
LEMMA Widths ==
    /\ CNT_WRAP \in Nat \ {0} /\ MINUTE_TICKS \in Nat /\ MINUTE_TICKS < CNT_WRAP - 1
    /\ TID_WRAP \in Nat \ {0} /\ InitialTid \in 0..(TID_WRAP - 1) /\ 0 \in 0..(TID_WRAP - 1)
    /\ INIT_DELAY \in Nat /\ INIT_DELAY >= 2
    /\ AGE_CAP \in Nat /\ TICK_SECONDS \in Nat
BY DhcpAssumption DEF InitialTid

\* Power-up is typed.
LEMMA InitTyped == Init => TypeInv
<1> SUFFICES ASSUME Init PROVE TypeInv
  OBVIOUS
<1>1. TypeOK
  BY Widths, Forever DEF Init, TypeOK
<1>2. budget \in Budgets
  BY DEF Init, NoBudget, Budgets
<1> QED BY <1>1, <1>2 DEF Init, TypeInv

\* The assignment loop without a packet.
LEMMA InitialIdleTyped ==
    ASSUME TypeInv, NEW b \in Boards, InitialIdle(b)
    PROVE  TypeInv'
<1>1. /\ UNCHANGED <<yiaddr, serverId, phase, step, myip, lease, link, leaseSecs, budget,
                     granted, age, asked, disturbed>>
      /\ polled' = Set(polled, b, TRUE)
      /\ init' \in {init, Set(init, b, 1)} \/ (init[b] > 2 /\ init' = Set(init, b, init[b] - 1))
      /\ tid' \in {tid, Inc(tid, b, TID_WRAP), Set(tid, b, InitialTid)}
      /\ sixSec' \in {sixSec, Set(sixSec, b, 0)} /\ bcast' \in {bcast, Set(bcast, b, TRUE)}
      /\ net' \in {net, net \cup {Discover(b)}}
  BY DEF InitialIdle, FirstDiscover, RetryDiscover, CountInit, NothingDue, SendDiscover,
         mainVars, ageVars
<1>2. tid' \in [Boards -> 0..(TID_WRAP - 1)]
  <2>1. tid \in [Boards -> 0..(TID_WRAP - 1)] /\ InitialTid \in 0..(TID_WRAP - 1)
    BY Widths DEF TypeInv, TypeOK
  <2>2. Inc(tid, b, TID_WRAP) \in [Boards -> 0..(TID_WRAP - 1)]
    BY <2>1, Widths, IncTyped
  <2> QED BY <1>1, <2>1, <2>2 DEF Set
<1>3. init' \in [Boards -> 1..INIT_DELAY]
  <2>1. init \in [Boards -> 1..INIT_DELAY] /\ 1 \in 1..INIT_DELAY
    BY Widths DEF TypeInv, TypeOK
  <2>2. init[b] > 2 => init[b] - 1 \in 1..INIT_DELAY
    <3>1. init[b] \in 1..INIT_DELAY
      BY <2>1
    <3> QED BY <3>1, Widths
  <2> QED BY <1>1, <2>1, <2>2 DEF Set
<1>4. /\ sixSec' \in [Boards -> 0..(CNT_WRAP - 1)] /\ bcast' \in [Boards -> BOOLEAN]
      /\ polled' \in [Boards -> BOOLEAN]
  <2>1. 0 \in 0..(CNT_WRAP - 1)
    BY Widths
  <2>2. sixSec' \in [Boards -> 0..(CNT_WRAP - 1)]
    BY <1>1, <2>1 DEF Set, TypeInv, TypeOK
  <2>3. bcast' \in [Boards -> BOOLEAN]
    BY <1>1 DEF Set, TypeInv, TypeOK
  <2>4. polled' \in [Boards -> BOOLEAN]
    BY <1>1 DEF Set, TypeInv
  <2> QED BY <2>2, <2>3, <2>4
<1>5. net' \subseteq MessageType
  <2>1. Discover(b) \in DiscoverType
    BY <1>2 DEF Discover, DiscoverType
  <2> QED BY <1>1, <2>1 DEF TypeInv, MessageType
<1>6. \A m \in net' : IsReply(m) => m \in Replies
  BY <1>5 DEF MessageType, DiscoverType, RequestType, IsReply
<1> QED BY <1>1, <1>2, <1>3, <1>4, <1>5, <1>6 DEF TypeInv, TypeOK

\* The assignment loop with a packet.
LEMMA InitialPacketTyped ==
    ASSUME TypeInv, NEW b \in Boards, NEW m \in net, InitialPacket(b, m)
    PROVE  TypeInv'
<1>1. /\ Accepts(b, m) /\ UNCHANGED <<sixSec, link, leaseSecs, granted, age, asked, disturbed, polled>>
      /\ TakeOffer(b, m) \/ TakeAck(b, m) \/ IgnoreReply(b, m)
  BY DEF InitialPacket, ageVars
<1>2. m \in Replies /\ net \subseteq MessageType /\ budget \in Budgets
  BY <1>1, RepliesTyped DEF TypeInv, Accepts
<1>3. CASE TakeOffer(b, m)
  <2> DEFINE sent == {Request(b, m.server, m.ip)}
  <2>1. m.server \in Servers /\ m.ip \in Addresses \cup {None} /\ m.secs \in Leases
    BY <1>2 DEF Replies
  <2>2. Request(b, m.server, m.ip) \in RequestType
    BY <2>1 DEF Request, RequestType, TypeInv, TypeOK
  <2>3. sent \in SUBSET MessageType
    BY <2>2 DEF MessageType
  <2>4. TakeFromNet(m, b, sent)
    BY <1>3 DEF TakeOffer
  <2> HIDE DEF sent
  <2>5. net' \subseteq MessageType /\ budget' \in Budgets
    BY <1>1, <1>2, <2>3, <2>4, InFlightTyped
  <2>6. LeaseMinutes(m.secs) \in 0..FOREVER /\ 1 \in 1..INIT_DELAY
    BY <2>1, LeaseRange, Widths
  <2>7. /\ UNCHANGED <<tid, bcast, phase, step, myip>>
        /\ init' = Set(init, b, 1) /\ yiaddr' = Set(yiaddr, b, m.ip)
        /\ serverId' = Set(serverId, b, m.server) /\ lease' = Set(lease, b, LeaseMinutes(m.secs))
    BY <1>3 DEF TakeOffer, mainVars
  <2>8. /\ init' \in [Boards -> 1..INIT_DELAY] /\ yiaddr' \in [Boards -> Addresses \cup {None}]
        /\ serverId' \in [Boards -> Servers \cup {None}] /\ lease' \in [Boards -> 0..FOREVER]
    BY <2>1, <2>6, <2>7 DEF Set, TypeInv, TypeOK
  <2>9. \A x \in net' : IsReply(x) => x \in Replies
    BY <2>5 DEF MessageType, DiscoverType, RequestType, IsReply
  <2> QED BY <1>1, <2>5, <2>7, <2>8, <2>9 DEF TypeInv, TypeOK
<1>4. CASE TakeAck(b, m) \/ IgnoreReply(b, m)
  <2>1. TakeFromNet(m, b, {}) /\ {} \in SUBSET MessageType
    BY <1>4 DEF TakeAck, IgnoreReply
  <2>2. net' \subseteq MessageType /\ budget' \in Budgets
    BY <1>1, <1>2, <2>1, InFlightTyped
  <2>3. /\ UNCHANGED <<yiaddr, serverId, tid, lease, step>>
        /\ init' \in {init, Set(init, b, 1)} /\ bcast' \in {bcast, Set(bcast, b, FALSE)}
        /\ phase' \in {phase, Set(phase, b, "arp")} /\ myip' \in {myip, Set(myip, b, yiaddr[b])}
    BY <1>4 DEF TakeAck, IgnoreReply, clientVars, mainVars
  <2>4. yiaddr[b] \in Addresses \cup {None} /\ 1 \in 1..INIT_DELAY
    BY Widths DEF TypeInv, TypeOK
  <2>5. /\ init' \in [Boards -> 1..INIT_DELAY] /\ bcast' \in [Boards -> BOOLEAN]
        /\ phase' \in [Boards -> {"dhcp", "arp", "serve"}]
        /\ myip' \in [Boards -> Addresses \cup {None}]
    <3>1. init' \in [Boards -> 1..INIT_DELAY]
      BY <2>3, <2>4 DEF Set, TypeInv, TypeOK
    <3>2. bcast' \in [Boards -> BOOLEAN]
      BY <2>3 DEF Set, TypeInv, TypeOK
    <3>3. phase' \in [Boards -> {"dhcp", "arp", "serve"}]
      BY <2>3 DEF Set, TypeInv, TypeOK
    <3>4. myip' \in [Boards -> Addresses \cup {None}]
      BY <2>3, <2>4 DEF Set, TypeInv, TypeOK
    <3> QED BY <3>1, <3>2, <3>3, <3>4
  <2>6. \A x \in net' : IsReply(x) => x \in Replies
    BY <2>2 DEF MessageType, DiscoverType, RequestType, IsReply
  <2> QED BY <1>1, <2>2, <2>3, <2>5, <2>6 DEF TypeInv, TypeOK
<1> QED BY <1>1, <1>3, <1>4

\* The wait for the gateway, and the renew handler.
LEMMA ServingTyped ==
    ASSUME TypeInv, NEW b \in Boards,
           GatewayAnswers(b) \/ MinuteTest(b) \/ MinuteReset(b) \/ ServeIdle(b)
    PROVE  TypeInv'
<1>1. /\ UNCHANGED <<init, yiaddr, serverId, bcast, myip, link, leaseSecs, budget, granted, age,
                     disturbed>>
      /\ phase' \in {phase, Set(phase, b, "serve")} /\ polled' \in {polled, Set(polled, b, TRUE)}
      /\ step' \in {step} \cup {Set(step, b, s) : s \in {"poll", "reset", "rest"}}
      /\ sixSec' \in {sixSec, Set(sixSec, b, 0)}
      /\ \/ lease' = lease \/ lease' = Set(lease, b, 5)
         \/ lease[b] > 1 /\ lease' = Set(lease, b, lease[b] - 1)
      /\ tid' \in {tid, Inc(tid, b, TID_WRAP)} /\ asked' \in {asked, Set(asked, b, TRUE)}
      /\ net' = net \/ (net' = net \cup {Renew(b)} /\ tid' = Inc(tid, b, TID_WRAP))
  BY DEF GatewayAnswers, MinuteTest, MinuteReset, ServeIdle, clientVars, ageVars
<1>2. /\ phase' \in [Boards -> {"dhcp", "arp", "serve"}] /\ polled' \in [Boards -> BOOLEAN]
      /\ asked' \in [Boards -> BOOLEAN] /\ step' \in [Boards -> {"poll", "reset", "rest"}]
  <2>1. phase' \in [Boards -> {"dhcp", "arp", "serve"}]
    BY <1>1 DEF Set, TypeInv, TypeOK
  <2>2. step' \in [Boards -> {"poll", "reset", "rest"}]
    BY <1>1 DEF Set, TypeInv, TypeOK
  <2>3. polled' \in [Boards -> BOOLEAN] /\ asked' \in [Boards -> BOOLEAN]
    BY <1>1 DEF Set, TypeInv
  <2> QED BY <2>1, <2>2, <2>3
<1>3. /\ sixSec' \in [Boards -> 0..(CNT_WRAP - 1)] /\ lease' \in [Boards -> 0..FOREVER]
      /\ tid' \in [Boards -> 0..(TID_WRAP - 1)]
  <2>1. /\ sixSec \in [Boards -> 0..(CNT_WRAP - 1)] /\ lease \in [Boards -> 0..FOREVER]
        /\ tid \in [Boards -> 0..(TID_WRAP - 1)]
    BY DEF TypeInv, TypeOK
  <2>2. /\ 0 \in 0..(CNT_WRAP - 1) /\ 5 \in 0..FOREVER
        /\ lease[b] > 1 => lease[b] - 1 \in 0..FOREVER
    <3>1. lease[b] \in 0..FOREVER
      BY <2>1
    <3>2. FOREVER \in Nat
      BY Forever
    <3>3. lease[b] > 1 => lease[b] - 1 \in 0..FOREVER
      BY <3>1, <3>2
    <3>4. 0 \in 0..(CNT_WRAP - 1) /\ 5 \in 0..FOREVER
      BY Widths, Forever
    <3> QED BY <3>3, <3>4
  <2>3. Inc(tid, b, TID_WRAP) \in [Boards -> 0..(TID_WRAP - 1)]
    BY <2>1, Widths, IncTyped
  <2>4. sixSec' \in [Boards -> 0..(CNT_WRAP - 1)]
    BY <1>1, <2>1, <2>2 DEF Set
  <2>5. lease' \in [Boards -> 0..FOREVER]
    BY <1>1, <2>1, <2>2 DEF Set
  <2> QED BY <1>1, <2>1, <2>3, <2>4, <2>5
<1>4. net' \subseteq MessageType
  <2>1. tid' = Inc(tid, b, TID_WRAP) => Renew(b) \in RequestType
    BY <1>3 DEF Renew, RequestType, TypeInv, TypeOK
  <2> QED BY <1>1, <2>1 DEF TypeInv, MessageType
<1>5. \A m \in net' : IsReply(m) => m \in Replies
  BY <1>4 DEF MessageType, DiscoverType, RequestType, IsReply
<1> QED BY <1>1, <1>2, <1>3, <1>4, <1>5 DEF TypeInv, TypeOK

\* A packet in one of the later loops.
LEMMA LaterPacketTyped ==
    ASSUME TypeInv, NEW b \in Boards, NEW m \in net, ArpPacket(b, m) \/ ServePacket(b, m)
    PROVE  TypeInv'
<1>1. /\ Accepts(b, m) /\ TakeFromNet(m, b, {}) /\ {} \in SUBSET MessageType
      /\ UNCHANGED <<init, yiaddr, tid, bcast, phase, myip, sixSec, link, leaseSecs, granted, age,
                     asked, disturbed, polled>>
      /\ step' \in {step, Set(step, b, "poll")}
      /\ lease' \in {lease, Set(lease, b, LeaseMinutes(m.secs))}
      /\ serverId' \in {serverId, Set(serverId, b, m.server)}
  BY DEF ArpPacket, ServePacket, IgnoreReply, clientVars, mainVars, ageVars
<1>2. m \in Replies /\ net \subseteq MessageType /\ budget \in Budgets
  BY <1>1, RepliesTyped DEF TypeInv, Accepts
<1>3. m.server \in Servers /\ LeaseMinutes(m.secs) \in 0..FOREVER
  <2>1. m.server \in Servers /\ m.secs \in Leases
    BY <1>2 DEF Replies
  <2>2. LeaseMinutes(m.secs) \in 5..FOREVER
    BY <2>1, LeaseRange
  <2> DEFINE n == LeaseMinutes(m.secs)
  <2> HIDE DEF n
  <2>3. n \in 5..FOREVER => n \in 0..FOREVER
    BY Forever
  <2> QED BY <2>1, <2>2, <2>3 DEF n
<1>4. /\ step' \in [Boards -> {"poll", "reset", "rest"}] /\ lease' \in [Boards -> 0..FOREVER]
      /\ serverId' \in [Boards -> Servers \cup {None}]
  <2>1. step' \in [Boards -> {"poll", "reset", "rest"}]
    BY <1>1 DEF Set, TypeInv, TypeOK
  <2>2. lease' \in [Boards -> 0..FOREVER]
    BY <1>1, <1>3 DEF Set, TypeInv, TypeOK
  <2>3. serverId' \in [Boards -> Servers \cup {None}]
    BY <1>1, <1>3 DEF Set, TypeInv, TypeOK
  <2> QED BY <2>1, <2>2, <2>3
<1>5. net' \subseteq MessageType /\ budget' \in Budgets
  BY <1>1, <1>2, InFlightTyped
<1>6. \A x \in net' : IsReply(x) => x \in Replies
  BY <1>5 DEF MessageType, DiscoverType, RequestType, IsReply
<1> QED BY <1>1, <1>4, <1>5, <1>6 DEF TypeInv, TypeOK

\* The timer.
LEMMA TickTyped ==
    ASSUME TypeInv, NEW b \in Boards, Tick(b)
    PROVE  TypeInv'
<1>1. /\ UNCHANGED <<init, yiaddr, serverId, tid, bcast, phase, step, myip, lease, link, net,
                     leaseSecs, budget, granted, asked>>
      /\ sixSec' = Inc(sixSec, b, CNT_WRAP) /\ polled' = Set(polled, b, FALSE)
      /\ age' \in {age, Set(age, b, age[b] + 1)} /\ disturbed' \in {disturbed, Set(disturbed, b, TRUE)}
  BY DEF Tick, clientVars, mainVars
<1>2. sixSec' \in [Boards -> 0..(CNT_WRAP - 1)]
  BY <1>1, Widths, IncTyped DEF TypeInv, TypeOK
<1>3. age' \in [Boards -> Nat]
  <2>1. age[b] + 1 \in Nat
    BY DEF TypeInv
  <2> QED BY <1>1, <2>1 DEF Set, TypeInv
<1>4. polled' \in [Boards -> BOOLEAN] /\ disturbed' \in [Boards -> BOOLEAN]
  BY <1>1 DEF Set, TypeInv
<1> QED BY <1>1, <1>2, <1>3, <1>4 DEF TypeInv, TypeOK

\* The servers.
LEMMA ServerTyped ==
    ASSUME TypeInv, NEW s \in Servers, Server(s)
    PROVE  TypeInv'
<1>1. PICK m \in net : ServerOffers(s, m) \/ ServerAcks(s, m) \/ ServerNaks(s, m)
  BY DEF Server
<1>2. /\ UNCHANGED <<init, yiaddr, serverId, tid, bcast, phase, step, myip, sixSec, lease, link,
                     leaseSecs, disturbed, polled>>
      /\ m \in MessageType /\ leaseSecs \in Leases
  BY <1>1 DEF ServerOffers, ServerAcks, ServerNaks, clientVars, mainVars, ageVars, TypeInv
<1>3. CASE ServerOffers(s, m)
  <2> DEFINE r == Reply("offer", m, s, <<s, m.from>>, Boards)
  <2>1. m \in DiscoverType
    BY <1>2, <1>3 DEF ServerOffers, MessageType, DiscoverType, RequestType, Replies
  <2>2. <<s, m.from>> \in Addresses
    BY <2>1 DEF DiscoverType, Addresses
  <2>3. r \in Replies
    BY <1>2, <2>1, <2>2 DEF Reply, Replies, DiscoverType
  <2>4. [m EXCEPT !.to = @ \ {s}] \in DiscoverType \cup Replies
    BY <2>1, LeftOver
  <2>5. net' \subseteq net \cup {[m EXCEPT !.to = @ \ {s}], r} /\ UNCHANGED <<budget, granted, age, asked>>
    BY <1>3 DEF ServerOffers, Taken, ageVars
  <2> HIDE DEF r
  <2>6. net' \subseteq MessageType
    BY <2>3, <2>4, <2>5 DEF MessageType, TypeInv
  <2>7. \A x \in net' : IsReply(x) => x \in Replies
    BY <2>6 DEF MessageType, DiscoverType, RequestType, IsReply
  <2> QED BY <1>2, <2>5, <2>6, <2>7 DEF TypeInv, TypeOK
<1>4. CASE ServerAcks(s, m) \/ ServerNaks(s, m)
  <2> DEFINE to == IF m.kind = 1 THEN Boards ELSE {m.from}
             r == Reply(IF ServerAcks(s, m) THEN "ack" ELSE "nak", m, s, m.ip, to)
  <2>1. m \in RequestType
    BY <1>2, <1>4 DEF ServerAcks, ServerNaks, Answers, MessageType, DiscoverType, RequestType, Replies
  <2>2. to \in SUBSET Boards
    BY <2>1 DEF RequestType
  <2>3. \A t \in {"ack", "nak"} : Reply(t, m, s, m.ip, to) \in Replies
    <3> HIDE DEF to
    <3> QED BY <1>2, <2>1, <2>2 DEF Reply, Replies, RequestType
  <2>4. \E t \in {"ack", "nak"} : net' = (net \ {m}) \cup {Reply(t, m, s, m.ip, to)}
    BY <1>4 DEF ServerAcks, ServerNaks
  <2>5. net' \subseteq MessageType
    <3> HIDE DEF to
    <3> QED BY <2>3, <2>4 DEF MessageType, TypeInv
  <2>6. \A x \in net' : IsReply(x) => x \in Replies
    BY <2>5 DEF MessageType, DiscoverType, RequestType, IsReply
  <2>7. budget' \in Budgets
    <3>1. \/ budget' = budget
          \/ budget' = [budget EXCEPT !.naks = @ + 1]
      BY <1>4 DEF ServerAcks, ServerNaks
    <3> QED BY <3>1 DEF TypeInv, Budgets
  <2>8. m.from \in Boards /\ (ServerAcks(s, m) => m.ip \in Addresses)
    <3>1. m.from \in Boards
      BY <2>1 DEF RequestType
    <3>2. <<s, m.from>> \in Servers \X Boards
      BY <3>1
    <3> QED BY <3>1, <3>2 DEF ServerAcks, Addresses
  <2>9. granted' \in [Boards -> SUBSET Addresses] /\ age' \in [Boards -> Nat] /\ asked' \in [Boards -> BOOLEAN]
    <3>1. CASE ServerAcks(s, m)
      <4>1. granted' \in [Boards -> SUBSET Addresses]
        BY <2>8, <3>1 DEF ServerAcks, TypeInv, TypeOK
      <4>2. age' \in [Boards -> Nat] /\ asked' \in [Boards -> BOOLEAN]
        BY <2>8, <3>1 DEF ServerAcks, Set, TypeInv
      <4> QED BY <4>1, <4>2
    <3>2. CASE ServerNaks(s, m)
      BY <3>2 DEF ServerNaks, ageVars, TypeInv, TypeOK
    <3> QED BY <1>4, <3>1, <3>2
  <2> QED BY <1>2, <2>5, <2>6, <2>7, <2>9 DEF TypeInv, TypeOK
<1> QED BY <1>1, <1>3, <1>4

\* Faults and restarts.
LEMMA EnvironmentTyped ==
    ASSUME TypeInv, Environment
    PROVE  TypeInv'
<1>1. ASSUME NEW m \in net, Lose(m) PROVE TypeInv'
  <2>1. budget' \in Budgets /\ net' \subseteq net
    BY <1>1 DEF Lose, TypeInv, Budgets
  <2> QED BY <1>1, <2>1 DEF Lose, clientVars, mainVars, ageVars, TypeInv, TypeOK
<1>2. ASSUME NEW b \in Boards, LinkFails(b) \/ LinkReturns(b) PROVE TypeInv'
  <2>1. budget' \in Budgets
    <3>1. \/ budget' = budget
          \/ budget' = [budget EXCEPT !.flaps = @ + 1]
      BY <1>2 DEF LinkFails, LinkReturns
    <3> QED BY <3>1 DEF TypeInv, Budgets
  <2>2. link' \in [Boards -> BOOLEAN]
    BY <1>2 DEF LinkFails, LinkReturns, Set, TypeInv, TypeOK
  <2>3. disturbed' \in [Boards -> BOOLEAN]
    BY <1>2 DEF LinkFails, LinkReturns, Set, TypeInv, ageVars
  <2>4. UNCHANGED <<init, yiaddr, serverId, tid, bcast, phase, step, myip, sixSec, lease, net,
                    leaseSecs, granted, age, asked, polled>>
    BY <1>2 DEF LinkFails, LinkReturns, clientVars, mainVars, ageVars
  <2> QED BY <2>1, <2>2, <2>3, <2>4 DEF TypeInv, TypeOK
<1>3. ASSUME NEW b \in Boards, Restart(b) PROVE TypeInv'
  <2>1. budget' \in Budgets
    BY <1>3 DEF Restart, TypeInv, Budgets
  <2>2. phase' \in [Boards -> {"dhcp", "arp", "serve"}] /\ step' \in [Boards -> {"poll", "reset", "rest"}]
    BY <1>3 DEF Restart, Set, TypeInv, TypeOK
  <2>3. init' \in [Boards -> 1..INIT_DELAY] /\ sixSec' \in [Boards -> 0..(CNT_WRAP - 1)]
    <3>1. INIT_DELAY \in 1..INIT_DELAY /\ 0 \in 0..(CNT_WRAP - 1)
      BY Widths
    <3> QED BY <1>3, <3>1 DEF Restart, Set, TypeInv, TypeOK
  <2>4. yiaddr' \in [Boards -> Addresses \cup {None}] /\ serverId' \in [Boards -> Servers \cup {None}]
    BY <1>3 DEF Restart, Set, TypeInv, TypeOK
  <2>5. tid' \in [Boards -> 0..(TID_WRAP - 1)] /\ lease' \in [Boards -> 0..FOREVER]
    <3>1. 0 \in 0..(TID_WRAP - 1) /\ 0 \in 0..FOREVER
      BY Widths, Forever
    <3> QED BY <1>3, <3>1 DEF Restart, Set, TypeInv, TypeOK
  <2>6. bcast' \in [Boards -> BOOLEAN] /\ myip' \in [Boards -> Addresses \cup {None}]
    BY <1>3 DEF Restart, Set, TypeInv, TypeOK
  <2>7. disturbed' \in [Boards -> BOOLEAN] /\ polled' \in [Boards -> BOOLEAN]
    BY <1>3 DEF Restart, Set, TypeInv
  <2>8. UNCHANGED <<link, net, leaseSecs, granted, age, asked>>
    BY <1>3 DEF Restart
  <2> QED BY <2>1, <2>2, <2>3, <2>4, <2>5, <2>6, <2>7, <2>8 DEF TypeInv, TypeOK
<1> QED BY <1>1, <1>2, <1>3 DEF Environment

\* Every variable stays in its range, whatever the network and the boards do.
THEOREM TypeCorrect == Spec => []TypeInv
<1>1. TypeInv /\ [Next]_vars => TypeInv'
  <2> SUFFICES ASSUME TypeInv, [Next]_vars PROVE TypeInv'
    OBVIOUS
  <2>1. ASSUME NEW b \in Boards, Board(b) PROVE TypeInv'
    BY <2>1, InitialIdleTyped, InitialPacketTyped, ServingTyped, LaterPacketTyped DEF Board
  <2>2. ASSUME NEW b \in Boards, Tick(b) PROVE TypeInv'
    BY <2>2, TickTyped
  <2>3. ASSUME NEW s \in Servers, Server(s) PROVE TypeInv'
    BY <2>3, ServerTyped
  <2>4. CASE Environment
    BY <2>4, EnvironmentTyped
  <2>5. CASE UNCHANGED vars
    BY <2>5 DEF vars, clientVars, mainVars, ageVars, TypeInv, TypeOK
  <2> QED BY <2>1, <2>2, <2>3, <2>4, <2>5 DEF Next
<1> QED BY <1>1, InitTyped, PTL DEF Spec

-----------------------------------------------------------------------------
(* Renewals in time: the setting and the invariant *)

\* A minute of the countdown, in ticks: the test is for more than MINUTE_TICKS.
MinuteLength == MINUTE_TICKS + 1

\* The lease, in the minutes of the countdown.
Granted == LeaseMinutes(leaseSecs)

\* Alone on a network that delivers within a tick.
Alone == PROMPT /\ \E b \in Boards : Boards = {b}

\* Without restarts a board has no earlier life, and alone there is no other board,
\* whose late acknowledgement it could take for its own.
NoStaleAnswers == MaxRestarts = 0 \/ Alone

\* The renewal is due when all but two minutes have been counted down; it is one
\* tick late at most.  The lease has to be longer than that.
LeasesLongEnough ==
    /\ MINUTE_TICKS >= 1
    /\ \A l \in Leases \ {Infinite} :
          (MinuteLength * (LeaseMinutes(l) - 2) + 1) * TICK_SECONDS <= l

\* All servers grant the same lease, and an acknowledgement that is still on its
\* way is not a tick old, unless its board counts as disturbed.
Fresh(m) ==
    /\ IsReply(m) => m.secs = leaseSecs
    /\ IsAck(m) => \A b \in m.to : Alone \/ (m.kind = 2 /\ ~disturbed[b]) => age[b] = 0
NetFresh == \A m \in net : Fresh(m)

\* Before a board serves.
Starting(b) ==
    /\ lease[b] \in {0, Granted} /\ step[b] = "poll"
    /\ ~disturbed[b] /\ (phase[b] = "arp" \/ MaxRestarts = 0) => age[b] = 0
    /\ ~disturbed[b] /\ phase[b] = "arp" => link[b]

\* The ticks of the current minute that count.
OfMinute(b) == IF sixSec[b] <= MinuteLength THEN sixSec[b] ELSE MinuteLength

\* How old the last acknowledgement may be: as old as the minutes counted down, the
\* ticks of the current one, and one more.  Two minutes before its end main sends a
\* renewal as soon as it polls, and it polls before the next tick.
Countdown(b) ==
    /\ lease[b] >= 3 =>
          asked[b] \/ age[b] <= MinuteLength * (Granted - lease[b]) + OfMinute(b) + 1
    /\ lease[b] = 2 =>
          /\ step[b] # "reset" /\ sixSec[b] <= 1
          /\ polled[b] => sixSec[b] = 0 /\ age[b] = 0
          /\ asked[b] \/ age[b] <= MinuteLength * (Granted - 2) + 1
    /\ lease[b] < 2 => age[b] <= IF polled[b] THEN 0 ELSE 1

\* A minute that is over has been seen when main has polled since, and it is counted
\* before the next tick; only the wait for the gateway can have been longer.
Serving(b) ==
    /\ link[b]
    /\ polled[b] /\ (sixSec[b] >= MinuteLength \/ step[b] = "reset") => age[b] = 0
    /\ step[b] = "rest" => sixSec[b] <= 1 /\ (polled[b] => sixSec[b] = 0)
    /\ Countdown(b)

BoardInTime(b) ==
    /\ leaseSecs # Infinite => lease[b] <= Granted
    /\ phase[b] # "serve" => Starting(b)
    /\ phase[b] = "serve" /\ ~disturbed[b] /\ leaseSecs # Infinite => Serving(b)

TimeInv == NetFresh /\ \A b \in Boards : BoardInTime(b)

\* What BoardInTime is about.
View(b) ==
    <<phase[b], step[b], sixSec[b], lease[b], link[b], age[b], asked[b], polled[b], disturbed[b]>>

\* Products that the countdown needs.
LEMMA Products ==
    ASSUME NEW n \in Nat, NEW x \in Int
    PROVE  n * x \in Int /\ n * (x + 1) = n * x + n /\ (x >= 0 => n * x >= 0)
OBVIOUS

\* The lease in minutes, and the types of what a board's countdown is about.
CountdownTypes ==
    /\ Granted \in Int /\ Granted >= 5 /\ (leaseSecs # Infinite => Granted < FOREVER)
    /\ MinuteLength \in Nat /\ FOREVER \in Nat
    /\ \A b \in Boards :
        /\ lease[b] \in Int /\ lease[b] >= 0
        /\ sixSec[b] \in 0..(CNT_WRAP - 1) /\ sixSec[b] \in Nat /\ age[b] \in Nat
        /\ OfMinute(b) \in Nat /\ OfMinute(b) <= MinuteLength

LEMMA CountdownTyped == TypeInv => CountdownTypes
<1> SUFFICES ASSUME TypeInv PROVE CountdownTypes
  OBVIOUS
<1>1. Granted \in 5..FOREVER /\ FOREVER \in Nat /\ (leaseSecs # Infinite => Granted < FOREVER)
  <2>1. leaseSecs \in Leases /\ FOREVER \in Nat
    BY Forever DEF TypeInv
  <2> QED BY <2>1, LeaseRange DEF Granted
<1>2. Granted \in Int /\ Granted >= 5
  <2> HIDE DEF Granted, FOREVER
  <2> QED BY <1>1
<1>3. MinuteLength \in Nat
  BY Widths DEF MinuteLength
<1>4. ASSUME NEW b \in Boards
      PROVE  /\ lease[b] \in Int /\ lease[b] >= 0
             /\ sixSec[b] \in 0..(CNT_WRAP - 1) /\ sixSec[b] \in Nat /\ age[b] \in Nat
             /\ OfMinute(b) \in Nat /\ OfMinute(b) <= MinuteLength
  <2>1. lease[b] \in 0..FOREVER /\ sixSec[b] \in 0..(CNT_WRAP - 1) /\ age[b] \in Nat
    BY DEF TypeInv, TypeOK
  <2>2. lease[b] \in Int /\ lease[b] >= 0
    BY <1>1, <2>1
  <2>3. sixSec[b] \in Nat
    BY <2>1, Widths
  <2>4. OfMinute(b) \in Nat /\ OfMinute(b) <= MinuteLength
    BY <1>3, <2>3 DEF OfMinute
  <2> QED BY <2>1, <2>2, <2>3, <2>4
<1> QED BY <1>1, <1>2, <1>3, <1>4 DEF CountdownTypes

\* The same of the next state.
LEMMA CountdownTypedNext == TypeInv' => CountdownTypes'
BY CountdownTyped, PTL

\* Nothing about a lease is late when its acknowledgement is not a tick old.
FreshIsInTime ==
    \A b \in Boards : age[b] = 0 /\ lease[b] <= Granted /\ lease[b] # 2 => Countdown(b)

LEMMA NotLate == CountdownTypes => FreshIsInTime
<1> SUFFICES ASSUME CountdownTypes, NEW b \in Boards, age[b] = 0, lease[b] <= Granted, lease[b] # 2
             PROVE  Countdown(b)
  BY DEF FreshIsInTime
<1> DEFINE x == Granted - lease[b]
<1>1. /\ MinuteLength \in Nat /\ x \in Int /\ x >= 0 /\ OfMinute(b) \in Nat
  BY DEF CountdownTypes
<1> HIDE DEF x
<1>2. MinuteLength * x \in Int /\ MinuteLength * x >= 0
  BY <1>1, Products
<1>3. age[b] <= MinuteLength * x + OfMinute(b) + 1
  BY <1>1, <1>2
<1>4. age[b] <= IF polled[b] THEN 0 ELSE 1
  OBVIOUS
<1> QED BY <1>3, <1>4 DEF Countdown, x

LEMMA NotLateNext == CountdownTypes' => FreshIsInTime'
BY NotLate, PTL

\* A step of one board, or about one, leaves the others as they are.
LEMMA OneBoard ==
    ASSUME TimeInv, NEW b \in Boards, leaseSecs' = leaseSecs,
           \A c \in Boards \ {b} : View(c)' = View(c),
           BoardInTime(b)', NetFresh'
    PROVE  TimeInv'
<1>1. ASSUME NEW c \in Boards \ {b} PROVE BoardInTime(c)'
  <2>1. View(c)' = View(c) /\ BoardInTime(c)
    BY DEF TimeInv
  <2> QED BY <2>1 DEF View, BoardInTime, Starting, Serving, Countdown, OfMinute, Granted
<1> QED BY <1>1 DEF TimeInv

\* What is in flight stays as fresh as it was, and what boards send is no answer.
LEMMA FreshKept ==
    ASSUME NetFresh, UNCHANGED <<leaseSecs, age, disturbed>>,
           \A x \in net' : \/ x \in net \/ ~IsReply(x)
                           \/ \E m \in net : /\ x.type = m.type /\ x.kind = m.kind
                                             /\ x.to \subseteq m.to /\ x.secs = m.secs
    PROVE  NetFresh'
<1> SUFFICES ASSUME NEW x \in net' PROVE Fresh(x)'
  BY DEF NetFresh
<1>1. CASE x \in net
  BY <1>1 DEF NetFresh, Fresh
<1>2. CASE ~IsReply(x)
  BY <1>2 DEF Fresh, IsReply, IsAck
<1>3. ASSUME NEW m \in net, x.type = m.type, x.kind = m.kind, x.to \subseteq m.to, x.secs = m.secs
      PROVE  Fresh(x)'
  BY <1>3 DEF NetFresh, Fresh, IsReply, IsAck
<1> QED BY <1>1, <1>2, <1>3

\* So a board that takes a message and sends requests keeps the network fresh.
LEMMA TakenFresh ==
    ASSUME TypeInv, NetFresh, NEW m \in net, NEW b, Accepts(b, m), NEW sent,
           \A x \in sent : ~IsReply(x),
           TakeFromNet(m, b, sent), UNCHANGED <<leaseSecs, age, disturbed>>
    PROVE  NetFresh'
<1>1. IsReply(m) /\ net \subseteq MessageType
  BY DEF Accepts, TypeInv
<1>2. \A x \in net' : \/ x \in net \/ x \in sent
                      \/ x.type = m.type /\ x.kind = m.kind /\ x.to \subseteq m.to /\ x.secs = m.secs
  BY <1>1, InFlight
<1> QED BY <1>2, FreshKept

-----------------------------------------------------------------------------
(* Renewals in time: the board *)

\* The assignment loop without a packet: lease and age stay as they are.
LEMMA InitialIdleTime ==
    ASSUME TypeInv, TimeInv, NEW b \in Boards, InitialIdle(b)
    PROVE  TimeInv'
<1>1. /\ UNCHANGED <<phase, step, lease, link, leaseSecs, age, asked, disturbed>>
      /\ phase[b] = "dhcp" /\ polled' = Set(polled, b, TRUE)
      /\ sixSec' \in {sixSec, Set(sixSec, b, 0)} /\ net' \in {net, net \cup {Discover(b)}}
  BY DEF InitialIdle, FirstDiscover, RetryDiscover, CountInit, NothingDue, SendDiscover,
         mainVars, ageVars
<1>2. NetFresh'
  <2>1. ~IsReply(Discover(b))
    BY DEF Discover, IsReply
  <2> QED BY <1>1, <2>1, FreshKept DEF TimeInv
<1>3. BoardInTime(b)'
  BY <1>1 DEF TimeInv, BoardInTime, Starting, Granted
<1>4. ASSUME NEW c \in Boards \ {b} PROVE View(c)' = View(c)
  <2>1. polled'[c] = polled[c] /\ sixSec'[c] = sixSec[c]
    BY <1>1 DEF Set, TypeInv, TypeOK
  <2> QED BY <1>1, <2>1 DEF View
<1> QED BY <1>1, <1>2, <1>3, <1>4, OneBoard

\* An OFFER tells the lease; an ACK that is taken is not a tick old.
LEMMA InitialPacketTime ==
    ASSUME NoStaleAnswers, TypeInv, TypeInv', TimeInv, NEW b \in Boards, NEW m \in net, InitialPacket(b, m)
    PROVE  TimeInv'
<1>1. /\ UNCHANGED <<sixSec, link, leaseSecs, age, asked, disturbed, polled>>
      /\ phase[b] = "dhcp" /\ Accepts(b, m)
      /\ \/ link[b] /\ (TakeOffer(b, m) \/ TakeAck(b, m))
         \/ IgnoreReply(b, m)
  BY DEF InitialPacket, ageVars
<1>2. Fresh(m) /\ IsReply(m) /\ b \in m.to /\ BoardInTime(b) /\ NetFresh
  BY <1>1 DEF TimeInv, NetFresh, Accepts
<1>3. Starting(b)
  BY <1>1, <1>2 DEF BoardInTime
<1>4. CASE TakeOffer(b, m)
  <2>1. /\ UNCHANGED <<phase, step>> /\ lease' = Set(lease, b, LeaseMinutes(m.secs))
        /\ TakeFromNet(m, b, {Request(b, m.server, m.ip)})
    BY <1>4 DEF TakeOffer, mainVars
  <2>2. NetFresh'
    <3>1. ~IsReply(Request(b, m.server, m.ip))
      BY DEF Request, IsReply
    <3> QED BY <1>1, <1>2, <2>1, <3>1, TakenFresh
  <2>3. lease'[b] = Granted /\ Granted' = Granted
    BY <1>1, <1>2, <2>1 DEF Fresh, Granted, Set, TypeInv, TypeOK
  <2>4. Starting(b)' /\ phase'[b] = "dhcp"
    BY <1>1, <1>3, <2>1, <2>3 DEF Starting
  <2>5. BoardInTime(b)'
    <3>1. Granted <= Granted
      BY CountdownTyped DEF CountdownTypes
    <3> QED BY <2>3, <2>4, <3>1 DEF BoardInTime
  <2>6. \A c \in Boards \ {b} : View(c)' = View(c)
    BY <1>1, <2>1 DEF View, Set
  <2> QED BY <1>1, <2>2, <2>5, <2>6, OneBoard
<1>5. CASE link[b] /\ TakeAck(b, m)
  <2>1. /\ UNCHANGED <<lease, step>> /\ phase' = Set(phase, b, "arp")
        /\ TakeFromNet(m, b, {}) /\ IsAck(m)
    BY <1>5 DEF TakeAck
  <2>2. NetFresh'
    BY <1>1, <1>2, <2>1, TakenFresh
  <2>3. ~disturbed[b] => age[b] = 0
    BY <1>2, <1>3, <2>1 DEF NoStaleAnswers, Fresh, Starting
  <2>4. phase'[b] = "arp" /\ Granted' = Granted
    BY <1>1, <2>1 DEF Set, TypeInv, TypeOK, Granted
  <2>5. BoardInTime(b)'
    BY <1>1, <1>2, <1>3, <1>5, <2>1, <2>3, <2>4 DEF BoardInTime, Starting
  <2>6. \A c \in Boards \ {b} : View(c)' = View(c)
    BY <1>1, <2>1 DEF View, Set
  <2> QED BY <1>1, <2>2, <2>5, <2>6, OneBoard
<1>6. CASE IgnoreReply(b, m)
  <2>1. UNCHANGED <<phase, step, lease>> /\ TakeFromNet(m, b, {})
    BY <1>6 DEF IgnoreReply, mainVars
  <2>2. NetFresh'
    BY <1>1, <1>2, <2>1, TakenFresh
  <2>3. BoardInTime(b)'
    BY <1>1, <1>2, <1>3, <2>1 DEF BoardInTime, Starting, Granted
  <2>4. \A c \in Boards \ {b} : View(c)' = View(c)
    BY <1>1, <2>1 DEF View
  <2> QED BY <1>1, <2>2, <2>3, <2>4, OneBoard
<1> QED BY <1>1, <1>4, <1>5, <1>6

\* The gateway's answer starts the serving loop, with a fresh lease or none.
LEMMA GatewayTime ==
    ASSUME TypeInv, TypeInv', TimeInv, NEW b \in Boards, GatewayAnswers(b)
    PROVE  TimeInv'
<1>1. /\ UNCHANGED <<step, sixSec, lease, link, net, leaseSecs, age, asked, disturbed>>
      /\ phase[b] = "arp" /\ phase' = Set(phase, b, "serve") /\ polled' = Set(polled, b, TRUE)
  BY DEF GatewayAnswers, ageVars
<1>2. Starting(b) /\ BoardInTime(b) /\ Granted' = Granted
  BY <1>1 DEF TimeInv, BoardInTime, Granted
<1>3. NetFresh'
  BY <1>1, FreshKept DEF TimeInv
<1>4. BoardInTime(b)'
  <2> SUFFICES ASSUME ~disturbed[b], leaseSecs # Infinite PROVE Serving(b)'
    BY <1>1, <1>2 DEF BoardInTime, Set, TypeInv, TypeOK
  <2>1. age[b] = 0 /\ link[b] /\ step[b] = "poll" /\ lease[b] \in {0, Granted}
    BY <1>1, <1>2 DEF Starting
  <2>2. lease[b] <= Granted /\ lease[b] # 2
    BY <2>1, CountdownTyped DEF CountdownTypes
  <2>3. Countdown(b)'
    <3>1. age'[b] = 0 /\ lease'[b] <= Granted' /\ lease'[b] # 2
      BY <1>1, <1>2, <2>1, <2>2
    <3> QED BY <3>1, CountdownTypedNext, NotLateNext DEF FreshIsInTime
  <2> QED BY <1>1, <2>1, <2>3 DEF Serving
<1>5. \A c \in Boards \ {b} : View(c)' = View(c)
  BY <1>1 DEF View, Set
<1> QED BY <1>1, <1>3, <1>4, <1>5, OneBoard

\* The minute test does not find a lease that is due: its renewal would have been sent.
LEMMA MinuteTestTime ==
    ASSUME MINUTE_TICKS >= 1, TypeInv, TimeInv, NEW b \in Boards, MinuteTest(b)
    PROVE  TimeInv'
<1>1. /\ UNCHANGED <<phase, sixSec, lease, link, net, leaseSecs, age, asked, polled, disturbed>>
      /\ phase[b] = "serve" /\ sixSec[b] > MINUTE_TICKS /\ step' = Set(step, b, "reset")
  BY DEF MinuteTest, ageVars
<1>2. NetFresh' /\ BoardInTime(b) /\ Granted' = Granted /\ OfMinute(b)' = OfMinute(b)
  BY <1>1, FreshKept DEF TimeInv, Granted, OfMinute
<1>3. sixSec[b] >= MinuteLength /\ ~(sixSec[b] <= 1)
  BY <1>1, CountdownTyped, Widths DEF CountdownTypes, MinuteLength
<1>4. BoardInTime(b)'
  <2> SUFFICES ASSUME ~disturbed[b], leaseSecs # Infinite PROVE Serving(b)'
    BY <1>1, <1>2 DEF BoardInTime
  <2>1. Serving(b)
    BY <1>1, <1>2 DEF BoardInTime
  <2>2. lease[b] # 2 /\ (polled[b] => age[b] = 0)
    BY <1>3, <2>1 DEF Serving, Countdown
  <2>3. step'[b] = "reset"
    BY <1>1 DEF Set, TypeInv, TypeOK
  <2>4. Countdown(b)'
    BY <1>1, <1>2, <2>1, <2>2 DEF Serving, Countdown
  <2> QED BY <1>1, <2>1, <2>2, <2>3, <2>4 DEF Serving
<1>5. \A c \in Boards \ {b} : View(c)' = View(c)
  BY <1>1 DEF View, Set
<1> QED BY <1>1, <1>2, <1>4, <1>5, OneBoard

\* A minute that is over is counted down, and the next one begins at zero.
LEMMA MinuteResetTime ==
    ASSUME MINUTE_TICKS >= 1, TypeInv, TypeInv', TimeInv, NEW b \in Boards, MinuteReset(b)
    PROVE  TimeInv'
<1>1. /\ UNCHANGED <<phase, link, net, leaseSecs, age, asked, polled, disturbed>>
      /\ phase[b] = "serve" /\ step[b] = "reset" /\ step' = Set(step, b, "rest")
      /\ sixSec' = Set(sixSec, b, 0)
      /\ lease' = IF lease[b] < FOREVER /\ lease[b] > 1 THEN Set(lease, b, lease[b] - 1) ELSE lease
  BY DEF MinuteReset, ageVars
<1>2. NetFresh' /\ BoardInTime(b) /\ Granted' = Granted
  BY <1>1, FreshKept DEF TimeInv, Granted
<1>3. /\ Granted \in Int /\ (leaseSecs # Infinite => Granted < FOREVER) /\ FOREVER \in Nat
      /\ MinuteLength \in Nat
      /\ lease[b] \in Int /\ age[b] \in Nat /\ OfMinute(b) \in Nat /\ OfMinute(b) <= MinuteLength
  BY CountdownTyped DEF CountdownTypes
<1>4. sixSec'[b] = 0 /\ step'[b] = "rest" /\ OfMinute(b)' = 0
  BY <1>1, <1>3 DEF Set, TypeInv, TypeOK, OfMinute
<1>5. BoardInTime(b)'
  <2> SUFFICES ASSUME leaseSecs # Infinite
               PROVE  lease'[b] <= Granted /\ (~disturbed[b] => Serving(b)')
    BY <1>1, <1>2 DEF BoardInTime
  <2>1. lease[b] < FOREVER /\ lease[b] <= Granted
    BY <1>2, <1>3 DEF BoardInTime
  <2>2. lease'[b] = IF lease[b] > 1 THEN lease[b] - 1 ELSE lease[b]
    BY <1>1, <2>1 DEF Set, TypeInv, TypeOK
  <2>3. lease'[b] <= Granted
    BY <1>3, <2>1, <2>2
  <2> SUFFICES ASSUME ~disturbed[b] PROVE Serving(b)'
    BY <2>3
  <2>4. Serving(b) /\ lease[b] # 2 /\ (polled[b] => age[b] = 0)
    BY <1>1, <1>2 DEF BoardInTime, Serving, Countdown
  <2>5. CASE lease[b] >= 3
    <3> DEFINE x == Granted - lease[b]
    <3>1. Granted - (lease[b] - 1) = x + 1 /\ x \in Int
      BY <1>3
    <3>2. asked[b] \/ age[b] <= MinuteLength * x + OfMinute(b) + 1
      BY <2>4, <2>5 DEF Serving, Countdown
    <3> HIDE DEF x
    <3>3. MinuteLength * (x + 1) = MinuteLength * x + MinuteLength /\ MinuteLength * x \in Int
      BY <1>3, <3>1, Products
    <3>4. asked[b] \/ age[b] <= MinuteLength * (x + 1) + 0 + 1
      BY <1>3, <3>2, <3>3
    <3>5. lease'[b] = lease[b] - 1 /\ lease'[b] >= 2
      BY <1>3, <2>2, <2>5
    <3>6. Granted' - lease'[b] = x + 1 /\ (lease'[b] = 2 => Granted' - 2 = x + 1)
      BY <1>2, <3>1, <3>5
    <3>7. lease'[b] >= 3 => asked'[b] \/ age'[b] <= MinuteLength * (Granted' - lease'[b]) + OfMinute(b)' + 1
      BY <1>1, <1>4, <3>4, <3>6
    <3>8. lease'[b] = 2 =>
            /\ step'[b] # "reset" /\ sixSec'[b] <= 1
            /\ polled'[b] => sixSec'[b] = 0 /\ age'[b] = 0
            /\ asked'[b] \/ age'[b] <= MinuteLength * (Granted' - 2) + 1
      <4>1. MinuteLength * (x + 1) + 0 + 1 = MinuteLength * (x + 1) + 1
        BY <1>3, <3>3
      <4> QED BY <1>1, <1>4, <2>4, <3>4, <3>6, <4>1
    <3>9. ~(lease'[b] < 2)
      BY <1>3, <2>5, <3>5
    <3>10. Countdown(b)'
      BY <3>7, <3>8, <3>9 DEF Countdown
    <3> QED BY <1>1, <1>4, <2>4, <3>10 DEF Serving
  <2>6. CASE lease[b] < 2
    <3>1. lease'[b] = lease[b] /\ ~(lease[b] >= 3)
      BY <1>3, <2>2, <2>6
    <3>2. Countdown(b)'
      BY <1>1, <2>4, <2>6, <3>1 DEF Serving, Countdown
    <3> QED BY <1>1, <1>4, <2>4, <3>2 DEF Serving
  <2> QED BY <1>3, <2>4, <2>5, <2>6
<1>6. ASSUME NEW c \in Boards \ {b} PROVE View(c)' = View(c)
  <2>1. step'[c] = step[c] /\ sixSec'[c] = sixSec[c] /\ lease'[c] = lease[c]
    BY <1>1 DEF Set, TypeInv, TypeOK
  <2> QED BY <1>1, <2>1 DEF View
<1> QED BY <1>1, <1>2, <1>5, <1>6, OneBoard

\* The rest of the handler without a packet sends the renewal that is due.
LEMMA ServeIdleTime ==
    ASSUME MINUTE_TICKS >= 1, TypeInv, TypeInv', TimeInv, NEW b \in Boards, ServeIdle(b)
    PROVE  TimeInv'
<1>1. /\ UNCHANGED <<phase, sixSec, link, leaseSecs, age, disturbed>>
      /\ AtRest(b) /\ step' = Set(step, b, "poll") /\ polled' = Set(polled, b, TRUE)
      /\ IF RenewDue(b)
         THEN net' = net \cup {Renew(b)} /\ lease' = Set(lease, b, 5) /\ asked' = Set(asked, b, TRUE)
         ELSE UNCHANGED <<net, lease, asked>>
  BY DEF ServeIdle
<1>2. NetFresh'
  <2>1. ~IsReply(Renew(b))
    BY DEF Renew, IsReply
  <2>2. \A x \in net' : x \in net \/ ~IsReply(x)
    BY <1>1, <2>1
  <2> QED BY <1>1, <2>2, FreshKept DEF TimeInv
<1>3. phase[b] = "serve" /\ BoardInTime(b) /\ Granted' = Granted /\ OfMinute(b)' = OfMinute(b)
  BY <1>1 DEF TimeInv, AtRest, Granted, OfMinute
<1>4. /\ Granted \in Int /\ Granted >= 5 /\ MinuteLength \in Nat /\ MinuteLength >= 2
      /\ lease[b] \in Int /\ sixSec[b] \in Nat
  BY CountdownTyped, Widths DEF CountdownTypes, MinuteLength
<1>5. step'[b] = "poll" /\ polled'[b] = TRUE
  BY <1>1 DEF Set, TypeInv, TypeOK
<1>6. BoardInTime(b)'
  <2>1. RenewDue(b) => lease'[b] = 5 /\ asked'[b] = TRUE
    BY <1>1 DEF Set, TypeInv, TypeOK
  <2>2. leaseSecs # Infinite => lease'[b] <= Granted
    BY <1>1, <1>3, <1>4, <2>1 DEF BoardInTime
  <2> SUFFICES ASSUME ~disturbed[b], leaseSecs # Infinite PROVE Serving(b)'
    BY <1>1, <1>3, <2>2 DEF BoardInTime
  <2>3. Serving(b)
    BY <1>3 DEF BoardInTime
  <2>4. ~(sixSec[b] >= MinuteLength)
    BY <1>1, <1>4, <2>3, Widths DEF AtRest, Serving, MinuteLength
  <2>5. Countdown(b)'
    <3>1. CASE RenewDue(b)
      <4>1. lease'[b] >= 3 /\ lease'[b] # 2 /\ ~(lease'[b] < 2)
        BY <2>1, <3>1
      <4> QED BY <2>1, <3>1, <4>1 DEF Countdown
    <3>2. CASE ~RenewDue(b)
      <4>1. lease[b] >= 3 /\ lease[b] # 2 /\ ~(lease[b] < 2)
        BY <1>4, <2>3, <3>2 DEF RenewDue, Serving
      <4>2. UNCHANGED <<lease, asked, age>> /\ Countdown(b)
        BY <1>1, <2>3, <3>2 DEF Serving
      <4> QED BY <1>3, <4>1, <4>2 DEF Countdown
    <3> QED BY <3>1, <3>2
  <2> QED BY <1>1, <1>5, <2>3, <2>4, <2>5 DEF Serving
<1>7. ASSUME NEW c \in Boards \ {b} PROVE View(c)' = View(c)
  <2>1. step'[c] = step[c] /\ polled'[c] = polled[c] /\ lease'[c] = lease[c] /\ asked'[c] = asked[c]
    BY <1>1 DEF Set, TypeInv, TypeOK
  <2> QED BY <1>1, <2>1 DEF View
<1> QED BY <1>1, <1>2, <1>6, <1>7, OneBoard

\* A packet: an acknowledgement sets the lease to what it was granted for.
LEMMA LaterPacketTime ==
    ASSUME MINUTE_TICKS >= 1, TypeInv, TypeInv', TimeInv, NEW b \in Boards, NEW m \in net,
           ArpPacket(b, m) \/ ServePacket(b, m)
    PROVE  TimeInv'
<1>1. /\ UNCHANGED <<phase, sixSec, link, leaseSecs, age, asked, polled, disturbed>>
      /\ Accepts(b, m) /\ TakeFromNet(m, b, {})
      /\ \/ phase[b] = "arp" /\ UNCHANGED <<step, lease>>
         \/ /\ phase[b] = "serve" /\ step' = Set(step, b, "poll")
            /\ \/ UNCHANGED lease
               \/ IsAck(m) /\ m.kind = 2 /\ lease' = Set(lease, b, LeaseMinutes(m.secs))
  BY DEF ArpPacket, ServePacket, IgnoreReply, AtRest, mainVars, ageVars
<1>2. NetFresh' /\ Fresh(m) /\ IsReply(m) /\ b \in m.to
  BY <1>1, TakenFresh DEF TimeInv, NetFresh, Accepts
<1>3. BoardInTime(b) /\ Granted' = Granted /\ OfMinute(b)' = OfMinute(b)
  BY <1>1 DEF TimeInv, Granted, OfMinute
<1>4. Granted \in Int /\ Granted >= 5
  BY CountdownTyped DEF CountdownTypes
<1>5. CASE phase[b] = "arp"
  <2>1. View(b)' = View(b)
    BY <1>1, <1>5 DEF View
  <2>2. BoardInTime(b)'
    BY <1>1, <1>3, <2>1 DEF View, BoardInTime, Starting, Serving, Countdown, OfMinute, Granted
  <2>3. \A c \in Boards \ {b} : View(c)' = View(c)
    BY <1>1, <1>5 DEF View
  <2> QED BY <1>1, <1>2, <2>2, <2>3, OneBoard
<1>6. CASE phase[b] = "serve"
  <2>1. step' = Set(step, b, "poll") /\ step'[b] = "poll"
    BY <1>1, <1>6 DEF Set, TypeInv, TypeOK
  <2>2. CASE UNCHANGED lease
    <3>1. Serving(b) => Serving(b)'
      <4>1. Countdown(b) => Countdown(b)'
        BY <1>1, <1>3, <2>1, <2>2 DEF Countdown
      <4> QED BY <1>1, <2>1, <2>2, <4>1 DEF Serving
    <3>2. BoardInTime(b)'
      BY <1>1, <1>3, <1>6, <2>2, <3>1 DEF BoardInTime
    <3>3. ASSUME NEW c \in Boards \ {b} PROVE View(c)' = View(c)
      <4>1. step'[c] = step[c]
        BY <2>1 DEF Set, TypeInv, TypeOK
      <4> QED BY <1>1, <2>2, <4>1 DEF View
    <3> QED BY <1>1, <1>2, <3>2, <3>3, OneBoard
  <2>3. CASE IsAck(m) /\ m.kind = 2 /\ lease' = Set(lease, b, LeaseMinutes(m.secs))
    <3>1. lease'[b] = Granted
      BY <1>2, <2>3 DEF Set, TypeInv, TypeOK, Fresh, Granted
    <3>2. ~disturbed[b] => age[b] = 0
      BY <1>2, <2>3 DEF Fresh
    <3>3. lease'[b] <= Granted' /\ lease'[b] # 2
      BY <1>3, <1>4, <3>1
    <3>4. ~disturbed[b] => Countdown(b)'
      <4>1. ~disturbed[b] => age'[b] = 0
        BY <1>1, <3>2
      <4> QED BY <3>3, <4>1, CountdownTypedNext, NotLateNext DEF FreshIsInTime
    <3>5. BoardInTime(b) /\ ~disturbed[b] /\ leaseSecs # Infinite => Serving(b)'
      BY <1>1, <1>6, <2>1, <3>2, <3>4 DEF BoardInTime, Serving
    <3>6. BoardInTime(b)'
      BY <1>1, <1>3, <1>6, <3>3, <3>5 DEF BoardInTime
    <3>7. ASSUME NEW c \in Boards \ {b} PROVE View(c)' = View(c)
      <4>1. step'[c] = step[c] /\ lease'[c] = lease[c]
        BY <2>1, <2>3 DEF Set, TypeInv, TypeOK
      <4> QED BY <1>1, <4>1 DEF View
    <3> QED BY <1>1, <1>2, <3>6, <3>7, OneBoard
  <2> QED BY <1>1, <1>6, <2>2, <2>3
<1> QED BY <1>1, <1>5, <1>6

\* A tick ages the lease by one, and either counts in the current minute, or is the
\* first after the wait for the gateway, or comes when the renewal is on its way.
LEMMA TickTime ==
    ASSUME MINUTE_TICKS >= 1, NoStaleAnswers, TypeInv, TypeInv', TimeInv, NEW b \in Boards, Tick(b)
    PROVE  TimeInv'
<1>1. /\ UNCHANGED <<phase, step, lease, link, net, leaseSecs, asked>>
      /\ (phase[b] # "arp" => polled[b]) /\ (PROMPT => net = {})
      /\ sixSec' = Inc(sixSec, b, CNT_WRAP) /\ polled' = Set(polled, b, FALSE)
      /\ age' = IF granted[b] # {} /\ age[b] < AGE_CAP THEN Set(age, b, age[b] + 1) ELSE age
      /\ disturbed' = IF granted[b] # {} /\ (phase[b] # "serve" \/ AckInFlight(b))
                      THEN Set(disturbed, b, TRUE) ELSE disturbed
  BY DEF Tick, mainVars
<1>2. /\ polled'[b] = FALSE
      /\ age'[b] = age[b] \/ (granted[b] # {} /\ age'[b] = age[b] + 1)
      /\ disturbed'[b] = (disturbed[b] \/ (granted[b] # {} /\ (phase[b] # "serve" \/ AckInFlight(b))))
  BY <1>1 DEF Set, TypeInv
<1>3. /\ Granted \in Int /\ Granted >= 5 /\ MinuteLength \in Nat /\ MinuteLength >= 2
      /\ lease[b] \in Int /\ sixSec[b] \in Nat /\ sixSec[b] \in 0..(CNT_WRAP - 1) /\ age[b] \in Nat
      /\ MinuteLength < CNT_WRAP /\ CNT_WRAP \in Nat
  BY CountdownTyped, Widths DEF CountdownTypes, MinuteLength
<1>4. sixSec'[b] \in Nat /\ sixSec'[b] <= sixSec[b] + 1 /\ (sixSec[b] < MinuteLength => sixSec'[b] = sixSec[b] + 1)
  <2>1. sixSec'[b] = (sixSec[b] + 1) % CNT_WRAP
    BY <1>1 DEF Inc, TypeInv, TypeOK
  <2> DEFINE n == sixSec[b]
  <2>2. n \in 0..(CNT_WRAP - 1) /\ sixSec'[b] = (n + 1) % CNT_WRAP
    BY <1>3, <2>1
  <2> HIDE DEF n
  <2>3. (n + 1) % CNT_WRAP = IF n + 1 < CNT_WRAP THEN n + 1 ELSE 0
    BY <1>3, <2>2
  <2>4. (n + 1) % CNT_WRAP \in Nat /\ (n + 1) % CNT_WRAP <= n + 1 /\ (n < MinuteLength => (n + 1) % CNT_WRAP = n + 1)
    BY <1>3, <2>2, <2>3
  <2> QED BY <2>2, <2>4 DEF n
<1>5. ASSUME NEW c \in Boards \ {b} PROVE View(c)' = View(c)
  <2>1. /\ sixSec'[c] = sixSec[c] /\ polled'[c] = polled[c] /\ age'[c] = age[c]
        /\ disturbed'[c] = disturbed[c]
    BY <1>1 DEF Set, Inc, TypeInv, TypeOK
  <2> QED BY <1>1, <2>1 DEF View
<1>6. NetFresh'
  <2> SUFFICES ASSUME NEW m \in net PROVE Fresh(m)'
    BY <1>1 DEF NetFresh
  <2>1. ~PROMPT /\ ~Alone /\ Fresh(m)
    BY <1>1 DEF Alone, TimeInv, NetFresh
  <2>2. ASSUME IsAck(m), m.kind = 2, NEW c \in m.to, ~disturbed'[c] PROVE age'[c] = 0
    <3>1. CASE c = b
      <4>1. AckInFlight(b)
        BY <2>2, <3>1 DEF AckInFlight, IsAck
      <4> QED BY <1>2, <2>1, <2>2, <3>1, <4>1 DEF Fresh
    <3>2. CASE c # b
      <4>1. c \in Boards
        <5>1. m \in Replies
          BY <2>2, RepliesTyped DEF TypeInv, IsAck, IsReply
        <5> QED BY <2>2, <5>1 DEF Replies
      <4>2. age'[c] = age[c] /\ disturbed'[c] = disturbed[c]
        BY <1>5, <3>2, <4>1 DEF View
      <4> QED BY <2>1, <2>2, <4>2 DEF Fresh
    <3> QED BY <3>1, <3>2
  <2>3. Alone' = Alone
    BY DEF Alone
  <2> QED BY <1>1, <2>1, <2>2, <2>3 DEF Fresh
<1>7. BoardInTime(b)'
  <2>1. BoardInTime(b) /\ Granted' = Granted
    BY <1>1 DEF TimeInv, Granted
  <2>2. CASE phase[b] # "serve"
    <3>1. Starting(b) /\ (~disturbed'[b] => ~disturbed[b] /\ age'[b] = age[b])
      BY <1>2, <2>1, <2>2 DEF BoardInTime
    <3> QED BY <1>1, <2>1, <2>2, <3>1 DEF BoardInTime, Starting
  <2>3. CASE phase[b] = "serve"
    <3> SUFFICES ASSUME ~disturbed'[b], leaseSecs # Infinite PROVE Serving(b)'
      BY <1>1, <2>1, <2>3 DEF BoardInTime
    <3>1. Serving(b) /\ polled[b] /\ lease[b] <= Granted
      BY <1>1, <1>2, <2>1, <2>3 DEF BoardInTime
    <3>2. lease[b] >= 3 =>
            asked[b] \/ age'[b] <= MinuteLength * (Granted - lease[b]) + OfMinute(b)' + 1
      <4> SUFFICES ASSUME lease[b] >= 3, ~asked[b]
                   PROVE  age'[b] <= MinuteLength * (Granted - lease[b]) + OfMinute(b)' + 1
        OBVIOUS
      <4> DEFINE x == Granted - lease[b]
                 y == MinuteLength * x
      <4>1. x \in Int /\ x >= 0
        BY <1>3, <3>1
      <4>2. y \in Int /\ y >= 0
        <5> HIDE DEF x
        <5> QED BY <1>3, <4>1, Products
      <4>3. age[b] <= y + OfMinute(b) + 1 /\ (sixSec[b] >= MinuteLength => age[b] = 0)
        BY <3>1 DEF Serving, Countdown
      <4> HIDE DEF x, y
      <4>4. CASE sixSec[b] < MinuteLength
        <5>1. OfMinute(b) = sixSec[b] /\ OfMinute(b)' = sixSec[b] + 1
          BY <1>3, <1>4, <4>4 DEF OfMinute
        <5> QED BY <1>2, <1>3, <4>2, <4>3, <5>1 DEF x, y
      <4>5. CASE sixSec[b] >= MinuteLength
        <5>1. OfMinute(b)' \in Nat
          BY <1>3, <1>4 DEF OfMinute
        <5>2. age'[b] <= 1
          BY <1>2, <4>3, <4>5
        <5>3. age'[b] \in Int
          BY <1>2, <1>3
        <5>4. 1 <= y + OfMinute(b)' + 1
          BY <4>2, <5>1
        <5>5. age'[b] <= y + OfMinute(b)' + 1
          BY <4>2, <5>1, <5>2, <5>3
        <5> QED BY <5>5 DEF x, y
      <4> QED BY <1>3, <4>4, <4>5
    <3>3. lease[b] = 2 =>
            /\ step[b] # "reset" /\ sixSec'[b] <= 1
            /\ asked[b] \/ age'[b] <= MinuteLength * (Granted - 2) + 1
      <4> SUFFICES ASSUME lease[b] = 2
                   PROVE  /\ step[b] # "reset" /\ sixSec'[b] <= 1
                          /\ age'[b] <= MinuteLength * (Granted - 2) + 1
        OBVIOUS
      <4>1. step[b] # "reset" /\ sixSec[b] = 0 /\ age[b] = 0
        BY <3>1 DEF Serving, Countdown
      <4>2. sixSec'[b] <= 1 /\ age'[b] \in {0, 1}
        BY <1>2, <1>4, <4>1
      <4> DEFINE x == Granted - 2
      <4>3. x \in Int /\ x >= 0
        BY <1>3
      <4> HIDE DEF x
      <4>4. MinuteLength * x \in Int /\ MinuteLength * x >= 0
        BY <1>3, <4>3, Products
      <4>5. age'[b] <= MinuteLength * x + 1
        BY <4>2, <4>4
      <4> QED BY <4>1, <4>2, <4>5 DEF x
    <3>4. lease[b] < 2 => age'[b] <= 1
      <4>1. lease[b] < 2 => age[b] <= 0
        BY <3>1 DEF Serving, Countdown
      <4> QED BY <1>2, <1>3, <4>1
    <3>5. Countdown(b)'
      BY <1>1, <1>2, <2>1, <3>2, <3>3, <3>4 DEF Countdown
    <3>6. step[b] = "rest" => sixSec'[b] <= 1
      <4>1. step[b] = "rest" => sixSec[b] = 0
        BY <3>1 DEF Serving
      <4> QED BY <1>4, <4>1
    <3> QED BY <1>1, <1>2, <3>1, <3>5, <3>6 DEF Serving
  <2> QED BY <2>2, <2>3
<1> QED BY <1>1, <1>5, <1>6, <1>7, OneBoard

-----------------------------------------------------------------------------
(* Renewals in time: servers, network and faults *)

\* A server answers with the one lease; an acknowledgement makes the lease new.
LEMMA ServerTime ==
    ASSUME TypeInv, TypeInv', TimeInv, NEW s \in Servers, Server(s)
    PROVE  TimeInv'
<1>1. PICK m \in net : ServerOffers(s, m) \/ ServerAcks(s, m) \/ ServerNaks(s, m)
  BY DEF Server
<1>2. /\ UNCHANGED <<phase, step, sixSec, lease, link, leaseSecs, disturbed, polled>>
      /\ m \in MessageType /\ Granted' = Granted
  BY <1>1 DEF ServerOffers, ServerAcks, ServerNaks, mainVars, ageVars, TypeInv, Granted
<1>3. CASE ServerOffers(s, m)
  <2> DEFINE r == Reply("offer", m, s, <<s, m.from>>, Boards)
             rest == [m EXCEPT !.to = @ \ {s}]
  <2>1. UNCHANGED <<age, asked>> /\ net' \subseteq net \cup {rest, r}
    BY <1>3 DEF ServerOffers, Taken, ageVars
  <2>2. rest.type = "discover"
    <3>1. m \in DiscoverType /\ m.type = "discover"
      BY <1>2, <1>3 DEF ServerOffers, MessageType, DiscoverType, RequestType, Replies
    <3> QED BY <3>1, LeftOver
  <2>3. ~IsReply(rest)
    <3> HIDE DEF rest
    <3> QED BY <2>2 DEF IsReply
  <2>4. r.type = "offer" /\ r.secs = leaseSecs
    BY DEF Reply
  <2> HIDE DEF r, rest
  <2>5. NetFresh'
    <3> SUFFICES ASSUME NEW x \in net' PROVE Fresh(x)'
      BY DEF NetFresh
    <3>1. CASE x \in net
      BY <1>2, <2>1, <3>1 DEF TimeInv, NetFresh, Fresh
    <3>2. CASE x = rest
      BY <2>3, <3>2 DEF Fresh, IsReply, IsAck
    <3>3. CASE x = r
      BY <1>2, <2>4, <3>3 DEF Fresh, IsAck
    <3> QED BY <2>1, <3>1, <3>2, <3>3
  <2>6. ASSUME NEW c \in Boards PROVE BoardInTime(c)'
    BY <1>2, <2>1 DEF TimeInv, BoardInTime, Starting, Serving, Countdown, OfMinute
  <2> QED BY <2>5, <2>6 DEF TimeInv
<1>4. CASE ServerNaks(s, m)
  <2> DEFINE r == Reply("nak", m, s, m.ip, IF m.kind = 1 THEN Boards ELSE {m.from})
  <2>1. UNCHANGED <<age, asked>> /\ net' \subseteq net \cup {r}
    BY <1>4 DEF ServerNaks, ageVars
  <2>2. r.type = "nak" /\ r.secs = leaseSecs
    BY DEF Reply
  <2> HIDE DEF r
  <2>3. NetFresh'
    <3> SUFFICES ASSUME NEW x \in net' PROVE Fresh(x)'
      BY DEF NetFresh
    <3>1. CASE x \in net
      BY <1>2, <2>1, <3>1 DEF TimeInv, NetFresh, Fresh
    <3>2. CASE x = r
      BY <1>2, <2>2, <3>2 DEF Fresh, IsAck
    <3> QED BY <2>1, <3>1, <3>2
  <2>4. ASSUME NEW c \in Boards PROVE BoardInTime(c)'
    BY <1>2, <2>1 DEF TimeInv, BoardInTime, Starting, Serving, Countdown, OfMinute
  <2> QED BY <2>3, <2>4 DEF TimeInv
<1>5. CASE ServerAcks(s, m)
  <2> DEFINE b == m.from
             to == IF m.kind = 1 THEN Boards ELSE {m.from}
             r == Reply("ack", m, s, m.ip, to)
  <2>1. m \in RequestType
    BY <1>2, <1>5 DEF ServerAcks, Answers, MessageType, DiscoverType, RequestType, Replies
  <2>2. b \in Boards /\ m.kind \in {1, 2}
    BY <2>1 DEF RequestType
  <2>3. /\ net' \subseteq net \cup {r} /\ age' = Set(age, b, 0) /\ asked' = Set(asked, b, FALSE)
        /\ r.type = "ack" /\ r.secs = leaseSecs /\ r.to = to /\ r.kind = m.kind
    BY <1>5 DEF ServerAcks, Reply
  <2>4. age'[b] = 0 /\ \A c \in Boards \ {b} : age'[c] = age[c]
    BY <2>2, <2>3 DEF Set, TypeInv
  <2>5. \A c \in Boards : age[c] = 0 => age'[c] = 0
    BY <2>4
  <2>6. r.kind = 2 => r.to = {b}
    BY <2>3
  <2>7. r.to \subseteq Boards
    BY <2>2, <2>3
  <2> HIDE DEF b, r, to
  <2>8. NetFresh'
    <3> SUFFICES ASSUME NEW x \in net' PROVE Fresh(x)'
      BY DEF NetFresh
    <3>1. CASE x \in net
      <4>1. IsAck(x) => x.to \subseteq Boards
        <5>1. IsAck(x) => x \in Replies
          BY <3>1, RepliesTyped DEF TypeInv, IsAck, IsReply
        <5> QED BY <5>1 DEF Replies
      <4>2. Fresh(x)
        BY <3>1 DEF TimeInv, NetFresh
      <4> QED BY <1>2, <2>5, <4>1, <4>2 DEF Fresh, Alone
    <3>2. CASE x = r
      <4>1. Alone => Boards = {b}
        BY <2>2 DEF Alone
      <4>2. ASSUME NEW c \in r.to, Alone \/ r.kind = 2 PROVE age'[c] = 0
        BY <2>4, <2>6, <2>7, <4>1, <4>2
      <4> QED BY <1>2, <2>3, <3>2, <4>2 DEF Fresh, Alone
    <3> QED BY <2>3, <3>1, <3>2
  <2>9. BoardInTime(b)'
    <3>1. BoardInTime(b)
      BY <2>2 DEF TimeInv
    <3>2. Starting(b) => Starting(b)'
      BY <1>2, <2>4 DEF Starting
    <3>3. Serving(b) /\ lease[b] <= Granted => Serving(b)'
      <4> SUFFICES ASSUME Serving(b), lease[b] <= Granted PROVE Serving(b)'
        OBVIOUS
      <4>1. Countdown(b)'
        <5>1. CASE lease[b] # 2
          <6>1. age'[b] = 0 /\ lease'[b] <= Granted' /\ lease'[b] # 2
            BY <1>2, <2>4, <5>1
          <6> QED BY <2>2, <6>1, CountdownTypedNext, NotLateNext DEF FreshIsInTime
        <5>2. CASE lease[b] = 2
          <6> DEFINE x == Granted - 2
          <6>1. x \in Int /\ x >= 0 /\ MinuteLength \in Nat
            BY CountdownTyped DEF CountdownTypes
          <6> HIDE DEF x
          <6>2. MinuteLength * x \in Int /\ MinuteLength * x >= 0
            BY <6>1, Products
          <6>3. 0 <= MinuteLength * x + 1
            BY <6>2
          <6>4. age'[b] <= MinuteLength * (Granted' - 2) + 1
            BY <1>2, <2>4, <6>3 DEF x
          <6>5. step[b] # "reset" /\ sixSec[b] <= 1 /\ (polled[b] => sixSec[b] = 0)
            BY <5>2 DEF Serving, Countdown
          <6>6. lease'[b] = 2 /\ ~(lease'[b] >= 3) /\ ~(lease'[b] < 2)
            BY <1>2, <5>2
          <6> QED BY <1>2, <2>4, <6>4, <6>5, <6>6 DEF Countdown
        <5> QED BY <5>1, <5>2
      <4> QED BY <1>2, <2>4, <4>1 DEF Serving
    <3> QED BY <1>2, <3>1, <3>2, <3>3 DEF BoardInTime
  <2>10. ASSUME NEW c \in Boards \ {b} PROVE View(c)' = View(c)
    <3>1. age'[c] = age[c] /\ asked'[c] = asked[c]
      BY <2>3 DEF Set, TypeInv
    <3> QED BY <1>2, <3>1 DEF View
  <2> QED BY <1>2, <2>2, <2>8, <2>9, <2>10, OneBoard
<1> QED BY <1>1, <1>3, <1>4, <1>5

\* A lost message is late for nobody; a board whose link fails counts as disturbed,
\* and one that restarts begins again, alone or not at all.
LEMMA EnvironmentTime ==
    ASSUME NoStaleAnswers, TypeInv, TypeInv', TimeInv, Environment
    PROVE  TimeInv'
<1>1. ASSUME NEW m \in net, Lose(m) PROVE TimeInv'
  <2>1. /\ UNCHANGED <<phase, step, sixSec, lease, link, leaseSecs, age, asked, polled, disturbed>>
        /\ net' \subseteq net
    BY <1>1 DEF Lose, mainVars, ageVars
  <2>2. NetFresh'
    BY <2>1, FreshKept DEF TimeInv
  <2>3. ASSUME NEW c \in Boards PROVE BoardInTime(c)'
    BY <2>1 DEF TimeInv, BoardInTime, Starting, Serving, Countdown, OfMinute, Granted
  <2> QED BY <2>2, <2>3 DEF TimeInv
<1>2. ASSUME NEW b \in Boards, LinkFails(b) PROVE TimeInv'
  <2>1. /\ UNCHANGED <<phase, step, sixSec, lease, net, leaseSecs, age, asked, polled>>
        /\ link' = Set(link, b, FALSE) /\ disturbed' = Set(disturbed, b, TRUE)
    BY <1>2 DEF LinkFails, mainVars
  <2>2. disturbed'[b] = TRUE /\ \A c \in Boards : disturbed[c] => disturbed'[c]
    BY <2>1 DEF Set, TypeInv
  <2>3. NetFresh'
    <3> SUFFICES ASSUME NEW x \in net PROVE Fresh(x)'
      BY <2>1 DEF NetFresh
    <3>1. IsAck(x) => x.to \subseteq Boards
      <4>1. IsAck(x) => x \in Replies
        BY RepliesTyped DEF TypeInv, IsAck, IsReply
      <4> QED BY <4>1 DEF Replies
    <3>2. Fresh(x)
      BY DEF TimeInv, NetFresh
    <3> QED BY <2>1, <2>2, <3>1, <3>2 DEF Fresh, Alone
  <2>4. BoardInTime(b)'
    BY <2>1, <2>2 DEF TimeInv, BoardInTime, Starting, Granted
  <2>5. ASSUME NEW c \in Boards \ {b} PROVE View(c)' = View(c)
    <3>1. link'[c] = link[c] /\ disturbed'[c] = disturbed[c]
      BY <2>1 DEF Set, TypeInv, TypeOK
    <3> QED BY <2>1, <3>1 DEF View
  <2> QED BY <2>1, <2>3, <2>4, <2>5, OneBoard
<1>3. ASSUME NEW b \in Boards, LinkReturns(b) PROVE TimeInv'
  <2>1. /\ UNCHANGED <<phase, step, sixSec, lease, net, leaseSecs, age, asked, polled, disturbed>>
        /\ link' = Set(link, b, TRUE)
    BY <1>3 DEF LinkReturns, mainVars, ageVars
  <2>2. NetFresh'
    BY <2>1, FreshKept DEF TimeInv
  <2>3. link'[b] = TRUE /\ \A c \in Boards \ {b} : link'[c] = link[c]
    BY <2>1 DEF Set, TypeInv, TypeOK
  <2>4. BoardInTime(b)'
    BY <2>1, <2>3 DEF TimeInv, BoardInTime, Starting, Serving, Countdown, OfMinute, Granted
  <2>5. ASSUME NEW c \in Boards \ {b} PROVE View(c)' = View(c)
    BY <2>1, <2>3 DEF View
  <2> QED BY <2>1, <2>2, <2>4, <2>5, OneBoard
<1>4. ASSUME NEW b \in Boards, Restart(b) PROVE TimeInv'
  <2>1. /\ UNCHANGED <<link, net, leaseSecs, age, asked>>
        /\ phase' = Set(phase, b, "dhcp") /\ step' = Set(step, b, "poll")
        /\ sixSec' = Set(sixSec, b, 0) /\ lease' = Set(lease, b, 0)
        /\ disturbed' = Set(disturbed, b, FALSE) /\ polled' = Set(polled, b, TRUE)
    BY <1>4 DEF Restart
  <2>2. Alone /\ MaxRestarts # 0
    <3>1. budget.restarts < MaxRestarts /\ budget.restarts \in Nat
      BY <1>4 DEF Restart, TypeInv, Budgets
    <3> QED BY <3>1 DEF NoStaleAnswers
  <2>3. NetFresh'
    BY <2>1, <2>2 DEF TimeInv, NetFresh, Fresh, Alone
  <2>4. phase'[b] = "dhcp" /\ step'[b] = "poll" /\ lease'[b] = 0
    BY <2>1 DEF Set, TypeInv, TypeOK
  <2>5. 0 <= Granted'
    BY CountdownTypedNext DEF CountdownTypes
  <2>6. BoardInTime(b)'
    BY <2>2, <2>4, <2>5 DEF BoardInTime, Starting
  <2>7. ASSUME NEW c \in Boards \ {b} PROVE View(c)' = View(c)
    <3>1. phase'[c] = phase[c] /\ step'[c] = step[c] /\ sixSec'[c] = sixSec[c] /\ lease'[c] = lease[c]
      BY <2>1 DEF Set, TypeInv, TypeOK
    <3>2. disturbed'[c] = disturbed[c] /\ polled'[c] = polled[c]
      BY <2>1 DEF Set, TypeInv
    <3> QED BY <2>1, <3>1, <3>2 DEF View
  <2> QED BY <2>1, <2>3, <2>6, <2>7, OneBoard
<1> QED BY <1>1, <1>2, <1>3, <1>4 DEF Environment

\* The invariant is about time: it bounds the age of a lease for which no renewal
\* has been sent.
LEMMA InTime ==
    ASSUME LeasesLongEnough, TypeInv, TimeInv
    PROVE  RenewedInTime
<1> SUFFICES ASSUME NEW b \in Boards, phase[b] = "serve", ~disturbed[b], leaseSecs # Infinite, ~asked[b]
             PROVE  ~(age[b] * TICK_SECONDS > leaseSecs)
  BY DEF RenewedInTime, TypeInv
<1> DEFINE x == Granted - 2
           y == MinuteLength * x
<1>1. /\ Granted \in Int /\ Granted >= 5 /\ MinuteLength \in Nat
      /\ lease[b] \in Int /\ age[b] \in Nat /\ OfMinute(b) \in Nat /\ OfMinute(b) <= MinuteLength
      /\ TICK_SECONDS \in Nat
  BY CountdownTyped, Widths DEF CountdownTypes
<1>2. lease[b] <= Granted /\ Countdown(b)
  BY DEF TimeInv, BoardInTime, Serving
<1>3. x \in Int /\ x >= 0
  BY <1>1
<1>4. y \in Int /\ y >= 0
  <2> HIDE DEF x
  <2> QED BY <1>1, <1>3, Products
<1>5. age[b] <= y + 1
  <2>1. CASE lease[b] >= 3
    <3> DEFINE u == Granted - lease[b]
               d == lease[b] - 3
    <3>1. u \in Int /\ d \in Nat /\ x = u + d + 1
      BY <1>1, <2>1
    <3>2. age[b] <= MinuteLength * u + OfMinute(b) + 1
      BY <1>2, <2>1 DEF Countdown
    <3> HIDE DEF u, d, x
    <3>3. MinuteLength * (u + d + 1) = MinuteLength * u + MinuteLength * d + MinuteLength
      BY <1>1, <3>1
    <3>4. /\ MinuteLength * u \in Int /\ MinuteLength * d \in Int /\ MinuteLength * d >= 0
          /\ y = MinuteLength * u + MinuteLength * d + MinuteLength
      BY <1>1, <3>1, <3>3, Products
    <3> HIDE DEF y
    <3> QED BY <1>1, <3>2, <3>4
  <2>2. CASE lease[b] = 2
    BY <1>2, <2>2 DEF Countdown
  <2>3. CASE lease[b] < 2
    <3>1. age[b] <= 1
      BY <1>1, <1>2, <2>3 DEF Countdown
    <3> HIDE DEF y
    <3> QED BY <1>1, <1>4, <3>1
  <2> QED BY <1>1, <2>1, <2>2, <2>3
<1>6. (y + 1) * TICK_SECONDS <= leaseSecs
  BY DEF LeasesLongEnough, TypeInv, Granted
<1>7. leaseSecs \in Nat
  BY DhcpAssumption DEF TypeInv
<1> HIDE DEF y
<1>8. age[b] * TICK_SECONDS <= (y + 1) * TICK_SECONDS
  <2> DEFINE e == y + 1 - age[b]
             t == TICK_SECONDS
             a == age[b]
  <2>1. e \in Nat /\ t \in Nat /\ a \in Nat /\ y + 1 = a + e
    BY <1>1, <1>4, <1>5
  <2> HIDE DEF e, t, a
  <2>2. (a + e) * t = a * t + e * t /\ e * t \in Nat /\ a * t \in Nat
    BY <2>1
  <2>3. a * t <= (y + 1) * t
    BY <2>1, <2>2
  <2> QED BY <2>3 DEF t, a
<1>9. age[b] * TICK_SECONDS \in Int /\ (y + 1) * TICK_SECONDS \in Int
  BY <1>1, <1>4
<1> QED BY <1>6, <1>7, <1>8, <1>9

\* The premise about the leases holds of the firmware's intervals and of every lease
\* of 168 seconds or more.
LEMMA FirmwareIntervals ==
    ASSUME MINUTE_TICKS = 8, TICK_SECONDS = 6, \A l \in Leases \ {Infinite} : l >= 168
    PROVE  LeasesLongEnough
<1> SUFFICES ASSUME NEW l \in Leases \ {Infinite}
             PROVE  (9 * (LeaseMinutes(l) - 2) + 1) * 6 <= l
  BY DEF LeasesLongEnough, MinuteLength
<1> DEFINE m == l \div 64
<1>1. l \in Nat /\ l >= 168
  BY DhcpAssumption
<1>2. m \in Int /\ 64 * m <= l
  BY <1>1
<1>3. LeaseMinutes(l) = IF m > 65533 THEN 65533 ELSE IF m < 5 THEN 5 ELSE m
  BY DEF LeaseMinutes
<1> HIDE DEF m
<1> QED BY <1>1, <1>2, <1>3

\* dhcp_client.c:471, for any number of servers, whatever is lost, refused, repeated
\* or delayed, for every setting of the intervals and counters and every lease that
\* leaves the countdown two minutes: as long as nothing was disturbed, a renewal is
\* sent before the lease is over.
THEOREM RenewalInTime ==
    ASSUME NoStaleAnswers, LeasesLongEnough
    PROVE  Spec => []RenewedInTime
<1>1. Init => TimeInv
  <2> SUFFICES ASSUME Init PROVE TimeInv
    OBVIOUS
  <2>1. TypeInv
    BY InitTyped
  <2>2. \A b \in Boards : lease[b] = 0 /\ step[b] = "poll" /\ age[b] = 0 /\ phase[b] = "dhcp"
    BY DEF Init
  <2>3. net = {} /\ 0 <= Granted
    BY <2>1, CountdownTyped DEF Init, CountdownTypes
  <2> QED BY <2>2, <2>3 DEF TimeInv, NetFresh, BoardInTime, Starting
<1>2. TypeInv /\ TypeInv' /\ TimeInv /\ [Next]_vars => TimeInv'
  <2> SUFFICES ASSUME TypeInv, TypeInv', TimeInv, [Next]_vars PROVE TimeInv'
    OBVIOUS
  <2>1. MINUTE_TICKS >= 1
    BY DEF LeasesLongEnough
  <2>2. ASSUME NEW b \in Boards, Board(b) PROVE TimeInv'
    BY <2>1, <2>2, InitialIdleTime, InitialPacketTime, GatewayTime, MinuteTestTime,
       MinuteResetTime, ServeIdleTime, LaterPacketTime DEF Board
  <2>3. ASSUME NEW b \in Boards, Tick(b) PROVE TimeInv'
    BY <2>1, <2>3, TickTime
  <2>4. ASSUME NEW s \in Servers, Server(s) PROVE TimeInv'
    BY <2>4, ServerTime
  <2>5. CASE Environment
    BY <2>5, EnvironmentTime
  <2>6. CASE UNCHANGED vars
    <3>1. UNCHANGED <<phase, step, sixSec, lease, link, net, leaseSecs, age, asked, polled, disturbed>>
      BY <2>6 DEF vars, mainVars, ageVars
    <3>2. NetFresh'
      BY <3>1, FreshKept DEF TimeInv
    <3>3. ASSUME NEW c \in Boards PROVE BoardInTime(c)'
      BY <3>1 DEF TimeInv, BoardInTime, Starting, Serving, Countdown, OfMinute, Granted
    <3> QED BY <3>2, <3>3 DEF TimeInv
  <2> QED BY <2>2, <2>3, <2>4, <2>5, <2>6 DEF Next
<1>3. TypeInv /\ TimeInv => RenewedInTime
  BY InTime
<1> QED BY <1>1, <1>2, <1>3, TypeCorrect, PTL DEF Spec
=============================================================================
