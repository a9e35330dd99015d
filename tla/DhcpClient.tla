---------------------------- MODULE DhcpClient -----------------------------
(***************************************************************************)
(* The DHCP client of avr/gpsdo/net/dhcp_client.c as main.c drives it: the *)
(* initial assignment loop, the wait for the gateway's ARP answer, and the *)
(* lease countdown and renewal in the serving loop, against the timer      *)
(* interrupt that counts units of six seconds, on a network that delays,   *)
(* reorders, loses and duplicates, with any number of boards and servers.  *)
(*                                                                         *)
(* A message is a record; its layout in the buffer, the option list, the   *)
(* netmask and the gateway address are abstracted.  A server offers board  *)
(* b the address <<s, b>> and nothing else: the pools of two servers are   *)
(* disjoint and no server hands an address to two boards.                  *)
(***************************************************************************)
EXTENDS Integers, FiniteSets

CONSTANTS
    Boards, Servers, None,
    INIT_DELAY,     \* 0x5fff idle polls before the first DISCOVER
    RETRY_TICKS,    \* 5: idle ticks after which DISCOVER is sent again
    MINUTE_TICKS,   \* 8: ticks after which the lease is counted down
    CNT_WRAP,       \* 256: dhcp_6sec_cnt is a byte
    TID_WRAP,       \* 256: dhcp_tid is a byte
    TICK_SECONDS,   \* 6
    Leases,         \* lease times servers grant, in seconds, or Infinite
    Infinite,
    Lossy,          \* what the network may lose: types, or "renewal" for its two messages
    MaxLosses, MaxDups, MaxFlaps, MaxRestarts, MaxNaks, \* bounds on the environment
    PROMPT,         \* TRUE: what is not lost arrives within six seconds
    AGE_CAP         \* bound on the history variable age, in ticks

ASSUME DhcpAssumption ==
    /\ {INIT_DELAY, RETRY_TICKS, MINUTE_TICKS, CNT_WRAP, TID_WRAP, TICK_SECONDS} \subseteq Nat
    /\ INIT_DELAY >= 2 /\ TID_WRAP >= 2
    /\ RETRY_TICKS < CNT_WRAP - 1 /\ MINUTE_TICKS < CNT_WRAP - 1
    /\ Leases \ {Infinite} \subseteq Nat /\ Infinite \notin Nat
    /\ {MaxLosses, MaxDups, MaxFlaps, MaxRestarts, MaxNaks, AGE_CAP} \subseteq Nat /\ PROMPT \in BOOLEAN
    /\ \A l \in Leases \ {Infinite} : l < AGE_CAP * TICK_SECONDS

FOREVER == 65535
Addresses == Servers \X Boards

\* main.c passes the first byte of the MAC address, which is the same constant
\* on every board: initMacAddress only changes the last three bytes.
InitialTid == 1

VARIABLES
    phase,      \* loop of main: "dhcp", "arp" or "serve"
    step,       \* inside the renew handler: "poll", "reset" or "rest"
    init, sixSec, yiaddr, serverId, tid, lease,
    bcast,      \* the controller accepts broadcasts
    myip,       \* address the board answers to, once main left the first loop
    link,
    net,        \* messages in flight
    leaseSecs,  \* lease time the servers grant
    budget,     \* losses, duplications, link failures and restarts so far
    granted,    \* history: the addresses a server acknowledged to each board
    age,        \* history: ticks since the last acknowledgement to each board
    asked,      \* history: a renewal was sent since that acknowledgement
    polled,     \* history: main made an idle pass since the last tick
    disturbed   \* history: the link failed, or an answer or main was late

clientVars == <<init, yiaddr, serverId, tid, bcast>>
mainVars == <<phase, step, myip>>
ageVars == <<granted, age, asked, disturbed>>
vars == <<clientVars, mainVars, sixSec, lease, link, net, leaseSecs, budget,
          ageVars, polled>>

Inc(f, b, wrap) == [f EXCEPT ![b] = (@ + 1) % wrap]
Set(f, b, v) == [f EXCEPT ![b] = v]

-----------------------------------------------------------------------------
(* Messages *)

Discover(b) ==
    [type |-> "discover", kind |-> 1, tid |-> tid'[b], from |-> b, to |-> Servers]
Request(b, s, ip) ==
    [type |-> "request", kind |-> 1, tid |-> tid[b], from |-> b, server |-> s, ip |-> ip]
Renew(b) ==
    [type |-> "request", kind |-> 2, tid |-> tid'[b], from |-> b,
     server |-> None, ip |-> yiaddr[b]]
Reply(type, m, s, ip, to) ==
    [type |-> type, kind |-> m.kind, tid |-> m.tid, server |-> s, ip |-> ip,
     secs |-> leaseSecs, to |-> to]

\* Mutant of IsAck: cmd >= 5 takes a refusal for an acknowledgement.
IsAckOrNak(m) == m.type \in {"ack", "nak"}
IsAck(m) == m.type = "ack"
IsOffer(m) == m.type = "offer"
IsReply(m) == m.type \in {"offer", "ack", "nak"}

\* One receiver r of m has taken it.
Taken(m, r) ==
    LET rest == [m EXCEPT !.to = @ \ {r}]
    IN  (net \ {m}) \cup (IF rest.to = {} THEN {} ELSE {rest})
\* A board takes m and sends; a duplicate of m may still arrive.
TakeFromNet(m, b, sent) ==
    \/ /\ net' = Taken(m, b) \cup sent
       /\ UNCHANGED budget
    \/ /\ budget.dups < MaxDups
       /\ budget' = [budget EXCEPT !.dups = @ + 1]
       /\ net' = net \cup sent

\* The controller's filter: unicast to this board, or any broadcast while they
\* are enabled.  Initial replies are broadcast, renewals are answered directly.
Accepts(b, m) == IsReply(m) /\ b \in m.to /\ (m.kind = 1 => bcast[b])

\* is_dhcp_msg_for_me: the hardware address in the reply is not looked at
ForMe(b, m) == m.tid = tid[b]

\* Mutant of LeaseMinutes: shifted by five, not by six.
LeaseHalfMinutes(secs) ==
    IF secs = Infinite THEN FOREVER
    ELSE LET m == secs \div 32
         IN  IF m > 65533 THEN 65533 ELSE IF m < 5 THEN 5 ELSE m

\* dhcp_option_parser, option 51: 64 seconds count as a minute
LeaseMinutes(secs) ==
    IF secs = Infinite THEN FOREVER
    ELSE LET m == secs \div 64
         IN  IF m > 65533 THEN 65533 ELSE IF m < 5 THEN 5 ELSE m

-----------------------------------------------------------------------------
NoBudget == [losses |-> 0, dups |-> 0, flaps |-> 0, restarts |-> 0, naks |-> 0]

Init ==
    /\ phase = [b \in Boards |-> "dhcp"] /\ step = [b \in Boards |-> "poll"]
    /\ init = [b \in Boards |-> INIT_DELAY]
    /\ sixSec = [b \in Boards |-> 0]
    /\ yiaddr = [b \in Boards |-> None] /\ serverId = [b \in Boards |-> None]
    /\ tid = [b \in Boards |-> 0] /\ lease = [b \in Boards |-> 0]
    /\ bcast = [b \in Boards |-> FALSE] /\ myip = [b \in Boards |-> None]
    /\ link = [b \in Boards |-> TRUE]
    /\ net = {} /\ leaseSecs \in Leases /\ budget = NoBudget
    /\ granted = [b \in Boards |-> {}] /\ age = [b \in Boards |-> 0]
    /\ asked = [b \in Boards |-> FALSE] /\ polled = [b \in Boards |-> TRUE]
    /\ disturbed = [b \in Boards |-> FALSE]

\* No address has been offered for a while.  Its mutant: only before the first one.
RetryDueAtStart(b) == init[b] > 2 /\ yiaddr[b] = None /\ sixSec[b] > RETRY_TICKS
RetryDue(b) == yiaddr[b] = None /\ sixSec[b] > RETRY_TICKS

(***************************************************************************)
(* packetloop_dhcp_initial_ip_assignment without a packet: the first       *)
(* DISCOVER after the start-up delay, another one with the next identifier *)
(* when no address has been offered for a while, or the delay itself.      *)
(***************************************************************************)
SendDiscover(b) ==
    /\ sixSec' = Set(sixSec, b, 0)
    /\ bcast' = Set(bcast, b, TRUE)
    /\ net' = net \cup {Discover(b)}

FirstDiscover(b) ==
    /\ init[b] = 2
    /\ init' = Set(init, b, 1)
    /\ tid' = Set(tid, b, InitialTid)
    /\ SendDiscover(b)

RetryDiscover(b) ==
    /\ init[b] # 2
    /\ RetryDue(b)
    /\ tid' = Inc(tid, b, TID_WRAP)
    /\ SendDiscover(b)
    /\ UNCHANGED init

CountInit(b) ==
    /\ init[b] > 2
    /\ ~RetryDue(b)
    /\ init' = Set(init, b, init[b] - 1)
    /\ UNCHANGED <<tid, sixSec, bcast, net>>

\* The link is down, or there is nothing to send and no delay left to count.
NothingDue(b) ==
    /\ link[b] => init[b] = 1 /\ ~RetryDue(b)
    /\ UNCHANGED <<init, tid, sixSec, bcast, net>>

InitialIdle(b) ==
    /\ phase[b] = "dhcp"
    /\ \/ link[b] /\ (FirstDiscover(b) \/ RetryDiscover(b) \/ CountInit(b))
       \/ NothingDue(b)
    /\ polled' = Set(polled, b, TRUE)
    /\ UNCHANGED <<yiaddr, serverId, mainVars, lease, link, leaseSecs, budget,
                   ageVars>>

(***************************************************************************)
(* The same function with a packet in the buffer.                          *)
(***************************************************************************)
TakeOffer(b, m) ==
    /\ IsOffer(m)
    /\ init' = Set(init, b, 1)
    /\ yiaddr' = Set(yiaddr, b, m.ip)
    /\ serverId' = Set(serverId, b, m.server)
    /\ lease' = Set(lease, b, LeaseMinutes(m.secs))
    /\ TakeFromNet(m, b, {Request(b, m.server, m.ip)})
    /\ UNCHANGED <<tid, bcast, mainVars>>

TakeAck(b, m) ==
    /\ IsAck(m)
    /\ init' = Set(init, b, 1)
    /\ bcast' = Set(bcast, b, FALSE)
    /\ phase' = Set(phase, b, "arp")
    /\ myip' = Set(myip, b, yiaddr[b])
    /\ TakeFromNet(m, b, {})
    /\ UNCHANGED <<yiaddr, serverId, tid, lease, step>>

IgnoreReply(b, m) ==
    /\ TakeFromNet(m, b, {})
    /\ UNCHANGED <<clientVars, mainVars, lease>>

InitialPacket(b, m) ==
    /\ phase[b] = "dhcp" /\ Accepts(b, m)
    /\ IF link[b] /\ ForMe(b, m) /\ m.kind = 1 /\ (IsOffer(m) \/ IsAck(m))
       THEN TakeOffer(b, m) \/ TakeAck(b, m)
       ELSE IgnoreReply(b, m)
    /\ UNCHANGED <<sixSec, link, leaseSecs, ageVars, polled>>

(***************************************************************************)
(* The wait for the gateway: the loop does not call the DHCP client, so a  *)
(* reply that arrives here is lost and the lease is not counted down.      *)
(***************************************************************************)
GatewayAnswers(b) ==
    /\ phase[b] = "arp"
    /\ phase' = Set(phase, b, "serve")
    /\ polled' = Set(polled, b, TRUE)
    /\ UNCHANGED <<clientVars, step, myip, sixSec, lease, link, net, leaseSecs,
                   budget, ageVars>>

ArpPacket(b, m) ==
    /\ phase[b] = "arp" /\ Accepts(b, m)
    /\ IgnoreReply(b, m)
    /\ UNCHANGED <<sixSec, link, leaseSecs, ageVars, polled>>

(***************************************************************************)
(* packetloop_dhcp_renewhandler.  The counter is shared with the interrupt *)
(* without a lock: a tick between the test and the reset is lost.          *)
(***************************************************************************)
MinuteTest(b) ==
    /\ phase[b] = "serve" /\ step[b] = "poll" /\ sixSec[b] > MINUTE_TICKS
    /\ step' = Set(step, b, "reset")
    /\ UNCHANGED <<clientVars, phase, myip, sixSec, lease, link, net, leaseSecs,
                   budget, ageVars, polled>>

MinuteReset(b) ==
    /\ phase[b] = "serve" /\ step[b] = "reset"
    /\ sixSec' = Set(sixSec, b, 0)
    /\ lease' = IF lease[b] < FOREVER /\ lease[b] > 1
                THEN Set(lease, b, lease[b] - 1) ELSE lease
    /\ step' = Set(step, b, "rest")
    /\ UNCHANGED <<clientVars, phase, myip, link, net, leaseSecs, budget, ageVars,
                   polled>>

\* The rest of the handler runs when the minute test failed or has been served.
AtRest(b) ==
    /\ phase[b] = "serve"
    /\ step[b] = "rest" \/ (step[b] = "poll" /\ sixSec[b] <= MINUTE_TICKS)

\* Mutant of RenewDue: renew only once the countdown has run out.
RenewDueAtZero(b) == lease[b] = 0 /\ link[b]
RenewDue(b) == lease[b] < 3 /\ link[b]

ServeIdle(b) ==
    /\ AtRest(b)
    /\ step' = Set(step, b, "poll")
    /\ polled' = Set(polled, b, TRUE)
    /\ IF RenewDue(b)
       THEN /\ tid' = Inc(tid, b, TID_WRAP)
            /\ net' = net \cup {Renew(b)}
            /\ lease' = Set(lease, b, 5)
            /\ asked' = Set(asked, b, TRUE)
       ELSE UNCHANGED <<tid, net, lease, asked>>
    /\ UNCHANGED <<init, yiaddr, serverId, bcast, phase, myip, sixSec, link,
                   leaseSecs, budget, granted, age, disturbed>>

ServePacket(b, m) ==
    /\ AtRest(b) /\ Accepts(b, m)
    /\ step' = Set(step, b, "poll")
    /\ IF ForMe(b, m) /\ IsAck(m) /\ m.kind = 2
       THEN /\ lease' = Set(lease, b, LeaseMinutes(m.secs))
            /\ serverId' = Set(serverId, b, m.server)
       ELSE UNCHANGED <<lease, serverId>>
    /\ TakeFromNet(m, b, {})
    /\ UNCHANGED <<init, yiaddr, tid, bcast, phase, myip, sixSec, link, leaseSecs,
                   ageVars, polled>>

(***************************************************************************)
(* TCD0_OVF_vect, every sixth call.  A pass of either loop that calls the   *)
(* client is far shorter than six seconds.                                 *)
(***************************************************************************)
AckInFlight(b) == \E m \in net : m.type = "ack" /\ b \in m.to
Tick(b) ==
    /\ phase[b] # "arp" => polled[b]
    /\ PROMPT => net = {}
    /\ sixSec' = Inc(sixSec, b, CNT_WRAP)
    /\ polled' = Set(polled, b, FALSE)
    /\ age' = IF granted[b] # {} /\ age[b] < AGE_CAP THEN Set(age, b, age[b] + 1) ELSE age
    /\ disturbed' = IF granted[b] # {} /\ (phase[b] # "serve" \/ AckInFlight(b))
                    THEN Set(disturbed, b, TRUE) ELSE disturbed
    /\ UNCHANGED <<clientVars, mainVars, lease, link, net, leaseSecs, budget,
                   granted, asked>>

-----------------------------------------------------------------------------
(* The servers and the network (external) *)

ServerOffers(s, m) ==
    /\ m.type = "discover" /\ s \in m.to
    /\ net' = Taken(m, s) \cup {Reply("offer", m, s, <<s, m.from>>, Boards)}
    /\ UNCHANGED <<clientVars, mainVars, sixSec, lease, link, leaseSecs, budget,
                   ageVars, polled>>

\* The request names the server, or renews an address of its pool or 0.0.0.0.
Answers(s, m) ==
    /\ m.type = "request"
    /\ m.server = s \/ (m.server = None /\ m.ip \in ({s} \X Boards) \cup {None})

ServerAcks(s, m) ==
    /\ Answers(s, m) /\ m.ip = <<s, m.from>>
    /\ net' = (net \ {m}) \cup
          {Reply("ack", m, s, m.ip, IF m.kind = 1 THEN Boards ELSE {m.from})}
    /\ granted' = [granted EXCEPT ![m.from] = @ \cup {m.ip}]
    /\ age' = Set(age, m.from, 0)
    /\ asked' = Set(asked, m.from, FALSE)
    /\ UNCHANGED <<clientVars, mainVars, sixSec, lease, link, leaseSecs, budget,
                   disturbed, polled>>

\* The address is not the board's, or the server has changed its mind.
ServerNaks(s, m) ==
    /\ Answers(s, m)
    /\ \/ m.ip # <<s, m.from>> /\ UNCHANGED budget
       \/ /\ m.ip = <<s, m.from>> /\ budget.naks < MaxNaks
          /\ budget' = [budget EXCEPT !.naks = @ + 1]
    /\ net' = (net \ {m}) \cup
          {Reply("nak", m, s, m.ip, IF m.kind = 1 THEN Boards ELSE {m.from})}
    /\ UNCHANGED <<clientVars, mainVars, sixSec, lease, link, leaseSecs,
                   ageVars, polled>>

Lossable(m) == IF m.kind = 2 THEN "renewal" \in Lossy ELSE m.type \in Lossy
Lose(m) ==
    /\ Lossable(m) /\ budget.losses < MaxLosses
    /\ budget' = [budget EXCEPT !.losses = @ + 1]
    /\ net' = net \ {m}
    /\ UNCHANGED <<clientVars, mainVars, sixSec, lease, link, leaseSecs, ageVars, polled>>

LinkFails(b) ==
    /\ link[b] /\ budget.flaps < MaxFlaps
    /\ link' = Set(link, b, FALSE)
    /\ budget' = [budget EXCEPT !.flaps = @ + 1]
    /\ disturbed' = Set(disturbed, b, TRUE)
    /\ UNCHANGED <<clientVars, mainVars, sixSec, lease, net, leaseSecs,
                   granted, age, asked, polled>>

\* Power cycle, or OSC_OSCF_vect: everything the client keeps is in RAM.
Restart(b) ==
    /\ budget.restarts < MaxRestarts
    /\ budget' = [budget EXCEPT !.restarts = @ + 1]
    /\ phase' = Set(phase, b, "dhcp") /\ step' = Set(step, b, "poll")
    /\ init' = Set(init, b, INIT_DELAY) /\ sixSec' = Set(sixSec, b, 0)
    /\ yiaddr' = Set(yiaddr, b, None) /\ serverId' = Set(serverId, b, None)
    /\ tid' = Set(tid, b, 0) /\ lease' = Set(lease, b, 0)
    /\ bcast' = Set(bcast, b, FALSE) /\ myip' = Set(myip, b, None)
    /\ disturbed' = Set(disturbed, b, FALSE) /\ polled' = Set(polled, b, TRUE)
    /\ UNCHANGED <<link, net, leaseSecs, granted, age, asked>>

LinkReturns(b) ==
    /\ ~link[b]
    /\ link' = Set(link, b, TRUE)
    /\ UNCHANGED <<clientVars, mainVars, sixSec, lease, net, leaseSecs, budget,
                   ageVars, polled>>

-----------------------------------------------------------------------------
Board(b) ==
    \/ InitialIdle(b) \/ GatewayAnswers(b)
    \/ MinuteTest(b) \/ MinuteReset(b) \/ ServeIdle(b)
    \/ \E m \in net : InitialPacket(b, m) \/ ArpPacket(b, m) \/ ServePacket(b, m)

Server(s) == \E m \in net : ServerOffers(s, m) \/ ServerAcks(s, m) \/ ServerNaks(s, m)

Environment ==
    \/ \E m \in net : Lose(m)
    \/ \E b \in Boards : LinkFails(b) \/ LinkReturns(b) \/ Restart(b)

Next ==
    \/ \E b \in Boards : Board(b) \/ Tick(b)
    \/ \E s \in Servers : Server(s)
    \/ Environment

Spec == Init /\ [][Next]_vars

(***************************************************************************)
(* main polls forever, the timer runs, the link comes back, what is not    *)
(* lost is delivered, servers and the gateway answer.                      *)
(***************************************************************************)
Fairness ==
    /\ \A b \in Boards :
        /\ WF_vars(InitialIdle(b)) /\ WF_vars(GatewayAnswers(b))
        /\ WF_vars(MinuteTest(b)) /\ WF_vars(MinuteReset(b)) /\ WF_vars(ServeIdle(b))
        /\ WF_vars(\E m \in net :
                InitialPacket(b, m) \/ ArpPacket(b, m) \/ ServePacket(b, m))
        /\ WF_vars(Tick(b)) /\ WF_vars(LinkReturns(b))
    /\ \A s \in Servers : WF_vars(Server(s))

FairSpec == Spec /\ Fairness

-----------------------------------------------------------------------------
(* Properties *)

Replies == [type : {"offer", "ack", "nak"}, kind : {1, 2}, tid : 0..(TID_WRAP - 1),
            server : Servers, ip : Addresses \cup {None}, secs : Leases, to : SUBSET Boards]

\* Every variable stays in its range.
TypeOK ==
    /\ phase \in [Boards -> {"dhcp", "arp", "serve"}]
    /\ step \in [Boards -> {"poll", "reset", "rest"}]
    /\ init \in [Boards -> 1..INIT_DELAY]
    /\ sixSec \in [Boards -> 0..(CNT_WRAP - 1)]
    /\ yiaddr \in [Boards -> Addresses \cup {None}]
    /\ serverId \in [Boards -> Servers \cup {None}]
    /\ tid \in [Boards -> 0..(TID_WRAP - 1)]
    /\ lease \in [Boards -> 0..FOREVER]
    /\ bcast \in [Boards -> BOOLEAN]
    /\ myip \in [Boards -> Addresses \cup {None}]
    /\ link \in [Boards -> BOOLEAN]
    /\ \A m \in net : IsReply(m) => m \in Replies
    /\ granted \in [Boards -> SUBSET Addresses]

Bound(b) == phase[b] # "dhcp"

\* A board that leaves the assignment loop answers to an address that a server
\* has acknowledged to this very board.
AddressWasGranted == \A b \in Boards : Bound(b) => myip[b] \in granted[b]

\* dhcp_client.c:386 "The function returns 1 once we have a valid IP": the
\* board does not leave the loop with the address still unset.
ReturnsWithAddress == \A b \in Boards : Bound(b) => myip[b] # None

\* dhcp_client.c:379-384: boards that boot at the same time do not end up in
\* "an IP address mess-up".
DistinctAddresses ==
    \A b, c \in Boards :
        b # c /\ Bound(b) /\ Bound(c) /\ myip[b] # None => myip[b] # myip[c]

\* dhcp_client.c:11-15: a board that ticks is not "without retry in case of
\* failure": whatever is lost, it eventually has an address.
EventuallyBound == \A b \in Boards : []<>Bound(b)

\* Whatever is lost, refused, duplicated or restarted, a board gets an address
\* again and again, or it ends in the one state the retry does not cover: it has
\* taken an OFFER, and no REQUEST and no answer is on its way.
Stranded(b) == phase[b] = "dhcp" /\ yiaddr[b] # None /\ net = {}
BoundOrStranded == \A b \in Boards : []<>Bound(b) \/ <>[]Stranded(b)

\* dhcp_client.c:471: the countdown may expire "too early", not "too late": as
\* long as nothing was disturbed, the renewal is sent before the lease is over.
RenewedInTime ==
    \A b \in Boards :
        /\ phase[b] = "serve" /\ ~disturbed[b] /\ leaseSecs # Infinite
        /\ age[b] * TICK_SECONDS > leaseSecs
        => asked[b]

\* A lost renewal is not the end of the lease: as long as the server answers
\* in the end, every board that serves with an address gets a new acknowledgement
\* again and again, until it restarts.
KeptAlive ==
    \A b \in Boards :
        [](phase[b] = "serve" /\ myip[b] # None /\ leaseSecs # Infinite /\ age[b] > 0
            => <>(age[b] = 0 \/ phase[b] # "serve"))
=============================================================================
