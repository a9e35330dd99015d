---------------------------- MODULE ArpResolver ----------------------------
(***************************************************************************)
(* The search for the gateway's hardware address: get_mac_with_arp, the    *)
(* ARP half of packetloop_arp_icmp_tcp and the loop of main.c that waits   *)
(* for it, with hosts that ask for the board's own address meanwhile.      *)
(*                                                                         *)
(* A pass of the loop without a packet counts arp_delaycnt, which is the   *)
(* retransmission timer: it fires when the 16-bit counter wraps to zero.   *)
(* A pass with a packet handles it in the one buffer: an answer to a       *)
(* request is made in place, and the same buffer is then looked at again   *)
(* as if it were a reply.                                                  *)
(***************************************************************************)
EXTENDS Integers, FiniteSets

CONSTANTS
    Gateway, Others, Me,    \* IP addresses; the hardware address is the IP's owner
    CNT_HALF,               \* 2^15: arp_delaycnt is an int16_t
    MaxLosses, MaxFlaps, MaxAsks    \* bounds on the environment

\* A parameter of the model.
ArpConstants ==
    /\ Me \notin Others /\ Gateway \notin Others /\ Gateway # Me
    /\ CNT_HALF \in Nat /\ CNT_HALF >= 2
    /\ {MaxLosses, MaxFlaps, MaxAsks} \subseteq Nat

Hosts == Others \cup {Gateway}
NoMac == "none"

INITIAL_ARP == 1
HAVE_MAC == 2
ACCEPT_ARP_REPLY == 8

VARIABLES
    phase,          \* main: "start", "wait" for the gateway, "serve"
    arpip_state, arp_delaycnt,
    gwmac,          \* whose hardware address is taken for the gateway's
    link, net,
    losses, flaps, asks

bounds == <<losses, flaps, asks>>
arpVars == <<arpip_state, arp_delaycnt, gwmac>>
vars == <<phase, arpVars, link, net, bounds>>

\* mac and ip of the sender, ip of the target, and who hears it
Arp(op, sender, target, to) == [op |-> op, sender |-> sender, target |-> target, to |-> to]
WhoHas == { Arp("request", Me, Gateway, h) : h \in Hosts }

Init ==
    /\ phase = "start"
    /\ arpip_state = 0 /\ arp_delaycnt = 1 /\ gwmac = NoMac
    /\ link = TRUE /\ net = {}
    /\ losses = 0 /\ flaps = 0 /\ asks = 0

-----------------------------------------------------------------------------
(* The board *)

GetMacWithArp ==
    /\ phase = "start"
    /\ phase' = "wait"
    /\ arpip_state' = INITIAL_ARP
    /\ UNCHANGED <<arp_delaycnt, gwmac, link, net, bounds>>

Accepting == arpip_state >= ACCEPT_ARP_REPLY
Inc(c) == IF c = CNT_HALF - 1 THEN -CNT_HALF ELSE c + 1

\* Mutant of TimerFired: it fires beyond the largest number the counter holds.
TimerFiredBeyond == Accepting /\ arp_delaycnt >= CNT_HALF
TimerFired == Accepting /\ arp_delaycnt = 0

\* The request is sent when it is due and the link is up; the first one starts
\* the timer.
IdlePass ==
    /\ phase # "start"
    /\ LET first == arpip_state = INITIAL_ARP /\ link
       IN  /\ net' = IF first \/ (TimerFired /\ link) THEN net \cup WhoHas ELSE net
           /\ arpip_state' = IF first THEN INITIAL_ARP + ACCEPT_ARP_REPLY ELSE arpip_state
           /\ arp_delaycnt' = Inc(IF first THEN 0 ELSE arp_delaycnt)
    /\ UNCHANGED <<phase, gwmac, link, bounds>>

\* make_arp_answer_from_request: the buffer after it
AnswerTo(m) == Arp("reply", Me, m.sender, m.sender)

\* Mutant of IsOurAnswer: any reply will do.
IsAnyAnswer(buf) == Accepting /\ buf.op = "reply"
IsOurAnswer(buf) == Accepting /\ buf.op = "reply" /\ buf.sender = Gateway

PacketPass(m) ==
    /\ phase # "start" /\ m.to = Me
    /\ LET buf == IF m.op = "request" THEN AnswerTo(m) ELSE m
       IN  /\ net' = (net \ {m}) \cup (IF m.op = "request" THEN {buf} ELSE {})
           /\ IF m.target = Me /\ IsOurAnswer(buf)
              THEN arpip_state' = HAVE_MAC /\ gwmac' = buf.sender
              ELSE UNCHANGED <<arpip_state, gwmac>>
    /\ UNCHANGED <<phase, arp_delaycnt, link, bounds>>

\* get_mac_with_arp_wait() answers zero
WaitOver ==
    /\ phase = "wait" /\ arpip_state = HAVE_MAC
    /\ phase' = "serve"
    /\ UNCHANGED <<arpVars, link, net, bounds>>

-----------------------------------------------------------------------------
(* Other hosts and the wire (external) *)

Answer(h) ==
    /\ \E m \in net :
        /\ m.to = h
        /\ net' = (net \ {m}) \cup
              (IF m.op = "request" /\ m.target = h THEN {Arp("reply", h, Me, Me)} ELSE {})
    /\ UNCHANGED <<phase, arpVars, link, bounds>>

\* A host asks who has the board's address, or answers what nobody asked.
Speak(h) ==
    /\ asks < MaxAsks /\ asks' = asks + 1
    /\ \E op \in {"request", "reply"} : net' = net \cup {Arp(op, h, Me, Me)}
    /\ UNCHANGED <<phase, arpVars, link, losses, flaps>>

Lose ==
    /\ losses < MaxLosses /\ losses' = losses + 1
    /\ \E m \in net : net' = net \ {m}
    /\ UNCHANGED <<phase, arpVars, link, flaps, asks>>

LinkFails ==
    /\ link /\ flaps < MaxFlaps /\ flaps' = flaps + 1
    /\ link' = FALSE
    /\ UNCHANGED <<phase, arpVars, net, losses, asks>>

LinkReturns ==
    /\ ~link
    /\ link' = TRUE
    /\ UNCHANGED <<phase, arpVars, net, bounds>>

-----------------------------------------------------------------------------
Next ==
    \/ GetMacWithArp \/ IdlePass \/ WaitOver
    \/ \E m \in net : PacketPass(m)
    \/ \E h \in Hosts : Answer(h) \/ Speak(h)
    \/ Lose \/ LinkFails \/ LinkReturns

Spec == Init /\ [][Next]_vars

\* main polls, the link returns, hosts answer and what is not lost arrives.
FairSpec ==
    /\ Spec
    /\ WF_vars(GetMacWithArp) /\ WF_vars(IdlePass) /\ WF_vars(WaitOver)
    /\ WF_vars(\E m \in net : PacketPass(m))
    /\ \A h \in Hosts : WF_vars(Answer(h))
    /\ WF_vars(LinkReturns)

-----------------------------------------------------------------------------
(* Properties *)

\* Every variable is in its range: the state is one of the four the code names
\* and frames are between the board and the hosts.
TypeOK ==
    /\ phase \in {"start", "wait", "serve"}
    /\ arpip_state \in {0, INITIAL_ARP, HAVE_MAC, INITIAL_ARP + ACCEPT_ARP_REPLY}
    /\ arp_delaycnt \in (-CNT_HALF)..(CNT_HALF - 1)
    /\ gwmac \in Hosts \cup {Me, NoMac}
    /\ \A m \in net : /\ m.op \in {"request", "reply"}
                       /\ {m.sender, m.target, m.to} \subseteq Hosts \cup {Me}

\* The gateway's address is the gateway's: not that of a host that asked for the
\* board or spoke unasked, and not the board's own, although the board looks at
\* the answer it has just written into the buffer as if it had been received.
GatewayIsGateway ==
    /\ gwmac \in {NoMac, Gateway}
    /\ phase = "serve" => gwmac = Gateway

\* The wait ends: lost requests, lost answers and a link that is down at the very
\* pass the counter wraps are made up for by a later wrap.
WaitEnds == <>(phase = "serve")
=============================================================================
