----------------------------- MODULE MCClients ------------------------------
(***************************************************************************)
(* The two clients of packetloop_arp_icmp_tcp that wait for somebody else, *)
(* for one run of TLC: the search for the gateway (ArpResolver) and the    *)
(* TCP and HTTP client (TcpClient).  They share no variable; `part` says   *)
(* which one a behaviour is about, and the other stays in its initial      *)
(* state, so that the states of the two add up and do not multiply.        *)
(***************************************************************************)
EXTENDS TcpClient

CONSTANTS Gateway, Others, Me, CNT_HALF, MaxLosses, MaxFlaps, MaxAsks

VARIABLES
    part,
    phase, arpip_state, arp_delaycnt, gwmac, link, net, losses, flaps, asks

Arp == INSTANCE ArpResolver
ASSUME ClientsAssumption == Arp!ArpConstants /\ TcpConstants

arpvars == <<phase, arpip_state, arp_delaycnt, gwmac, link, net, losses, flaps, asks>>

MCInit == part \in {"arp", "tcp"} /\ Arp!Init /\ Init

OfArp(A) == part = "arp" /\ A /\ UNCHANGED <<part, tcpvars>>
OfTcp(A) == part = "tcp" /\ A /\ UNCHANGED <<part, arpvars>>

MCNext == OfArp(Arp!Next) \/ OfTcp(Next)

mcvars == <<part, arpvars, tcpvars>>

\* Fairness of ArpResolver and of TcpClient.
MCSpec ==
    /\ MCInit /\ [][MCNext]_mcvars
    /\ WF_mcvars(OfArp(Arp!GetMacWithArp)) /\ WF_mcvars(OfArp(Arp!IdlePass))
    /\ WF_mcvars(OfArp(Arp!WaitOver))
    /\ WF_mcvars(OfArp(\E m \in net : Arp!PacketPass(m)))
    /\ \A h \in Arp!Hosts : WF_mcvars(OfArp(Arp!Answer(h)))
    /\ WF_mcvars(OfArp(Arp!LinkReturns))
    /\ WF_mcvars(OfTcp(Board)) /\ WF_mcvars(OfTcp(ServerReacts))

\* ArpResolver: the address taken for the gateway's is the gateway's.
GatewayIsGateway == Arp!GatewayIsGateway

\* ArpResolver: the wait for the gateway ends.
GatewayFound == part = "arp" => Arp!WaitEnds
=============================================================================
