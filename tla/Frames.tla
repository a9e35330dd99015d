------------------------------- MODULE Frames -------------------------------
(***************************************************************************)
(* The frames the board sends (avr/gpsdo/net/ip_arp_udp_tcp.c, with the    *)
(* positions of net.h), built in place in the one packet buffer: a reply   *)
(* is the request with its fields exchanged, a page goes out in the buffer *)
(* of the acknowledgement sent just before, and a frame of the board's own *)
(* is written over whatever the last packet left.                          *)
(*                                                                         *)
(* The first SHOWN bytes of the buffer are modelled, with their real       *)
(* checksums; the bytes after them are data and count as zero.  A pass     *)
(* receives a frame and answers it, or sends one of the board's own.       *)
(* Besides what is sent, a pass keeps in `again` what it would have sent   *)
(* had the buffer held noise before it.                                    *)
(***************************************************************************)
EXTENDS Integers, Sequences, Functions

CONSTANTS
    Peers,          \* the other hosts, small numbers
    Sizes,          \* lengths of data
    Words,          \* values of the first data word of a ping
    BUFFER_SIZE,    \* 650
    MAX_PASSES      \* bound on passes

VARIABLES buf, ipaddr, seqnum, ipid, request, sent, again, passes

framevars == <<buf, ipaddr, seqnum, ipid, request, sent, again, passes>>

SHOWN == 60
Me == 9

\* Parameters of the model; the smallest frame is longer than what is modelled.
ASSUME FramesAssumption ==
    /\ Peers \subseteq 1..8
    /\ \A n \in Sizes : n \in Nat /\ 1 <= n /\ n <= 1400
    /\ \A w \in Words : w \in Nat /\ w <= 65535
    /\ BUFFER_SIZE \in Nat /\ BUFFER_SIZE > SHOWN

\* Positions in the frame.
P == [ETH_DST_MAC |-> 0, ETH_SRC_MAC |-> 6, ETH_TYPE_H_P |-> 12,
      ETH_ARP_P |-> \h0e, ETH_ARP_OPCODE_H_P |-> \h14, ETH_ARP_SRC_MAC_P |-> \h16,
      ETH_ARP_SRC_IP_P |-> \h1c, ETH_ARP_DST_MAC_P |-> \h20, ETH_ARP_DST_IP_P |-> \h26,
      IP_P |-> \h0e, IP_TOTLEN_H_P |-> \h10, IP_TOTLEN_L_P |-> \h11, IP_ID_L_P |-> \h13,
      IP_FLAGS_P |-> \h14, IP_TTL_P |-> \h16, IP_PROTO_P |-> \h17, IP_CHECKSUM_P |-> \h18,
      IP_SRC_P |-> \h1a, IP_DST_P |-> \h1e,
      ICMP_TYPE_P |-> \h22, ICMP_CHECKSUM_P |-> \h24, ICMP_IDENT_H_P |-> \h26, ICMP_DATA_P |-> \h2a,
      UDP_LEN_H_P |-> \h26, UDP_CHECKSUM_H_P |-> \h28, UDP_DATA_P |-> \h2a,
      SRC_PORT_H_P |-> \h22, DST_PORT_H_P |-> \h24, TCP_SEQ_H_P |-> \h26, TCP_SEQACK_H_P |-> \h2a,
      TCP_HEADER_LEN_P |-> \h2e, TCP_FLAGS_P |-> \h2f, TCP_WIN_SIZE |-> \h30,
      TCP_CHECKSUM_H_P |-> \h32, TCP_OPTIONS_P |-> \h36]

ETHTYPE_ARP == <<8, 6>>
ETHTYPE_IP == <<8, 0>>
REQ == <<0, 1>>
REPLY == <<0, 2>>
ICMP_V == 1
TCP_V == 6
UDP_V == 17
FIN == 1
SYN == 2
RST == 4
PUSH == 8
ACK == 16
Has(flags, bit) == (flags \div bit) % 2 = 1

-----------------------------------------------------------------------------
(* Bytes *)

Two(n) == <<n \div 256, n % 256>>
Get(b, pos, n) == [i \in 1..n |-> b[pos + i - 1]]
Word(b, pos) == 256 * b[pos] + b[pos + 1]

\* Bytes to be written from a position on, and the buffer after they were; those
\* beyond SHOWN are not modelled.
At(pos, bytes) == [pos |-> pos, bytes |-> bytes]
b ++ w ==
    [i \in 0..(SHOWN - 1) |->
        IF w.pos <= i /\ i < w.pos + Len(w.bytes) THEN w.bytes[i - w.pos + 1] ELSE b[i]]

Mac(h) == [i \in 1..6 |-> 16 * h + i]
Ip(h) == <<10, 0, 0, h>>
AllFf(n) == [i \in 1..n |-> 255]
Zeros(n) == [i \in 1..n |-> 0]

\* checksum(), whose loop is InetChecksum; type is the protocol of the pseudo
\* header, 0 for none.  What is not in the buffer counts as zero.
Checksum(b, pos, len, type) ==
    LET covered == { i \in DOMAIN b : pos <= i /\ i < pos + len }
        weighed == [i \in DOMAIN b |-> IF (i - pos) % 2 = 0 THEN 256 * b[i] ELSE b[i]]
        sum == SumFunctionOnSet(weighed, covered) + IF type = 0 THEN 0 ELSE type + len - 8
    IN  65535 - (IF sum = 0 THEN 0 ELSE 1 + ((sum - 1) % 65535))

\* Big-endian numbers of four bytes.
AddTo(four, n) ==
    LET low == 256 * four[3] + four[4] + n
        high == 256 * four[1] + four[2] + low \div 65536
    IN  Two(high % 65536) \o Two(low % 65536)

-----------------------------------------------------------------------------
(* What is sent *)

Frame(b, len) ==
    [len |-> len, bytes |-> [i \in { k \in DOMAIN b : k < len } |-> b[i]]]

\* A builder's result: the buffer, and the frames it has sent, in order.
Nothing(b) == [buf |-> b, sent |-> <<>>]
Send(b, len) == [buf |-> b, sent |-> <<Frame(b, len)>>]
Then(first, second) == [buf |-> second.buf, sent |-> first.sent \o second.sent]

make_eth(b) ==
    b ++ At(P.ETH_DST_MAC, Get(b, P.ETH_SRC_MAC, 6)) ++ At(P.ETH_SRC_MAC, Mac(Me))

fill_ip_hdr_checksum(b) ==
    LET c == b ++ At(P.IP_CHECKSUM_P, <<0, 0>>) ++ At(P.IP_FLAGS_P, <<64, 0>>)
               ++ At(P.IP_TTL_P, << 64 >>)
    IN  c ++ At(P.IP_CHECKSUM_P, Two(Checksum(c, P.IP_P, 20, 0)))

make_ip(b) ==
    fill_ip_hdr_checksum(b ++ At(P.IP_DST_P, Get(b, P.IP_SRC_P, 4)) ++ At(P.IP_SRC_P, ipaddr))

step_seq(b, rel_ack_num, cp_seq) ==
    b ++ At(P.TCP_SEQ_H_P, IF cp_seq = 1 THEN Get(b, P.TCP_SEQACK_H_P, 4) ELSE Zeros(4))
      ++ At(P.TCP_SEQACK_H_P, AddTo(Get(b, P.TCP_SEQ_H_P, 4), rel_ack_num))

make_tcphead(b, rel_ack_num, cp_seq) ==
    step_seq(b ++ At(P.DST_PORT_H_P, Get(b, P.SRC_PORT_H_P, 2))
               ++ At(P.SRC_PORT_H_P, Get(b, P.DST_PORT_H_P, 2)), rel_ack_num, cp_seq)
      ++ At(P.TCP_CHECKSUM_H_P, <<0, 0>>) ++ At(P.TCP_HEADER_LEN_P, << 80 >>)

\* The last steps of every TCP and UDP builder.
TcpChecked(b, len) ==
    b ++ At(P.TCP_CHECKSUM_H_P, Two(Checksum(b, P.IP_SRC_P, 8 + len, TCP_V)))
UdpChecked(b, datalen) ==
    b ++ At(P.UDP_CHECKSUM_H_P, Two(Checksum(b, P.IP_SRC_P, 16 + datalen, UDP_V)))

-----------------------------------------------------------------------------
(* Replies *)

make_arp_answer_from_request(b) ==
    LET c == make_eth(b)
    IN  Send(c ++ At(P.ETH_ARP_OPCODE_H_P, REPLY)
               ++ At(P.ETH_ARP_DST_MAC_P, Get(c, P.ETH_ARP_SRC_MAC_P, 6))
               ++ At(P.ETH_ARP_SRC_MAC_P, Mac(Me))
               ++ At(P.ETH_ARP_DST_IP_P, Get(c, P.ETH_ARP_SRC_IP_P, 4))
               ++ At(P.ETH_ARP_SRC_IP_P, ipaddr), 42)

make_echo_reply_from_request(b, len) ==
    LET high == b[P.ICMP_CHECKSUM_P]
        low == b[P.ICMP_CHECKSUM_P + 1] + (IF high > 255 - 8 THEN 1 ELSE 0)
    IN  Send(make_ip(make_eth(b)) ++ At(P.ICMP_TYPE_P, << 0 >>)
               ++ At(P.ICMP_CHECKSUM_P, << (high + 8) % 256, low % 256 >>), len)

get_tcp_data_len(b) ==
    LET n == Word(b, P.IP_TOTLEN_H_P) - 20 - 4 * (b[P.TCP_HEADER_LEN_P] \div 16)
    IN  IF n <= 0 THEN 0 ELSE n

\* Never called with RST by the server.
make_tcp_ack_from_any(b, datlentoack, addflags) ==
    LET ack == IF addflags # RST /\ datlentoack = 0 THEN 1 ELSE datlentoack
        c == make_tcphead(make_eth(b), ack, 1)
               ++ At(P.TCP_FLAGS_P, <<ACK + addflags>>) ++ At(P.IP_TOTLEN_H_P, Two(40))
               ++ At(P.TCP_WIN_SIZE, <<4, 0>>)
    IN  Send(TcpChecked(make_ip(c), 20), 54)

\* Mutants: the checksum is not cleared; the header is turned round once more.
WithDataKept(b, dlen) ==
    LET c == b ++ At(P.IP_TOTLEN_H_P, Two(40 + dlen))
    IN  Send(TcpChecked(fill_ip_hdr_checksum(c), 20 + dlen), 54 + dlen)
WithDataTurned(b, dlen) ==
    LET c == make_eth(b) ++ At(P.IP_TOTLEN_H_P, Two(40 + dlen)) ++ At(P.TCP_CHECKSUM_H_P, <<0, 0>>)
    IN  Send(TcpChecked(fill_ip_hdr_checksum(c), 20 + dlen), 54 + dlen)

make_tcp_ack_with_data_noflags(b, dlen) ==
    LET c == b ++ At(P.IP_TOTLEN_H_P, Two(40 + dlen)) ++ At(P.TCP_CHECKSUM_H_P, <<0, 0>>)
    IN  Send(TcpChecked(fill_ip_hdr_checksum(c), 20 + dlen), 54 + dlen)

\* The page has been filled in after the header before this is called.
www_server_reply(b, info_data_len, dlen) ==
    LET first == make_tcp_ack_from_any(b, info_data_len, 0)
    IN  Then(first, make_tcp_ack_with_data_noflags(
                        first.buf ++ At(P.TCP_FLAGS_P, <<ACK + PUSH + FIN>>), dlen))

make_tcp_synack_from_syn(b) ==
    LET c == make_ip(make_eth(b) ++ At(P.IP_TOTLEN_H_P, Two(44)))
        d == make_tcphead(c, 1, 0)
               ++ At(P.TCP_FLAGS_P, <<SYN + ACK>>) ++ At(P.TCP_SEQ_H_P, <<0, 0, seqnum, 0>>)
               ++ At(P.TCP_OPTIONS_P, <<2, 4, 5, 0>>) ++ At(P.TCP_HEADER_LEN_P, << 96 >>)
               ++ At(P.TCP_WIN_SIZE, <<10, 0>>)
    IN  Send(TcpChecked(d, 24), 58)

\* The data has been filled in by the caller.
make_udp_reply_from_request_udpdat_ready(b, length, port) ==
    LET datalen == IF length > 220 THEN 220 ELSE length
        c == make_ip(make_eth(b) ++ At(P.IP_TOTLEN_H_P, Two(28 + datalen)))
        d == c ++ At(P.DST_PORT_H_P, Get(c, P.SRC_PORT_H_P, 2)) ++ At(P.SRC_PORT_H_P, Two(port))
               ++ At(P.UDP_LEN_H_P, Two(8 + datalen)) ++ At(P.UDP_CHECKSUM_H_P, <<0, 0>>)
    IN  Send(UdpChecked(d, datalen), 42 + datalen)

-----------------------------------------------------------------------------
(* Frames of the board's own *)

iphdr == <<\h45, 0, 0, \h82, 0, 0, \h40, 0, \h20>>
arpreqhdr == <<0, 1, 8, 0, 6, 4, 0, 1>>

\* Mutant: two bytes of the header are copied, and the rest is the last packet's.
TemplateShort == SubSeq(iphdr, 1, 2)
Template == iphdr

\* The common beginning of the IP frames.
IpHeader(b, dstmac, dst, proto) ==
    b ++ At(P.ETH_DST_MAC, dstmac) ++ At(P.ETH_SRC_MAC, Mac(Me))
      ++ At(P.ETH_TYPE_H_P, ETHTYPE_IP) ++ At(P.IP_P, Template) ++ At(P.IP_ID_L_P, <<ipid>>)
      ++ At(P.IP_PROTO_P, <<proto>>) ++ At(P.IP_DST_P, dst) ++ At(P.IP_SRC_P, ipaddr)
FixedLength(b, low) == fill_ip_hdr_checksum(b ++ At(P.IP_TOTLEN_L_P, <<low>>))

client_icmp_request(b, h) ==
    LET c == FixedLength(IpHeader(b, Mac(h), Ip(h), ICMP_V), \h54)
               ++ At(P.ICMP_TYPE_P, <<8, 0, 0, 0>>)
               ++ At(P.ICMP_IDENT_H_P, <<5, ipaddr[4], 0, 1>>)
               ++ At(P.ICMP_DATA_P, [i \in 1..56 |-> \h42])
    IN  Send(c ++ At(P.ICMP_CHECKSUM_P, Two(Checksum(c, P.ICMP_TYPE_P, 64, 0))), 98)

client_ntp_request(b, h, srcport) ==
    LET c == FixedLength(IpHeader(b, Mac(h), Ip(h), UDP_V), \h4c)
               ++ At(P.DST_PORT_H_P, Two(123)) ++ At(P.SRC_PORT_H_P, <<10, srcport>>)
               ++ At(P.UDP_LEN_H_P, Two(56)) ++ At(P.UDP_CHECKSUM_H_P, <<0, 0>>)
               ++ At(P.UDP_DATA_P, <<\he3, 0, 4, \hfa, 0, 1, 0, 0, 0, 1>> \o Zeros(38))
    IN  Send(UdpChecked(c, 48), 90)

send_wol(b, h) ==
    LET c == FixedLength(IpHeader(b, AllFf(6), AllFf(4), UDP_V), \h82)
               ++ At(P.DST_PORT_H_P, Two(9)) ++ At(P.SRC_PORT_H_P, <<10, \h42>>)
               ++ At(P.UDP_LEN_H_P, Two(110)) ++ At(P.UDP_CHECKSUM_H_P, <<0, 0>>)
               ++ At(P.UDP_DATA_P, AllFf(6) \o Mac(h) \o Mac(h))
    IN  Send(UdpChecked(c, 102), 144)

tcp_client_syn(b, h, srcport, dstport) ==
    LET c == FixedLength(IpHeader(b, Mac(h), Ip(h), TCP_V), 44)
               ++ At(P.DST_PORT_H_P, Two(dstport)) ++ At(P.SRC_PORT_H_P, <<11, srcport>>)
               ++ At(P.TCP_SEQ_H_P, <<0, 0, seqnum, 0>> \o Zeros(4))
               ++ At(P.TCP_HEADER_LEN_P, <<96, SYN, 3, 0, 0, 0, 0, 0>>)
               ++ At(P.TCP_OPTIONS_P, <<2, 4>> \o Two(750))
    IN  Send(TcpChecked(c, 24), 58)

send_udp_prepare(b, sport, dip, dport, dstmac) ==
    IpHeader(b, dstmac, dip, UDP_V)
      ++ At(P.IP_TOTLEN_H_P, << 0 >>) ++ At(P.DST_PORT_H_P, Two(dport))
      ++ At(P.SRC_PORT_H_P, Two(sport)) ++ At(P.UDP_LEN_H_P, << 0 >>)
      ++ At(P.UDP_CHECKSUM_H_P, <<0, 0>>)

send_udp_transmit(b, datalen) ==
    LET c == fill_ip_hdr_checksum(b ++ At(P.IP_TOTLEN_H_P, Two(28 + datalen)))
               ++ At(P.UDP_LEN_H_P, Two(8 + datalen))
    IN  Send(UdpChecked(c, datalen), 42 + datalen)

\* A byte counts the data, of which at most 220 bytes are sent.
send_udp(b, h, datalen) ==
    LET n == IF datalen % 256 > 220 THEN 220 ELSE datalen % 256
    IN  send_udp_transmit(
            send_udp_prepare(b, 10, Ip(h), 9, Mac(h)) ++ At(P.UDP_DATA_P, AllFf(n)), n)

\* The options lie beyond SHOWN.
make_dhcp_message_template(b, tid) ==
    send_udp_prepare(b, 68, AllFf(4), 67, AllFf(6))
      ++ At(P.UDP_DATA_P, <<1, 1, 6, 0, 1, tid, tid, tid>> \o Zeros(228))
      ++ At(P.IP_SRC_P, Zeros(4))
send_dhcp_discover(b, tid) == send_udp_transmit(make_dhcp_message_template(b, tid), 248)
send_dhcp_renew_request(b, tid) ==
    send_udp_transmit(
        make_dhcp_message_template(b, tid) ++ At(P.UDP_DATA_P + 12, ipaddr)
          ++ At(P.IP_SRC_P, ipaddr) ++ At(P.UDP_DATA_P + 4, << 2 >>), 243)

\* gratutious_arp and client_arp_whohas; the latter needs an address.
ArpFrame(b, ip, mac) ==
    Send(b ++ At(P.ETH_DST_MAC, AllFf(6)) ++ At(P.ETH_SRC_MAC, Mac(Me))
           ++ At(P.ETH_TYPE_H_P, ETHTYPE_ARP) ++ At(P.ETH_ARP_P, arpreqhdr)
           ++ At(P.ETH_ARP_SRC_MAC_P, Mac(Me)) ++ At(P.ETH_ARP_DST_MAC_P, mac)
           ++ At(P.ETH_ARP_DST_IP_P, ip) ++ At(P.ETH_ARP_SRC_IP_P, ipaddr), 42)
gratutious_arp(b) == ArpFrame(b, ipaddr, AllFf(6))
client_arp_whohas(b, h) == IF ipaddr[1] = 0 THEN Nothing(b) ELSE ArpFrame(b, Ip(h), Zeros(6))

-----------------------------------------------------------------------------
(* Receiving *)

eth_type_is_arp_and_my_ip(b, len) ==
    len >= 41 /\ Get(b, P.ETH_TYPE_H_P, 2) = ETHTYPE_ARP /\ Get(b, P.ETH_ARP_DST_IP_P, 4) = ipaddr
eth_type_is_ip_and_my_ip(b, len) ==
    /\ len >= 42 /\ Get(b, P.ETH_TYPE_H_P, 2) = ETHTYPE_IP
    /\ b[P.IP_P] = \h45 /\ Get(b, P.IP_DST_P, 4) = ipaddr

\* packetloop_arp_icmp_tcp with the web server of main, and a UDP service in the
\* place of an application; dlen is the length of the page, or of the answer.
packetloop(b, plen, dlen) ==
    LET flags == b[P.TCP_FLAGS_P]
        len == get_tcp_data_len(b)
        start == P.SRC_PORT_H_P + 4 * (b[P.TCP_HEADER_LEN_P] \div 16)
        Filled == b ++ At(P.TCP_OPTIONS_P, [i \in 1..dlen |-> 72])
    IN  IF eth_type_is_arp_and_my_ip(b, plen) THEN
            IF b[P.ETH_ARP_OPCODE_H_P + 1] = REQ[2] THEN make_arp_answer_from_request(b) ELSE Nothing(b)
        ELSE IF ~eth_type_is_ip_and_my_ip(b, plen) THEN Nothing(b)
        ELSE IF b[P.IP_PROTO_P] = ICMP_V /\ b[P.ICMP_TYPE_P] = 8 THEN
            make_echo_reply_from_request(b, plen)
        ELSE IF b[P.IP_PROTO_P] = UDP_V /\ Word(b, P.DST_PORT_H_P) = 1200 THEN
            make_udp_reply_from_request_udpdat_ready(
                b ++ At(P.UDP_DATA_P, [i \in 1..dlen |-> 85]), dlen, 1200)
        ELSE IF b[P.IP_PROTO_P] # TCP_V \/ plen < 54 \/ Word(b, P.DST_PORT_H_P) # 80 THEN Nothing(b)
        ELSE IF Has(flags, SYN) THEN make_tcp_synack_from_syn(b)
        ELSE IF Has(flags, ACK) /\ len = 0 /\ Has(flags, FIN) THEN make_tcp_ack_from_any(b, 0, 0)
        ELSE IF Has(flags, ACK) /\ len > 0 /\ start <= plen - 8 THEN www_server_reply(Filled, len, dlen)
        ELSE Nothing(b)

\* Frames of the peers (external): valid, padded to 60 bytes, and cut off by
\* enc28j60PacketReceive at BUFFER_SIZE - 1.
Received(b, r) == [i \in DOMAIN b |-> IF i < r.len THEN r.bytes[i] ELSE b[i]]
Padded(total) ==
    CASE total + 14 < 60 -> 60
      [] total + 14 > BUFFER_SIZE - 1 -> BUFFER_SIZE - 1
      [] OTHER -> total + 14
Blank == [i \in 0..(SHOWN - 1) |-> 0]
FromPeer(h, type) ==
    Blank ++ At(P.ETH_DST_MAC, Mac(Me)) ++ At(P.ETH_SRC_MAC, Mac(h)) ++ At(P.ETH_TYPE_H_P, type)
PeerIp(h, dst, proto, total) ==
    fill_ip_hdr_checksum(
        FromPeer(h, ETHTYPE_IP) ++ At(P.IP_P, <<\h45, 16>>) ++ At(P.IP_TOTLEN_H_P, Two(total))
          ++ At(P.IP_ID_L_P, <<h>>) ++ At(P.IP_PROTO_P, <<proto>>)
          ++ At(P.IP_SRC_P, Ip(h)) ++ At(P.IP_DST_P, dst))

ArpRequest(h, dst) ==
    [len |-> 60, bytes |-> FromPeer(h, ETHTYPE_ARP) ++ At(P.ETH_ARP_P, arpreqhdr)
                             ++ At(P.ETH_ARP_SRC_MAC_P, Mac(h)) ++ At(P.ETH_ARP_SRC_IP_P, Ip(h))
                             ++ At(P.ETH_ARP_DST_IP_P, dst)]
Ping(h, n, w) ==
    LET b == PeerIp(h, Ip(Me), ICMP_V, 28 + n)
               ++ At(P.ICMP_TYPE_P, <<8, 0>>) ++ At(P.ICMP_DATA_P, Two(w))
    IN  [len |-> Padded(28 + n),
         bytes |-> b ++ At(P.ICMP_CHECKSUM_P, Two(Checksum(b, P.ICMP_TYPE_P, 8 + n, 0)))]
Datagram(h, n, dst) ==
    [len |-> Padded(28 + n),
     bytes |-> UdpChecked(PeerIp(h, dst, UDP_V, 28 + n)
                            ++ At(P.SRC_PORT_H_P, <<4, h>> \o Two(1200))
                            ++ At(P.UDP_LEN_H_P, Two(8 + n)), n)]
Segment(h, hlen, n, flags) ==
    [len |-> Padded(20 + 4 * hlen + n),
     bytes |-> TcpChecked(PeerIp(h, Ip(Me), TCP_V, 20 + 4 * hlen + n)
                            ++ At(P.SRC_PORT_H_P, <<4, h>> \o Two(80))
                            ++ At(P.TCP_SEQ_H_P, <<h, 255, 255, 250>>)
                            ++ At(P.TCP_SEQACK_H_P, <<0, 0, 10, 1>>)
                            ++ At(P.TCP_HEADER_LEN_P, <<16 * hlen, flags>>), 4 * hlen + n)]

ArpRequests == { ArpRequest(h, dst) : h \in Peers, dst \in {Ip(Me), Ip(8)} }
Pings == { Ping(h, n, w) : h \in Peers, n \in { s \in Sizes : s > 1 }, w \in Words }
Datagrams == { Datagram(h, n, dst) : h \in Peers, n \in Sizes, dst \in {Ip(Me), Ip(8)} }
Segments ==
    { Segment(h, hlen, n, flags) :
      h \in Peers, hlen \in {5, 6}, n \in {0} \cup Sizes, flags \in {SYN, ACK, ACK + FIN, ACK + PUSH} }
Requests == ArpRequests \cup Pings \cup Datagrams \cup Segments

-----------------------------------------------------------------------------
(* Passes *)

None == [len |-> 0, bytes |-> <<>>]
Noise == [i \in 0..(SHOWN - 1) |-> 170]

Init ==
    /\ buf = Blank /\ ipaddr = Zeros(4) /\ seqnum = 10 /\ ipid = 2
    /\ request = None /\ sent = <<>> /\ again = <<>> /\ passes = 0

Took(r, result, other) ==
    /\ request' = r /\ buf' = result.buf /\ sent' = result.sent /\ again' = other.sent

Receive ==
    \E r \in Requests, dlen \in Sizes :
        /\ 54 + dlen < BUFFER_SIZE
        /\ Took(r, packetloop(Received(buf, r), r.len, dlen), packetloop(Received(Noise, r), r.len, dlen))
        /\ seqnum' = IF sent' # <<>> /\ r.bytes[P.IP_PROTO_P] = TCP_V /\ r.bytes[P.TCP_FLAGS_P] = SYN
                     THEN (seqnum + 3) % 256 ELSE seqnum
        /\ UNCHANGED ipid

IpFrame(b, which, h, n) ==
    CASE which = "ping" -> client_icmp_request(b, h)
      [] which = "ntp" -> client_ntp_request(b, h, 7)
      [] which = "wol" -> send_wol(b, h)
      [] which = "udp" -> send_udp(b, h, n)
      [] which = "discover" -> send_dhcp_discover(b, 7)
      [] which = "renew" -> send_dhcp_renew_request(b, 7)
      [] which = "syn" -> tcp_client_syn(b, h, 33, 80)
SendIp ==
    \E which \in {"ping", "ntp", "wol", "udp", "discover", "renew", "syn"}, h \in Peers, n \in Sizes :
        /\ Took(None, IpFrame(buf, which, h, n), IpFrame(Noise, which, h, n))
        /\ seqnum' = IF which = "syn" THEN (seqnum + 3) % 256 ELSE seqnum
        /\ ipid' = (ipid + 1) % 256

SendArp ==
    /\ \/ Took(None, gratutious_arp(buf), gratutious_arp(Noise))
       \/ \E h \in Peers : Took(None, client_arp_whohas(buf, h), client_arp_whohas(Noise, h))
    /\ UNCHANGED <<seqnum, ipid>>

\* client_ifconfig, or init_udp_or_www_server.
client_ifconfig ==
    /\ ipaddr' = Ip(Me)
    /\ request' = None /\ sent' = <<>> /\ again' = <<>>
    /\ UNCHANGED <<buf, seqnum, ipid>>

Next ==
    /\ passes < MAX_PASSES /\ passes' = passes + 1
    /\ \/ (Receive \/ SendIp \/ SendArp) /\ UNCHANGED ipaddr
       \/ client_ifconfig

Spec == Init /\ [][Next]_framevars

-----------------------------------------------------------------------------
(* Properties *)

\* Everything is a byte, and frames fit Ethernet.
TypeOK ==
    /\ \A i \in DOMAIN buf : buf[i] \in 0..255
    /\ {seqnum, ipid} \subseteq 0..255
    /\ \A k \in DOMAIN sent : sent[k].len \in 42..1514
    /\ passes \in 0..MAX_PASSES

IsIp(f) == Get(f.bytes, P.ETH_TYPE_H_P, 2) = ETHTYPE_IP
Total(f) == Word(f.bytes, P.IP_TOTLEN_H_P)
Proto(f) == f.bytes[P.IP_PROTO_P]
IsEchoReply(f) == Proto(f) = ICMP_V /\ f.bytes[P.ICMP_TYPE_P] = 0
CarryLost(r) == r.bytes[P.ICMP_CHECKSUM_P] > 247 /\ r.bytes[P.ICMP_CHECKSUM_P + 1] = 255

\* What a receiver accepts of a frame sent when r had been received.
SoundFrame(f, r) ==
    /\ Get(f.bytes, P.ETH_SRC_MAC, 6) = Mac(Me)
    /\ IsIp(f) =>
        /\ Checksum(f.bytes, P.IP_P, 20, 0) = 0
        /\ Proto(f) = UDP_V => Word(f.bytes, P.UDP_LEN_H_P) = Total(f) - 20
        /\ Proto(f) \in {UDP_V, TCP_V} => Checksum(f.bytes, P.IP_SRC_P, Total(f) - 12, Proto(f)) = 0
        /\ IF IsEchoReply(f)
           THEN /\ f.len >= Total(f) + 14 <=> Total(r) + 14 < BUFFER_SIZE
                /\ Checksum(f.bytes, P.ICMP_TYPE_P, Total(f) - 20, 0) = 0 <=> ~CarryLost(r)
           ELSE /\ f.len = Total(f) + 14
                /\ Proto(f) = ICMP_V => Checksum(f.bytes, P.ICMP_TYPE_P, Total(f) - 20, 0) = 0

\* What makes a frame an answer to r.
GoesBack(g, r) ==
    LET f == g.bytes
        q == r.bytes
        Swaps(a, b, n) == Get(f, a, n) = Get(q, b, n)
        data == get_tcp_data_len(q)
    IN  /\ Swaps(P.ETH_DST_MAC, P.ETH_SRC_MAC, 6)
        /\ IF IsIp(g)
           THEN /\ Swaps(P.IP_DST_P, P.IP_SRC_P, 4) /\ Swaps(P.IP_SRC_P, P.IP_DST_P, 4)
                /\ f[P.IP_PROTO_P] # ICMP_V => Swaps(P.DST_PORT_H_P, P.SRC_PORT_H_P, 2)
                /\ f[P.IP_PROTO_P] # ICMP_V => Swaps(P.SRC_PORT_H_P, P.DST_PORT_H_P, 2)
                /\ f[P.IP_PROTO_P] = TCP_V =>
                    /\ Has(f[P.TCP_FLAGS_P], SYN) \/ Swaps(P.TCP_SEQ_H_P, P.TCP_SEQACK_H_P, 4)
                    /\ Get(f, P.TCP_SEQACK_H_P, 4)
                         = AddTo(Get(q, P.TCP_SEQ_H_P, 4),
                                 IF data = 0 \/ Has(f[P.TCP_FLAGS_P], SYN) THEN 1 ELSE data)
           ELSE /\ Swaps(P.ETH_ARP_DST_MAC_P, P.ETH_ARP_SRC_MAC_P, 6)
                /\ Swaps(P.ETH_ARP_DST_IP_P, P.ETH_ARP_SRC_IP_P, 4)
                /\ Swaps(P.ETH_ARP_SRC_IP_P, P.ETH_ARP_DST_IP_P, 4)

\* ip_arp_udp_tcp.c:274-299, 448-643, 664-1104: the receiver accepts
\* every frame: header and transport checksums hold over the fields as they were
\* sent, for the length the header states, and the lengths of IP, UDP and
\* Ethernet agree.  An echo reply is short exactly when its request did not fit
\* the buffer, and its checksum wrong exactly when the second carry was lost.
FramesSound == \A k \in DOMAIN sent : SoundFrame(sent[k], request)

\* ip_arp_udp_tcp.c:263-391, 448-539, 580-643: a reply goes back to the
\* sender of the request, addresses and ports exchanged exactly once although a
\* request is answered twice from the one buffer; its sequence number is the one
\* acknowledged, and it acknowledges what the request carried.
ReplyGoesBack == request # None => \A k \in DOMAIN sent : GoesBack(sent[k], request)

\* ip_arp_udp_tcp.c:649-1104: no frame holds anything of an earlier packet.
\* Whatever the buffer held, a pass sends the same bytes.
OnlyOwnBytes == sent = again
=============================================================================
