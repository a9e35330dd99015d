------------------------------ MODULE TcpClient ------------------------------
(***************************************************************************)
(* The TCP client of ip_arp_udp_tcp.c and the HTTP client on top of it:    *)
(* client_tcp_req and client_browse_url start a request, an idle pass of   *)
(* packetloop_arp_icmp_tcp sends its SYN, and every later step answers a   *)
(* segment of the other side.  The board has no timer and repeats nothing. *)
(*                                                                         *)
(* Segments are told apart by the other side's address and the high byte   *)
(* of the port alone.  The low byte carries three bits of file descriptor, *)
(* by which the application tells whose answer it is, so that segments of  *)
(* an earlier request may drive the state of a later one.                  *)
(***************************************************************************)
EXTENDS Integers, FiniteSets

CONSTANTS
    Servers,        \* addresses of other sides
    FDS,            \* 8: file descriptors
    Contents,       \* of a first data segment: "page", "garbage", "short"
    Refusing,       \* servers that refuse connections
    MaxFetches      \* a bound on requests and duplicates together

\* A parameter of the model.
TcpConstants ==
    /\ FDS \in Nat \ {0} /\ Refusing \subseteq Servers
    /\ MaxFetches \in Nat

VARIABLES
    tcp_client_state,   \* 0 unused, 1 send SYN, 2 SYN sent, 3 request sent,
                        \* 4 data came, 5 FIN sent, 6 finished, 7 reset
    tcp_fd, tcp_otherside_ip,
    http,               \* the callbacks are the HTTP client's, else the application's
    segments, tcpDups,
    fetch,              \* history: number of the request
    told,               \* history: callbacks of the request to the application
    datas,              \* history: callbacks of the request with data
    silenced            \* history: the request may end without a word, see Silences

request == <<tcp_fd, tcp_otherside_ip, http, fetch>>
tcpvars == <<tcp_client_state, request, segments, tcpDups, told, datas, silenced>>

\* Between the board and server; descriptor in the board's port, whose other five
\* bits are a counter that the board never looks at; the request it is about.
Segment(to, server, fd, about, kind, content) ==
    [to |-> to, server |-> server, fd |-> fd, about |-> about, kind |-> kind,
     content |-> content]

-----------------------------------------------------------------------------
(* The application *)

\* client_browse_url, client_http_post (http), or client_tcp_req.
Request(server, isHttp) ==
    /\ fetch + tcpDups < MaxFetches
    /\ tcp_otherside_ip' = server /\ http' = isHttp
    /\ tcp_client_state' = 1 /\ tcp_fd' = (tcp_fd + 1) % FDS
    /\ fetch' = fetch + 1 /\ told' = {} /\ datas' = 0 /\ silenced' = FALSE
    /\ UNCHANGED <<segments, tcpDups>>

\* www_client_internal_result_callback; what the browser callback is told.
\* Mutant of HttpResult: the descriptor is not looked at.
HttpResultAnyFd(fd, statuscode, content) ==
    IF statuscode = 0 /\ content # "short"
    THEN IF content = "page" THEN {200} ELSE {0} ELSE {}
HttpResult(fd, statuscode, content) ==
    IF fd # tcp_fd THEN {500}
    ELSE IF statuscode = 0 /\ content # "short"
    THEN IF content = "page" THEN {200} ELSE {0} ELSE {}

\* An application of its own is told everything, and ignores descriptors of
\* others; it asks for the session to be closed.
Results(fd, statuscode, content) ==
    IF http THEN HttpResult(fd, statuscode, content)
    ELSE IF fd = tcp_fd THEN {IF statuscode = 0 THEN 200 ELSE statuscode} ELSE {}

Callback(m, statuscode) ==
    told' = told \cup
        { [code |-> c, about |-> m.about] : c \in Results(m.fd, statuscode, m.content) }

-----------------------------------------------------------------------------
(* packetloop_arp_icmp_tcp *)

\* without a packet
SendSyn ==
    /\ tcp_client_state = 1
    /\ tcp_client_state' = 2
    /\ segments' = segments \cup
          {Segment("server", tcp_otherside_ip, tcp_fd, fetch, "syn", "none")}
    /\ UNCHANGED <<request, tcpDups, told, datas, silenced>>

IsFin(m) == m.kind \in {"fin", "datafin"}
IsAck(m) == m.kind # "rst"
HasData(m) == m.kind \in {"data", "datafin"}

Answer(m, kind) == {Segment("server", m.server, m.fd, m.about, kind, "none")}
\* The network delivers m, and possibly once more (external).
Deliver(m, answers) ==
    \/ segments' = (segments \ {m}) \cup answers /\ UNCHANGED tcpDups
    \/ fetch + tcpDups < MaxFetches /\ tcpDups' = tcpDups + 1 /\ segments' = segments \cup answers
Stay(m) == Deliver(m, {}) /\ UNCHANGED tcp_client_state
Go(m, state, kind) == Deliver(m, Answer(m, kind)) /\ tcp_client_state' = state

Ignored(m) ==
    /\ m.server # tcp_otherside_ip
    /\ Stay(m) /\ UNCHANGED <<told, datas>>

Reset(m) ==
    /\ m.server = tcp_otherside_ip /\ m.kind = "rst"
    /\ Callback(m, 3)
    /\ Deliver(m, {}) /\ tcp_client_state' = 6
    /\ UNCHANGED datas

SynSent(m) ==
    /\ m.server = tcp_otherside_ip /\ m.kind # "rst"
    /\ tcp_client_state = 2
    /\ IF m.kind = "synack" THEN Go(m, 3, "get") ELSE Go(m, 1, "rst")
    /\ UNCHANGED <<told, datas>>

\* Mutant of FirstData: every data segment is handed to the callback.
FirstDataAlways(m) == HasData(m)
FirstData(m) == tcp_client_state = 3 /\ HasData(m)

\* What follows the callback, in the given state.
Follow(m, state) ==
    IF state = 5 THEN Deliver(m, {}) /\ tcp_client_state' = IF IsAck(m) THEN 6 ELSE 5
    ELSE IF state = 6 THEN Go(m, 7, "rst")
    ELSE IF IsFin(m) THEN Go(m, 5, "finack")
    ELSE /\ Deliver(m, IF HasData(m) THEN Answer(m, "ack") ELSE {})
         /\ tcp_client_state' = state

Established(m) ==
    /\ m.server = tcp_otherside_ip /\ m.kind # "rst"
    /\ tcp_client_state # 2
    /\ IF FirstData(m)
       THEN /\ Callback(m, 0) /\ datas' = datas + 1
            /\ IF http THEN Follow(m, 4) ELSE Go(m, 5, "fin")
       ELSE Follow(m, tcp_client_state) /\ UNCHANGED <<told, datas>>

\* A segment of an earlier connection to the same host drives this one's state,
\* or the HTTP client hears of a refusal, or of too short a reply, and says nothing.
Silences(m) ==
    /\ m.server = tcp_otherside_ip
    /\ IF m.about # fetch
       THEN m.kind = "rst" \/ (tcp_client_state # 2 /\ (HasData(m) \/ IsFin(m)))
       ELSE http /\ (m.kind = "rst" \/ (FirstData(m) /\ m.content = "short"))

PacketPass(m) ==
    /\ m.to = "board"
    /\ Ignored(m) \/ Reset(m) \/ SynSent(m) \/ Established(m)
    /\ silenced' = (silenced \/ Silences(m))
    /\ UNCHANGED request

-----------------------------------------------------------------------------
(* Servers (external) *)

\* What a server may answer: sets of segments, as [kind, content].
Plain(kind) == [kind |-> kind, content |-> "none"]
First == { [kind |-> k, content |-> c] : k \in {"data", "datafin"}, c \in Contents }
Reactions(m) ==
    CASE m.kind = "syn"    -> {{Plain(IF m.server \in Refusing THEN "rst" ELSE "synack")}}
      [] m.kind = "get"    -> { {d} : d \in First }
      [] m.kind = "ack"    -> {{Plain("fin")}}
      [] m.kind = "finack" -> {{Plain("ack")}}
      [] m.kind = "fin"    -> {{Plain("ack"), Plain("fin")}}
      [] m.kind = "rst"    -> {{}}

ServerReacts ==
    /\ \E m \in segments :
        /\ m.to = "server"
        /\ \E answers \in Reactions(m) :
              segments' = (segments \ {m}) \cup
                  { Segment("board", m.server, m.fd, m.about, a.kind, a.content) : a \in answers }
    /\ UNCHANGED <<tcp_client_state, request, tcpDups, told, datas, silenced>>

-----------------------------------------------------------------------------
Init ==
    /\ tcp_client_state = 0 /\ tcp_fd = 0
    /\ tcp_otherside_ip = "none" /\ http = FALSE
    /\ segments = {} /\ tcpDups = 0
    /\ fetch = 0 /\ told = {} /\ datas = 0 /\ silenced = FALSE

Board == SendSyn \/ \E m \in segments : PacketPass(m)

Next ==
    \/ \E server \in Servers, isHttp \in BOOLEAN : Request(server, isHttp)
    \/ Board
    \/ ServerReacts

Spec == Init /\ [][Next]_tcpvars

\* main polls, the link comes up, segments arrive, servers answer.
FairSpec ==
    Spec /\ WF_tcpvars(Board) /\ WF_tcpvars(ServerReacts)

-----------------------------------------------------------------------------
(* Properties *)

\* "fd ... so you know to which call of client_tcp_req this callback belongs":
\* the application never takes the data of an earlier request for that of its
\* last one, although segments of any connection to the same host are accepted
\* at any time; unless all other descriptors have been used in between.
DataIsOwn ==
    \A t \in told : t.code \in {0, 200} /\ fetch - t.about < FDS => t.about = fetch

\* "This callback gives you access to the TCP data of the first packet returned":
\* one and no more, whatever is repeated, comes late or belongs to others.
DataOnce == datas <= 1

=============================================================================
