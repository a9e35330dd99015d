------------------------------ MODULE DnsLookup ------------------------------
(***************************************************************************)
(* The look-up of a name in dnslkup.c: dnslkup_request writes a question   *)
(* into the one packet buffer and sends it, udp_client_check_for_dns_answer *)
(* looks at every packet that arrives later.                               *)
(*                                                                         *)
(* Nothing of the question is kept but the counter dnstid_l: it is the low *)
(* byte of the source port and of the transaction id, whose high byte      *)
(* carries the length of the question so that the answer can be read       *)
(* without parsing it.  The answer is walked with an index of one byte.    *)
(*                                                                         *)
(* dns is the data part of the UDP packet in the buffer: what a packet     *)
(* does not overwrite stays from the one before.                           *)
(*                                                                         *)
(* An answer, once sent, may arrive at any time, any number of times, or   *)
(* never.                                                                  *)
(***************************************************************************)
EXTENDS Integers, Sequences, FiniteSetsExt, SequencesExt

CONSTANTS
    Names,          \* names that exist, each a sequence of labels of characters
    AddressOf(_),   \* the first octet of a name's address
    Forms,          \* how names are written in answers: "pointer", "full", "mixed"
    Extras,         \* records before the address: 0..n
    TID,            \* 2^8: transaction ids
    INDEX,          \* 2^8: the index into the answer is a byte
    MaxRequests     \* a bound on the application


VARIABLES
    dnstid_l, haveDNSanswer, dns_ansError, dns_answerip,
    dns,            \* data part of the buffer
    asked,          \* the name in the last question sent, <<>> before
    questions,      \* number of questions sent
    dnsNet,         \* questions not answered yet, and answers
    hung,           \* the walk through an answer does not end
    taken           \* history: the last answer accepted: its question, its length,
                    \* whether it has no record

dnsResult == <<haveDNSanswer, dns_ansError, dns_answerip, hung, taken>>
dnsvars == <<dnstid_l, dnsResult, dns, asked, questions, dnsNet>>

NoAddress == <<0, 0, 0, 0>>
DOT == 46
SERVER_PORT == 53
\* first octet of a source port of the client
DNSCLIENT_SRC_PORT_H == 224

\* The buffer after bytes were written to its beginning.
Over(bytes) == bytes \o SubSeq(dns, Len(bytes) + 1, Len(dns))

-----------------------------------------------------------------------------
(* dnslkup_request *)

\* a host name as the application gives it, with dots
HostName(name) == Tail(FlattenSeq([k \in DOMAIN name |-> <<DOT>> \o name[k]]))

\* Every dot, and an imagined one in front, becomes the length of what follows.
Encoded(host) ==
    LET s == <<DOT>> \o host
        End(i) == Min({ j \in (i + 1)..Len(s) : s[j] = DOT } \cup {Len(s) + 1})
    IN  [i \in DOMAIN s |-> IF s[i] = DOT THEN End(i) - i - 1 ELSE s[i]] \o <<0>>

TypeAClassIN == <<0, 1, 0, 1>>

Question(host, tid) ==
    LET question == Encoded(host) \o TypeAClassIN
    IN  <<Len(question), tid, 1, 0, 0, 1, 0, 0, 0, 0, 0, 0>> \o question

\* Mutant of NextTid: every question has the same id.
NextTidStuck == dnstid_l
NextTid == (dnstid_l + 1) % TID

\* up: the answer of enc28j60linkup().
dnslkup_request(name, up) ==
    /\ ~hung /\ (up => questions < MaxRequests)
    /\ haveDNSanswer' = FALSE
    /\ IF up
       THEN LET bytes == Question(HostName(name), NextTid)
            IN  /\ dns_ansError' = 0 /\ dnstid_l' = NextTid /\ questions' = questions + 1 /\ asked' = name
                /\ dns' = Over(bytes)
                /\ dnsNet' = dnsNet \cup
                      {[to |-> "server", sport |-> <<DNSCLIENT_SRC_PORT_H, NextTid>>,
                        dport |-> SERVER_PORT, bytes |-> bytes, number |-> questions']}
       ELSE dns_ansError' = 4 /\ UNCHANGED <<dnstid_l, questions, asked, dns, dnsNet>>
    /\ UNCHANGED <<dns_answerip, hung, taken>>

-----------------------------------------------------------------------------
(* udp_client_check_for_dns_answer.  b is the data part of the buffer with *)
(* indices from 0, n the length of the packet's data.                      *)

Byte(b, i) == IF i < Len(b) THEN b[i + 1] ELSE 0
\* plen-UDP_DATA_P-7
Limit(n) == n - 7

\* Mutant of AfterName: a pointer is taken for one byte.
AfterNameOneByte(b, n, i) == (i + 1) % INDEX
\* Over the name at i: two bytes of a pointer, or up to a zero, as long as the
\* index is below the limit; -1 if the search never ends.
AfterName(b, n, i) ==
    LET At(k) == (i + k) % INDEX
        Ends == { k \in 1..INDEX : Byte(b, At(k)) = 0 }
        Beyond == { k \in 0..(INDEX - 1) : At(k) >= Limit(n) }
    IN  IF Byte(b, i) >= 64 THEN At(2)
        ELSE IF Beyond # {} /\ (Ends = {} \/ Min(Beyond) < Min(Ends)) THEN At(Min(Beyond))
        ELSE IF Ends # {} THEN At(Min(Ends) + 1)
        ELSE -1

Found(error, address) == [error |-> error, address |-> address, at |-> -1]
GoOn(i) == [error |-> 0, address |-> NoAddress, at |-> i]
Hangs == Found(-1, NoAddress)

\* Over the record whose type is at t.
AfterRecord(b, t) ==
    LET r == (t + 8) % INDEX IN (r + Byte(b, r + 1) + 2) % INDEX

\* One record, from its name at i.
Record(b, n, i) ==
    LET t == AfterName(b, n, i)
    IN  IF t = -1 THEN Hangs
        ELSE IF Byte(b, t + 1) # 1
             THEN IF AfterRecord(b, t) < Limit(n) THEN GoOn(AfterRecord(b, t))
                  ELSE Found(3, NoAddress)
        ELSE IF Byte(b, t + 9) # 4 THEN Found(2, NoAddress)
        ELSE LET a == (t + 10) % INDEX
             IN  Found(0, [j \in 1..4 |-> Byte(b, a + j - 1)])

\* ChecNextResp, k times at most: what is found from an index on.  An index that
\* comes back never ends.
Walk(b, n) ==
    LET found[k \in 0..INDEX] ==
            [i \in 0..(INDEX - 1) |->
                IF k = 0 THEN Hangs
                ELSE LET r == Record(b, n, i) IN IF r.at = -1 THEN r ELSE found[k - 1][r.at]]
    IN  found[INDEX][(12 + Byte(b, 0)) % INDEX]

IsAnswer(m) ==
    /\ Len(m.bytes) >= 28       \* plen >= 70
    /\ m.sport = SERVER_PORT
    /\ m.dport = <<DNSCLIENT_SRC_PORT_H, dnstid_l>>
    /\ m.bytes[2] = dnstid_l

\* recursion available, and no error; (flags & 0x8F) == 0x80
FlagsGood(m) == (m.bytes[4] \div 128) % 2 = 1 /\ m.bytes[4] % 16 = 0

udp_client_check_for_dns_answer(m) ==
    /\ m.to = "board" /\ ~hung
    /\ dns' = Over(m.bytes \o <<0>>)       \* enc28j60ReadBuffer ends it with a zero
    /\ LET walk == Walk(dns', Len(m.bytes))
           good == IsAnswer(m) /\ FlagsGood(m)
       IN  /\ hung' = (good /\ walk = Hangs)
           /\ IF good /\ walk.error = 0
              THEN haveDNSanswer' = TRUE /\ dns_answerip' = walk.address
                   /\ taken' = [number |-> m.number, len |-> Len(m.bytes), empty |-> m.empty]
                   /\ UNCHANGED dns_ansError
              ELSE /\ dns_ansError' = IF ~IsAnswer(m) \/ hung' THEN dns_ansError
                                      ELSE IF good THEN walk.error ELSE 1
                   /\ UNCHANGED <<haveDNSanswer, dns_answerip, taken>>
    /\ UNCHANGED <<dnstid_l, asked, questions, dnsNet>>

-----------------------------------------------------------------------------
(* The server (external) *)

Wire(name) == FlattenSeq([k \in DOMAIN name |-> <<Len(name[k])>> \o name[k]]) \o <<0>>
Written(form, name) ==
    CASE form = "pointer" -> <<192, 12>>
      [] form = "full"    -> Wire(name)
      [] form = "mixed"   -> <<1, 119, 192, 12>>

CNAME == 5
Resource(form, name, type, data) ==
    Written(form, name) \o <<0, type, 0, 1, 0, 0, 0, 60, 0, Len(data)>> \o data
Alias(form, name) == Resource(form, name, CNAME, <<192, 12>>)
Address(name) == <<AddressOf(name), 0, 1, 2>>

\* n aliases, and then the address or nothing
Records(form, name, n, address) ==
    FlattenSeq([k \in 1..n |-> Alias(form, name)])
        \o (IF address THEN Resource(form, name, 1, Address(name)) ELSE <<>>)

Reply(q, name, flags, records, address) ==
    [to |-> "board", sport |-> SERVER_PORT, dport |-> q.sport, number |-> q.number, name |-> name,
     address |-> address, empty |-> records = <<>>,
     bytes |-> <<q.bytes[1], q.bytes[2], 129, flags, 0, 1, 0, 1, 0, 0, 0, 0>>
                   \o SubSeq(q.bytes, 13, Len(q.bytes)) \o records]
Replies(q, name) ==
    { Reply(q, name, 128, Records(form, name, n, address), address) :
          form \in Forms, n \in Extras, address \in BOOLEAN }

\* To what was asked, or that there is no such name.
RepliesTo(q) ==
    {Reply(q, <<>>, 131, <<>>, FALSE)} \cup
    UNION { Replies(q, name) :
              name \in { x \in Names : SubSeq(q.bytes, 13, Len(q.bytes)) = Wire(x) \o TypeAClassIN } }

\* The server answers what it was asked, once.
ServerAnswers ==
    /\ \E q \in dnsNet : q.to = "server" /\ \E m \in RepliesTo(q) : dnsNet' = (dnsNet \ {q}) \cup {m}
    /\ UNCHANGED <<dnstid_l, dnsResult, dns, asked, questions>>

-----------------------------------------------------------------------------
\* Names as they may be: the index of one byte goes over the question, and names
\* are told apart by how they are written.
Chars == (1..255) \ {DOT}
DnsConstants ==
    /\ TID \in Nat /\ TID >= 2 /\ INDEX \in Nat /\ INDEX >= 28
    /\ MaxRequests \in Nat /\ \A n \in Extras : n \in Nat
    /\ \A name \in Names :
        /\ name \in Seq(Seq(Chars)) /\ name # <<>>
        /\ AddressOf(name) \in Nat /\ AddressOf(name) <= 255
        /\ \A k \in DOMAIN name : 1 <= Len(name[k]) /\ Len(name[k]) <= 63
        /\ Len(Wire(name)) + 16 < INDEX
    /\ \A name, other \in Names : Wire(name) = Wire(other) => name = other

Init ==
    /\ dnstid_l = 0 /\ haveDNSanswer = FALSE /\ dns_ansError = 0
    /\ dns_answerip = NoAddress
    /\ dns = <<>> /\ asked = <<>> /\ questions = 0
    /\ dnsNet = {}
    /\ hung = FALSE /\ taken = [number |-> 0, len |-> 0, empty |-> FALSE]

Next ==
    \/ \E name \in Names, up \in BOOLEAN : dnslkup_request(name, up)
    \/ \E m \in dnsNet : udp_client_check_for_dns_answer(m)
    \/ ServerAnswers

Spec == Init /\ [][Next]_dnsvars

-----------------------------------------------------------------------------
(* Properties *)

\* What the index of one byte reaches, of an answer that has records.
Readable(len, empty) == len < INDEX /\ ~empty

\* dnslkup_get_ip: the address handed out belongs to the name last asked for,
\* however late, often and out of order answers to earlier questions arrive, and
\* although nothing of the question is kept but a counter: unless the answer has
\* outlived all the other values of that counter, is longer than the index of
\* one byte can reach, or has no record at all.
AnswerIsForQuestion ==
    haveDNSanswer /\ taken.number > questions - TID /\ Readable(taken.len, taken.empty) =>
        dns_answerip = Address(asked)

\* Reading an answer, in one step.
ReadsAnswer ==
    \A m \in dnsNet :
        /\ m.to = "board" /\ IsAnswer(m) /\ (FlagsGood(m) => Readable(Len(m.bytes), m.empty))
        /\ udp_client_check_for_dns_answer(m)
        => IF m.address THEN haveDNSanswer' /\ dns_answerip' = Address(m.name)
           ELSE ~hung' /\ dns_ansError' \in {1, 3} /\ haveDNSanswer' = haveDNSanswer

\* "there might be multiple answers", "we are searching for an A record": an
\* answer within the reach of the index is walked to its first address, past
\* aliases written in full or by a pointer; one without any is reported as such
\* and not answered from what an earlier packet left in the buffer.
AnswerIsRead == [][ReadsAnswer]_dnsvars

\* The walk through an answer ends.  It does within the reach of the index.
WalkEnds == ~hung

\* "no A record found but packet ends": an answer without one is not accepted.
\* It is if it has no record at all: the walk begins behind its end.
EmptyNotAccepted == haveDNSanswer => ~taken.empty
=============================================================================
