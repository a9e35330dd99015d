------------------------------- MODULE NmeaRx -------------------------------
(***************************************************************************)
(* The receiver's sentences: the USART interrupt of avr/gpsdo/main.c fills *)
(* gpsMsgs[0] and copies a finished sentence of a known kind into its own  *)
(* record, while the web page, in the main loop, measures that record with *)
(* strlen and then copies as many bytes (fill_tcp_data).  The interrupt    *)
(* may come between any two bytes the main loop reads; it is not itself    *)
(* interrupted by anything that touches these buffers.                     *)
(*                                                                         *)
(* One record stands for the three; a kind is recognised by its first two  *)
(* bytes, "$" and "A", in place of seven.  Any byte may arrive at any time *)
(* since a UART loses and corrupts bytes.                                  *)
(***************************************************************************)
EXTENDS Integers, Sequences

CONSTANTS
    LAST,   \* 82: last index of a record, where only a terminator may go
    Bytes   \* received bytes: "$", "A", "NL" (newline), other text, and 0

NUL == "0"

\* A parameter of the model: room for a sentence, and the bytes the code knows.
NmeaConstants == LAST \in Nat /\ LAST >= 3 /\ {"$", "A", "NL"} \subseteq Bytes

Index == 0..LAST

VARIABLES
    rx, rx_cnt,     \* gpsMsgs[0] and its fill count
    record,         \* gpsMsgs[1], or [2], or [3]
    pc, at, len,    \* the page: "idle", "strlen" or "copy", its index, length
    overrun,        \* history: some index left the 83 bytes of its record
    heard,          \* history: the bytes since the last "$", one more than fit at most
    shown           \* history: what was heard when a sentence of the kind last ended

historyVars == <<heard, shown>>
vars == <<rx, rx_cnt, record, pc, at, len, overrun, historyVars>>

Init ==
    /\ rx = [i \in Index |-> NUL] /\ rx_cnt = 0
    /\ record = [i \in Index |-> NUL]
    /\ pc = "idle" /\ at = 0 /\ len = 0 /\ overrun = FALSE
    /\ heard = <<>> /\ shown = <<>>

-----------------------------------------------------------------------------
(* USARTC1_RXC_vect *)

Put(s, i, byte) == IF i \in Index THEN [s EXCEPT ![i] = byte] ELSE s

\* strcpy: everything up to the first terminator, which is copied too
Strcpy(to, from) ==
    [i \in Index |-> IF \A j \in 0..(i - 1) : from[j] # NUL THEN from[i] ELSE to[i]]

Recognised(s) == s[0] = "$" /\ s[1] = "A"

\* A full buffer ignores everything but the start of a sentence.
\* Mutant of Ignored: one byte more.
IgnoredPast(byte) == byte # "$" /\ rx_cnt > LAST
Ignored(byte) == byte # "$" /\ rx_cnt >= LAST

\* Mutant of Slot: a new sentence does not start over.
SlotNext(byte) == rx_cnt
Slot(byte) == IF byte = "$" THEN 0 ELSE rx_cnt

Store(byte) ==
    LET i == Slot(byte)
        line == Put(rx, i, byte)
        done == Put(line, i + 1, NUL)
    IN  /\ rx_cnt' = i + 1
        /\ IF byte = "NL"
           THEN /\ rx' = done
                /\ record' = IF Recognised(done) THEN Strcpy(record, done) ELSE record
                /\ overrun' = (overrun \/ i + 1 \notin Index)
           ELSE /\ rx' = line /\ overrun' = (overrun \/ i \notin Index)
                /\ UNCHANGED record

\* History: a sentence that fits is whole at its newline.
Hear(byte) ==
    /\ heard' = IF byte = "$" THEN <<"$">>
                ELSE IF Len(heard) > LAST THEN heard ELSE Append(heard, byte)
    /\ shown' = IF byte = "NL" /\ Len(heard') \in 2..LAST /\ heard'[1] = "$" /\ heard'[2] = "A"
                THEN heard' ELSE shown

ReceiveByte(byte) ==
    /\ IF Ignored(byte) THEN UNCHANGED <<rx, rx_cnt, record, overrun>> ELSE Store(byte)
    /\ Hear(byte)
    /\ UNCHANGED <<pc, at, len>>

-----------------------------------------------------------------------------
(* print_webpage: fill_tcp_data(buf, plen, gpsMsgs[k]) *)

StartPage ==
    /\ pc = "idle"
    /\ pc' = "strlen" /\ at' = 0 /\ len' = 0
    /\ UNCHANGED <<rx, rx_cnt, record, overrun, historyVars>>

Measure ==
    /\ pc = "strlen" /\ at \in Index
    /\ IF record[at] = NUL
       THEN pc' = "copy" /\ len' = at /\ at' = 0
       ELSE at' = at + 1 /\ UNCHANGED <<pc, len>>
    /\ overrun' = (overrun \/ at' \notin Index)
    /\ UNCHANGED <<rx, rx_cnt, record, historyVars>>

CopyByte ==
    /\ pc = "copy" /\ at < len
    /\ at' = at + 1
    /\ UNCHANGED <<rx, rx_cnt, record, pc, len, overrun, historyVars>>

EndPage ==
    /\ pc = "copy" /\ at = len
    /\ pc' = "idle" /\ at' = 0 /\ len' = 0
    /\ UNCHANGED <<rx, rx_cnt, record, overrun, historyVars>>

Page == StartPage \/ Measure \/ CopyByte \/ EndPage

Next == (\E byte \in Bytes : ReceiveByte(byte)) \/ Page

Spec == Init /\ [][Next]_vars

-----------------------------------------------------------------------------
(* Properties *)

\* No byte sequence, however long or damaged, makes the interrupt write, or the
\* page read, outside the 83 bytes of a record.
StaysInside == ~overrun /\ {rx_cnt, at, len} \subseteq Index

\* The page's strlen stops inside the record although the interrupt may replace
\* the sentence under it by a shorter or a longer one any number of times: at
\* every moment there is a terminator at or after the byte it looks at.
TerminatorAhead ==
    pc = "strlen" => \E i \in Index : i >= at /\ record[i] = NUL

\* The bytes of a text up to its terminator, which is all that C looks at.
AsString(s) == [i \in Index |-> IF i < Len(s) THEN s[i + 1] ELSE NUL]
SameText(a, b) == \A i \in Index : (\A j \in 0..(i - 1) : a[j] # NUL) => a[i] = b[i]

\* A record shows, byte for byte and in order, what was heard from a "$" of its kind
\* to a newline: nothing that the line or the record held before, nothing from before
\* a later "$", no sentence longer than the line.  It says nothing of a newline in between:
\* when the next sentence has lost its "$", see RecordEndsAtNewline.
RecordAsReceived == SameText(AsString(shown), record)

\* main.c:289, "end-of-message": the text of a record ends at the first newline.  The
\* count is not reset there, so that a sentence that has lost its "$" is appended to
\* the one before it, and both are copied into the record at the next newline.
RecordEndsAtNewline ==
    \A i \in 0..(LAST - 1) :
        record[i] = "NL" /\ (\A j \in 0..i : record[j] # NUL) => record[i + 1] = NUL
=============================================================================
