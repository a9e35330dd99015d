---------------------------- MODULE BytesProofs -----------------------------
(***************************************************************************)
(* Theorems about what goes through a buffer byte by byte.                 *)
(*                                                                         *)
(* NmeaRx, for every length of record and every set of bytes a line may    *)
(* carry: interrupt and page stay inside their buffers, and a record shows *)
(* what was received from a "$" to a newline.                              *)
(*                                                                         *)
(* InetChecksum, for bytes of any size, packets of any length and any      *)
(* pseudo headers: what is sent with the result of checksum() is accepted, *)
(* and exactly which corrected checksums of echo replies are not.          *)
(*                                                                         *)
(* Frames, for any peers, any lengths of data up to 1400 bytes, any data   *)
(* and any order of passes: every frame is acceptable to its receiver, a   *)
(* reply goes back to where its request came from, and what is sent does   *)
(* not depend on what was in the buffer before.                            *)
(*                                                                         *)
(* DnsLookup, for any names, ids and numbers of aliases, names in answers  *)
(* in full or by pointer: an answer is read as it was meant, and what is   *)
(* handed out is the address of the name last asked for.                   *)
(***************************************************************************)
EXTENDS MCBytes, FiniteSums

-----------------------------------------------------------------------------
(* The receiver's sentences *)

\* What is assumed of the constants.
LEMMA LineConstants == LAST \in Nat /\ LAST >= 3 /\ {"$", "A", "NL"} \subseteq Bytes
BY BytesAssumption DEF Nmea!NmeaConstants

\* The line buffer: what was heard since the last "$", as far as there is room for it.
LineInv ==
    /\ rx_cnt \in Nmea!Index /\ ~overrun /\ DOMAIN rx = Nmea!Index
    /\ heard \in Seq(Bytes) /\ Len(heard) <= LAST + 1
    /\ rx_cnt = IF Len(heard) > LAST THEN LAST ELSE Len(heard)
    /\ \A j \in 0..(rx_cnt - 1) : rx[j] = heard[j + 1]

\* The record: its last byte is never text.
RecordInv ==
    /\ DOMAIN record = Nmea!Index /\ record[LAST] = Nmea!NUL
    /\ RecordAsReceived

\* The page: its index never passes a terminator.
PageInv ==
    /\ page_pc \in {"idle", "strlen", "copy"}
    /\ page_at \in Nmea!Index /\ page_len \in Nmea!Index
    /\ page_pc = "copy" => page_at <= page_len

NmeaInv == LineInv /\ RecordInv /\ PageInv

-----------------------------------------------------------------------------
(* Texts *)

\* The same text as the same text.
LEMMA SameTextTransitive ==
    ASSUME NEW a, NEW b, NEW c, Nmea!SameText(a, b), Nmea!SameText(b, c)
    PROVE  Nmea!SameText(a, c)
<1> SUFFICES ASSUME NEW i \in Nmea!Index, \A j \in 0..(i - 1) : a[j] # Nmea!NUL
             PROVE  a[i] = c[i]
  BY DEF Nmea!SameText
<1>1. \A j \in 0..(i - 1) : j \in Nmea!Index /\ \A k \in 0..(j - 1) : k \in 0..(i - 1)
  BY LineConstants DEF Nmea!Index
<1>2. \A j \in 0..(i - 1) : a[j] = b[j]
  BY <1>1 DEF Nmea!SameText
<1>3. a[i] = b[i] /\ \A j \in 0..(i - 1) : b[j] # Nmea!NUL
  BY <1>2 DEF Nmea!SameText
<1> QED BY <1>3 DEF Nmea!SameText

\* A buffer that begins with some bytes and a terminator holds them as a string.
LEMMA BufferIsString ==
    ASSUME NEW s \in Seq(Bytes), NEW n \in 1..LAST, Len(s) = n,
           NEW buffer, buffer[n] = Nmea!NUL, \A j \in 0..(n - 1) : buffer[j] = s[j + 1]
    PROVE  Nmea!SameText(Nmea!AsString(s), buffer)
<1> DEFINE a == Nmea!AsString(s)
<1>1. \A i \in Nmea!Index : a[i] = IF i < n THEN s[i + 1] ELSE Nmea!NUL
  BY DEF Nmea!AsString
<1>2. LAST \in Nat /\ n \in Nmea!Index
  BY LineConstants DEF Nmea!Index
<1> HIDE DEF a
<1> SUFFICES ASSUME NEW i \in Nmea!Index, \A j \in 0..(i - 1) : a[j] # Nmea!NUL
             PROVE  a[i] = buffer[i]
  BY DEF Nmea!SameText, a
<1>3. i \in 0..LAST
  BY DEF Nmea!Index
<1>4. CASE i < n
  <2>1. i \in 0..(n - 1)
    BY <1>3, <1>4
  <2> QED BY <1>1, <1>4, <2>1
<1>5. CASE i = n
  BY <1>1, <1>5
<1>6. CASE i > n
  <2>1. n \in 0..(i - 1)
    BY <1>3, <1>6
  <2>2. a[n] = Nmea!NUL
    BY <1>1, <1>2
  <2> QED BY <2>1, <2>2
<1> QED BY <1>3, <1>4, <1>5, <1>6

-----------------------------------------------------------------------------
(* The interrupt *)

\* A byte that is not ignored has a place, with one more behind it, and is the last
\* of the bytes heard since the "$"; so it was stored behind the others.
LEMMA ByteStored ==
    ASSUME LineInv, NEW byte \in Bytes, ~Nmea!Ignored(byte), Nmea!Hear(byte)
    PROVE  LET i == Nmea!Slot(byte)
               line == Nmea!Put(rx, i, byte)
               done == Nmea!Put(line, i + 1, Nmea!NUL)
           IN  /\ i \in 0..(LAST - 1)
               /\ heard' \in Seq(Bytes) /\ Len(heard') = i + 1
               /\ DOMAIN line = Nmea!Index /\ \A j \in 0..i : line[j] = heard'[j + 1]
               /\ DOMAIN done = Nmea!Index /\ \A j \in 0..i : done[j] = heard'[j + 1]
               /\ done[i + 1] = Nmea!NUL
<1> DEFINE i == Nmea!Slot(byte)
           line == Nmea!Put(rx, i, byte)
           done == Nmea!Put(line, i + 1, Nmea!NUL)
<1>1. LAST \in Nat /\ LAST >= 3 /\ rx_cnt \in 0..LAST /\ heard \in Seq(Bytes) /\ Len(heard) \in Nat
  BY LineConstants DEF LineInv, Nmea!Index
<1>2. /\ i \in 0..(LAST - 1) /\ heard' \in Seq(Bytes) /\ Len(heard') = i + 1
      /\ heard'[i + 1] = byte
      /\ \A j \in 0..(i - 1) : rx[j] = heard'[j + 1]
  <2>1. CASE byte = "$"
    <3>1. i = 0 /\ heard' = <<byte>>
      BY <2>1 DEF Nmea!Slot, Nmea!Hear
    <3> HIDE DEF i
    <3>2. /\ i \in 0..(LAST - 1) /\ heard' \in Seq(Bytes) /\ Len(heard') = i + 1
          /\ heard'[i + 1] = byte
      BY <1>1, <3>1
    <3>3. 0..(i - 1) = {}
      BY <3>1
    <3> QED BY <3>2, <3>3
  <2>2. CASE byte # "$"
    <3>1. rx_cnt < LAST /\ i = rx_cnt
      BY <1>1, <2>2 DEF Nmea!Ignored, Nmea!Slot
    <3>2. Len(heard) = i /\ i \in 0..(LAST - 1) /\ ~(Len(heard) > LAST)
      BY <1>1, <3>1 DEF LineInv
    <3>3. heard' = Append(heard, byte)
      BY <2>2, <3>2 DEF Nmea!Hear
    <3>4. \A j \in 0..(i - 1) : rx[j] = heard[j + 1]
      BY <3>1 DEF LineInv
    <3> HIDE DEF i
    <3>5. /\ heard' \in Seq(Bytes) /\ Len(heard') = i + 1 /\ heard'[i + 1] = byte
          /\ \A j \in 0..(i - 1) : heard'[j + 1] = heard[j + 1]
      BY <1>1, <3>2, <3>3
    <3> QED BY <3>2, <3>4, <3>5
  <2> QED BY <2>1, <2>2
<1> HIDE DEF i
<1>3. i \in Nmea!Index /\ i + 1 \in Nmea!Index /\ \A j \in 0..i : j \in Nmea!Index
  BY <1>1, <1>2 DEF Nmea!Index
<1>4. line = [rx EXCEPT ![i] = byte] /\ done = [line EXCEPT ![i + 1] = Nmea!NUL]
  BY <1>3 DEF Nmea!Put
<1>5. DOMAIN line = Nmea!Index /\ \A j \in 0..i : line[j] = heard'[j + 1]
  <2>1. DOMAIN line = Nmea!Index /\ line[i] = byte /\ \A j \in Nmea!Index : j # i => line[j] = rx[j]
    BY <1>3, <1>4 DEF LineInv
  <2> HIDE DEF line
  <2>2. ASSUME NEW j \in 0..i PROVE line[j] = heard'[j + 1]
    <3>1. CASE j = i
      BY <1>2, <2>1, <3>1
    <3>2. CASE j # i
      <4>1. j \in 0..(i - 1)
        BY <1>2, <3>2
      <4> QED BY <1>2, <1>3, <2>1, <3>2, <4>1
    <3> QED BY <3>1, <3>2
  <2> QED BY <2>1, <2>2
<1> HIDE DEF line
<1>6. /\ DOMAIN done = Nmea!Index /\ done[i + 1] = Nmea!NUL
      /\ \A j \in 0..i : done[j] = line[j]
  <2>1. \A j \in 0..i : j # i + 1
    BY <1>2
  <2> QED BY <1>3, <1>4, <1>5, <2>1
<1> HIDE DEF done
<1>7. \A j \in 0..i : done[j] = heard'[j + 1]
  BY <1>5, <1>6
<1> QED BY <1>2, <1>5, <1>6, <1>7 DEF i, line, done

\* A copied line ends where it ended, and is the same text.
LEMMA CopiedRecord ==
    ASSUME RecordInv, NEW from, DOMAIN from = Nmea!Index,
           NEW end \in 1..LAST, from[end] = Nmea!NUL
    PROVE  LET to == Nmea!Strcpy(record, from)
           IN  /\ DOMAIN to = Nmea!Index /\ to[LAST] = Nmea!NUL
               /\ Nmea!SameText(from, to)
<1> DEFINE to == Nmea!Strcpy(record, from)
<1>1. LAST \in Nat /\ LAST >= 3 /\ \A j \in 0..LAST : j \in Nmea!Index
  BY LineConstants DEF Nmea!Index
<1>2. DOMAIN to = Nmea!Index
  BY DEF Nmea!Strcpy
<1>3. ASSUME NEW i \in Nmea!Index
      PROVE  to[i] = IF \A j \in 0..(i - 1) : from[j] # Nmea!NUL THEN from[i] ELSE record[i]
  BY DEF Nmea!Strcpy
<1>4. to[LAST] = Nmea!NUL
  <2>1. CASE end = LAST
    BY <1>1, <1>3, <2>1 DEF RecordInv
  <2>2. CASE end # LAST
    <3>1. end \in 0..(LAST - 1)
      BY <1>1, <2>2
    <3> QED BY <1>1, <1>3, <3>1 DEF RecordInv
  <2> QED BY <2>1, <2>2
<1>5. Nmea!SameText(from, to)
  <2> HIDE DEF to
  <2> QED BY <1>3 DEF Nmea!SameText
<1> QED BY <1>2, <1>4, <1>5

\* The receive interrupt keeps line and record, when it stores its byte ...
LEMMA StoreStep ==
    ASSUME NmeaInv, NEW byte \in Bytes, ~Nmea!Ignored(byte), Nmea!Store(byte), Nmea!Hear(byte)
    PROVE  LineInv' /\ RecordInv'
<1> DEFINE i == Nmea!Slot(byte)
           line == Nmea!Put(rx, i, byte)
           done == Nmea!Put(line, i + 1, Nmea!NUL)
<1>1. /\ LAST \in Nat /\ LAST >= 3 /\ i \in 0..(LAST - 1)
      /\ heard' \in Seq(Bytes) /\ Len(heard') = i + 1
      /\ DOMAIN line = Nmea!Index /\ \A j \in 0..i : line[j] = heard'[j + 1]
      /\ DOMAIN done = Nmea!Index /\ \A j \in 0..i : done[j] = heard'[j + 1]
      /\ done[i + 1] = Nmea!NUL
  BY LineConstants, ByteStored DEF NmeaInv
<1>2. /\ rx_cnt' = i + 1
      /\ byte = "NL" => /\ rx' = done /\ overrun' = (overrun \/ i + 1 \notin Nmea!Index)
                        /\ record' = IF Nmea!Recognised(done) THEN Nmea!Strcpy(record, done) ELSE record
      /\ byte # "NL" => /\ rx' = line /\ overrun' = (overrun \/ i \notin Nmea!Index)
                        /\ record' = record
  BY DEF Nmea!Store
<1> HIDE DEF i, line, done
<1>3. i \in Nmea!Index /\ i + 1 \in Nmea!Index /\ i + 1 \in 1..LAST /\ 0..(rx_cnt' - 1) = 0..i
  BY <1>1, <1>2 DEF Nmea!Index
<1>4. LineInv'
  <2>1. /\ rx_cnt' \in Nmea!Index /\ Len(heard') <= LAST + 1
        /\ rx_cnt' = IF Len(heard') > LAST THEN LAST ELSE Len(heard')
    BY <1>1, <1>2, <1>3
  <2>2. ~overrun' /\ DOMAIN rx' = Nmea!Index /\ \A j \in 0..(rx_cnt' - 1) : rx'[j] = heard'[j + 1]
    BY <1>1, <1>2, <1>3 DEF NmeaInv, LineInv
  <2> QED BY <1>1, <2>1, <2>2 DEF LineInv
<1>5. RecordInv'
  <2>1. CASE byte = "NL"
    <3>1. Nmea!Recognised(done) <=> Len(heard') \in 2..LAST /\ heard'[1] = "$" /\ heard'[2] = "A"
      <4>1. CASE i = 0
        <5>1. done[1] = Nmea!NUL /\ Len(heard') = 1
          BY <1>1, <4>1
        <5> QED BY <1>1, <5>1 DEF Nmea!Recognised, Nmea!NUL
      <4>2. CASE i # 0
        <5>1. 0 \in 0..i /\ 1 \in 0..i /\ Len(heard') \in 2..LAST
          BY <1>1, <4>2
        <5>2. done[0] = heard'[0 + 1] /\ done[1] = heard'[1 + 1]
          BY <1>1, <5>1, Zenon
        <5>3. done[0] = heard'[1] /\ done[1] = heard'[2]
          BY <5>2
        <5> QED BY <5>1, <5>3 DEF Nmea!Recognised
      <4> QED BY <4>1, <4>2
    <3>2. CASE Nmea!Recognised(done)
      <4> DEFINE to == Nmea!Strcpy(record, done)
      <4>1. shown' = heard'
        BY <2>1, <3>1, <3>2 DEF Nmea!Hear
      <4>2. /\ DOMAIN to = Nmea!Index /\ to[LAST] = Nmea!NUL
            /\ Nmea!SameText(done, to)
        BY <1>1, <1>3, CopiedRecord DEF NmeaInv
      <4>3. record' = to
        BY <1>2, <2>1, <3>2
      <4> HIDE DEF to
      <4>4. Nmea!SameText(Nmea!AsString(heard'), done)
        <5> DEFINE n == i + 1
                   s == heard'
        <5>1. /\ s \in Seq(Bytes) /\ n \in 1..LAST /\ Len(s) = n /\ done[n] = Nmea!NUL
              /\ \A j \in 0..(n - 1) : done[j] = s[j + 1]
          BY <1>1, <1>3
        <5> HIDE DEF n, s
        <5>2. Nmea!SameText(Nmea!AsString(s), done)
          BY <5>1, BufferIsString
        <5> QED BY <5>2 DEF s
      <4>5. Nmea!SameText(Nmea!AsString(shown'), record')
        <5>1. Nmea!SameText(Nmea!AsString(heard'), to)
          BY <4>2, <4>4, SameTextTransitive
        <5> QED BY <4>1, <4>3, <5>1
      <4> QED BY <4>2, <4>3, <4>5 DEF RecordInv, RecordAsReceived, Nmea!RecordAsReceived
    <3>3. CASE ~Nmea!Recognised(done)
      <4>1. shown' = shown /\ record' = record
        BY <1>2, <2>1, <3>1, <3>3 DEF Nmea!Hear
      <4> QED BY <4>1 DEF NmeaInv, RecordInv, RecordAsReceived, Nmea!RecordAsReceived
    <3> QED BY <3>2, <3>3
  <2>2. CASE byte # "NL"
    <3>1. shown' = shown /\ record' = record
      BY <1>2, <2>2 DEF Nmea!Hear
    <3> QED BY <3>1 DEF NmeaInv, RecordInv, RecordAsReceived, Nmea!RecordAsReceived
  <2> QED BY <2>1, <2>2
<1> QED BY <1>4, <1>5

\* ... and when it ignores it: then there is no room for the sentence.
LEMMA ReceiveStep ==
    ASSUME NmeaInv, NEW byte \in Bytes, Nmea!ReceiveByte(byte)
    PROVE  NmeaInv'
<1>1. Nmea!Hear(byte) /\ UNCHANGED <<page_pc, page_at, page_len>>
  BY DEF Nmea!ReceiveByte
<1>2. PageInv'
  BY <1>1 DEF NmeaInv, PageInv
<1>3. LineInv' /\ RecordInv'
  <2>1. CASE ~Nmea!Ignored(byte)
    BY <1>1, <2>1, StoreStep DEF Nmea!ReceiveByte
  <2>2. CASE Nmea!Ignored(byte)
    <3>1. UNCHANGED <<rx, rx_cnt, record, overrun>> /\ byte # "$" /\ rx_cnt >= LAST
      BY <2>2 DEF Nmea!ReceiveByte, Nmea!Ignored
    <3>2. /\ LAST \in Nat /\ heard \in Seq(Bytes) /\ Len(heard) \in Nat
          /\ Len(heard) = LAST \/ Len(heard) = LAST + 1
          /\ rx_cnt = LAST /\ \A j \in 0..(LAST - 1) : rx[j] = heard[j + 1]
      BY <3>1, LineConstants DEF NmeaInv, LineInv, Nmea!Index
    <3>3. heard' = IF Len(heard) > LAST THEN heard ELSE Append(heard, byte)
      BY <1>1, <3>1 DEF Nmea!Hear
    <3>4. /\ heard' \in Seq(Bytes) /\ Len(heard') = LAST + 1
          /\ \A j \in 0..(LAST - 1) : heard'[j + 1] = heard[j + 1]
      <4>1. CASE Len(heard) = LAST
        BY <3>2, <3>3, <4>1
      <4>2. CASE Len(heard) = LAST + 1
        BY <3>2, <3>3, <4>2
      <4> QED BY <3>2, <4>1, <4>2
    <3>5. shown' = shown
      BY <1>1, <3>2, <3>4 DEF Nmea!Hear
    <3>6. LineInv'
      BY <3>1, <3>2, <3>4 DEF NmeaInv, LineInv
    <3>7. RecordInv'
      BY <3>1, <3>5 DEF NmeaInv, RecordInv, RecordAsReceived, Nmea!RecordAsReceived
    <3> QED BY <3>6, <3>7
  <2> QED BY <2>1, <2>2
<1> QED BY <1>2, <1>3 DEF NmeaInv

-----------------------------------------------------------------------------
(* The page *)

\* The page changes no buffer, and stops at the record's terminator at the latest.
LEMMA PageStep ==
    ASSUME NmeaInv, Nmea!Page
    PROVE  NmeaInv'
<1>1. LAST \in Nat /\ 0 \in Nmea!Index /\ 0 <= LAST
  BY LineConstants DEF Nmea!Index
<1>2. UNCHANGED <<rx, rx_cnt, record, heard, shown>>
  BY DEF Nmea!historyVars, Nmea!Page, Nmea!StartPage, Nmea!Measure, Nmea!CopyByte, Nmea!EndPage
<1>3. PageInv' /\ (overrun' <=> overrun)
  <2>1. CASE Nmea!StartPage
    BY <1>1, <2>1 DEF Nmea!StartPage, NmeaInv, PageInv
  <2>2. CASE Nmea!Measure
    <3>1. CASE record[page_at] = Nmea!NUL
      <4>1. page_pc' = "copy" /\ page_len' = page_at /\ page_at' = 0 /\ page_at \in Nmea!Index
        BY <2>2, <3>1 DEF Nmea!Measure
      <4>2. 0 <= page_at
        BY <1>1, <4>1 DEF Nmea!Index
      <4> QED BY <1>1, <2>2, <4>1, <4>2 DEF Nmea!Measure, PageInv
    <3>2. CASE record[page_at] # Nmea!NUL
      <4>1. page_at # LAST
        BY <3>2 DEF NmeaInv, RecordInv
      <4>2. page_at' = page_at + 1 /\ page_at + 1 \in Nmea!Index /\ UNCHANGED <<page_pc, page_len>> /\ page_pc = "strlen"
        BY <1>1, <2>2, <3>2, <4>1 DEF Nmea!Measure, NmeaInv, PageInv, Nmea!Index
      <4> QED BY <2>2, <4>2 DEF Nmea!Measure, NmeaInv, PageInv
    <3> QED BY <3>1, <3>2
  <2>3. CASE Nmea!CopyByte
    BY <1>1, <2>3 DEF Nmea!CopyByte, NmeaInv, PageInv, Nmea!Index
  <2>4. CASE Nmea!EndPage
    BY <1>1, <2>4 DEF Nmea!EndPage, NmeaInv, PageInv
  <2> QED BY <2>1, <2>2, <2>3, <2>4 DEF Nmea!Page
<1> QED BY <1>2, <1>3 DEF NmeaInv, LineInv, RecordInv, RecordAsReceived, Nmea!RecordAsReceived

\* The invariant of line, record and page is inductive.
LEMMA NmeaInductive ==
    /\ Nmea!Init => NmeaInv
    /\ NmeaInv /\ [Nmea!Next]_Nmea!vars => NmeaInv'
<1>1. Nmea!Init => NmeaInv
  <2> SUFFICES ASSUME Nmea!Init PROVE NmeaInv
    OBVIOUS
  <2>1. LAST \in Nat /\ LAST >= 3 /\ 0 \in Nmea!Index /\ LAST \in Nmea!Index
    BY LineConstants DEF Nmea!Index
  <2>2. PageInv /\ DOMAIN record = Nmea!Index /\ record[LAST] = Nmea!NUL
    BY <2>1 DEF Nmea!Init, PageInv
  <2>3. heard \in Seq(Bytes) /\ Len(heard) = 0 /\ shown \in Seq(Bytes) /\ Len(shown) = 0
    BY DEF Nmea!Init
  <2>4. LineInv
    BY <2>1, <2>3 DEF Nmea!Init, LineInv
  <2>5. \A i \in Nmea!Index : Nmea!AsString(shown)[i] = Nmea!NUL /\ record[i] = Nmea!NUL
    BY <2>1, <2>3 DEF Nmea!Init, Nmea!AsString, Nmea!Index
  <2>6. RecordAsReceived
    BY <2>5 DEF RecordAsReceived, Nmea!RecordAsReceived, Nmea!SameText
  <2> QED BY <2>2, <2>4, <2>6 DEF NmeaInv, RecordInv
<1>2. ASSUME NmeaInv, [Nmea!Next]_Nmea!vars PROVE NmeaInv'
  <2>1. CASE UNCHANGED Nmea!vars
    BY <1>2, <2>1 DEF Nmea!vars, Nmea!historyVars, NmeaInv, LineInv, RecordInv, PageInv, RecordAsReceived, Nmea!RecordAsReceived
  <2>2. CASE Nmea!Next
    BY <1>2, <2>2, ReceiveStep, PageStep DEF Nmea!Next
  <2> QED BY <1>2, <2>1, <2>2
<1> QED BY <1>1, <1>2

\* So it holds throughout.
LEMMA NmeaHolds == MCSpec => []NmeaInv
<1>1. MCInit => NmeaInv
  BY NmeaInductive DEF MCInit
<1>2. NmeaInv /\ [MCNext]_mcvars => NmeaInv'
  <2> SUFFICES ASSUME NmeaInv, [MCNext]_mcvars PROVE NmeaInv'
    OBVIOUS
  <2>1. [Nmea!Next]_Nmea!vars
    BY DEF MCNext, mcvars, Nmea!vars, Nmea!historyVars, linevars
  <2> QED BY <2>1, NmeaInductive
<1> QED BY <1>1, <1>2, PTL DEF MCSpec

\* main.c:279-300 and ip_arp_udp_tcp.c:443: no byte sequence, however long or
\* damaged, makes the interrupt or the page leave its buffer.
THEOREM BuffersNeverLeft == MCSpec => []StaysInside
<1>1. NmeaInv => StaysInside
  BY DEF NmeaInv, LineInv, PageInv, StaysInside, Nmea!StaysInside
<1> QED BY <1>1, NmeaHolds, PTL

\* ip_arp_udp_tcp.c:443: strlen finds a terminator at or after the byte it looks
\* at, however often the interrupt replaces the sentence under it.
THEOREM StrlenStops == MCSpec => []TerminatorAhead
<1>1. NmeaInv => TerminatorAhead
  <2>1. LAST \in Nat /\ LAST \in Nmea!Index
    BY LineConstants DEF Nmea!Index
  <2> QED BY <2>1 DEF NmeaInv, RecordInv, PageInv, TerminatorAhead, Nmea!TerminatorAhead, Nmea!Index
<1> QED BY <1>1, NmeaHolds, PTL

\* main.c:277-304: whatever bytes are lost or inserted, a record shows exactly what was
\* received from a "$" of its kind to a newline.  (What lies between may hold a newline
\* and a sentence without its "$": the count is not reset at a newline.)
THEOREM RecordsAsReceived == MCSpec => []RecordAsReceived
<1>1. NmeaInv => RecordAsReceived
  BY DEF NmeaInv, RecordInv
<1> QED BY <1>1, NmeaHolds, PTL

-----------------------------------------------------------------------------
(* The checksum *)

\* Only one remainder is left by a multiple and less than the divisor.
LEMMA RemainderUnique ==
    ASSUME NEW d \in Nat \ {0}, NEW q \in Nat, NEW r \in 0..(d - 1)
    PROVE  (d * q + r) % d = r
OBVIOUS

\* What a receiver adds for each byte, and for the first n.
Weighted == [k \in DOMAIN packet |-> packet[k] * Inet!Weight(k)]
Upto(n) == SumFunctionOnSet(Weighted, 1..n)
Ones == Inet!WORD - 1

\* A sum that lost some carries, and got each of them back, differs from x by
\* multiples of Ones only, and is 0 only if x is.
Rest(x, s) == s <= x /\ \E m \in Nat : x = s + Ones * m

\* Types; the wide sum does not overflow.
InetTyped ==
    /\ packet \in Seq(Inet!Byte) /\ Len(packet) <= MAX_LEN /\ ck_start \in STARTS
    /\ ck_pos \in 1..(Len(packet) + 1)
    /\ ck_sum \in Nat /\ ck_sum < Inet!WORD * Inet!WORD
    /\ ck \in 0..(Inet!WORD - 1)

\* Word by word the sum is that of the bytes read so far, and at most a word for each
\* of them; then it is what the receiver sums up, less some carries.
InetInv ==
    /\ InetTyped
    /\ ck_pc \in {"add", "fold", "done", "replied"}
    /\ ck_pc = "add" =>
          /\ ck_pos % 2 = 1 \/ ck_pos = Len(packet) + 1
          /\ ck_sum = ck_start + Upto(ck_pos - 1)
          /\ ck_sum <= ck_start + (ck_pos - 1) * Inet!WORD
    /\ ck_pc = "fold" => Rest(ck_start + Inet!Total(packet), ck_sum)
    /\ Inet!ReceiverAccepts
    /\ Inet!EchoReplyValid

\* BYTE * BYTE.
LEMMA WordIsSquare ==
    /\ BYTE \in Nat /\ BYTE >= 2 /\ Inet!WORD = BYTE * BYTE
    /\ Inet!WORD \in Nat /\ Inet!WORD >= 4 /\ Inet!WORD >= 2 * BYTE
    /\ Ones \in Nat \ {0} /\ Ones > BYTE /\ Inet!WORD = Ones + 1
<1>1. BYTE \in Nat /\ BYTE >= 2 /\ Inet!WORD = BYTE * BYTE
  BY BytesAssumption DEF Inet!ChecksumConstants, Inet!WORD
<1>2. BYTE * BYTE \in Nat /\ BYTE * BYTE >= 2 * BYTE
  BY <1>1
<1> QED BY <1>1, <1>2 DEF Ones

\* Multiples leave no remainder, and what leaves none is one.
LEMMA Multiples ==
    ASSUME NEW d \in Nat \ {0}
    PROVE  /\ \A m \in Nat : (d * m) % d = 0 /\ d * m \in Nat
           /\ \A x \in Nat : x % d = 0 => \E m \in Nat : x = d * m
<1>1. ASSUME NEW m \in Nat PROVE (d * m) % d = 0 /\ d * m \in Nat
  <2>1. (d * m + 0) % d = 0
    BY RemainderUnique
  <2> QED BY <2>1
<1>2. ASSUME NEW x \in Nat, x % d = 0 PROVE \E m \in Nat : x = d * m
  <2>1. x \div d \in Nat /\ x = d * (x \div d) + (x % d)
    BY Division
  <2>2. d * (x \div d) \in Nat
    BY <2>1
  <2>3. x = d * (x \div d)
    BY <1>2, <2>1, <2>2
  <2> QED BY <2>1, <2>3
<1> QED BY <1>1, <1>2

\* A positive number is acceptable if it is a multiple of Ones.
LEMMA AcceptableIs ==
    ASSUME NEW x \in Nat
    PROVE  Inet!Acceptable(x) <=> (x > 0 /\ \E m \in Nat : x = Ones * m)
<1>1. Ones \in Nat \ {0} /\ Inet!WORD - 1 = Ones
  BY WordIsSquare DEF Ones
<1>2. ASSUME NEW d \in Nat \ {0}
      PROVE  x % d = 0 <=> \E m \in Nat : x = d * m
  BY Multiples
<1>3. x % Ones = 0 <=> \E m \in Nat : x = Ones * m
  BY <1>1, <1>2
<1> QED BY <1>1, <1>3 DEF Inet!Acceptable

\* Weighted bytes are numbers, and sums of them grow byte by byte.
LEMMA WeightedIs ==
    ASSUME InetTyped, NEW k \in 1..Len(packet)
    PROVE  /\ Weighted[k] \in Nat /\ Weighted[k] = packet[k] * Inet!Weight(k)
           /\ k % 2 = 1 => Weighted[k] = packet[k] * BYTE
           /\ k % 2 # 1 => Weighted[k] = packet[k]
           /\ packet[k] \in 0..(BYTE - 1)
           /\ packet[k] * BYTE \in Nat /\ packet[k] * BYTE <= Inet!WORD - BYTE
<1>1. BYTE \in Nat /\ BYTE >= 2 /\ Inet!WORD = BYTE * BYTE
  BY WordIsSquare
<1>2. packet[k] \in 0..(BYTE - 1) /\ k \in DOMAIN packet
  <2>1. packet \in Seq(Inet!Byte)
    BY DEF InetTyped
  <2>2. DOMAIN packet = 1..Len(packet) /\ packet[k] \in Inet!Byte
    BY <2>1
  <2> QED BY <2>2 DEF Inet!Byte
<1>3. packet[k] * BYTE \in Nat
  BY <1>1, <1>2
<1>4. packet[k] * BYTE <= (BYTE - 1) * BYTE /\ (BYTE - 1) * BYTE = BYTE * BYTE - BYTE
  BY <1>1, <1>2
<1>5. Weighted[k] = packet[k] * Inet!Weight(k)
  BY <1>2 DEF Weighted
<1>6. /\ k % 2 = 1 => Weighted[k] = packet[k] * BYTE
      /\ k % 2 # 1 => Weighted[k] = packet[k]
  BY <1>2, <1>5 DEF Inet!Weight
<1> QED BY <1>1, <1>2, <1>3, <1>4, <1>5, <1>6

\* The sum of InetChecksum is that of Functions.tla.
LEMMA SameSum ==
    ASSUME NEW f, NEW S
    PROVE  Inet!SumFunctionOnSet(f, S) = SumFunctionOnSet(f, S)
BY DEF Inet!SumFunctionOnSet, Inet!FoldFunctionOnSet, Inet!MapThenFoldSet,
       SumFunctionOnSet, FoldFunctionOnSet, MapThenFoldSet

\* The sum of the first n weighted bytes, one by one, and of all of them.
LEMMA UptoIs ==
    ASSUME InetTyped
    PROVE  /\ Upto(0) = 0
           /\ \A n \in 1..Len(packet) : Upto(n) = Upto(n - 1) + Weighted[n]
           /\ \A n \in 0..Len(packet) : Upto(n) \in Nat
           /\ Inet!Total(packet) = Upto(Len(packet))
<1>1. Len(packet) \in Nat /\ DOMAIN packet = 1..Len(packet)
  BY DEF InetTyped
<1>2. Upto(0) = 0
  <2>1. 1..0 = {} /\ IsFiniteSet({})
    BY FS_EmptySet
  <2> QED BY <2>1, SumOfPick DEF Upto
<1>3. ASSUME NEW n \in 1..Len(packet) PROVE Upto(n) = Upto(n - 1) + Weighted[n]
  <2>1. IsFiniteSet(1..n)
    BY FS_Interval
  <2>2. \A k \in 1..n : k \in 1..Len(packet)
    BY <1>1
  <2>3. \A k \in 1..n : Weighted[k] \in Int
    BY <2>2, WeightedIs
  <2>4. n \in 1..n /\ (1..n) \ {n} = 1..(n - 1)
    BY <1>1
  <2>5. SumFunctionOnSet(Weighted, 1..n) = Weighted[n] + SumFunctionOnSet(Weighted, (1..n) \ {n})
    BY <2>1, <2>3, <2>4, SumRemove
  <2>6. \A x \in 1..(n - 1) : Weighted[x] \in Int
    BY <2>3, <2>4
  <2>7. SumFunctionOnSet(Weighted, 1..(n - 1)) \in Int
    <3> DEFINE S == 1..(n - 1)
    <3>1. IsFiniteSet(S) /\ \A x \in S : Weighted[x] \in Int
      BY <2>6, FS_Interval
    <3> HIDE DEF S
    <3>2. SumFunctionOnSet(Weighted, S) \in Int
      BY <3>1, SumTyped
    <3> QED BY <3>2 DEF S
  <2>8. Weighted[n] \in Int
    BY <2>3, <2>4
  <2>9. Upto(n) = Weighted[n] + Upto(n - 1) /\ Upto(n - 1) \in Int
    BY <2>4, <2>5, <2>7 DEF Upto
  <2> QED BY <2>8, <2>9
<1>4. ASSUME NEW n \in 0..Len(packet) PROVE Upto(n) \in Nat
  <2> DEFINE S == 1..n
  <2>1. \A k \in S : k \in 1..Len(packet)
    BY <1>1
  <2>2. IsFiniteSet(S) /\ \A k \in S : Weighted[k] \in Nat
    BY <2>1, WeightedIs, FS_Interval
  <2>3. Nat \subseteq Int /\ 0 \in Nat /\ \A a, b \in Nat : a + b \in Nat
    OBVIOUS
  <2> HIDE DEF S
  <2>4. SumFunctionOnSet(Weighted, S) \in Nat
    BY <2>2, <2>3, SumTyped
  <2> QED BY <2>4 DEF S, Upto
<1>5. Inet!Total(packet) = Upto(Len(packet))
  <2>1. Inet!Total(packet) = Inet!SumFunctionOnSet(Weighted, DOMAIN Weighted)
    BY DEF Inet!Total, Inet!SumFunction, Weighted
  <2>2. DOMAIN Weighted = 1..Len(packet)
    BY <1>1 DEF Weighted
  <2> QED BY <2>1, <2>2, SameSum DEF Upto
<1> QED BY <1>2, <1>3, <1>4, <1>5

\* What the constants leave room for.
LEMMA SumBounds ==
    ASSUME InetTyped
    PROVE  /\ Inet!WORD \in Nat /\ BYTE \in Nat /\ MAX_LEN \in Nat /\ ck_start \in Nat
           /\ ck_start + (MAX_LEN + 1) * Inet!WORD < Inet!WORD * Inet!WORD
           /\ Inet!WORD * Inet!WORD \in Nat
<1>1. Inet!WORD \in Nat /\ BYTE \in Nat
  BY WordIsSquare
<1>2. Inet!WORD * Inet!WORD \in Nat
  BY <1>1
<1>3. MAX_LEN \in Nat /\ ck_start \in STARTS /\ ck_start \in Nat
      /\ ck_start + (MAX_LEN + 1) * Inet!WORD < Inet!WORD * Inet!WORD
  BY BytesAssumption DEF InetTyped, Inet!ChecksumConstants
<1> QED BY <1>1, <1>2, <1>3

\* Another word.
LEMMA AddWordKeeps ==
    ASSUME InetInv, Inet!AddWord
    PROVE  InetInv'
<1>1. /\ InetTyped /\ ck_pc = "add" /\ ck_pos < Len(packet)
      /\ ck_pos % 2 = 1 \/ ck_pos = Len(packet) + 1
      /\ ck_sum = ck_start + Upto(ck_pos - 1) /\ ck_sum <= ck_start + (ck_pos - 1) * Inet!WORD
      /\ ck_sum' = ck_sum + packet[ck_pos] * BYTE + packet[ck_pos + 1] /\ ck_pos' = ck_pos + 2
      /\ packet' = packet /\ ck_start' = ck_start /\ ck_pc' = ck_pc /\ ck' = ck
  BY DEF InetInv, Inet!AddWord
<1>2. /\ Inet!WORD \in Nat /\ BYTE \in Nat /\ MAX_LEN \in Nat /\ ck_start \in Nat
      /\ ck_start + (MAX_LEN + 1) * Inet!WORD < Inet!WORD * Inet!WORD
      /\ Inet!WORD * Inet!WORD \in Nat
  BY <1>1, SumBounds
<1>3. ck_pos \in Nat /\ ck_pos >= 1 /\ Len(packet) \in Nat /\ Len(packet) <= MAX_LEN /\ ck_sum \in Nat
  BY <1>1 DEF InetTyped
<1>4. ck_pos \in 1..Len(packet) /\ ck_pos + 1 \in 1..Len(packet)
  BY <1>1, <1>3
<1>5. ck_pos % 2 = 1 /\ (ck_pos + 1) % 2 # 1 /\ ck_pos' % 2 = 1
  BY <1>1, <1>3
<1>6. /\ Weighted[ck_pos] = packet[ck_pos] * BYTE /\ Weighted[ck_pos + 1] = packet[ck_pos + 1]
      /\ packet[ck_pos] * BYTE \in Nat /\ packet[ck_pos] * BYTE <= Inet!WORD - BYTE
      /\ packet[ck_pos + 1] \in 0..(BYTE - 1)
  BY <1>1, <1>4, <1>5, WeightedIs
<1>7. /\ Upto(ck_pos) = Upto(ck_pos - 1) + Weighted[ck_pos]
      /\ Upto(ck_pos + 1) = Upto(ck_pos) + Weighted[ck_pos + 1]
      /\ Upto(ck_pos - 1) \in Nat
  <2>1. (ck_pos + 1) - 1 = ck_pos /\ ck_pos - 1 \in 0..Len(packet)
    BY <1>3, <1>4
  <2>2. Upto(ck_pos + 1) = Upto((ck_pos + 1) - 1) + Weighted[ck_pos + 1]
    BY <1>1, <1>4, UptoIs
  <2> QED BY <1>1, <1>4, <2>1, <2>2, UptoIs
<1>8. ck_sum' = ck_start + Upto(ck_pos + 1) /\ ck_sum' \in Nat /\ ck_sum' <= ck_sum + Inet!WORD
  <2> DEFINE u == Weighted[ck_pos]
             v == Weighted[ck_pos + 1]
  <2>1. u \in Nat /\ v \in Nat /\ u <= Inet!WORD - BYTE /\ v <= BYTE - 1 /\ ck_sum' = ck_sum + u + v
    BY <1>1, <1>2, <1>6
  <2>2. Upto(ck_pos + 1) = Upto(ck_pos - 1) + u + v
    BY <1>7, <2>1
  <2> HIDE DEF u, v
  <2>3. ck_sum' \in Nat /\ ck_sum' <= ck_sum + Inet!WORD
    BY <1>2, <1>3, <2>1
  <2> QED BY <1>1, <1>2, <1>7, <2>1, <2>2, <2>3, SMTT(60)
<1>9. /\ (ck_pos + 1) * Inet!WORD = (ck_pos - 1) * Inet!WORD + 2 * Inet!WORD
      /\ (ck_pos - 1) * Inet!WORD \in Nat
  BY <1>2, <1>3
<1>10. ck_sum' <= ck_start + (ck_pos + 1) * Inet!WORD
  BY <1>1, <1>2, <1>3, <1>8, <1>9, SMTT(60)
<1>11. (ck_pos + 1) * Inet!WORD <= (MAX_LEN + 1) * Inet!WORD /\ (MAX_LEN + 1) * Inet!WORD \in Nat
       /\ (ck_pos + 1) * Inet!WORD \in Nat
  <2>1. ck_pos + 1 <= MAX_LEN + 1
    BY <1>2, <1>3, <1>4
  <2> QED BY <1>2, <1>3, <2>1
<1>12. ck_sum' < Inet!WORD * Inet!WORD
  BY <1>2, <1>8, <1>10, <1>11
<1>13. ck_pos' \in 1..(Len(packet) + 1) /\ ck_pos' - 1 = ck_pos + 1
  BY <1>1, <1>3, <1>4
<1>14. InetTyped'
  BY <1>1, <1>8, <1>12, <1>13 DEF InetTyped
<1> QED
  <2>1. (ck_pos % 2 = 1 \/ ck_pos = Len(packet) + 1)'
    BY <1>5
  <2>2. (ck_sum = ck_start + Upto(ck_pos - 1))'
    BY <1>1, <1>8, <1>13 DEF Upto, Weighted
  <2>3. (ck_sum <= ck_start + (ck_pos - 1) * Inet!WORD)'
    BY <1>1, <1>10, <1>13
  <2> QED BY <1>1, <1>14, <2>1, <2>2, <2>3 DEF InetInv, Inet!ReceiverAccepts, Inet!EchoReplyValid

\* The odd byte.
LEMMA AddOddByteKeeps ==
    ASSUME InetInv, Inet!AddOddByte
    PROVE  InetInv'
<1>1. /\ InetTyped /\ ck_pc = "add" /\ ck_pos = Len(packet)
      /\ ck_pos % 2 = 1 \/ ck_pos = Len(packet) + 1
      /\ ck_sum = ck_start + Upto(ck_pos - 1) /\ ck_sum <= ck_start + (ck_pos - 1) * Inet!WORD
      /\ ck_sum' = ck_sum + packet[ck_pos] * BYTE /\ ck_pos' = ck_pos + 1
      /\ packet' = packet /\ ck_start' = ck_start /\ ck_pc' = ck_pc /\ ck' = ck
  BY DEF InetInv, Inet!AddOddByte, Inet!Padded
<1>2. /\ Inet!WORD \in Nat /\ BYTE \in Nat /\ MAX_LEN \in Nat /\ ck_start \in Nat
      /\ ck_start + (MAX_LEN + 1) * Inet!WORD < Inet!WORD * Inet!WORD
      /\ Inet!WORD * Inet!WORD \in Nat
  BY <1>1, SumBounds
<1>3. ck_pos \in Nat /\ ck_pos >= 1 /\ Len(packet) \in Nat /\ Len(packet) <= MAX_LEN /\ ck_sum \in Nat
  BY <1>1 DEF InetTyped
<1>4. ck_pos \in 1..Len(packet) /\ ck_pos % 2 = 1
  BY <1>1, <1>3
<1>6. /\ Weighted[ck_pos] = packet[ck_pos] * BYTE
      /\ packet[ck_pos] * BYTE \in Nat /\ packet[ck_pos] * BYTE <= Inet!WORD - BYTE
  BY <1>1, <1>4, WeightedIs
<1>7. Upto(ck_pos) = Upto(ck_pos - 1) + Weighted[ck_pos] /\ Upto(ck_pos - 1) \in Nat
  <2>1. ck_pos - 1 \in 0..Len(packet)
    BY <1>3, <1>4
  <2> QED BY <1>1, <1>4, <2>1, UptoIs
<1>8. ck_sum' = ck_start + Upto(ck_pos) /\ ck_sum' \in Nat /\ ck_sum' <= ck_sum + Inet!WORD
  <2> DEFINE u == Weighted[ck_pos]
  <2>1. u \in Nat /\ u <= Inet!WORD - BYTE /\ ck_sum' = ck_sum + u
    BY <1>1, <1>2, <1>6
  <2>2. Upto(ck_pos) = Upto(ck_pos - 1) + u
    BY <1>7
  <2> HIDE DEF u
  <2>3. ck_sum' \in Nat /\ ck_sum' <= ck_sum + Inet!WORD
    BY <1>2, <1>3, <2>1
  <2> QED BY <1>1, <1>2, <1>7, <2>1, <2>2, <2>3, SMTT(60)
<1>9. /\ ck_pos * Inet!WORD = (ck_pos - 1) * Inet!WORD + Inet!WORD
      /\ (ck_pos - 1) * Inet!WORD \in Nat
  BY <1>2, <1>3
<1>10. ck_sum' <= ck_start + ck_pos * Inet!WORD
  BY <1>1, <1>2, <1>3, <1>8, <1>9, SMTT(60)
<1>11. ck_pos * Inet!WORD <= (MAX_LEN + 1) * Inet!WORD /\ (MAX_LEN + 1) * Inet!WORD \in Nat
       /\ ck_pos * Inet!WORD \in Nat
  <2>1. ck_pos <= MAX_LEN + 1
    BY <1>2, <1>3, <1>4
  <2> QED BY <1>2, <1>3, <2>1
<1>12. ck_sum' < Inet!WORD * Inet!WORD
  BY <1>2, <1>8, <1>10, <1>11
<1>13. ck_pos' \in 1..(Len(packet) + 1) /\ ck_pos' - 1 = ck_pos /\ ck_pos' = Len(packet') + 1
  BY <1>1, <1>3, <1>4
<1>14. InetTyped'
  BY <1>1, <1>8, <1>12, <1>13 DEF InetTyped
<1> QED
  <2>2. (ck_sum = ck_start + Upto(ck_pos - 1))'
    BY <1>1, <1>8, <1>13 DEF Upto, Weighted
  <2>3. (ck_sum <= ck_start + (ck_pos - 1) * Inet!WORD)'
    BY <1>1, <1>10, <1>13
  <2> QED BY <1>1, <1>13, <1>14, <2>2, <2>3 DEF InetInv, Inet!ReceiverAccepts, Inet!EchoReplyValid

\* All is added.
LEMMA AddDoneKeeps ==
    ASSUME InetInv, Inet!AddDone
    PROVE  InetInv'
<1>1. /\ InetTyped /\ ck_pc = "add" /\ ck_pos > Len(packet)
      /\ ck_sum = ck_start + Upto(ck_pos - 1) /\ ck_pc' = "fold"
      /\ packet' = packet /\ ck_start' = ck_start /\ ck_pos' = ck_pos /\ ck_sum' = ck_sum /\ ck' = ck
  BY DEF InetInv, Inet!AddDone
<1>2. ck_pos - 1 = Len(packet) /\ ck_sum \in Nat
  BY <1>1 DEF InetTyped
<1>3. ck_sum = ck_start + Inet!Total(packet)
  BY <1>1, <1>2, UptoIs
<1>4. ck_sum = ck_sum + Ones * 0 /\ ck_sum <= ck_sum
  <2>1. Ones \in Nat /\ Ones * 0 = 0
    BY <1>1, WordIsSquare DEF InetTyped
  <2> QED BY <1>2, <2>1
<1>5. Rest(ck_start + Inet!Total(packet), ck_sum)
  BY <1>3, <1>4 DEF Rest
<1>6. Rest(ck_start + Inet!Total(packet), ck_sum)'
  BY <1>1, <1>5 DEF Rest, Inet!Total, Ones, Inet!WORD
<1>7. InetTyped'
  BY <1>1 DEF InetTyped
<1> QED BY <1>1, <1>6, <1>7 DEF InetInv, Inet!ReceiverAccepts, Inet!EchoReplyValid

\* A carry goes back to the sum.
LEMMA FoldCarryKeeps ==
    ASSUME InetInv, Inet!FoldCarry
    PROVE  InetInv'
<1> DEFINE W == Inet!WORD
           x == ck_start + Inet!Total(packet)
<1>1. /\ InetTyped /\ ck_pc = "fold" /\ Rest(x, ck_sum)
      /\ ck_sum' = (ck_sum % W) + (ck_sum \div W)
      /\ packet' = packet /\ ck_start' = ck_start /\ ck_pos' = ck_pos /\ ck_pc' = ck_pc /\ ck' = ck
  BY DEF InetInv, Inet!FoldCarry, Inet!Folded
<1>2. W \in Nat \ {0} /\ ck_sum \in Nat /\ Ones \in Nat \ {0} /\ W = Ones + 1 /\ ck_sum < W * W
  BY <1>1, WordIsSquare DEF InetTyped
<1>3. x \in Nat
  <2>1. Inet!Total(packet) \in Nat /\ ck_start \in Nat
    BY <1>1, UptoIs, BytesAssumption DEF InetTyped, Inet!ChecksumConstants
  <2> QED BY <2>1
<1> DEFINE q == ck_sum \div W
           r == ck_sum % W
<1> HIDE DEF W, x
<1>4. q \in Nat /\ r \in 0..(W - 1) /\ ck_sum = W * q + r
  BY <1>2, Division
<1>5. ck_sum' = r + q
  BY <1>1
<1> HIDE DEF q, r
<1>6. W * q = Ones * q + q /\ Ones * q \in Nat
  BY <1>2, <1>4
<1>7. ck_sum' \in Nat /\ ck_sum = ck_sum' + Ones * q /\ ck_sum' <= ck_sum
  BY <1>2, <1>4, <1>5, <1>6
<1>8. ck_sum' < W * W /\ W * W \in Nat
  BY <1>2, <1>7
<1>9. PICK m \in Nat : x = ck_sum + Ones * m
  BY <1>1 DEF Rest
<1>10. x = ck_sum' + Ones * (q + m) /\ ck_sum' <= x /\ q + m \in Nat
  <2>1. Ones * (q + m) = Ones * q + Ones * m /\ Ones * m \in Nat
    BY <1>2, <1>4, <1>9
  <2>2. ck_sum <= x
    BY <1>1 DEF Rest
  <2>3. x = ck_sum' + (Ones * q + Ones * m)
    BY <1>2, <1>3, <1>6, <1>7, <1>9, <2>1
  <2>4. x = ck_sum' + Ones * (q + m)
    BY <2>1, <2>3
  <2>5. ck_sum' <= x
    BY <1>2, <1>3, <1>7, <2>2
  <2> QED BY <1>4, <2>4, <2>5
<1>11. Rest(x, ck_sum')
  BY <1>10 DEF Rest
<1>12. Rest(ck_start + Inet!Total(packet), ck_sum)'
  BY <1>1, <1>11 DEF Rest, x, Inet!Total, Ones, Inet!WORD
<1>13. InetTyped'
  BY <1>1, <1>7, <1>8 DEF InetTyped, W, Inet!WORD
<1> QED BY <1>1, <1>12, <1>13 DEF InetInv, Inet!ReceiverAccepts, Inet!EchoReplyValid

\* The checksum is handed over.
LEMMA ComplementKeeps ==
    ASSUME InetInv, Inet!Complement
    PROVE  InetInv'
<1> DEFINE W == Inet!WORD
           x == ck_start + Inet!Total(packet)
<1>1. /\ InetTyped /\ ck_pc = "fold" /\ Rest(x, ck_sum) /\ ck_sum < W
      /\ ck' = (W - 1) - ck_sum /\ ck_pc' = "done"
      /\ packet' = packet /\ ck_start' = ck_start /\ ck_pos' = ck_pos /\ ck_sum' = ck_sum
  BY DEF InetInv, Inet!Complement, Inet!Complemented
<1>2. W \in Nat \ {0} /\ ck_sum \in Nat /\ Ones \in Nat \ {0} /\ W = Ones + 1
  BY <1>1, WordIsSquare DEF InetTyped
<1>3. x \in Nat
  <2>1. Inet!Total(packet) \in Nat /\ ck_start \in Nat
    BY <1>1, UptoIs, BytesAssumption DEF InetTyped, Inet!ChecksumConstants
  <2> QED BY <2>1
<1> HIDE DEF W, x
<1>4. PICK m \in Nat : x = ck_sum + Ones * m
  BY <1>1 DEF Rest
<1>5. Ones * (m + 1) = Ones * m + Ones /\ Ones * m \in Nat /\ m + 1 \in Nat
  BY <1>2, <1>4
<1>6. ck' \in 0..(W - 1) /\ x + ck' \in Nat /\ x + ck' = Ones * (m + 1) /\ x + ck' > 0
  BY <1>1, <1>2, <1>3, <1>4, <1>5
<1>7. Inet!Acceptable(x + ck')
  BY <1>1, <1>5, <1>6, AcceptableIs DEF InetTyped
<1>8. Inet!Acceptable(ck_start + Inet!Total(packet) + ck)'
  <2>1. x = ck_start' + Inet!Total(packet')
    BY <1>1 DEF x
  <2> QED BY <1>7, <2>1 DEF Inet!Acceptable, Inet!Total, Inet!WORD
<1>9. InetTyped'
  BY <1>1, <1>6 DEF InetTyped, W, Inet!WORD
<1> QED BY <1>1, <1>8, <1>9 DEF InetInv, Inet!ReceiverAccepts, Inet!EchoReplyValid

\* The sum of a request and of its reply.
LEMMA ReplyTotal ==
    ASSUME InetTyped, Len(packet) >= 2
    PROVE  LET reply == [packet EXCEPT ![1] = 0]
           IN  /\ Inet!Total(packet) = Inet!Total(reply) + packet[1] * BYTE
               /\ Inet!Total(reply) \in Nat
<1> DEFINE reply == [packet EXCEPT ![1] = 0]
           S == 1..Len(packet)
           R == S \ {1}
           g == [k \in S |-> reply[k] * Inet!Weight(k)]
<1>1. /\ Len(packet) \in Nat /\ DOMAIN packet = S /\ DOMAIN reply = S /\ 1 \in S
      /\ reply[1] = 0 /\ \A k \in R : reply[k] = packet[k]
  BY DEF InetTyped
<1>2. IsFiniteSet(S) /\ IsFiniteSet(R)
  <2>1. IsFiniteSet(S)
    BY FS_Interval
  <2>2. R \subseteq S
    OBVIOUS
  <2> HIDE DEF S, R
  <2> QED BY <2>1, <2>2, FS_Subset
<1>3. \A k \in S : Weighted[k] \in Nat /\ Weighted[k] = packet[k] * Inet!Weight(k)
  BY WeightedIs
<1>4. Weighted[1] = packet[1] * BYTE
  BY <1>1, WeightedIs
<1>5. g[1] = 0
  <2>1. Inet!Weight(1) = BYTE /\ BYTE \in Nat
    BY WordIsSquare DEF Inet!Weight, InetTyped
  <2> QED BY <1>1, <2>1
<1>6. \A k \in R : g[k] = Weighted[k]
  BY <1>1, <1>3
<1>7. \A k \in S : g[k] \in Nat
  BY <1>3, <1>5, <1>6
<1>8. Inet!Total(packet) = SumFunctionOnSet(Weighted, S)
      /\ Inet!Total(reply) = SumFunctionOnSet(g, S)
  <2>1. /\ Inet!Total(packet) = Inet!SumFunctionOnSet(Weighted, DOMAIN Weighted)
        /\ DOMAIN Weighted = S
    BY <1>1 DEF Inet!Total, Inet!SumFunction, Weighted
  <2>2. Inet!Total(reply) = Inet!SumFunctionOnSet(g, DOMAIN g) /\ DOMAIN g = S
    BY <1>1 DEF Inet!Total, Inet!SumFunction
  <2> QED BY <2>1, <2>2, SameSum
<1> HIDE DEF reply, S, R, g
<1>9. SumFunctionOnSet(g, R) = SumFunctionOnSet(Weighted, R)
  <2> DEFINE h == [k \in R |-> k]
  <2>1. \A k \in R : k \in S /\ h[k] = k
    BY DEF R
  <2>2. \A k \in R : g[k] \in Int /\ g[k] = Weighted[h[k]]
    BY <1>6, <1>7, <2>1
  <2>3. \A k, l \in R : h[k] = h[l] => k = l
    BY <2>1
  <2>4. { h[k] : k \in R } = R
    BY <2>1
  <2> HIDE DEF h
  <2>5. SumFunctionOnSet(g, R) = SumFunctionOnSet(Weighted, { h[k] : k \in R })
    BY <1>2, <2>2, <2>3, SumReindex
  <2> QED BY <2>4, <2>5
<1>10. SumFunctionOnSet(Weighted, S) = Weighted[1] + SumFunctionOnSet(Weighted, R)
  BY <1>1, <1>2, <1>3, SumRemove DEF R
<1>11. SumFunctionOnSet(g, S) = g[1] + SumFunctionOnSet(g, R)
  BY <1>1, <1>2, <1>7, SumRemove DEF R
<1>12. SumFunctionOnSet(g, R) \in Nat
  <2>1. Nat \subseteq Int /\ 0 \in Nat /\ \A a, b \in Nat : a + b \in Nat
    OBVIOUS
  <2>2. \A k \in R : g[k] \in Nat
    BY <1>7 DEF R
  <2> QED BY <1>2, <2>1, <2>2, SumTyped
<1>13. Weighted[1] \in Nat
  BY <1>1, <1>3
<1> QED BY <1>4, <1>5, <1>8, <1>9, <1>10, <1>11, <1>12, <1>13 DEF reply

\* High and low byte of a checksum.
LEMMA HighLow ==
    ASSUME NEW c \in 0..(Inet!WORD - 1)
    PROVE  /\ c \div BYTE \in 0..(BYTE - 1) /\ c % BYTE \in 0..(BYTE - 1)
           /\ c = BYTE * (c \div BYTE) + (c % BYTE)
<1>1. BYTE \in Nat /\ BYTE >= 2 /\ Inet!WORD = BYTE * BYTE /\ Inet!WORD \in Nat
  BY WordIsSquare
<1> DEFINE q == c \div BYTE
           r == c % BYTE
<1>2. c \in Nat /\ BYTE \in Nat \ {0} /\ c < BYTE * BYTE
  BY <1>1
<1>3. q \in Nat /\ r \in 0..(BYTE - 1) /\ c = BYTE * q + r
  BY <1>2, Division
<1> HIDE DEF q, r
<1>4. ASSUME q >= BYTE PROVE FALSE
  <2>1. BYTE * q >= BYTE * BYTE /\ BYTE * q \in Nat
    BY <1>1, <1>3, <1>4
  <2> QED BY <1>1, <1>2, <1>3, <2>1
<1>5. q \in 0..(BYTE - 1)
  BY <1>1, <1>3, <1>4
<1> QED BY <1>3, <1>5 DEF q, r

\* What the bytes of a checksum are put together from.
LEMMA BytesTogether ==
    ASSUME NEW h \in 0..(BYTE - 1), NEW l \in 0..(BYTE - 1)
    PROVE  LET c == h * BYTE + l
           IN  c \in 0..(Inet!WORD - 1) /\ c \div BYTE = h /\ c % BYTE = l
<1>1. BYTE \in Nat \ {0} /\ Inet!WORD = BYTE * BYTE /\ Inet!WORD \in Nat
  BY WordIsSquare
<1>2. h \in Nat /\ h * BYTE = BYTE * h /\ BYTE * h \in Nat
  BY <1>1
<1>3. (BYTE * h + l) \div BYTE = h /\ (BYTE * h + l) % BYTE = l
  BY <1>1, <1>2, QuotientUnique, RemainderUnique
<1>4. BYTE * h <= BYTE * (BYTE - 1) /\ BYTE * (BYTE - 1) = BYTE * BYTE - BYTE
  BY <1>1, <1>2
<1>5. BYTE * h + l \in 0..(Inet!WORD - 1)
  BY <1>1, <1>2, <1>4
<1> QED BY <1>2, <1>3, <1>5

\* ip_arp_udp_tcp.c:383-386: the corrected checksum is right unless the carry into
\* the low byte makes that byte wrap.
LEMMA CorrectedIs ==
    ASSUME NEW c \in 0..(Inet!WORD - 1), NEW t \in Nat,
           Inet!Acceptable(t + ECHOREQUEST * BYTE + c)
    PROVE  LET d == Inet!Corrected(c)
           IN  /\ d \in 0..(Inet!WORD - 1)
               /\ Inet!Acceptable(t + d) <=> ~(d \div BYTE < ECHOREQUEST /\ d % BYTE = 0)
<1> DEFINE d == Inet!Corrected(c)
           hi == c \div BYTE
           lo == c % BYTE
           E == ECHOREQUEST
           x == t + E * BYTE + c
<1>1. /\ BYTE \in Nat \ {0} /\ Ones \in Nat \ {0} /\ Ones > BYTE
      /\ Inet!WORD = BYTE * BYTE /\ BYTE * BYTE = Ones + 1
  BY WordIsSquare
<1>2. E \in 1..(BYTE - 1) /\ E * BYTE \in Nat
  <2>1. E \in 1..(BYTE - 1)
    BY BytesAssumption DEF Inet!ChecksumConstants
  <2> QED BY <1>1, <2>1
<1>3. hi \in 0..(BYTE - 1) /\ lo \in 0..(BYTE - 1) /\ c = BYTE * hi + lo
  BY HighLow
<1>4. d = ((hi + E) % BYTE) * BYTE + (IF hi > BYTE - 1 - E THEN (lo + 1) % BYTE ELSE lo)
  BY DEF Inet!Corrected
<1>5. c \in Nat /\ x \in Nat
  BY <1>1, <1>2
<1>6. PICK m \in Nat : x = Ones * m /\ x > 0
  BY <1>5, AcceptableIs
<1> HIDE DEF d, hi, lo, E
<1>7. \A h, l \in 0..(BYTE - 1) : d = h * BYTE + l =>
          d \in 0..(Inet!WORD - 1) /\ d \div BYTE = h /\ d % BYTE = l
  BY BytesTogether
<1>8. CASE hi <= BYTE - 1 - E
  <2>1. hi + E \in 0..(BYTE - 1) /\ (hi + E) % BYTE = hi + E
    BY <1>1, <1>2, <1>3, <1>8
  <2>2. d = (hi + E) * BYTE + lo
    BY <1>1, <1>2, <1>3, <1>4, <1>8, <2>1
  <2>3. d \in 0..(Inet!WORD - 1) /\ d \div BYTE = hi + E
    BY <1>3, <1>7, <2>1, <2>2
  <2>4. (hi + E) * BYTE = BYTE * hi + E * BYTE
    BY <1>1, <1>2, <1>3
  <2>5. t + d = x
    BY <1>1, <1>2, <1>3, <2>2, <2>4
  <2>6. ~(d \div BYTE < E)
    BY <1>1, <1>2, <1>3, <2>3
  <2> QED BY <2>3, <2>5, <2>6 DEF d, E
<1>9. CASE hi > BYTE - 1 - E
  <2> DEFINE h == hi + E - BYTE
  <2>1. h \in 0..(BYTE - 1) /\ (hi + E) % BYTE = h /\ h < E
    BY <1>1, <1>2, <1>3, <1>9
  <2>2. h * BYTE = BYTE * hi + E * BYTE - BYTE * BYTE /\ BYTE * hi \in Nat /\ h * BYTE \in Nat
    BY <1>1, <1>2, <1>3, <2>1
  <2>3. d = h * BYTE + ((lo + 1) % BYTE)
    BY <1>4, <1>9, <2>1
  <2>4. m # 0
    BY <1>1, <1>6
  <2>5. Ones * (m - 1) = x - Ones /\ m - 1 \in Nat
    BY <1>1, <1>6, <2>4
  <2> HIDE DEF h
  <2>6. CASE lo + 1 < BYTE
    <3>1. lo + 1 \in 0..(BYTE - 1) /\ (lo + 1) % BYTE = lo + 1
      BY <1>1, <1>3, <2>6
    <3>2. d = h * BYTE + (lo + 1)
      BY <2>3, <3>1
    <3>3. d \in 0..(Inet!WORD - 1) /\ d % BYTE = lo + 1
      BY <1>7, <2>1, <3>1, <3>2
    <3>4. t + d = x - Ones
      BY <1>1, <1>2, <1>3, <2>2, <3>2
    <3>5. t + d \in Nat /\ t + d > 0
      BY <1>3, <2>2, <3>2
    <3>6. Inet!Acceptable(t + d)
      BY <2>5, <3>4, <3>5, AcceptableIs
    <3>7. d % BYTE # 0
      BY <1>3, <3>3
    <3> QED BY <3>3, <3>6, <3>7 DEF d
  <2>7. CASE lo + 1 = BYTE
    <3>1. (lo + 1) % BYTE = 0 /\ 0 \in 0..(BYTE - 1)
      BY <1>1, <2>7
    <3>2. d = h * BYTE + 0
      BY <2>3, <3>1
    <3>3. d \in 0..(Inet!WORD - 1) /\ d \div BYTE = h /\ d % BYTE = 0
      BY <1>7, <2>1, <3>1, <3>2
    <3>4. t + d = x - Ones - BYTE
      BY <1>1, <1>2, <1>3, <2>2, <2>7, <3>2
    <3>5. ASSUME NEW k \in Nat, t + d = Ones * k PROVE FALSE
      <4> DEFINE n == m - 1 - k
      <4>1. n \in Int /\ Ones * n = Ones * (m - 1) - Ones * k /\ Ones * k \in Nat
        BY <1>1, <2>5
      <4>2. Ones * n = BYTE
        BY <1>1, <1>5, <2>5, <3>4, <3>5, <4>1
      <4> HIDE DEF n
      <4>3. n <= 0 => Ones * n <= 0
        BY <1>1, <4>1
      <4>4. n >= 1 => Ones * n >= Ones
        BY <1>1, <4>1
      <4> QED BY <1>1, <4>1, <4>2, <4>3, <4>4
    <3>6. t + d \in Nat
      BY <2>2, <3>2
    <3>7. ~Inet!Acceptable(t + d)
      BY <3>5, <3>6, AcceptableIs
    <3> QED BY <2>1, <3>3, <3>7 DEF d, E
  <2> QED BY <1>1, <1>3, <2>6, <2>7
<1> QED BY <1>1, <1>2, <1>3, <1>8, <1>9

\* The request is turned into its reply.
LEMMA EchoReplyKeeps ==
    ASSUME InetInv, Inet!EchoReply
    PROVE  InetInv'
<1> DEFINE reply == [packet EXCEPT ![1] = 0]
           t == Inet!Total(reply)
<1>1. /\ InetTyped /\ ck_pc = "done" /\ ck_start = 0 /\ Len(packet) >= 2 /\ packet[1] = ECHOREQUEST
      /\ packet' = reply /\ ck' = Inet!Corrected(ck) /\ ck_pc' = "replied"
      /\ ck_start' = ck_start /\ ck_pos' = ck_pos /\ ck_sum' = ck_sum /\ Inet!ReceiverAccepts
  BY DEF InetInv, Inet!EchoReply
<1>2. ck \in 0..(Inet!WORD - 1) /\ ck \in Nat
  BY <1>1, WordIsSquare DEF InetTyped
<1>3. ECHOREQUEST * BYTE \in Nat
  BY <1>2, WordIsSquare, BytesAssumption DEF Inet!ChecksumConstants
<1>4. Inet!Total(packet) = t + ECHOREQUEST * BYTE /\ t \in Nat
  BY <1>1, ReplyTotal
<1>5. Inet!Acceptable(ck_start + Inet!Total(packet) + ck)
  BY <1>1 DEF Inet!ReceiverAccepts
<1> HIDE DEF reply, t
<1>6. ck_start + Inet!Total(packet) + ck = t + ECHOREQUEST * BYTE + ck
  BY <1>1, <1>2, <1>3, <1>4
<1>7. Inet!Acceptable(t + ECHOREQUEST * BYTE + ck)
  BY <1>5, <1>6
<1>8. /\ ck' \in 0..(Inet!WORD - 1)
      /\ Inet!Acceptable(t + ck') <=> ~(ck' \div BYTE < ECHOREQUEST /\ ck' % BYTE = 0)
  BY <1>1, <1>2, <1>4, <1>7, CorrectedIs
<1>9. Inet!EchoReplyValid'
  BY <1>1, <1>8 DEF Inet!EchoReplyValid, Inet!CarryLost, t, Inet!Acceptable, Inet!Total, Inet!WORD
<1>10. packet' \in Seq(Inet!Byte) /\ Len(packet') = Len(packet)
  <2>1. 0 \in Inet!Byte
    BY <1>2, WordIsSquare DEF Inet!Byte
  <2>2. packet \in Seq(Inet!Byte)
    BY <1>1 DEF InetTyped
  <2> QED BY <1>1, <2>1, <2>2 DEF reply
<1>11. InetTyped'
  BY <1>1, <1>8, <1>10 DEF InetTyped, Inet!WORD, Inet!Byte
<1> QED BY <1>1, <1>9, <1>11 DEF InetInv, Inet!ReceiverAccepts

\* Before the first word.
LEMMA InetInit ==
    ASSUME Inet!Init
    PROVE  InetInv
<1>1. PICK n \in 0..MAX_LEN : packet \in [1..n -> Inet!Byte]
  BY DEF Inet!Init
<1>2. /\ ck_start \in STARTS /\ ck_pos = 1 /\ ck_sum = ck_start /\ ck_pc = "add" /\ ck = 0
  BY DEF Inet!Init
<1>3. MAX_LEN \in Nat /\ n \in Nat /\ n <= MAX_LEN
  BY <1>1, BytesAssumption DEF Inet!ChecksumConstants
<1>4. packet \in Seq(Inet!Byte) /\ Len(packet) = n
  BY <1>1, <1>3
<1>5. ck_sum \in Nat /\ ck_sum + (MAX_LEN + 1) * Inet!WORD < Inet!WORD * Inet!WORD
  BY <1>2, BytesAssumption DEF Inet!ChecksumConstants
<1>6. Inet!WORD \in Nat /\ Inet!WORD >= 4
  BY WordIsSquare
<1>7. (MAX_LEN + 1) * Inet!WORD \in Nat /\ Inet!WORD * Inet!WORD \in Nat
  BY <1>3, <1>6
<1>8. InetTyped
  BY <1>2, <1>3, <1>4, <1>5, <1>6, <1>7 DEF InetTyped
<1>9. Upto(ck_pos - 1) = 0 /\ ck_pos - 1 = 0
  BY <1>2, <1>8, UptoIs
<1> QED BY <1>2, <1>5, <1>6, <1>8, <1>9 DEF InetInv, Inet!ReceiverAccepts, Inet!EchoReplyValid

\* InetInv is inductive.
LEMMA InetInductive ==
    ASSUME InetInv, [Inet!Next]_Inet!vars
    PROVE  InetInv'
<1>1. CASE UNCHANGED Inet!vars
  <2>1. /\ packet' = packet /\ ck_start' = ck_start /\ ck_pos' = ck_pos /\ ck_sum' = ck_sum /\ ck_pc' = ck_pc /\ ck' = ck
    BY <1>1 DEF Inet!vars
  <2> QED BY <2>1 DEF InetInv, InetTyped, Upto, Weighted, Rest, Ones, Inet!ReceiverAccepts,
        Inet!EchoReplyValid, Inet!Acceptable, Inet!Total, Inet!CarryLost, Inet!WORD, Inet!Byte
<1> QED BY <1>1, AddWordKeeps, AddOddByteKeeps, AddDoneKeeps, FoldCarryKeeps, ComplementKeeps,
           EchoReplyKeeps DEF Inet!Next

\* The invariant holds.
LEMMA InetHolds == MCSpec => []InetInv
<1>1. MCInit => InetInv
  BY InetInit DEF MCInit
<1>2. InetInv /\ [MCNext]_mcvars => InetInv'
  <2> SUFFICES ASSUME InetInv, [MCNext]_mcvars PROVE InetInv'
    OBVIOUS
  <2>1. [Inet!Next]_Inet!vars
    BY DEF MCNext, mcvars, Inet!vars, inetvars
  <2> QED BY <2>1, InetInductive
<1> QED BY <1>1, <1>2, PTL DEF MCSpec

\* ip_arp_udp_tcp.c:134-171: a packet of any length, with any pseudo header, is
\* acceptable to its receiver with the checksum that checksum() returns for it,
\* however many carries the sum has to take back.
THEOREM ChecksumCorrect ==
    MCSpec => []ReceiverAccepts
<1>1. InetInv => ReceiverAccepts
  BY DEF InetInv, ReceiverAccepts
<1> QED BY <1>1, InetHolds, PTL

\* ip_arp_udp_tcp.c:383-386: the checksum of an echo reply, corrected and not
\* computed, is acceptable for every request but those whose carry makes the low
\* byte wrap, and for none of those.
THEOREM EchoReplyExactly ==
    MCSpec => []EchoReplyValid
<1>1. InetInv => EchoReplyValid
  BY DEF InetInv, EchoReplyValid
<1> QED BY <1>1, InetHolds, PTL

\* ip_arp_udp_tcp.c:138: the wide sum never overflows, and the checksum has the size
\* of a word.
THEOREM SumNeverOverflows ==
    MCSpec => []Inet!TypeOK
<1>1. InetInv => Inet!TypeOK
  BY DEF InetInv, InetTyped, Inet!TypeOK
<1> QED BY <1>1, InetHolds, PTL

-----------------------------------------------------------------------------
(* Frames: fields of the buffer *)

Octet == 0..255
Buffer == [0..(SHOWN - 1) -> Octet]
IsBytes(x, n) == x \in [1..n -> Octet]
IsWord(n) == n \in Nat /\ n <= 65535

\* A byte is a number below 256.
LEMMA OctetIs ==
    ASSUME NEW x
    PROVE  x \in Octet <=> x \in Nat /\ x < 256
BY DEF Octet

\* The modelled positions are those below 60.
LEMMA ShownIs ==
    ASSUME NEW i
    PROVE  i \in 0..(SHOWN - 1) <=> i \in Nat /\ i < 60
BY DEF SHOWN

\* Bytes have the length they are given for.
LEMMA LenIs ==
    ASSUME NEW x, NEW n \in Nat, IsBytes(x, n)
    PROVE  Len(x) = n
BY DEF IsBytes

\* A buffer that bytes are written to is a buffer.
LEMMA BufferWritten ==
    ASSUME NEW b, NEW pos \in Nat, NEW x, NEW n \in Nat, b \in Buffer, IsBytes(x, n)
    PROVE  b ++ At(pos, x) \in Buffer
<1>1. Len(x) = n
  BY LenIs
<1>2. ASSUME NEW i \in 0..(SHOWN - 1), pos <= i, i < pos + n
      PROVE  x[i - pos + 1] \in Octet
  <2>1. i - pos + 1 \in 1..n
    BY <1>2 DEF SHOWN
  <2> QED BY <2>1 DEF IsBytes
<1> QED BY <1>1, <1>2 DEF ++, At, Buffer

\* A byte elsewhere stays.
LEMMA ByteKept ==
    ASSUME NEW b, NEW pos \in Nat, NEW x, NEW n \in Nat, NEW i \in Nat,
           IsBytes(x, n), i < 60, i < pos \/ pos + n <= i
    PROVE  (b ++ At(pos, x))[i] = b[i]
<1>1. Len(x) = n
  BY LenIs
<1>2. i \in 0..(SHOWN - 1)
  BY ShownIs
<1> QED BY <1>1, <1>2 DEF ++, At

\* What is written can be read.
LEMMA GetWritten ==
    ASSUME NEW b, NEW pos \in Nat, NEW x, NEW n \in Nat, IsBytes(x, n), pos + n <= 60
    PROVE  Get(b ++ At(pos, x), pos, n) = x
<1> DEFINE c == b ++ At(pos, x)
<1>1. Len(x) = n
  BY LenIs
<1>2. ASSUME NEW i \in 1..n PROVE c[pos + i - 1] = x[i]
  <2>1. /\ pos + i - 1 \in 0..(SHOWN - 1)
        /\ pos <= pos + i - 1 /\ pos + i - 1 < pos + Len(x) /\ (pos + i - 1) - pos + 1 = i
    BY <1>1 DEF SHOWN
  <2> QED BY <2>1 DEF ++, At
<1> HIDE DEF c
<1> QED BY <1>2 DEF Get, c, IsBytes

\* So can a part of it.
LEMMA GetInside ==
    ASSUME NEW b, NEW pos \in Nat, NEW x, NEW n \in Nat,
           NEW q \in Nat, NEW m \in Nat, IsBytes(x, n), pos <= q, q + m <= pos + n, q + m <= 60
    PROVE  Get(b ++ At(pos, x), q, m) = Get(x, q - pos + 1, m)
<1> DEFINE c == b ++ At(pos, x)
<1>1. Len(x) = n
  BY LenIs
<1>2. ASSUME NEW i \in 1..m PROVE c[q + i - 1] = x[q - pos + 1 + i - 1]
  <2>1. /\ q + i - 1 \in 0..(SHOWN - 1) /\ pos <= q + i - 1 /\ q + i - 1 < pos + Len(x)
        /\ (q + i - 1) - pos + 1 = q - pos + 1 + i - 1
    BY <1>1 DEF SHOWN
  <2> QED BY <2>1 DEF ++, At
<1> HIDE DEF c
<1> QED BY <1>2 DEF Get, c

\* Other fields stay.
LEMMA GetKept ==
    ASSUME NEW b, NEW pos \in Nat, NEW x, NEW n \in Nat,
           NEW q \in Nat, NEW m \in Nat, IsBytes(x, n), q + m <= pos \/ pos + n <= q, q + m <= 60
    PROVE  Get(b ++ At(pos, x), q, m) = Get(b, q, m)
<1> DEFINE c == b ++ At(pos, x)
<1>1. Len(x) = n
  BY LenIs
<1>2. ASSUME NEW i \in 1..m PROVE c[q + i - 1] = b[q + i - 1]
  <2>1. q + i - 1 \in 0..(SHOWN - 1) /\ ~(pos <= q + i - 1 /\ q + i - 1 < pos + Len(x))
    BY <1>1 DEF SHOWN
  <2> QED BY <2>1 DEF ++, At
<1> HIDE DEF c
<1> QED BY <1>2 DEF Get, c

\* Fields of a buffer are bytes.
LEMMA GetBytes ==
    ASSUME NEW b, NEW q \in Nat, NEW m \in Nat, b \in Buffer, q + m <= 60
    PROVE  IsBytes(Get(b, q, m), m)
<1>1. ASSUME NEW i \in 1..m PROVE b[q + i - 1] \in Octet
  <2>1. q + i - 1 \in 0..(SHOWN - 1)
    BY DEF SHOWN
  <2> QED BY <2>1 DEF Buffer
<1> QED BY <1>1 DEF Get, IsBytes

\* A field of one byte, and one of two that holds a number.
LEMMA ByteIs ==
    ASSUME NEW b, NEW q \in Nat
    PROVE  Get(b, q, 1) = <<b[q]>>
BY DEF Get

\* The two bytes of a number are read back as that number.
LEMMA WordIs ==
    ASSUME NEW b, NEW q \in Nat, NEW n \in Nat, Get(b, q, 2) = Two(n)
    PROVE  Word(b, q) = n
<1>1. Get(b, q, 2)[1] = b[q] /\ Get(b, q, 2)[2] = b[q + 1]
  BY DEF Get
<1>2. b[q] = n \div 256 /\ b[q + 1] = n % 256
  BY <1>1 DEF Two
<1>3. 256 * (n \div 256) + (n % 256) = n
  OBVIOUS
<1> QED BY <1>2, <1>3 DEF Word

\* The values that are written.
LEMMA PairBytes ==
    ASSUME NEW v \in Octet, NEW w \in Octet
    PROVE  IsBytes(<<v, w>>, 2)
BY DEF IsBytes

\* A number of 16 bits is two bytes.
LEMMA TwoBytes ==
    ASSUME NEW n, IsWord(n)
    PROVE  IsBytes(Two(n), 2)
<1> DEFINE q == n \div 256
           r == n % 256
<1>1. q \in Nat /\ r \in Nat /\ r < 256 /\ n = 256 * q + r
  BY Division DEF IsWord
<1> HIDE DEF q, r
<1>2. q \in Octet /\ r \in Octet
  BY <1>1, OctetIs DEF IsWord
<1> USE DEF q, r
<1> QED BY <1>2, PairBytes DEF Two

\* Addresses of hosts are bytes.
LEMMA MacBytes ==
    ASSUME NEW h \in 1..9
    PROVE  IsBytes(Mac(h), 6) /\ IsBytes(Ip(h), 4)
BY OctetIs DEF Mac, Ip, IsBytes

\* So are runs of one value.
LEMMA ZerosBytes ==
    ASSUME NEW n \in Nat
    PROVE  IsBytes(Zeros(n), n) /\ IsBytes(AllFf(n), n)
BY OctetIs DEF Zeros, AllFf, IsBytes

\* One byte, as bytes.
LEMMA OneByte ==
    ASSUME NEW v \in Octet
    PROVE  IsBytes(<<v>>, 1)
BY DEF IsBytes

\* Four of them.
LEMMA FourBytes ==
    ASSUME NEW v \in Octet, NEW w \in Octet, NEW y \in Octet, NEW z \in Octet
    PROVE  IsBytes(<<v, w, y, z>>, 4)
BY DEF IsBytes

\* Bytes after bytes.
LEMMA JoinBytes ==
    ASSUME NEW x, NEW n \in Nat, NEW y, NEW m \in Nat, IsBytes(x, n), IsBytes(y, m)
    PROVE  IsBytes(x \o y, n + m)
<1>1. x \in Seq(Octet) /\ y \in Seq(Octet) /\ Len(x) = n /\ Len(y) = m
  BY DEF IsBytes
<1>2. x \o y \in Seq(Octet) /\ Len(x \o y) = n + m
  BY <1>1
<1>3. \A s \in Seq(Octet) : s \in [1..Len(s) -> Octet]
  OBVIOUS
<1> HIDE DEF Octet
<1>4. x \o y \in [1..(n + m) -> Octet]
  BY <1>2, <1>3
<1> QED BY <1>4 DEF IsBytes

-----------------------------------------------------------------------------
(* Frames: checksums *)

\* What a byte adds, and what the bytes at S add up to.
Weighed(b, pos) == [i \in DOMAIN b |-> IF (i - pos) % 2 = 0 THEN 256 * b[i] ELSE b[i]]
SumOver(b, pos, S) == SumFunctionOnSet(Weighed(b, pos), S)
Covered(b, pos, len) == { i \in DOMAIN b : pos <= i /\ i < pos + len }
Others(b, pos, len, q) == Covered(b, pos, len) \ {q, q + 1}
\* What the pseudo header adds.
Pseudo(len, type) == IF type = 0 THEN 0 ELSE type + len - 8
Folded(s) == IF s = 0 THEN 0 ELSE 1 + ((s - 1) % 65535)
Added(b, pos, len, type) == SumOver(b, pos, Covered(b, pos, len)) + Pseudo(len, type)

\* A checksum is the complement of a folded sum.
LEMMA ChecksumIs ==
    ASSUME NEW b, NEW pos, NEW len, NEW type
    PROVE  Checksum(b, pos, len, type) = 65535 - Folded(Added(b, pos, len, type))
BY DEF Checksum, Folded, Added, Pseudo, SumOver, Covered, Weighed

\* The indices a sum is over.
LEMMA CoveredIs ==
    ASSUME NEW b, NEW pos, NEW len, b \in Buffer, pos \in Nat, len \in Nat
    PROVE  /\ Covered(b, pos, len) \subseteq DOMAIN b /\ IsFiniteSet(Covered(b, pos, len))
           /\ \A i : i \in Covered(b, pos, len) <=> i \in Nat /\ i < 60 /\ pos <= i /\ i < pos + len
<1>1. DOMAIN b = 0..(SHOWN - 1)
  BY DEF Buffer
<1>2. IsFiniteSet(0..(SHOWN - 1))
  <2>1. SHOWN - 1 \in Int
    BY DEF SHOWN
  <2> QED BY <2>1, FS_Interval
<1>3. Covered(b, pos, len) \subseteq 0..(SHOWN - 1)
  BY <1>1 DEF Covered
<1>4. IsFiniteSet(Covered(b, pos, len))
  BY <1>2, <1>3, FS_Subset
<1>5. \A i : i \in Covered(b, pos, len) <=> i \in Nat /\ i < 60 /\ pos <= i /\ i < pos + len
  BY <1>1 DEF Covered, SHOWN
<1> QED BY <1>1, <1>3, <1>4, <1>5

\* The positions a checksum is over.
LEMMA InCovered ==
    ASSUME NEW b, NEW pos, NEW len, NEW i, b \in Buffer, pos \in Nat, len \in Nat
    PROVE  i \in Covered(b, pos, len) <=> i \in Nat /\ i < 60 /\ pos <= i /\ i < pos + len
BY CoveredIs

\* A sum is a number; bytes that agree have the same.
LEMMA OverTyped ==
    ASSUME NEW b, NEW pos, NEW S, pos \in Nat, S \subseteq DOMAIN b, IsFiniteSet(S), S \subseteq Nat,
           \A i \in S : b[i] \in Octet
    PROVE  /\ SumOver(b, pos, S) \in Nat
           /\ \A i \in S : Weighed(b, pos)[i] \in Nat
<1> DEFINE f == Weighed(b, pos)
<1>1. ASSUME NEW i \in S PROVE f[i] \in Nat
  <2>1. b[i] \in Nat
    BY OctetIs
  <2>2. f[i] = IF (i - pos) % 2 = 0 THEN 256 * b[i] ELSE b[i]
    BY DEF Weighed
  <2>3. 256 * b[i] \in Nat
    BY <2>1
  <2> QED BY <2>1, <2>2, <2>3
<1> HIDE DEF f
<1>2. SumFunctionOnSet(f, S) \in Nat
  <2>1. Nat \subseteq Int /\ 0 \in Nat /\ \A x, y \in Nat : x + y \in Nat
    OBVIOUS
  <2> QED BY <1>1, <2>1, SumTyped
<1> QED BY <1>1, <1>2 DEF SumOver, f

\* Functions that agree have the same sum.
LEMMA SumSame ==
    ASSUME NEW S, IsFiniteSet(S), NEW f, NEW g, \A x \in S : f[x] \in Int /\ f[x] = g[x]
    PROVE  SumFunctionOnSet(f, S) = SumFunctionOnSet(g, S)
<1> DEFINE h == [x \in S |-> x]
<1>1. \A x \in S : h[x] = x
  OBVIOUS
<1>2. { h[x] : x \in S } = S
  BY <1>1
<1> HIDE DEF h
<1>3. \A x \in S : f[x] \in Int /\ f[x] = g[h[x]]
  BY <1>1
<1>4. \A x, y \in S : h[x] = h[y] => x = y
  BY <1>1
<1>5. SumFunctionOnSet(f, S) = SumFunctionOnSet(g, { h[x] : x \in S })
  BY <1>3, <1>4, SumReindex
<1> QED BY <1>2, <1>5

\* Buffers that agree on the positions of a sum have the same sum.
LEMMA OverSame ==
    ASSUME NEW b, NEW c, NEW pos, NEW S, pos \in Nat, IsFiniteSet(S), S \subseteq Nat,
           S \subseteq DOMAIN b, S \subseteq DOMAIN c,
           \A i \in S : b[i] \in Octet /\ b[i] = c[i]
    PROVE  SumOver(b, pos, S) = SumOver(c, pos, S)
<1> DEFINE f == Weighed(b, pos)
           g == Weighed(c, pos)
<1>1. \A i \in S : f[i] = g[i]
  BY DEF Weighed
<1>2. \A i \in S : f[i] \in Int
  <2>1. S \subseteq DOMAIN b /\ \A i \in S : b[i] \in Octet
    OBVIOUS
  <2> HIDE DEF g
  <2>2. \A i \in S : f[i] \in Nat
    BY <2>1, OverTyped
  <2> QED BY <2>2
<1> HIDE DEF f, g
<1>3. \A x \in S : f[x] \in Int /\ f[x] = g[x]
  BY <1>1, <1>2
<1>4. SumFunctionOnSet(f, S) = SumFunctionOnSet(g, S)
  BY <1>3, SumSame
<1> QED BY <1>4 DEF SumOver, f, g

\* One position of a sum, taken out.
LEMMA OverWithout ==
    ASSUME NEW b, NEW pos, NEW S, IsFiniteSet(S), S \subseteq Nat,
           S \subseteq DOMAIN b, \A i \in S : b[i] \in Octet, NEW i \in S, pos \in Nat
    PROVE  SumOver(b, pos, S)
             = (IF (i - pos) % 2 = 0 THEN 256 * b[i] ELSE b[i]) + SumOver(b, pos, S \ {i})
<1> DEFINE f == Weighed(b, pos)
<1>1. \A x \in S : f[x] \in Int
  <2>1. S \subseteq DOMAIN b
    OBVIOUS
  <2>2. \A x \in S : f[x] \in Nat
    BY <2>1, OverTyped
  <2> QED BY <2>2
<1>2. f[i] = IF (i - pos) % 2 = 0 THEN 256 * b[i] ELSE b[i]
  BY DEF Weighed
<1> HIDE DEF f
<1>3. SumFunctionOnSet(f, S) = f[i] + SumFunctionOnSet(f, S \ {i})
  BY <1>1, SumRemove
<1> QED BY <1>2, <1>3 DEF SumOver, f

\* A word at an even distance adds its value.
LEMMA OverWord ==
    ASSUME NEW b, NEW pos, NEW len, NEW q,
           b \in Buffer, pos \in Nat, len \in Nat, q \in Nat,
           pos <= q, (q - pos) % 2 = 0, q + 2 <= pos + len, q + 2 <= 60
    PROVE  LET S == Others(b, pos, len, q)
           IN  /\ SumOver(b, pos, Covered(b, pos, len)) = Word(b, q) + SumOver(b, pos, S)
               /\ SumOver(b, pos, S) \in Nat /\ Word(b, q) \in Nat
               /\ IsFiniteSet(S) /\ S \subseteq Nat /\ S \subseteq DOMAIN b
<1> DEFINE C == Covered(b, pos, len)
           D == C \ {q}
           S == Others(b, pos, len, q)
<1>1. /\ C \subseteq DOMAIN b /\ IsFiniteSet(C) /\ C \subseteq Nat
      /\ q \in C /\ q + 1 \in C /\ \A i \in C : b[i] \in Octet
  <2>1. \A i \in DOMAIN b : b[i] \in Octet
    BY DEF Buffer
  <2>2. q \in C /\ q + 1 \in C
    BY InCovered
  <2> QED BY <2>1, <2>2, CoveredIs
<1>2. (q + 1 - pos) % 2 # 0
  OBVIOUS
<1> HIDE DEF C
<1>3. IsFiniteSet(D) /\ IsFiniteSet(S) /\ D \ {q + 1} = S /\ q + 1 \in D /\ S \subseteq C
  BY <1>1, FS_Subset DEF Others, C
<1>4. SumOver(b, pos, C) = 256 * b[q] + SumOver(b, pos, D)
  BY <1>1, OverWithout
<1>5. SumOver(b, pos, D) = b[q + 1] + SumOver(b, pos, S)
  <2> HIDE DEF S
  <2>1. SumOver(b, pos, D) = b[q + 1] + SumOver(b, pos, D \ {q + 1})
    BY <1>1, <1>2, <1>3, OverWithout
  <2> QED BY <2>1, <1>3
<1>6. SumOver(b, pos, S) \in Nat
  BY <1>1, <1>3, OverTyped
<1>7. b[q] \in Nat /\ b[q + 1] \in Nat
  BY <1>1, OctetIs
<1> HIDE DEF D, S
<1>8. SumOver(b, pos, C) = (256 * b[q] + b[q + 1]) + SumOver(b, pos, S)
  BY <1>4, <1>5, <1>6, <1>7
<1> USE DEF S
<1> QED BY <1>1, <1>3, <1>6, <1>7, <1>8 DEF Word, C

\* The complement of a folded sum makes the sum a multiple of 65535.
LEMMA ComplementCompletes ==
    ASSUME NEW s \in Nat
    PROVE  /\ IsWord(65535 - Folded(s)) /\ 65535 - Folded(s) \in Nat
           /\ Folded(s + (65535 - Folded(s))) = 65535
<1>1. CASE s = 0
  BY <1>1 DEF Folded, IsWord
<1>2. CASE s > 0
  <2> DEFINE d == (s - 1) \div 65535
             r == (s - 1) % 65535
  <2>1. d \in Nat /\ r \in Nat /\ r < 65535 /\ s - 1 = 65535 * d + r
    BY <1>2, Division
  <2>2. Folded(s) = 1 + r
    BY <1>2 DEF Folded
  <2> HIDE DEF d, r
  <2> DEFINE t == s + (65535 - (1 + r))
  <2>3. t \in Nat /\ t > 0 /\ t - 1 = 65535 * d + 65534
    BY <1>2, <2>1
  <2>4. (65535 * d + 65534) % 65535 = 65534
    BY <2>1
  <2>5. Folded(t) = 65535
    <3> HIDE DEF t
    <3> QED BY <2>3, <2>4 DEF Folded
  <2> QED BY <2>1, <2>2, <2>5 DEF IsWord
<1> QED BY <1>1, <1>2

\* A folded sum is full exactly for the positive multiples of 65535.
LEMMA FullIs ==
    ASSUME NEW s \in Nat
    PROVE  Folded(s) = 65535 <=> s > 0 /\ s % 65535 = 0
<1>1. CASE s = 0
  BY <1>1 DEF Folded
<1>2. CASE s > 0
  <2> DEFINE d == (s - 1) \div 65535
             r == (s - 1) % 65535
  <2>1. d \in Nat /\ r \in Nat /\ r < 65535 /\ s = 65535 * d + (r + 1)
    BY <1>2, Division
  <2>2. Folded(s) = 1 + r
    BY <1>2 DEF Folded
  <2> HIDE DEF d, r
  <2>3. CASE r = 65534
    <3>1. s = 65535 * (d + 1)
      BY <2>1, <2>3
    <3>2. s % 65535 = 0
      BY <2>1, <3>1
    <3> QED BY <1>2, <2>2, <2>3, <3>2
  <2>4. CASE r < 65534
    <3>1. s % 65535 = r + 1
      BY <2>1, <2>4
    <3> QED BY <2>1, <2>2, <2>4, <3>1
  <2> QED BY <2>1, <2>3, <2>4
<1> QED BY <1>1, <1>2

\* What the pseudo header adds is a number.
LEMMA PseudoTyped ==
    ASSUME NEW len, NEW type, len \in Nat, type \in Nat, type = 0 \/ len >= 8
    PROVE  Pseudo(len, type) \in Nat
BY DEF Pseudo

\* So is what a checksum folds.
LEMMA AddedTyped ==
    ASSUME NEW b, NEW pos, NEW len, NEW type, pos \in Nat, len \in Nat, type \in Nat, b \in Buffer,
           type = 0 \/ len >= 8
    PROVE  Added(b, pos, len, type) \in Nat
<1> DEFINE C == Covered(b, pos, len)
<1>1. C \subseteq DOMAIN b /\ IsFiniteSet(C) /\ C \subseteq Nat
  BY CoveredIs
<1>2. \A i \in C : b[i] \in Octet
  BY <1>1 DEF Buffer
<1> HIDE DEF C
<1>3. SumOver(b, pos, C) \in Nat
  BY <1>1, <1>2, OverTyped
<1>4. Pseudo(len, type) \in Nat
  BY PseudoTyped
<1> QED BY <1>3, <1>4 DEF Added, C

\* A checksum is a word.
LEMMA ChecksumTyped ==
    ASSUME NEW b, NEW pos, NEW len, NEW type,
           b \in Buffer, pos \in Nat, len \in Nat, type \in Nat,
           type = 0 \/ len >= 8
    PROVE  /\ Checksum(b, pos, len, type) \in Nat /\ IsWord(Checksum(b, pos, len, type))
           /\ IsBytes(Two(Checksum(b, pos, len, type)), 2)
<1> DEFINE s == Added(b, pos, len, type)
<1>1. s \in Nat
  BY AddedTyped
<1>2. Checksum(b, pos, len, type) = 65535 - Folded(s)
  BY ChecksumIs
<1> HIDE DEF s
<1>3. Checksum(b, pos, len, type) \in Nat /\ IsWord(Checksum(b, pos, len, type))
  BY <1>1, <1>2, ComplementCompletes
<1> QED BY <1>3, TwoBytes

\* What is written elsewhere does not change a checksum.
LEMMA ChecksumKept ==
    ASSUME NEW b, NEW p \in Nat, NEW x, NEW n \in Nat, NEW pos \in Nat, NEW len \in Nat, NEW type,
           b \in Buffer, IsBytes(x, n), p + n <= pos \/ pos + len <= p
    PROVE  Checksum(b ++ At(p, x), pos, len, type) = Checksum(b, pos, len, type)
<1> DEFINE c == b ++ At(p, x)
           C == Covered(b, pos, len)
<1>1. c \in Buffer
  BY BufferWritten
<1>2. DOMAIN b = DOMAIN c
  BY <1>1 DEF Buffer
<1>3. Len(x) = n
  BY LenIs
<1>4. ASSUME NEW i \in C PROVE b[i] \in Octet /\ b[i] = c[i]
  <2>1. i \in 0..(SHOWN - 1) /\ ~(p <= i /\ i < p + Len(x))
    <3>1. i \in Nat /\ i < 60 /\ pos <= i /\ i < pos + len
      BY CoveredIs
    <3> QED BY <1>3, <3>1, ShownIs
  <2> QED BY <2>1 DEF Buffer, ++, At
<1> HIDE DEF c
<1>5. C \subseteq DOMAIN b /\ IsFiniteSet(C) /\ C \subseteq Nat
  BY CoveredIs
<1>6. Covered(c, pos, len) = C
  BY <1>2 DEF Covered
<1> HIDE DEF C
<1>7. SumOver(b, pos, C) = SumOver(c, pos, C)
  BY <1>2, <1>4, <1>5, OverSame
<1>8. Added(c, pos, len, type) = Added(b, pos, len, type)
  BY <1>6, <1>7 DEF Added, C
<1> QED BY <1>8, ChecksumIs DEF c

\* A checksum written to its field, which was zero, makes the checksum zero.
LEMMA ChecksumCompletes ==
    ASSUME NEW b, NEW pos, NEW len, NEW type,
           NEW q, pos \in Nat, len \in Nat, type \in Nat, q \in Nat, b \in Buffer, type = 0 \/ len >= 8,
           pos <= q, (q - pos) % 2 = 0, q + 2 <= pos + len, q + 2 <= 60, Get(b, q, 2) = <<0, 0>>
    PROVE  Checksum(b ++ At(q, Two(Checksum(b, pos, len, type))), pos, len, type) = 0
<1> DEFINE cksum == Checksum(b, pos, len, type)
           x == Two(cksum)
           c == b ++ At(q, x)
           C == Covered(b, pos, len)
           S == Others(b, pos, len, q)
           s == Added(b, pos, len, type)
<1>1. cksum \in Nat /\ IsBytes(x, 2)
  BY ChecksumTyped
<1> HIDE DEF cksum
<1>2. c \in Buffer
  BY <1>1, BufferWritten
<1>3. DOMAIN b = DOMAIN c
  BY <1>2 DEF Buffer
<1> HIDE DEF x
<1>5. ASSUME NEW i \in S PROVE b[i] \in Octet /\ b[i] = c[i]
  <2>1. i \in Nat /\ i < 60 /\ i # q /\ i # q + 1
    BY InCovered DEF Others
  <2>2. i < q \/ q + 2 <= i
    BY <2>1
  <2>5. 2 \in Nat /\ i < 60 /\ (i < q \/ q + 2 <= i) /\ IsBytes(x, 2) /\ i \in Nat
    BY <1>1, <2>1, <2>2
  <2>3. b[i] = c[i]
    <3> HIDE DEF c
    <3>1. (b ++ At(q, x))[i] = b[i]
      <4> HIDE DEF C, S, s
      <4> QED BY <2>5, ByteKept
    <3> QED BY <3>1 DEF c
  <2>4. i \in 0..(SHOWN - 1)
    BY <2>1, ShownIs
  <2> QED BY <2>3, <2>4 DEF Buffer
<1>6. Word(b, q) = 0
  <2>1. Get(b, q, 2) = Two(0)
    BY DEF Two
  <2> QED BY <2>1, WordIs
<1>7. Word(c, q) = cksum
  <2>1. Get(c, q, 2) = x
    BY <1>1, GetWritten
  <2> QED BY <1>1, <2>1, WordIs DEF x
<1> HIDE DEF c
<1>8. Covered(c, pos, len) = C /\ Others(c, pos, len, q) = S
  BY <1>3 DEF Covered, Others
<1>9. /\ SumOver(b, pos, C) = Word(b, q) + SumOver(b, pos, S)
      /\ SumOver(b, pos, S) \in Nat
      /\ IsFiniteSet(S) /\ S \subseteq Nat /\ S \subseteq DOMAIN b
  BY OverWord
<1>10. SumOver(c, pos, C) = Word(c, q) + SumOver(c, pos, S)
  BY <1>2, <1>8, OverWord
<1> HIDE DEF S, C
<1>11. SumOver(b, pos, S) = SumOver(c, pos, S)
  <2>1. S \subseteq DOMAIN b /\ S \subseteq DOMAIN c /\ S \subseteq Nat /\ IsFiniteSet(S)
    BY <1>3, <1>9
  <2>2. \A i \in S : b[i] \in Octet /\ b[i] = c[i]
    BY <1>5
  <2> QED BY <2>1, <2>2, OverSame
<1>12. Pseudo(len, type) \in Nat
  BY PseudoTyped
<1>13. Added(c, pos, len, type) = s + cksum
  BY <1>1, <1>6, <1>7, <1>8, <1>9, <1>10, <1>11, <1>12 DEF Added, C
<1>14. s \in Nat
  BY AddedTyped
<1>15. cksum = 65535 - Folded(s)
  BY ChecksumIs DEF cksum
<1> HIDE DEF s
<1>16. Folded(s + cksum) = 65535
  BY <1>14, <1>15, ComplementCompletes
<1>17. Checksum(c, pos, len, type) = 0
  BY <1>13, <1>16, ChecksumIs
<1> QED BY <1>17 DEF c, x, cksum

\* A frame is what the buffer begins with.
LEMMA FrameGet ==
    ASSUME NEW b, NEW len \in Nat, NEW q \in Nat, NEW m \in Nat, b \in Buffer, q + m <= len, q + m <= 60
    PROVE  Get(Frame(b, len).bytes, q, m) = Get(b, q, m)
<1> DEFINE f == Frame(b, len).bytes
<1>1. ASSUME NEW i \in 1..m PROVE f[q + i - 1] = b[q + i - 1]
  <2>1. q + i - 1 \in DOMAIN b /\ q + i - 1 < len
    BY DEF Buffer, SHOWN
  <2> QED BY <2>1 DEF Frame
<1> HIDE DEF f
<1> QED BY <1>1 DEF Get, f

\* A checksum over bytes of a frame is the one over the buffer it was cut from.
LEMMA FrameChecksum ==
    ASSUME NEW b, NEW len \in Nat, NEW pos \in Nat, NEW l \in Nat, NEW type, b \in Buffer,
           pos + l <= len
    PROVE  Checksum(Frame(b, len).bytes, pos, l, type) = Checksum(b, pos, l, type)
<1> DEFINE f == Frame(b, len).bytes
           C == Covered(b, pos, l)
<1>1. DOMAIN f = { k \in DOMAIN b : k < len } /\ \A k \in DOMAIN f : f[k] = b[k]
  BY DEF Frame
<1> HIDE DEF f
<1>2. C \subseteq DOMAIN b /\ IsFiniteSet(C) /\ C \subseteq Nat
  BY CoveredIs
<1>3. Covered(f, pos, l) = C
  <2>1. \A i \in DOMAIN b : i \in Nat
    BY DEF Buffer, SHOWN
  <2> QED BY <1>1, <2>1 DEF Covered
<1>4. C \subseteq DOMAIN f
  BY <1>3 DEF Covered
<1>5. \A i \in C : b[i] \in Octet /\ b[i] = f[i]
  BY <1>1, <1>2, <1>4 DEF Buffer
<1> HIDE DEF C
<1>6. SumOver(b, pos, C) = SumOver(f, pos, C)
  BY <1>2, <1>4, <1>5, OverSame
<1>7. Added(f, pos, l, type) = Added(b, pos, l, type)
  BY <1>3, <1>6 DEF Added, C
<1> QED BY <1>7, ChecksumIs DEF f

-----------------------------------------------------------------------------
(* Frames: the steps builders share *)

\* make_eth sends the frame back to its sender and leaves the rest.
LEMMA EthMade ==
    ASSUME NEW b \in Buffer
    PROVE  /\ make_eth(b) \in Buffer
           /\ Get(make_eth(b), 0, 6) = Get(b, 6, 6) /\ Get(make_eth(b), 6, 6) = Mac(Me)
           /\ \A q, m \in Nat : 12 <= q /\ q + m <= 60 => Get(make_eth(b), q, m) = Get(b, q, m)
<1>1. IsBytes(Get(b, 6, 6), 6) /\ IsBytes(Mac(Me), 6)
  BY GetBytes, MacBytes DEF Me
<1>2. make_eth(b) \in Buffer
  BY <1>1, BufferWritten DEF make_eth, P
<1> QED BY <1>1, <1>2, GetWritten, GetKept DEF make_eth, P

\* fill_ip_hdr_checksum makes the header acceptable and leaves what it does not
\* write.
LEMMA IpFilled ==
    ASSUME NEW b \in Buffer
    PROVE  /\ fill_ip_hdr_checksum(b) \in Buffer
           /\ Checksum(fill_ip_hdr_checksum(b), 14, 20, 0) = 0
           /\ \A q, m \in Nat : (q + m <= 20 \/ (q = 23 /\ m = 1) \/ 26 <= q) /\ q + m <= 60
                  => Get(fill_ip_hdr_checksum(b), q, m) = Get(b, q, m)
<1> DEFINE c == b ++ At(24, <<0, 0>>) ++ At(20, <<64, 0>>) ++ At(22, << 64 >>)
<1>1. IsBytes(<<0, 0>>, 2) /\ IsBytes(<<64, 0>>, 2) /\ IsBytes(<< 64 >>, 1)
  <2>1. 0 \in Octet /\ 64 \in Octet
    BY DEF Octet
  <2> QED BY <2>1, PairBytes, OneByte
<1>0. c \in Buffer
  BY <1>1, BufferWritten
<1>2. /\ Get(c, 24, 2) = <<0, 0>>
      /\ \A q, m \in Nat : (q + m <= 20 \/ (q = 23 /\ m = 1) \/ 26 <= q) /\ q + m <= 60
              => Get(c, q, m) = Get(b, q, m)
  BY <1>1, GetWritten, GetKept
<1>3. fill_ip_hdr_checksum(b) = c ++ At(24, Two(Checksum(c, 14, 20, 0)))
  BY DEF fill_ip_hdr_checksum, P
<1> HIDE DEF c
<1>4. IsBytes(Two(Checksum(c, 14, 20, 0)), 2)
  BY <1>0, ChecksumTyped
<1>5. Checksum(c ++ At(24, Two(Checksum(c, 14, 20, 0))), 14, 20, 0) = 0
  BY <1>0, <1>2, ChecksumCompletes
<1>6. c ++ At(24, Two(Checksum(c, 14, 20, 0))) \in Buffer
  BY <1>0, <1>4, BufferWritten
<1> QED BY <1>2, <1>3, <1>4, <1>5, <1>6, GetKept

\* make_ip sends the datagram back to its sender, with an acceptable header.
LEMMA IpMade ==
    ASSUME NEW b \in Buffer, IsBytes(ipaddr, 4)
    PROVE  /\ make_ip(b) \in Buffer
           /\ Checksum(make_ip(b), 14, 20, 0) = 0
           /\ Get(make_ip(b), 30, 4) = Get(b, 26, 4) /\ Get(make_ip(b), 26, 4) = ipaddr
           /\ \A q, m \in Nat : (q + m <= 20 \/ (q = 23 /\ m = 1) \/ 34 <= q) /\ q + m <= 60
                  => Get(make_ip(b), q, m) = Get(b, q, m)
<1> DEFINE c == b ++ At(30, Get(b, 26, 4)) ++ At(26, ipaddr)
<1>1. IsBytes(Get(b, 26, 4), 4)
  BY GetBytes
<1>0. c \in Buffer
  BY <1>1, BufferWritten
<1>2. /\ Get(c, 30, 4) = Get(b, 26, 4) /\ Get(c, 26, 4) = ipaddr
      /\ \A q, m \in Nat : (q + m <= 26 \/ 34 <= q) /\ q + m <= 60 => Get(c, q, m) = Get(b, q, m)
  BY <1>1, GetWritten, GetKept
<1>3. make_ip(b) = fill_ip_hdr_checksum(c)
  BY DEF make_ip, P
<1> HIDE DEF c
<1> QED BY <1>0, <1>2, <1>3, IpFilled

\* Four bytes stay four bytes.
LEMMA AddToBytes ==
    ASSUME NEW four \in [1..4 -> Octet], NEW n \in Nat
    PROVE  IsBytes(AddTo(four, n), 4)
<1> DEFINE low == 256 * four[3] + four[4] + n
           high == 256 * four[1] + four[2] + low \div 65536
<1>1. low \in Nat
  <2>1. four[3] \in Nat /\ four[4] \in Nat
    BY DEF Octet
  <2> QED BY <2>1
<1> HIDE DEF low
<1>2. low \div 65536 \in Nat /\ IsWord(low % 65536)
  BY <1>1, Division DEF IsWord
<1>3. high \in Nat
  <2>1. four[1] \in Nat /\ four[2] \in Nat
    BY DEF Octet
  <2> QED BY <1>2, <2>1
<1> HIDE DEF high
<1>4. IsWord(high % 65536)
  BY <1>3, Division DEF IsWord
<1>5. IsBytes(Two(high % 65536) \o Two(low % 65536), 2 + 2)
  BY <1>2, <1>4, TwoBytes, JoinBytes
<1> QED BY <1>5 DEF AddTo, low, high

\* A header turned round.
LEMMA HeadMade ==
    ASSUME NEW b, NEW n, NEW cp, b \in Buffer, n \in Nat, cp \in Nat
    PROVE  LET c == make_tcphead(b, n, cp)
           IN  /\ c \in Buffer
               /\ Checksum(c, 14, 20, 0) = Checksum(b, 14, 20, 0)
               /\ Get(c, 36, 2) = Get(b, 34, 2) /\ Get(c, 34, 2) = Get(b, 36, 2)
               /\ cp = 1 => Get(c, 38, 4) = Get(b, 42, 4)
               /\ Get(c, 42, 4) = AddTo(Get(b, 38, 4), n)
               /\ Get(c, 50, 2) = <<0, 0>>
               /\ \A q, m \in Nat : (q + m <= 34 \/ (47 <= q /\ q + m <= 50) \/ 52 <= q) /\ q + m <= 60
                      => Get(c, q, m) = Get(b, q, m)
<1> DEFINE d == b ++ At(36, Get(b, 34, 2)) ++ At(34, Get(b, 36, 2))
           x == IF cp = 1 THEN Get(d, 42, 4) ELSE Zeros(4)
           e == d ++ At(38, x)
           y == AddTo(Get(d, 38, 4), n)
           g == e ++ At(42, y)
           h == g ++ At(50, <<0, 0>>) ++ At(46, << 80 >>)
<1>1. IsBytes(Get(b, 34, 2), 2) /\ IsBytes(Get(b, 36, 2), 2)
  BY GetBytes
<1>0. d \in Buffer
  BY <1>1, BufferWritten
<1>13. Checksum(d, 14, 20, 0) = Checksum(b, 14, 20, 0)
  BY <1>1, BufferWritten, ChecksumKept
<1>2. /\ Get(d, 36, 2) = Get(b, 34, 2) /\ Get(d, 34, 2) = Get(b, 36, 2)
      /\ \A q, m \in Nat : (q + m <= 34 \/ 38 <= q) /\ q + m <= 60 => Get(d, q, m) = Get(b, q, m)
  BY <1>1, GetWritten, GetKept
<1> HIDE DEF d
<1>3. Get(d, 42, 4) = Get(b, 42, 4) /\ Get(d, 38, 4) = Get(b, 38, 4)
  BY <1>2
<1>4. IsBytes(Get(d, 38, 4), 4) /\ IsBytes(Get(d, 42, 4), 4) /\ IsBytes(Zeros(4), 4)
  BY <1>0, GetBytes, ZerosBytes
<1>5. IsBytes(x, 4)
  BY <1>4
<1>6. IsBytes(y, 4)
  BY <1>4, AddToBytes DEF IsBytes
<1>7. cp = 1 => x = Get(b, 42, 4)
  BY <1>3
<1>8. y = AddTo(Get(b, 38, 4), n)
  BY <1>3
<1>9. IsBytes(<<0, 0>>, 2) /\ IsBytes(<< 80 >>, 1)
  <2>1. 0 \in Octet /\ 80 \in Octet
    BY DEF Octet
  <2> QED BY <2>1, PairBytes, OneByte
<1>10. step_seq(d, n, cp) = g
  <2>1. Get(e, 38, 4) = x
    BY <1>5, GetWritten
  <2> QED BY DEF step_seq, P
<1>11. make_tcphead(b, n, cp) = h
  BY <1>10 DEF make_tcphead, P, d
<1> HIDE DEF x, y
<1>14. h \in Buffer
  <2>1. e \in Buffer
    BY <1>0, <1>5, BufferWritten
  <2>2. g \in Buffer
    BY <2>1, <1>6, BufferWritten
  <2> HIDE DEF g
  <2> QED BY <2>2, <1>9, BufferWritten
<1>15. Checksum(h, 14, 20, 0) = Checksum(d, 14, 20, 0)
  <2>1. e \in Buffer /\ g \in Buffer /\ g ++ At(50, <<0, 0>>) \in Buffer
    BY <1>0, <1>5, <1>6, <1>9, BufferWritten
  <2> QED BY <1>0, <1>5, <1>6, <1>9, <2>1, ChecksumKept
<1>17. Get(h, 38, 4) = x /\ Get(h, 42, 4) = y
  BY <1>5, <1>6, <1>9, GetWritten, GetKept
<1>18. Get(h, 50, 2) = <<0, 0>>
  BY <1>5, <1>6, <1>9, GetWritten, GetKept
<1>16. \A q, m \in Nat : (q + m <= 38 \/ (47 <= q /\ q + m <= 50) \/ 52 <= q) /\ q + m <= 60
              => Get(h, q, m) = Get(d, q, m)
  BY <1>5, <1>6, <1>9, GetKept
<1> HIDE DEF h
<1> QED BY <1>2, <1>7, <1>8, <1>11, <1>13, <1>14, <1>15, <1>16, <1>17, <1>18

\* A segment is acceptable if its checksum field was clear when it was summed up.
LEMMA TcpCheckedIs ==
    ASSUME NEW b, NEW len, b \in Buffer, len \in Nat, len >= 20, Get(b, 50, 2) = <<0, 0>>
    PROVE  LET c == TcpChecked(b, len)
           IN  /\ c \in Buffer
               /\ Checksum(c, 14, 20, 0) = Checksum(b, 14, 20, 0)
               /\ Checksum(c, 26, 8 + len, 6) = 0
               /\ \A q, m \in Nat : (q + m <= 50 \/ 52 <= q) /\ q + m <= 60 => Get(c, q, m) = Get(b, q, m)
<1> DEFINE x == Two(Checksum(b, 26, 8 + len, 6))
<1>1. IsBytes(x, 2)
  BY ChecksumTyped
<1>2. Checksum(b ++ At(50, x), 26, 8 + len, 6) = 0
  BY ChecksumCompletes
<1>3. TcpChecked(b, len) = b ++ At(50, x)
  BY DEF TcpChecked, P, TCP_V
<1> HIDE DEF x
<1>4. b ++ At(50, x) \in Buffer
  BY <1>1, BufferWritten
<1>5. Checksum(b ++ At(50, x), 14, 20, 0) = Checksum(b, 14, 20, 0)
  BY <1>1, ChecksumKept
<1> QED BY <1>1, <1>2, <1>3, <1>4, <1>5, GetKept

\* So is a datagram.
LEMMA UdpCheckedIs ==
    ASSUME NEW b, NEW len, b \in Buffer, len \in Nat, Get(b, 40, 2) = <<0, 0>>
    PROVE  LET c == UdpChecked(b, len)
           IN  /\ c \in Buffer
               /\ Checksum(c, 14, 20, 0) = Checksum(b, 14, 20, 0)
               /\ Checksum(c, 26, 16 + len, 17) = 0
               /\ \A q, m \in Nat : (q + m <= 40 \/ 42 <= q) /\ q + m <= 60 => Get(c, q, m) = Get(b, q, m)
<1> DEFINE x == Two(Checksum(b, 26, 16 + len, 17))
<1>1. IsBytes(x, 2)
  BY ChecksumTyped
<1>2. Checksum(b ++ At(40, x), 26, 16 + len, 17) = 0
  BY ChecksumCompletes
<1>3. UdpChecked(b, len) = b ++ At(40, x)
  BY DEF UdpChecked, P, UDP_V
<1> HIDE DEF x
<1>4. b ++ At(40, x) \in Buffer
  BY <1>1, BufferWritten
<1>5. Checksum(b ++ At(40, x), 14, 20, 0) = Checksum(b, 14, 20, 0)
  BY <1>1, ChecksumKept
<1> QED BY <1>1, <1>2, <1>3, <1>4, <1>5, GetKept

-----------------------------------------------------------------------------
(* Frames: what a buffer must hold for its frame to be sound *)

\* The fields that make the frame of a datagram or segment sound.
IpReady(b, total, proto) ==
    /\ b \in Buffer
    /\ Get(b, 6, 6) = Mac(Me) /\ Get(b, 16, 2) = Two(total) /\ Get(b, 23, 1) = <<proto>>
    /\ Checksum(b, 14, 20, 0) = 0
    /\ proto = 17 => Get(b, 38, 2) = Two(total - 20)
    /\ proto # 1 => Checksum(b, 26, total - 12, proto) = 0

\* The fields that a buffer is ready with are those of its frame.
LEMMA ReadyFrame ==
    ASSUME NEW b, NEW total, NEW proto, NEW f, total \in Nat, 28 <= total,
           IpReady(b, total, proto), f = Frame(b, total + 14)
    PROVE  /\ Get(f.bytes, P.ETH_SRC_MAC, 6) = Mac(Me) /\ f.len = Total(f) + 14
           /\ Total(f) = total /\ Proto(f) = proto
           /\ Checksum(f.bytes, P.IP_P, 20, 0) = 0
           /\ proto = 17 => Word(f.bytes, P.UDP_LEN_H_P) = total - 20
           /\ proto # 1 => Checksum(f.bytes, P.IP_SRC_P, total - 12, proto) = 0
<1>1. b \in Buffer /\ Get(b, 6, 6) = Mac(Me) /\ Get(b, 16, 2) = Two(total) /\ Get(b, 23, 1) = <<proto>>
  BY DEF IpReady
<1>2. \A q, m \in Nat : q + m <= total + 14 /\ q + m <= 60 => Get(f.bytes, q, m) = Get(b, q, m)
  BY <1>1, FrameGet
<1>3. Get(f.bytes, 6, 6) = Mac(Me)
  BY <1>1, <1>2
<1>4. Word(f.bytes, 16) = total
  <2>1. Get(f.bytes, 16, 2) = Two(total)
    BY <1>1, <1>2
  <2> QED BY <2>1, WordIs
<1>5. f.bytes[23] = proto
  <2>1. Get(f.bytes, 23, 1) = <<proto>>
    BY <1>1, <1>2
  <2> QED BY <2>1, ByteIs
<1>6. Checksum(f.bytes, 14, 20, 0) = 0
  <2>1. Checksum(b, 14, 20, 0) = 0
    BY DEF IpReady
  <2> QED BY <1>1, <2>1, FrameChecksum
<1>7. ASSUME proto = 17 PROVE Word(f.bytes, 38) = total - 20
  <2>1. Get(b, 38, 2) = Two(total - 20)
    BY <1>7 DEF IpReady
  <2>2. Get(f.bytes, 38, 2) = Two(total - 20)
    BY <1>2, <2>1
  <2>3. total - 20 \in Nat
    OBVIOUS
  <2> QED BY <2>2, <2>3, WordIs
<1>8. ASSUME proto # 1 PROVE Checksum(f.bytes, 26, total - 12, proto) = 0
  <2>1. Checksum(b, 26, total - 12, proto) = 0
    BY <1>8 DEF IpReady
  <2>2. total - 12 \in Nat /\ 26 + (total - 12) <= total + 14
    OBVIOUS
  <2> HIDE DEF IpReady
  <2>3. Checksum(f.bytes, 26, total - 12, proto) = Checksum(b, 26, total - 12, proto)
    BY <1>1, <2>2, FrameChecksum
  <2> QED BY <2>1, <2>3
<1>9. f.len = total + 14
  BY DEF Frame
<1> QED BY <1>3, <1>4, <1>5, <1>6, <1>7, <1>8, <1>9 DEF P, Total, Proto

\* The frame of a datagram or segment whose buffer is ready is sound.
LEMMA SoundIp ==
    ASSUME NEW b, NEW total, NEW proto, total \in Nat, 28 <= total,
           IpReady(b, total, proto), proto \in {6, 17}, NEW r
    PROVE  SoundFrame(Frame(b, total + 14), r)
<1> DEFINE f == Frame(b, total + 14)
<1>1. f = Frame(b, total + 14)
  OBVIOUS
<1> HIDE DEF f
<1>2. /\ Get(f.bytes, P.ETH_SRC_MAC, 6) = Mac(Me) /\ f.len = Total(f) + 14
      /\ Total(f) = total /\ Proto(f) = proto
      /\ Checksum(f.bytes, P.IP_P, 20, 0) = 0
      /\ proto = 17 => Word(f.bytes, P.UDP_LEN_H_P) = total - 20
      /\ proto # 1 => Checksum(f.bytes, P.IP_SRC_P, total - 12, proto) = 0
  BY <1>1, ReadyFrame
<1> QED BY <1>1, <1>2 DEF SoundFrame, IsEchoReply, UDP_V, TCP_V, ICMP_V

\* So is that of a ping.
LEMMA SoundPing ==
    ASSUME NEW b, NEW total, total \in Nat, 28 <= total, IpReady(b, total, 1),
           Get(b, 34, 1) = << 8 >>, Checksum(b, 34, total - 20, 0) = 0, NEW r
    PROVE  SoundFrame(Frame(b, total + 14), r)
<1> DEFINE f == Frame(b, total + 14)
<1>1. f = Frame(b, total + 14)
  OBVIOUS
<1>2. b \in Buffer
  BY DEF IpReady
<1>3. Get(f.bytes, 34, 1) = << 8 >>
  BY <1>2, FrameGet
<1>4. Checksum(f.bytes, 34, total - 20, 0) = 0
  <2>1. total - 20 \in Nat /\ 34 + (total - 20) <= total + 14
    OBVIOUS
  <2> QED BY <1>2, <2>1, FrameChecksum
<1> HIDE DEF f
<1>5. f.bytes[34] = 8
  BY <1>3, ByteIs
<1>6. /\ Get(f.bytes, P.ETH_SRC_MAC, 6) = Mac(Me) /\ f.len = Total(f) + 14
      /\ Total(f) = total /\ Proto(f) = 1
      /\ Checksum(f.bytes, P.IP_P, 20, 0) = 0
  BY <1>1, ReadyFrame
<1>7. P.ICMP_TYPE_P = 34
  BY DEF P
<1> QED BY <1>1, <1>4, <1>5, <1>6, <1>7 DEF SoundFrame, IsEchoReply, UDP_V, TCP_V, ICMP_V

\* So is an ARP frame, which has no checksum.
LEMMA SoundArp ==
    ASSUME NEW b \in Buffer, NEW len, len \in Nat, 14 <= len,
           Get(b, 6, 6) = Mac(Me), Get(b, 12, 2) = ETHTYPE_ARP, NEW r
    PROVE  SoundFrame(Frame(b, len), r)
<1> DEFINE f == Frame(b, len)
<1>1. Get(f.bytes, 6, 6) = Mac(Me) /\ Get(f.bytes, 12, 2) = ETHTYPE_ARP
  <2>0. 6 + 6 <= len /\ 12 + 2 <= len /\ 6 \in Nat /\ 12 \in Nat /\ 2 \in Nat
    OBVIOUS
  <2>1. Get(f.bytes, 6, 6) = Get(b, 6, 6)
    BY <2>0, FrameGet
  <2>2. Get(f.bytes, 12, 2) = Get(b, 12, 2)
    BY <2>0, FrameGet
  <2> QED BY <2>1, <2>2
<1> HIDE DEF f
<1>2. P.ETH_SRC_MAC = 6 /\ P.ETH_TYPE_H_P = 12 /\ ETHTYPE_ARP # ETHTYPE_IP
  BY DEF P, ETHTYPE_ARP, ETHTYPE_IP
<1>3. SoundFrame(f, r)
  BY <1>1, <1>2 DEF SoundFrame, IsIp
<1> QED BY <1>3 DEF f

-----------------------------------------------------------------------------
(* Frames: replies *)

\* The fields that make a datagram or segment an answer to r.
BackReady(b, r, proto, flags) ==
    /\ b \in Buffer
    /\ Get(b, 0, 6) = Get(r, 6, 6) /\ Get(b, 12, 2) = ETHTYPE_IP /\ Get(b, 23, 1) = <<proto>>
    /\ Get(b, 30, 4) = Get(r, 26, 4) /\ Get(b, 26, 4) = Get(r, 30, 4)
    /\ proto # 1 => Get(b, 36, 2) = Get(r, 34, 2) /\ Get(b, 34, 2) = Get(r, 36, 2)
    /\ proto = 6 => /\ Get(b, 47, 1) = <<flags>>
                    /\ Has(flags, 2) \/ Get(b, 38, 4) = Get(r, 42, 4)
                    /\ Get(b, 42, 4) = AddTo(Get(r, 38, 4),
                           IF get_tcp_data_len(r) = 0 \/ Has(flags, 2) THEN 1 ELSE get_tcp_data_len(r))

\* The frame of an answer is one.
LEMMA BackIp ==
    ASSUME NEW b, NEW r, NEW proto, NEW flags, NEW len \in Nat, NEW q, q.bytes = r,
           BackReady(b, r, proto, flags), 42 <= len, proto = 6 => 48 <= len
    PROVE  GoesBack(Frame(b, len), q)
<1> DEFINE g == Frame(b, len)
<1>1. b \in Buffer
  BY DEF BackReady
<1>2. \A p, m \in Nat : p + m <= len /\ p + m <= 60 => Get(g.bytes, p, m) = Get(b, p, m)
  BY <1>1, FrameGet
<1> HIDE DEF g
<1>3. g.bytes[23] = proto
  <2>1. Get(g.bytes, 23, 1) = <<proto>>
    BY <1>2 DEF BackReady
  <2> QED BY <2>1, ByteIs
<1>4. proto = 6 => g.bytes[47] = flags
  <2> HAVE proto = 6
  <2>1. Get(g.bytes, 47, 1) = <<flags>>
    BY <1>2 DEF BackReady
  <2> QED BY <2>1, ByteIs
<1>5. /\ Get(g.bytes, 0, 6) = Get(r, 6, 6) /\ Get(g.bytes, 12, 2) = ETHTYPE_IP
      /\ Get(g.bytes, 30, 4) = Get(r, 26, 4) /\ Get(g.bytes, 26, 4) = Get(r, 30, 4)
  BY <1>2 DEF BackReady
<1>6. proto # 1 => Get(g.bytes, 36, 2) = Get(r, 34, 2) /\ Get(g.bytes, 34, 2) = Get(r, 36, 2)
  BY <1>2 DEF BackReady
<1>7. proto = 6 =>
        /\ Has(flags, 2) \/ Get(g.bytes, 38, 4) = Get(r, 42, 4)
        /\ Get(g.bytes, 42, 4) = AddTo(Get(r, 38, 4),
               IF get_tcp_data_len(r) = 0 \/ Has(flags, 2) THEN 1 ELSE get_tcp_data_len(r))
  <2> HAVE proto = 6
  <2>1. Get(g.bytes, 38, 4) = Get(b, 38, 4) /\ Get(g.bytes, 42, 4) = Get(b, 42, 4)
    BY <1>2
  <2> QED BY <2>1 DEF BackReady
<1>8. /\ P.ETH_DST_MAC = 0 /\ P.ETH_SRC_MAC = 6 /\ P.ETH_TYPE_H_P = 12 /\ P.IP_PROTO_P = 23
      /\ P.IP_SRC_P = 26 /\ P.IP_DST_P = 30 /\ P.SRC_PORT_H_P = 34 /\ P.DST_PORT_H_P = 36
      /\ P.TCP_SEQ_H_P = 38 /\ P.TCP_SEQACK_H_P = 42 /\ P.TCP_FLAGS_P = 47
  BY DEF P
<1>9. GoesBack(g, q)
  BY <1>3, <1>4, <1>5, <1>6, <1>7, <1>8 DEF GoesBack, IsIp, ICMP_V, TCP_V, SYN
<1> QED BY <1>9 DEF g

\* A result all of whose frames are sound answers.
Answers(res, q) ==
    res.buf \in Buffer /\ \A k \in DOMAIN res.sent : SoundFrame(res.sent[k], q) /\ GoesBack(res.sent[k], q)

\* ip_arp_udp_tcp.c:355-375: the answer to an ARP request.
LEMMA ArpAnswers ==
    ASSUME NEW q, NEW b, b = q.bytes, b \in Buffer, IsBytes(ipaddr, 4),
           Get(b, 12, 2) = ETHTYPE_ARP, Get(b, 38, 4) = ipaddr
    PROVE  Answers(make_arp_answer_from_request(b), q)
<1> DEFINE e == make_eth(b)
           c == e ++ At(20, REPLY) ++ At(32, Get(e, 22, 6)) ++ At(22, Mac(Me)) ++ At(38, Get(e, 28, 4))
                  ++ At(28, ipaddr)
           g == Frame(c, 42)
<1>1. /\ e \in Buffer /\ Get(e, 0, 6) = Get(b, 6, 6) /\ Get(e, 6, 6) = Mac(Me)
      /\ Get(e, 12, 2) = Get(b, 12, 2) /\ Get(e, 22, 6) = Get(b, 22, 6) /\ Get(e, 28, 4) = Get(b, 28, 4)
  BY EthMade
<1>2. make_arp_answer_from_request(b) = Send(c, 42)
  BY DEF make_arp_answer_from_request, P
<1> HIDE DEF e
<1>3. IsBytes(REPLY, 2) /\ IsBytes(Get(e, 22, 6), 6) /\ IsBytes(Mac(Me), 6) /\ IsBytes(Get(e, 28, 4), 4)
  <2>1. 0 \in Octet /\ 2 \in Octet
    BY OctetIs
  <2> QED BY <1>1, <2>1, PairBytes, GetBytes, MacBytes DEF REPLY, Me
<1>4. c \in Buffer
  <2>1. e ++ At(20, REPLY) ++ At(32, Get(e, 22, 6)) \in Buffer
    BY <1>1, <1>3, BufferWritten
  <2> QED BY <1>3, <2>1, BufferWritten
<1>5. /\ Get(c, 0, 6) = Get(e, 0, 6) /\ Get(c, 6, 6) = Get(e, 6, 6) /\ Get(c, 12, 2) = Get(e, 12, 2)
      /\ Get(c, 32, 6) = Get(e, 22, 6) /\ Get(c, 38, 4) = Get(e, 28, 4) /\ Get(c, 28, 4) = ipaddr
  BY <1>3, GetWritten, GetKept
<1> HIDE DEF c
<1>6. \A p, m \in Nat : p + m <= 42 => Get(g.bytes, p, m) = Get(c, p, m)
  BY <1>4, FrameGet
<1>7. SoundFrame(g, q)
  BY <1>1, <1>4, <1>5, SoundArp
<1> HIDE DEF g
<1>8. GoesBack(g, q)
  <2>1. /\ P.ETH_DST_MAC = 0 /\ P.ETH_SRC_MAC = 6 /\ P.ETH_TYPE_H_P = 12 /\ P.ETH_ARP_SRC_MAC_P = 22
        /\ P.ETH_ARP_SRC_IP_P = 28 /\ P.ETH_ARP_DST_MAC_P = 32 /\ P.ETH_ARP_DST_IP_P = 38
        /\ ETHTYPE_ARP # ETHTYPE_IP
    BY DEF P, ETHTYPE_ARP, ETHTYPE_IP
  <2>2. /\ Get(g.bytes, 0, 6) = Get(b, 6, 6) /\ Get(g.bytes, 12, 2) = ETHTYPE_ARP
        /\ Get(g.bytes, 32, 6) = Get(b, 22, 6) /\ Get(g.bytes, 38, 4) = Get(b, 28, 4)
        /\ Get(g.bytes, 28, 4) = Get(b, 38, 4)
    BY <1>1, <1>5, <1>6
  <2> QED BY <2>1, <2>2 DEF GoesBack, IsIp
<1>9. Send(c, 42).buf = c /\ Send(c, 42).sent = <<g>>
  BY DEF Send, g
<1> QED BY <1>2, <1>4, <1>7, <1>8, <1>9 DEF Answers

\* The fields of a segment that answers r, whose length and flags are given.
Turned(b, r, n) ==
    /\ b \in Buffer
    /\ Get(b, 0, 6) = Get(r, 6, 6) /\ Get(b, 6, 6) = Mac(Me)
    /\ Get(b, 12, 2) = Get(r, 12, 2) /\ Get(b, 23, 1) = Get(r, 23, 1)
    /\ Get(b, 30, 4) = Get(r, 26, 4) /\ Get(b, 26, 4) = ipaddr
    /\ Get(b, 36, 2) = Get(r, 34, 2) /\ Get(b, 34, 2) = Get(r, 36, 2)
    /\ Get(b, 38, 4) = Get(r, 42, 4) /\ Get(b, 42, 4) = AddTo(Get(r, 38, 4), n)

\* A segment whose checksum field is clear is completed.
LEMMA TcpCompleted ==
    ASSUME NEW b, NEW total, NEW len, NEW r, NEW n, total \in Nat, len = total - 20, total >= 40,
           Turned(b, r, n), Get(b, 16, 2) = Two(total), Get(b, 23, 1) = << 6 >>, Get(b, 50, 2) = <<0, 0>>,
           Checksum(b, 14, 20, 0) = 0
    PROVE  LET c == TcpChecked(b, len)
           IN  /\ Turned(c, r, n) /\ IpReady(c, total, 6)
               /\ Get(c, 47, 1) = Get(b, 47, 1)
<1> DEFINE c == TcpChecked(b, len)
<1>1. b \in Buffer /\ len \in Nat /\ len >= 20
  BY DEF Turned
<1>2. /\ c \in Buffer /\ Checksum(c, 14, 20, 0) = Checksum(b, 14, 20, 0)
      /\ Checksum(c, 26, 8 + len, 6) = 0
      /\ \A q, m \in Nat : (q + m <= 50 \/ 52 <= q) /\ q + m <= 60 => Get(c, q, m) = Get(b, q, m)
  BY <1>1, TcpCheckedIs
<1> HIDE DEF c
<1>3. Turned(c, r, n)
  BY <1>2 DEF Turned
<1>4. /\ Get(c, 6, 6) = Mac(Me) /\ Get(c, 16, 2) = Two(total) /\ Get(c, 23, 1) = << 6 >>
      /\ Get(c, 47, 1) = Get(b, 47, 1)
  BY <1>2 DEF Turned
<1>5. 8 + len = total - 12
  OBVIOUS
<1>6. IpReady(c, total, 6)
  BY <1>2, <1>4, <1>5 DEF IpReady
<1> QED BY <1>3, <1>4, <1>6 DEF c

\* The header of an acknowledgement.
LEMMA AckMade ==
    ASSUME NEW b, NEW n, NEW flags, b \in Buffer, n \in Nat, flags \in {0}, IsBytes(ipaddr, 4),
           Get(b, 23, 1) = << 6 >>
    PROVE  LET c == make_tcphead(make_eth(b), n, 1)
                      ++ At(47, <<16 + flags>>) ++ At(16, Two(40)) ++ At(48, <<4, 0>>)
               t == TcpChecked(make_ip(c), 20)
           IN  Turned(t, b, n) /\ IpReady(t, 40, 6) /\ Get(t, 47, 1) = << 16 >>
<1> DEFINE e == make_eth(b)
           h == make_tcphead(e, n, 1)
           c == h ++ At(47, <<16 + flags>>) ++ At(16, Two(40)) ++ At(48, <<4, 0>>)
           i == make_ip(c)
           t == TcpChecked(i, 20)
<1>1. /\ e \in Buffer /\ Get(e, 0, 6) = Get(b, 6, 6) /\ Get(e, 6, 6) = Mac(Me)
      /\ Get(e, 12, 2) = Get(b, 12, 2) /\ Get(e, 23, 1) = Get(b, 23, 1)
      /\ Get(e, 26, 4) = Get(b, 26, 4) /\ Get(e, 34, 2) = Get(b, 34, 2)
      /\ Get(e, 36, 2) = Get(b, 36, 2) /\ Get(e, 38, 4) = Get(b, 38, 4) /\ Get(e, 42, 4) = Get(b, 42, 4)
  BY EthMade
<1> HIDE DEF e
<1>2. /\ h \in Buffer
      /\ Get(h, 36, 2) = Get(e, 34, 2) /\ Get(h, 34, 2) = Get(e, 36, 2)
      /\ Get(h, 38, 4) = Get(e, 42, 4)
      /\ Get(h, 42, 4) = AddTo(Get(e, 38, 4), n)
      /\ Get(h, 50, 2) = <<0, 0>>
      /\ \A q, m \in Nat : (q + m <= 34 \/ (47 <= q /\ q + m <= 50) \/ 52 <= q) /\ q + m <= 60
             => Get(h, q, m) = Get(e, q, m)
  BY <1>1, HeadMade
<1> HIDE DEF h
<1>3. /\ Get(h, 0, 6) = Get(b, 6, 6) /\ Get(h, 6, 6) = Mac(Me)
      /\ Get(h, 12, 2) = Get(b, 12, 2) /\ Get(h, 23, 1) = Get(b, 23, 1) /\ Get(h, 26, 4) = Get(b, 26, 4)
      /\ Get(h, 36, 2) = Get(b, 34, 2) /\ Get(h, 34, 2) = Get(b, 36, 2)
      /\ Get(h, 38, 4) = Get(b, 42, 4) /\ Get(h, 42, 4) = AddTo(Get(b, 38, 4), n)
  BY <1>1, <1>2
<1>4. IsBytes(<<16 + flags>>, 1) /\ IsBytes(Two(40), 2) /\ IsBytes(<<4, 0>>, 2)
  <2>1. 16 + flags \in Octet /\ 4 \in Octet /\ 0 \in Octet /\ IsWord(40)
    BY OctetIs DEF IsWord
  <2> QED BY <2>1, PairBytes, OneByte, TwoBytes
<1>5. c \in Buffer
  BY <1>2, <1>4, BufferWritten
<1>6. /\ Get(c, 0, 6) = Get(h, 0, 6) /\ Get(c, 6, 6) = Get(h, 6, 6)
      /\ Get(c, 12, 2) = Get(h, 12, 2) /\ Get(c, 23, 1) = Get(h, 23, 1) /\ Get(c, 26, 4) = Get(h, 26, 4)
      /\ Get(c, 36, 2) = Get(h, 36, 2) /\ Get(c, 34, 2) = Get(h, 34, 2)
      /\ Get(c, 38, 4) = Get(h, 38, 4) /\ Get(c, 42, 4) = Get(h, 42, 4)
      /\ Get(c, 50, 2) = Get(h, 50, 2)
  BY <1>4, GetKept
<1>7. Get(c, 16, 2) = Two(40) /\ Get(c, 47, 1) = <<16 + flags>>
  BY <1>4, GetWritten, GetKept
<1> HIDE DEF c
<1>8. /\ i \in Buffer /\ Checksum(i, 14, 20, 0) = 0
      /\ Get(i, 30, 4) = Get(c, 26, 4) /\ Get(i, 26, 4) = ipaddr
      /\ \A q, m \in Nat : (q + m <= 20 \/ (q = 23 /\ m = 1) \/ 34 <= q) /\ q + m <= 60
             => Get(i, q, m) = Get(c, q, m)
  BY <1>5, IpMade
<1> HIDE DEF i
<1>9. Turned(i, b, n)
  BY <1>3, <1>6, <1>8 DEF Turned
<1>10. /\ Get(i, 16, 2) = Two(40) /\ Get(i, 23, 1) = << 6 >> /\ Get(i, 50, 2) = <<0, 0>>
       /\ Get(i, 47, 1) = << 16 >>
  BY <1>2, <1>3, <1>6, <1>7, <1>8
<1>11. Turned(t, b, n) /\ IpReady(t, 40, 6) /\ Get(t, 47, 1) = Get(i, 47, 1)
  <2>1. Checksum(i, 14, 20, 0) = 0 /\ 20 = 40 - 20 /\ 40 >= 40
    BY <1>8
  <2> QED BY <1>9, <1>10, <2>1, TcpCompleted
<1> QED BY <1>10, <1>11 DEF t, i, c, h, e

\* A segment that answers what it was made from.
LEMMA TurnedBack ==
    ASSUME NEW b, NEW q, NEW r, NEW n, NEW flags, NEW total, r = q.bytes,
           Turned(b, r, n), IpReady(b, total, 6), Get(b, 47, 1) = <<flags>>, ~Has(flags, 2),
           total \in Nat, total >= 40,
           Get(r, 12, 2) = ETHTYPE_IP, Get(r, 30, 4) = ipaddr, Get(r, 23, 1) = << 6 >>,
           n = IF get_tcp_data_len(r) = 0 THEN 1 ELSE get_tcp_data_len(r)
    PROVE  /\ SoundFrame(Frame(b, total + 14), q)
           /\ GoesBack(Frame(b, total + 14), q)
<1>1. SoundFrame(Frame(b, total + 14), q)
  BY SoundIp
<1>2. BackReady(b, r, 6, flags)
  BY DEF BackReady, Turned
<1>3. GoesBack(Frame(b, total + 14), q)
  <2>1. total + 14 \in Nat /\ 42 <= total + 14 /\ 48 <= total + 14
    OBVIOUS
  <2> QED BY <1>2, <2>1, BackIp
<1> QED BY <1>1, <1>3

\* A segment to the board, and a buffer that holds its header.
Segmented(b) ==
    b \in Buffer /\ Get(b, 12, 2) = ETHTYPE_IP /\ Get(b, 30, 4) = ipaddr /\ Get(b, 23, 1) = << 6 >>
UpTo(n, d, b) == d \in Buffer /\ \A p, m \in Nat : p + m <= n => Get(d, p, m) = Get(b, p, m)
SameHeader(d, b) == UpTo(54, d, b)

\* A byte of a buffer is a byte.
LEMMA ByteOf ==
    ASSUME NEW b, NEW i, b \in Buffer, i \in Nat, i < 60
    PROVE  b[i] \in Octet /\ b[i] \in Nat /\ b[i] < 256
<1>1. i \in 0..(SHOWN - 1)
  BY ShownIs
<1>2. b[i] \in Octet
  BY <1>1 DEF Buffer
<1> QED BY <1>2, OctetIs

\* A result of one frame.
Single(res) == \E g : res.sent = <<g>>

\* The frames of two results.
LEMMA PairJoined ==
    ASSUME NEW x, NEW y
    PROVE  \A k \in DOMAIN (<<x>> \o <<y>>) : (<<x>> \o <<y>>)[k] \in {x, y}
<1> DEFINE S == {x, y}
           s == <<x>>
           t == <<y>>
<1>1. s \in Seq(S) /\ t \in Seq(S)
  OBVIOUS
<1> HIDE DEF s, t, S
<1>2. s \o t \in Seq(S)
  BY <1>1
<1>3. \A k \in DOMAIN (s \o t) : (s \o t)[k] \in S
  BY <1>2
<1> QED BY <1>3 DEF s, t, S

\* The parts of a result made of two.
LEMMA ThenIs ==
    ASSUME NEW x, NEW y
    PROVE  Then(x, y).buf = y.buf /\ Then(x, y).sent = x.sent \o y.sent
BY Zenon DEF Then

\* The length of a segment's data is a number.
LEMMA DataLength ==
    ASSUME NEW b \in Buffer
    PROVE  get_tcp_data_len(b) \in Nat
<1> DEFINE n == Word(b, 16) - 20 - 4 * (b[46] \div 16)
<1>2. b[16] \in Nat /\ b[17] \in Nat /\ b[46] \in Nat
  BY ByteOf
<1>3. Word(b, 16) \in Nat
  BY <1>2 DEF Word
<1>4. b[46] \div 16 \in Nat
  <2> DEFINE v == b[46]
  <2>1. v \in Nat
    BY <1>2
  <2> HIDE DEF v
  <2>2. v \div 16 \in Nat
    BY <2>1
  <2> QED BY <2>2 DEF v
<1>5. n \in Int
  BY <1>3, <1>4
<1>6. get_tcp_data_len(b) = IF n <= 0 THEN 0 ELSE n
  BY DEF get_tcp_data_len, P
<1> HIDE DEF n
<1> QED BY <1>5, <1>6

\* An answer depends on nothing but the header it was made from.
LEMMA TurnedSame ==
    ASSUME NEW t, NEW d, NEW b, NEW n, SameHeader(d, b), Turned(t, d, n)
    PROVE  Turned(t, b, n)
BY DEF SameHeader, UpTo, Turned

\* ip_arp_udp_tcp.c:448-482: an acknowledgement answers the segment whose header
\* is in the buffer.
LEMMA AckAnswers ==
    ASSUME NEW q, NEW b, NEW d, NEW n, b = q.bytes, Segmented(b), SameHeader(d, b), IsBytes(ipaddr, 4),
           n = get_tcp_data_len(b)
    PROVE  LET res == make_tcp_ack_from_any(d, n, 0)
           IN  /\ Answers(res, q) /\ Turned(res.buf, b, IF n = 0 THEN 1 ELSE n)
               /\ Single(res)
<1> DEFINE ack == IF n = 0 THEN 1 ELSE n
           c == make_tcphead(make_eth(d), ack, 1)
                  ++ At(47, <<16 + 0>>) ++ At(16, Two(40)) ++ At(48, <<4, 0>>)
           t == TcpChecked(make_ip(c), 20)
           g == Frame(t, 54)
<1>1. make_tcp_ack_from_any(d, n, 0) = Send(t, 54)
  BY DEF make_tcp_ack_from_any, P, RST, ACK
<1>2. ack \in Nat
  BY DataLength DEF Segmented
<1>3. d \in Buffer /\ Get(d, 23, 1) = << 6 >>
  BY DEF SameHeader, UpTo, Segmented
<1> HIDE DEF ack
<1>4. Turned(t, d, ack) /\ IpReady(t, 40, 6) /\ Get(t, 47, 1) = << 16 >>
  BY <1>2, <1>3, AckMade
<1> HIDE DEF t
<1>5. Turned(t, b, ack)
  BY <1>4, TurnedSame
<1>6. ~Has(16, 2)
  BY DEF Has
<1>7. SoundFrame(g, q) /\ GoesBack(g, q)
  <2>1. 54 = 40 + 14 /\ 40 \in Nat /\ 40 >= 40
    OBVIOUS
  <2>2. ack = IF get_tcp_data_len(b) = 0 THEN 1 ELSE get_tcp_data_len(b)
    BY DEF ack
  <2>3. Get(b, 12, 2) = ETHTYPE_IP /\ Get(b, 30, 4) = ipaddr /\ Get(b, 23, 1) = << 6 >>
    BY DEF Segmented
  <2>4. SoundFrame(Frame(t, 40 + 14), q) /\ GoesBack(Frame(t, 40 + 14), q)
    BY <1>4, <1>5, <1>6, <2>1, <2>2, <2>3, TurnedBack
  <2> QED BY <2>1, <2>4
<1>8. t \in Buffer
  BY <1>5 DEF Turned
<1>9. Send(t, 54).buf = t /\ Send(t, 54).sent = <<g>>
  BY DEF Send
<1> HIDE DEF g
<1> QED BY <1>1, <1>5, <1>7, <1>8, <1>9 DEF Answers, ack, Single

\* The page goes out in the buffer of the acknowledgement.
LEMMA PageAnswers ==
    ASSUME NEW q, NEW b, NEW d, NEW n, NEW dlen, b = q.bytes, Segmented(b), IsBytes(ipaddr, 4),
           n = IF get_tcp_data_len(b) = 0 THEN 1 ELSE get_tcp_data_len(b),
           Turned(d, b, n), dlen \in Nat, IsWord(40 + dlen)
    PROVE  LET res == make_tcp_ack_with_data_noflags(d ++ At(P.TCP_FLAGS_P, <<ACK + PUSH + FIN>>), dlen)
           IN  Answers(res, q) /\ Single(res)
<1> DEFINE c == d ++ At(47, << 25 >>) ++ At(16, Two(40 + dlen)) ++ At(50, <<0, 0>>)
           f == fill_ip_hdr_checksum(c)
           t == TcpChecked(f, 20 + dlen)
           g == Frame(t, 54 + dlen)
<1>1. make_tcp_ack_with_data_noflags(d ++ At(P.TCP_FLAGS_P, <<ACK + PUSH + FIN>>), dlen)
        = Send(t, 54 + dlen)
  BY DEF make_tcp_ack_with_data_noflags, P, ACK, PUSH, FIN
<1>2. IsBytes(<< 25 >>, 1) /\ IsBytes(Two(40 + dlen), 2) /\ IsBytes(<<0, 0>>, 2)
  <2>1. 25 \in Octet /\ 0 \in Octet
    BY OctetIs
  <2> QED BY <2>1, PairBytes, OneByte, TwoBytes
<1>3. d \in Buffer
  BY DEF Turned
<1>4. c \in Buffer
  BY <1>2, <1>3, BufferWritten
<1>5. /\ Get(c, 0, 6) = Get(d, 0, 6) /\ Get(c, 6, 6) = Get(d, 6, 6)
      /\ Get(c, 12, 2) = Get(d, 12, 2) /\ Get(c, 23, 1) = Get(d, 23, 1)
      /\ Get(c, 26, 4) = Get(d, 26, 4) /\ Get(c, 30, 4) = Get(d, 30, 4)
      /\ Get(c, 36, 2) = Get(d, 36, 2) /\ Get(c, 34, 2) = Get(d, 34, 2)
      /\ Get(c, 38, 4) = Get(d, 38, 4) /\ Get(c, 42, 4) = Get(d, 42, 4)
  BY <1>2, GetKept
<1>6. Get(c, 16, 2) = Two(40 + dlen) /\ Get(c, 47, 1) = << 25 >> /\ Get(c, 50, 2) = <<0, 0>>
  BY <1>2, GetWritten, GetKept
<1> HIDE DEF c
<1>7. /\ f \in Buffer /\ Checksum(f, 14, 20, 0) = 0
      /\ \A p, m \in Nat : (p + m <= 20 \/ (p = 23 /\ m = 1) \/ 26 <= p) /\ p + m <= 60
             => Get(f, p, m) = Get(c, p, m)
  BY <1>4, IpFilled
<1> HIDE DEF f
<1>8. Turned(f, b, n)
  BY <1>5, <1>7 DEF Turned
<1>9. /\ Get(f, 16, 2) = Two(40 + dlen) /\ Get(f, 23, 1) = << 6 >> /\ Get(f, 50, 2) = <<0, 0>>
      /\ Get(f, 47, 1) = << 25 >>
  <2>1. Get(d, 23, 1) = << 6 >>
    BY DEF Turned, Segmented
  <2> QED BY <1>5, <1>6, <1>7, <2>1
<1>10. Turned(t, b, n) /\ IpReady(t, 40 + dlen, 6) /\ Get(t, 47, 1) = Get(f, 47, 1)
  <2>1. Checksum(f, 14, 20, 0) = 0
    BY <1>7
  <2>2. 40 + dlen \in Nat /\ 40 + dlen >= 40 /\ 20 + dlen = (40 + dlen) - 20
    OBVIOUS
  <2> QED BY <1>8, <1>9, <2>1, <2>2, TcpCompleted, ZenonT(60)
<1> HIDE DEF t
<1>11. ~Has(25, 2)
  BY DEF Has
<1>12. SoundFrame(g, q) /\ GoesBack(g, q)
  <2>1. 54 + dlen = (40 + dlen) + 14 /\ 40 + dlen \in Nat /\ 40 + dlen >= 40
    OBVIOUS
  <2>2. Get(b, 12, 2) = ETHTYPE_IP /\ Get(b, 30, 4) = ipaddr /\ Get(b, 23, 1) = << 6 >>
    BY DEF Segmented
  <2>3. Get(t, 47, 1) = << 25 >>
    BY <1>9, <1>10
  <2>4. SoundFrame(Frame(t, (40 + dlen) + 14), q) /\ GoesBack(Frame(t, (40 + dlen) + 14), q)
    BY <1>10, <1>11, <2>1, <2>2, <2>3, TurnedBack
  <2> QED BY <2>1, <2>4
<1>13. t \in Buffer
  BY <1>10 DEF Turned
<1>14. Send(t, 54 + dlen).buf = t /\ Send(t, 54 + dlen).sent = <<g>>
  BY DEF Send
<1> HIDE DEF g
<1> QED BY <1>1, <1>12, <1>13, <1>14 DEF Answers, Single

\* ip_arp_udp_tcp.c:487-503, 634-643: so does the page, whose header was turned
\* round only once.
LEMMA WwwAnswers ==
    ASSUME NEW q, NEW b, NEW d, NEW n, NEW dlen, b = q.bytes, Segmented(b), SameHeader(d, b),
           IsBytes(ipaddr, 4), n = get_tcp_data_len(b), n # 0, dlen \in Nat, IsWord(40 + dlen)
    PROVE  Answers(www_server_reply(d, n, dlen), q)
<1> DEFINE first == make_tcp_ack_from_any(d, n, 0)
           second == make_tcp_ack_with_data_noflags(first.buf ++ At(P.TCP_FLAGS_P, <<ACK + PUSH + FIN>>), dlen)
<1>1. Answers(first, q) /\ Turned(first.buf, b, n) /\ Single(first)
  <2>1. /\ Answers(first, q) /\ Turned(first.buf, b, IF n = 0 THEN 1 ELSE n)
        /\ Single(first)
    BY AckAnswers
  <2>2. n = IF n = 0 THEN 1 ELSE n
    OBVIOUS
  <2> HIDE DEF first
  <2> QED BY <2>1, <2>2
<1>2. Answers(second, q) /\ Single(second)
  <2>1. n = IF get_tcp_data_len(b) = 0 THEN 1 ELSE get_tcp_data_len(b)
    OBVIOUS
  <2> HIDE DEF first
  <2> QED BY <1>1, <2>1, PageAnswers
<1>3. www_server_reply(d, n, dlen) = Then(first, second)
  BY DEF www_server_reply
<1> HIDE DEF first, second
<1>4. PICK g : first.sent = <<g>>
  BY <1>1 DEF Single
<1>5. PICK h : second.sent = <<h>>
  BY <1>2 DEF Single
<1>6. \A k \in DOMAIN (first.sent \o second.sent) : (first.sent \o second.sent)[k] \in {g, h}
  BY <1>4, <1>5, PairJoined
<1>7. SoundFrame(g, q) /\ GoesBack(g, q) /\ SoundFrame(h, q) /\ GoesBack(h, q)
  BY <1>1, <1>2, <1>4, <1>5 DEF Answers
<1>8. second.buf \in Buffer
  BY <1>2 DEF Answers
<1> DEFINE res == www_server_reply(d, n, dlen)
<1>9. res.buf = second.buf /\ res.sent = first.sent \o second.sent
  BY <1>3, ThenIs
<1> HIDE DEF res
<1>10. \A k \in DOMAIN res.sent : res.sent[k] \in {g, h}
  BY <1>6, <1>9, Zenon
<1>11. Answers(res, q)
  BY <1>7, <1>8, <1>9, <1>10 DEF Answers
<1> QED BY <1>11 DEF res

\* ip_arp_udp_tcp.c:580-631: the answer to a SYN.
LEMMA SynAckAnswers ==
    ASSUME NEW q, NEW b, b = q.bytes, Segmented(b), IsBytes(ipaddr, 4), seqnum \in Octet
    PROVE  Answers(make_tcp_synack_from_syn(b), q)
<1> DEFINE e == make_eth(b)
           k == e ++ At(16, Two(44))
           c == make_ip(k)
           h == make_tcphead(c, 1, 0)
           m == h ++ At(47, << 18 >>) ++ At(38, <<0, 0, seqnum, 0>>)
           d == m ++ At(54, <<2, 4, 5, 0>>) ++ At(46, << 96 >>) ++ At(48, <<10, 0>>)
           t == TcpChecked(d, 24)
           g == Frame(t, 58)
<1>1. make_tcp_synack_from_syn(b) = Send(t, 58)
  BY DEF make_tcp_synack_from_syn, P, SYN, ACK
<1>2. /\ b \in Buffer /\ Get(b, 12, 2) = ETHTYPE_IP /\ Get(b, 30, 4) = ipaddr /\ Get(b, 23, 1) = << 6 >>
  BY DEF Segmented
<1>3. /\ e \in Buffer /\ Get(e, 0, 6) = Get(b, 6, 6) /\ Get(e, 6, 6) = Mac(Me)
      /\ Get(e, 12, 2) = Get(b, 12, 2) /\ Get(e, 23, 1) = Get(b, 23, 1)
      /\ Get(e, 26, 4) = Get(b, 26, 4) /\ Get(e, 34, 2) = Get(b, 34, 2)
      /\ Get(e, 36, 2) = Get(b, 36, 2) /\ Get(e, 38, 4) = Get(b, 38, 4)
  BY <1>2, EthMade
<1> HIDE DEF e
<1>4. /\ IsBytes(Two(44), 2) /\ IsBytes(<< 18 >>, 1) /\ IsBytes(<<0, 0, seqnum, 0>>, 4)
      /\ IsBytes(<<2, 4, 5, 0>>, 4) /\ IsBytes(<< 96 >>, 1) /\ IsBytes(<<10, 0>>, 2)
  <2>1. 18 \in Octet /\ 0 \in Octet /\ 2 \in Octet /\ 4 \in Octet /\ 5 \in Octet /\ 96 \in Octet
        /\ 10 \in Octet /\ IsWord(44)
    BY OctetIs DEF IsWord
  <2> QED BY <2>1, PairBytes, OneByte, TwoBytes, FourBytes
<1>5. k \in Buffer
  BY <1>3, <1>4, BufferWritten
<1>6. /\ Get(k, 0, 6) = Get(e, 0, 6) /\ Get(k, 6, 6) = Get(e, 6, 6)
      /\ Get(k, 12, 2) = Get(e, 12, 2) /\ Get(k, 23, 1) = Get(e, 23, 1) /\ Get(k, 26, 4) = Get(e, 26, 4)
      /\ Get(k, 34, 2) = Get(e, 34, 2) /\ Get(k, 36, 2) = Get(e, 36, 2) /\ Get(k, 38, 4) = Get(e, 38, 4)
      /\ Get(k, 16, 2) = Two(44)
  BY <1>4, GetWritten, GetKept
<1> HIDE DEF k
<1>7. /\ c \in Buffer /\ Checksum(c, 14, 20, 0) = 0
      /\ Get(c, 30, 4) = Get(k, 26, 4) /\ Get(c, 26, 4) = ipaddr
      /\ Get(c, 0, 6) = Get(k, 0, 6) /\ Get(c, 6, 6) = Get(k, 6, 6)
      /\ Get(c, 12, 2) = Get(k, 12, 2) /\ Get(c, 16, 2) = Get(k, 16, 2) /\ Get(c, 23, 1) = Get(k, 23, 1)
      /\ Get(c, 34, 2) = Get(k, 34, 2) /\ Get(c, 36, 2) = Get(k, 36, 2) /\ Get(c, 38, 4) = Get(k, 38, 4)
  BY <1>5, IpMade
<1> HIDE DEF c
<1>8. /\ h \in Buffer /\ Checksum(h, 14, 20, 0) = Checksum(c, 14, 20, 0)
      /\ Get(h, 36, 2) = Get(c, 34, 2) /\ Get(h, 34, 2) = Get(c, 36, 2)
      /\ Get(h, 42, 4) = AddTo(Get(c, 38, 4), 1)
      /\ Get(h, 50, 2) = <<0, 0>>
      /\ \A p, n \in Nat : p + n <= 34 => Get(h, p, n) = Get(c, p, n)
  BY <1>7, HeadMade
<1> HIDE DEF h
<1>9. m \in Buffer
  BY <1>4, <1>8, BufferWritten
<1>10. Checksum(m, 14, 20, 0) = Checksum(h, 14, 20, 0)
  <2>1. h ++ At(47, << 18 >>) \in Buffer
    BY <1>4, <1>8, BufferWritten
  <2> QED BY <1>4, <1>8, <2>1, ChecksumKept, SMTT(60)
<1>11. /\ \A p, n \in Nat : p + n <= 38 => Get(m, p, n) = Get(h, p, n)
       /\ Get(m, 42, 4) = Get(h, 42, 4) /\ Get(m, 50, 2) = Get(h, 50, 2)
  BY <1>4, GetKept
<1>12. Get(m, 47, 1) = << 18 >>
  BY <1>4, GetWritten, GetKept
<1> HIDE DEF m
<1>13. d \in Buffer
  <2>1. m ++ At(54, <<2, 4, 5, 0>>) \in Buffer
    BY <1>4, <1>9, BufferWritten
  <2>2. m ++ At(54, <<2, 4, 5, 0>>) ++ At(46, << 96 >>) \in Buffer
    BY <1>4, <2>1, BufferWritten
  <2> QED BY <1>4, <2>2, BufferWritten
<1>14. Checksum(d, 14, 20, 0) = Checksum(m, 14, 20, 0)
  <2>1. m ++ At(54, <<2, 4, 5, 0>>) \in Buffer
    BY <1>4, <1>9, BufferWritten
  <2>2. m ++ At(54, <<2, 4, 5, 0>>) ++ At(46, << 96 >>) \in Buffer
    BY <1>4, <2>1, BufferWritten
  <2> QED BY <1>4, <1>9, <2>1, <2>2, ChecksumKept, SMTT(60)
<1>15. /\ \A p, n \in Nat : p + n <= 46 => Get(d, p, n) = Get(m, p, n)
       /\ Get(d, 47, 1) = Get(m, 47, 1) /\ Get(d, 50, 2) = Get(m, 50, 2)
  BY <1>4, GetKept
<1> HIDE DEF d
<1>16. /\ t \in Buffer /\ Checksum(t, 14, 20, 0) = Checksum(d, 14, 20, 0)
       /\ Checksum(t, 26, 8 + 24, 6) = 0
       /\ \A p, n \in Nat : (p + n <= 50 \/ 52 <= p) /\ p + n <= 60 => Get(t, p, n) = Get(d, p, n)
  <2>1. Get(d, 50, 2) = <<0, 0>> /\ 24 \in Nat /\ 24 >= 20
    BY <1>8, <1>11, <1>15
  <2> QED BY <1>13, <2>1, TcpCheckedIs
<1> HIDE DEF t
<1>17. \A p, n \in Nat : p + n <= 34 => Get(t, p, n) = Get(c, p, n)
  BY <1>8, <1>11, <1>15, <1>16
<1>18. IpReady(t, 44, 6)
  <2>1. Get(t, 6, 6) = Mac(Me) /\ Get(t, 16, 2) = Two(44) /\ Get(t, 23, 1) = << 6 >>
    BY <1>2, <1>3, <1>6, <1>7, <1>17
  <2>2. Checksum(t, 14, 20, 0) = 0 /\ 8 + 24 = 44 - 12
    BY <1>7, <1>8, <1>10, <1>14, <1>16
  <2> QED BY <1>16, <2>1, <2>2 DEF IpReady
<1>19. BackReady(t, b, 6, 18)
  <2>1. /\ Get(t, 0, 6) = Get(b, 6, 6) /\ Get(t, 12, 2) = ETHTYPE_IP /\ Get(t, 23, 1) = << 6 >>
        /\ Get(t, 30, 4) = Get(b, 26, 4) /\ Get(t, 26, 4) = Get(b, 30, 4)
    BY <1>2, <1>3, <1>6, <1>7, <1>17
  <2>2. /\ Get(t, 36, 2) = Get(b, 34, 2) /\ Get(t, 34, 2) = Get(b, 36, 2)
    BY <1>3, <1>6, <1>7, <1>8, <1>11, <1>15, <1>16
  <2>3. Get(t, 47, 1) = << 18 >> /\ Get(t, 42, 4) = AddTo(Get(b, 38, 4), 1)
    BY <1>3, <1>6, <1>7, <1>8, <1>11, <1>12, <1>15, <1>16
  <2>4. Has(18, 2)
    BY DEF Has
  <2> QED BY <1>16, <2>1, <2>2, <2>3, <2>4 DEF BackReady
<1>20. SoundFrame(g, q) /\ GoesBack(g, q)
  <2>1. 58 = 44 + 14 /\ 58 \in Nat /\ 42 <= 58 /\ 48 <= 58
    OBVIOUS
  <2>2. SoundFrame(Frame(t, 44 + 14), q)
    BY <1>18, SoundIp
  <2>3. GoesBack(Frame(t, 58), q)
    BY <1>19, <2>1, BackIp
  <2> QED BY <2>1, <2>2, <2>3
<1>21. Send(t, 58).buf = t /\ Send(t, 58).sent = <<g>>
  BY DEF Send
<1> HIDE DEF g
<1> QED BY <1>1, <1>16, <1>20, <1>21 DEF Answers

\* An answer to a datagram, whose data is in place.
LEMMA UdpAnswers ==
    ASSUME NEW q, NEW b, NEW d, NEW length, NEW port, b = q.bytes, UpTo(42, d, b),
           Get(b, 12, 2) = ETHTYPE_IP, Get(b, 30, 4) = ipaddr, Get(b, 23, 1) = << 17 >>,
           Get(b, 36, 2) = Two(port), IsWord(port), IsBytes(ipaddr, 4), length \in Nat
    PROVE  Answers(make_udp_reply_from_request_udpdat_ready(d, length, port), q)
<1> DEFINE n == IF length > 220 THEN 220 ELSE length
           e == make_eth(d)
           k == e ++ At(16, Two(28 + n))
           c == make_ip(k)
           m == c ++ At(36, Get(c, 34, 2)) ++ At(34, Two(port)) ++ At(38, Two(8 + n)) ++ At(40, <<0, 0>>)
           t == UdpChecked(m, n)
           g == Frame(t, 42 + n)
<1>1. make_udp_reply_from_request_udpdat_ready(d, length, port) = Send(t, 42 + n)
  BY DEF make_udp_reply_from_request_udpdat_ready, P
<1>2. n \in Nat /\ n <= 220
  OBVIOUS
<1> HIDE DEF n
<1>3. /\ d \in Buffer /\ Get(d, 6, 6) = Get(b, 6, 6) /\ Get(d, 12, 2) = ETHTYPE_IP
      /\ Get(d, 26, 4) = Get(b, 26, 4) /\ Get(d, 23, 1) = << 17 >> /\ Get(d, 34, 2) = Get(b, 34, 2)
  BY DEF UpTo
<1>4. /\ e \in Buffer /\ Get(e, 0, 6) = Get(d, 6, 6) /\ Get(e, 6, 6) = Mac(Me)
      /\ Get(e, 12, 2) = Get(d, 12, 2) /\ Get(e, 23, 1) = Get(d, 23, 1)
      /\ Get(e, 26, 4) = Get(d, 26, 4) /\ Get(e, 34, 2) = Get(d, 34, 2)
  BY <1>3, EthMade
<1> HIDE DEF e
<1>5. /\ IsBytes(Two(28 + n), 2) /\ IsBytes(Two(8 + n), 2) /\ IsBytes(Two(port), 2)
      /\ IsBytes(<<0, 0>>, 2)
  <2>1. 0 \in Octet /\ IsWord(28 + n) /\ IsWord(8 + n)
    BY <1>2, OctetIs DEF IsWord
  <2> QED BY <2>1, PairBytes, TwoBytes
<1>6. k \in Buffer
  BY <1>4, <1>5, BufferWritten
<1>7. /\ Get(k, 0, 6) = Get(e, 0, 6) /\ Get(k, 6, 6) = Get(e, 6, 6)
      /\ Get(k, 12, 2) = Get(e, 12, 2) /\ Get(k, 23, 1) = Get(e, 23, 1) /\ Get(k, 26, 4) = Get(e, 26, 4)
      /\ Get(k, 34, 2) = Get(e, 34, 2) /\ Get(k, 16, 2) = Two(28 + n)
  BY <1>5, GetWritten, GetKept
<1> HIDE DEF k
<1>8. /\ c \in Buffer /\ Checksum(c, 14, 20, 0) = 0
      /\ Get(c, 30, 4) = Get(k, 26, 4) /\ Get(c, 26, 4) = ipaddr
      /\ Get(c, 0, 6) = Get(k, 0, 6) /\ Get(c, 6, 6) = Get(k, 6, 6)
      /\ Get(c, 12, 2) = Get(k, 12, 2) /\ Get(c, 16, 2) = Get(k, 16, 2) /\ Get(c, 23, 1) = Get(k, 23, 1)
      /\ Get(c, 34, 2) = Get(k, 34, 2)
  BY <1>6, IpMade
<1> HIDE DEF c
<1>9. IsBytes(Get(c, 34, 2), 2)
  BY <1>8, GetBytes
<1>10. m \in Buffer
  <2>1. c ++ At(36, Get(c, 34, 2)) ++ At(34, Two(port)) \in Buffer
    BY <1>5, <1>8, <1>9, BufferWritten
  <2> QED BY <1>5, <2>1, BufferWritten
<1>11. Checksum(m, 14, 20, 0) = Checksum(c, 14, 20, 0)
  <2>1. c ++ At(36, Get(c, 34, 2)) \in Buffer
    BY <1>8, <1>9, BufferWritten
  <2>2. c ++ At(36, Get(c, 34, 2)) ++ At(34, Two(port)) \in Buffer
    BY <1>5, <2>1, BufferWritten
  <2>3. c ++ At(36, Get(c, 34, 2)) ++ At(34, Two(port)) ++ At(38, Two(8 + n)) \in Buffer
    BY <1>5, <2>2, BufferWritten
  <2>4. Checksum(c ++ At(36, Get(c, 34, 2)) ++ At(34, Two(port)), 14, 20, 0) = Checksum(c, 14, 20, 0)
    BY <1>5, <1>8, <1>9, <2>1, ChecksumKept, SMTT(60)
  <2> QED BY <1>5, <2>2, <2>3, <2>4, ChecksumKept, SMTT(60)
<1>12. \A p, l \in Nat : p + l <= 34 => Get(m, p, l) = Get(c, p, l)
  BY <1>5, <1>9, GetKept
<1>13. /\ Get(m, 36, 2) = Get(c, 34, 2) /\ Get(m, 34, 2) = Two(port)
       /\ Get(m, 38, 2) = Two(8 + n) /\ Get(m, 40, 2) = <<0, 0>>
  BY <1>5, <1>9, GetWritten, GetKept
<1> HIDE DEF m
<1>14. /\ t \in Buffer /\ Checksum(t, 14, 20, 0) = Checksum(m, 14, 20, 0)
       /\ Checksum(t, 26, 16 + n, 17) = 0
       /\ \A p, l \in Nat : (p + l <= 40 \/ 42 <= p) /\ p + l <= 60 => Get(t, p, l) = Get(m, p, l)
  BY <1>2, <1>10, <1>13, UdpCheckedIs
<1> HIDE DEF t
<1>15. \A p, l \in Nat : p + l <= 34 => Get(t, p, l) = Get(c, p, l)
  BY <1>12, <1>14
<1>16. IpReady(t, 28 + n, 17)
  <2>1. Get(t, 6, 6) = Mac(Me) /\ Get(t, 16, 2) = Two(28 + n) /\ Get(t, 23, 1) = << 17 >>
    BY <1>3, <1>4, <1>7, <1>8, <1>15
  <2>2. Checksum(t, 14, 20, 0) = 0 /\ 16 + n = (28 + n) - 12 /\ 8 + n = (28 + n) - 20
    BY <1>2, <1>8, <1>11, <1>14
  <2>3. Get(t, 38, 2) = Two(8 + n)
    BY <1>13, <1>14
  <2> QED BY <1>14, <2>1, <2>2, <2>3 DEF IpReady
<1>17. BackReady(t, b, 17, 0)
  <2>1. /\ Get(t, 0, 6) = Get(b, 6, 6) /\ Get(t, 12, 2) = ETHTYPE_IP /\ Get(t, 23, 1) = << 17 >>
        /\ Get(t, 30, 4) = Get(b, 26, 4) /\ Get(t, 26, 4) = Get(b, 30, 4)
    BY <1>3, <1>4, <1>7, <1>8, <1>15
  <2>2. /\ Get(t, 36, 2) = Get(b, 34, 2) /\ Get(t, 34, 2) = Get(b, 36, 2)
    BY <1>3, <1>4, <1>7, <1>8, <1>13, <1>14
  <2> QED BY <1>14, <2>1, <2>2 DEF BackReady
<1>18. SoundFrame(g, q) /\ GoesBack(g, q)
  <2>1. 42 + n = (28 + n) + 14 /\ 28 + n \in Nat /\ 28 <= 28 + n /\ 42 + n \in Nat /\ 42 <= 42 + n
    BY <1>2
  <2>2. SoundFrame(Frame(t, (28 + n) + 14), q)
    BY <1>16, <2>1, SoundIp
  <2>3. GoesBack(Frame(t, 42 + n), q)
    BY <1>17, <2>1, BackIp
  <2> QED BY <2>1, <2>2, <2>3
<1>19. Send(t, 42 + n).buf = t /\ Send(t, 42 + n).sent = <<g>>
  BY DEF Send
<1> HIDE DEF g
<1> QED BY <1>1, <1>14, <1>18, <1>19 DEF Answers

\* Buffers that agree where a checksum is over have the same.
LEMMA ChecksumSame ==
    ASSUME NEW b, NEW c, NEW pos, NEW len, NEW type, b \in Buffer, c \in Buffer, pos \in Nat, len \in Nat,
           \A i \in Nat : i < 60 /\ pos <= i /\ i < pos + len => b[i] = c[i]
    PROVE  /\ Added(b, pos, len, type) = Added(c, pos, len, type)
           /\ Checksum(b, pos, len, type) = Checksum(c, pos, len, type)
<1> DEFINE C == Covered(b, pos, len)
<1>1. DOMAIN b = DOMAIN c
  BY DEF Buffer
<1>2. C \subseteq DOMAIN b /\ C \subseteq DOMAIN c /\ IsFiniteSet(C) /\ C \subseteq Nat
  BY <1>1, CoveredIs
<1>3. \A i \in C : b[i] \in Octet /\ b[i] = c[i]
  BY <1>2, CoveredIs DEF Buffer
<1>4. Covered(c, pos, len) = C
  BY <1>1 DEF Covered
<1> HIDE DEF C
<1>5. SumOver(b, pos, C) = SumOver(c, pos, C)
  BY <1>2, <1>3, OverSame
<1>6. Added(b, pos, len, type) = Added(c, pos, len, type)
  BY <1>4, <1>5 DEF Added, C
<1> QED BY <1>6, ChecksumIs

\* A word that changes changes the sum by as much.
LEMMA WordChanged ==
    ASSUME NEW b, NEW c, NEW pos, NEW len, NEW q, b \in Buffer, c \in Buffer, pos \in Nat, len \in Nat,
           q \in Nat, pos <= q, (q - pos) % 2 = 0, q + 2 <= pos + len, q + 2 <= 60,
           \A i \in Nat : i < 60 /\ pos <= i /\ i # q /\ i # q + 1 => b[i] = c[i]
    PROVE  LET rest == SumOver(b, pos, Others(b, pos, len, q))
           IN  /\ rest \in Nat
               /\ Added(b, pos, len, 0) = Word(b, q) + rest
               /\ Added(c, pos, len, 0) = Word(c, q) + rest
<1> DEFINE S == Others(b, pos, len, q)
           C == Covered(b, pos, len)
<1>1. DOMAIN b = DOMAIN c
  BY DEF Buffer
<1>2. Covered(c, pos, len) = C /\ Others(c, pos, len, q) = S
  BY <1>1 DEF Covered, Others
<1>3. \A i \in S : b[i] \in Octet /\ b[i] = c[i]
  <2> TAKE i \in S
  <2>1. i \in Nat /\ i < 60 /\ pos <= i /\ i # q /\ i # q + 1
    BY InCovered DEF Others
  <2> QED BY <2>1, ByteOf
<1>4. /\ SumOver(b, pos, C) = Word(b, q) + SumOver(b, pos, S)
      /\ SumOver(b, pos, S) \in Nat /\ Word(b, q) \in Nat
      /\ IsFiniteSet(S) /\ S \subseteq Nat /\ S \subseteq DOMAIN b
  BY OverWord
<1>5. SumOver(c, pos, C) = Word(c, q) + SumOver(c, pos, S) /\ Word(c, q) \in Nat
  BY <1>2, OverWord
<1> HIDE DEF S, C
<1>6. SumOver(b, pos, S) = SumOver(c, pos, S)
  <2>1. S \subseteq DOMAIN b /\ S \subseteq DOMAIN c /\ S \subseteq Nat /\ IsFiniteSet(S)
    BY <1>1, <1>4
  <2>2. \A i \in S : b[i] \in Octet /\ b[i] = c[i]
    BY <1>3
  <2> QED BY <2>1, <2>2, OverSame
<1>7. Pseudo(len, 0) = 0
  BY DEF Pseudo
<1>8. /\ Added(b, pos, len, 0) = Word(b, q) + SumOver(b, pos, S)
      /\ Added(c, pos, len, 0) = Word(c, q) + SumOver(b, pos, S)
  <2>1. Added(b, pos, len, 0) = SumOver(b, pos, C) + 0
    BY <1>7 DEF Added, C
  <2>2. Added(c, pos, len, 0) = SumOver(c, pos, C) + 0
    BY <1>2, <1>7 DEF Added
  <2> QED BY <1>4, <1>5, <1>6, <2>1, <2>2
<1> QED BY <1>4, <1>8 DEF S

\* The arithmetic of the changed checksum of an echo reply.
LEMMA EchoSum ==
    ASSUME NEW A \in Nat, NEW R \in Nat, NEW high \in Nat, NEW low \in Nat, NEW T, high < 256, low < 256,
           A = 2048 + (256 * high + low) + R, A % 65535 = 0,
           T = (256 * ((high + 8) % 256) + ((low + (IF high > 255 - 8 THEN 1 ELSE 0)) % 256)) + R
    PROVE  T \in Nat /\ (T > 0 /\ T % 65535 = 0 <=> ~(high > 247 /\ low = 255))
<1> DEFINE d == A \div 65535
<1>1. d \in Nat /\ A = 65535 * d
  BY Division
<1> HIDE DEF d
<1>2. CASE high <= 247
  <2>1. (high + 8) % 256 = high + 8 /\ low % 256 = low
    BY <1>2
  <2>2. T = A
    BY <1>2, <2>1
  <2>3. T > 0
    BY <2>2
  <2> QED BY <1>2, <2>2, <2>3
<1>3. CASE high > 247 /\ low < 255
  <2>1. (high + 8) % 256 = high - 248 /\ (low + 1) % 256 = low + 1
    BY <1>3
  <2>2. T = A - 65535
    BY <1>3, <2>1
  <2>3. A > 65535
    BY <1>3
  <2>4. T = 65535 * (d - 1) /\ d - 1 \in Nat
    BY <1>1, <2>2, <2>3
  <2>5. T % 65535 = 0
    BY <2>4
  <2> QED BY <1>3, <2>2, <2>3, <2>5
<1>4. CASE high > 247 /\ low = 255
  <2>1. (high + 8) % 256 = high - 248 /\ (low + 1) % 256 = 0
    BY <1>4
  <2>2. T = A - 65791 /\ A >= 65791
    BY <1>4, <2>1
  <2>3. d >= 2
    BY <1>1, <2>2
  <2>4. T = 65535 * (d - 2) + 65279 /\ d - 2 \in Nat
    BY <1>1, <2>2, <2>3
  <2>5. T % 65535 = 65279
    BY <2>4
  <2> QED BY <1>4, <2>2, <2>5
<1> QED BY <1>2, <1>3, <1>4

\* A frame of the whole buffer.
LEMMA FrameWhole ==
    ASSUME NEW b, NEW len, b \in Buffer, len \in Nat, 60 <= len
    PROVE  Frame(b, len).bytes = b /\ Frame(b, len).len = len
<1>1. DOMAIN b = 0..(SHOWN - 1) /\ b = [i \in DOMAIN b |-> b[i]]
  BY DEF Buffer
<1>2. { k \in DOMAIN b : k < len } = DOMAIN b
  BY <1>1, ShownIs
<1> QED BY <1>1, <1>2 DEF Frame

\* A ping to the board.
Pinged(q, total) ==
    /\ q.bytes \in Buffer /\ Get(q.bytes, 12, 2) = ETHTYPE_IP /\ Get(q.bytes, 30, 4) = ipaddr
    /\ Get(q.bytes, 23, 1) = << 1 >> /\ Get(q.bytes, 34, 1) = << 8 >> /\ Get(q.bytes, 16, 2) = Two(total)
    /\ q.len = Padded(total) /\ Checksum(q.bytes, 34, total - 20, 0) = 0

\* A received frame fills the shown bytes, and is whole exactly if it fits the
\* buffer.
LEMMA PaddedIs ==
    ASSUME NEW total \in Nat
    PROVE  /\ Padded(total) \in Nat /\ 60 <= Padded(total)
           /\ (Padded(total) >= total + 14 <=> total + 14 < BUFFER_SIZE)
<1>1. BUFFER_SIZE \in Nat /\ BUFFER_SIZE - 1 >= 60
  <2>1. BUFFER_SIZE \in Nat /\ BUFFER_SIZE > SHOWN
    BY FramesAssumption
  <2> QED BY <2>1 DEF SHOWN
<1>2. CASE total + 14 < 60
  BY <1>1, <1>2 DEF Padded
<1>3. CASE total + 14 >= 60 /\ total + 14 > BUFFER_SIZE - 1
  <2>1. Padded(total) = BUFFER_SIZE - 1
    BY <1>1, <1>3 DEF Padded
  <2> QED BY <1>1, <1>3, <2>1
<1>4. CASE total + 14 >= 60 /\ total + 14 <= BUFFER_SIZE - 1
  <2>1. Padded(total) = total + 14
    BY <1>1, <1>4 DEF Padded
  <2> QED BY <1>1, <1>4, <2>1
<1> QED BY <1>1, <1>2, <1>3, <1>4

\* ip_arp_udp_tcp.c:378-391: the reply to a ping is sound and goes back.
LEMMA EchoAnswers ==
    ASSUME NEW q, NEW total, Pinged(q, total), total \in Nat, 30 <= total, IsBytes(ipaddr, 4)
    PROVE  Answers(make_echo_reply_from_request(q.bytes, q.len), q)
<1> DEFINE b == q.bytes
           len == q.len
           high == b[36]
           low == b[37]
           e == make_eth(b)
           m == make_ip(e)
           k == m ++ At(34, << 0 >>)
           h2 == (high + 8) % 256
           l2 == (low + (IF high > 255 - 8 THEN 1 ELSE 0)) % 256
           t == k ++ At(36, <<h2, l2>>)
           g == Frame(t, len)
           size == total - 20
<1>1. make_echo_reply_from_request(b, len) = Send(t, len)
  BY DEF make_echo_reply_from_request, P
<1>2. /\ b \in Buffer /\ Get(b, 12, 2) = ETHTYPE_IP /\ Get(b, 30, 4) = ipaddr
      /\ Get(b, 23, 1) = << 1 >> /\ Get(b, 34, 1) = << 8 >> /\ Get(b, 16, 2) = Two(total)
      /\ len = Padded(total) /\ Checksum(b, 34, size, 0) = 0
  BY DEF Pinged
<1>3. /\ high \in Nat /\ high < 256 /\ low \in Nat /\ low < 256
      /\ Word(b, 36) = 256 * high + low
  BY <1>2, ByteOf DEF Word
<1>4. b[34] = 8 /\ b[35] \in Nat
  <2>1. b[34] = 8
    BY <1>2, ByteIs
  <2> QED BY <1>2, <2>1, ByteOf
<1>5. CarryLost(q) <=> high > 247 /\ low = 255
  BY DEF CarryLost, P
<1>6. len \in Nat /\ 60 <= len /\ (len >= total + 14 <=> total + 14 < BUFFER_SIZE)
  BY <1>2, PaddedIs
<1>7. size \in Nat /\ size >= 10
  OBVIOUS
<1> HIDE DEF b, len, high, low, size
<1>8. /\ e \in Buffer /\ Get(e, 0, 6) = Get(b, 6, 6) /\ Get(e, 6, 6) = Mac(Me)
      /\ \A p, n \in Nat : 12 <= p /\ p + n <= 60 => Get(e, p, n) = Get(b, p, n)
  BY <1>2, EthMade
<1> HIDE DEF e
<1>9. /\ m \in Buffer /\ Checksum(m, 14, 20, 0) = 0
      /\ Get(m, 30, 4) = Get(e, 26, 4) /\ Get(m, 26, 4) = ipaddr
      /\ \A p, n \in Nat : (p + n <= 20 \/ (p = 23 /\ n = 1) \/ 34 <= p) /\ p + n <= 60
             => Get(m, p, n) = Get(e, p, n)
  BY <1>8, IpMade
<1> HIDE DEF m
<1>10. /\ Get(m, 0, 6) = Get(b, 6, 6) /\ Get(m, 6, 6) = Mac(Me) /\ Get(m, 12, 2) = Get(b, 12, 2)
       /\ Get(m, 16, 2) = Get(b, 16, 2) /\ Get(m, 23, 1) = Get(b, 23, 1) /\ Get(m, 30, 4) = Get(b, 26, 4)
  BY <1>8, <1>9
<1>11. \A i \in Nat : i < 60 /\ 34 <= i => m[i] = b[i]
  <2> TAKE i \in Nat
  <2> HAVE i < 60 /\ 34 <= i
  <2>1. i + 1 <= 60 /\ 12 <= i
    OBVIOUS
  <2>2. Get(m, i, 1) = Get(b, i, 1)
    BY <1>8, <1>9, <2>1
  <2>3. <<m[i]>> = <<b[i]>>
    BY <2>2, ByteIs
  <2> QED BY <2>3
<1>12. IsBytes(<< 0 >>, 1) /\ IsBytes(<<h2, l2>>, 2)
  <2>1. 0 \in Octet /\ h2 \in Octet /\ l2 \in Octet
    BY <1>3, OctetIs
  <2> QED BY <2>1, PairBytes, OneByte
<1>13. k \in Buffer
  BY <1>9, <1>12, BufferWritten
<1>14. t \in Buffer
  BY <1>12, <1>13, BufferWritten
<1>15. /\ \A p, n \in Nat : p + n <= 34 => Get(t, p, n) = Get(m, p, n)
       /\ Get(t, 34, 1) = << 0 >>
  BY <1>12, GetKept, GetWritten
<1>16. Checksum(t, 14, 20, 0) = 0
  BY <1>9, <1>12, <1>13, ChecksumKept
<1>17. /\ k[34] = 0 /\ k[35] = b[35]
       /\ \A i \in Nat : i < 60 /\ 34 <= i /\ i # 34 /\ i # 34 + 1 => b[i] = k[i]
  <2>1. Get(k, 34, 1) = << 0 >>
    BY <1>12, GetWritten
  <2>2. k[34] = 0
    BY <2>1, ByteIs
  <2>3. k[35] = m[35]
    BY <1>12, ByteKept
  <2>4. \A i \in Nat : i < 60 /\ 34 <= i /\ i # 34 => k[i] = m[i]
    BY <1>12, ByteKept
  <2> HIDE DEF k
  <2> QED BY <1>11, <2>2, <2>3, <2>4
<1>18. /\ t[36] = h2 /\ t[37] = l2
       /\ \A i \in Nat : i < 60 /\ 34 <= i /\ i # 36 /\ i # 36 + 1 => k[i] = t[i]
  <2> HIDE DEF h2, l2, k
  <2>1. Get(t, 36, 2) = <<h2, l2>>
    BY <1>12, GetWritten
  <2>2. \A i \in Nat : i < 60 /\ 34 <= i /\ i # 36 /\ i # 36 + 1 => k[i] = t[i]
    BY <1>12, ByteKept
  <2> HIDE DEF t
  <2>3. t[36] = h2 /\ t[37] = l2
    BY <2>1 DEF Get
  <2> QED BY <2>2, <2>3
<1> HIDE DEF t, k
<1>19. Checksum(t, 34, size, 0) = 0 <=> ~CarryLost(q)
  <2> DEFINE r1 == SumOver(b, 34, Others(b, 34, size, 34))
             r2 == SumOver(k, 34, Others(k, 34, size, 36))
  <2>1. /\ r1 \in Nat
        /\ Added(b, 34, size, 0) = Word(b, 34) + r1 /\ Added(k, 34, size, 0) = Word(k, 34) + r1
    <3>1. (34 - 34) % 2 = 0 /\ 34 + 2 <= 34 + size
      BY <1>7
    <3>2. b \in Buffer /\ k \in Buffer
      BY <1>2, <1>13
    <3>3. \A i \in Nat : i < 60 /\ 34 <= i /\ i # 34 /\ i # 34 + 1 => b[i] = k[i]
      BY <1>17
    <3>4. size \in Nat
      BY <1>7
    <3>5. Added(k, 34, size, 0) = Word(k, 34) + r1
      BY <3>1, <3>2, <3>3, <3>4, WordChanged DEF r1
    <3> QED BY <3>1, <3>2, <3>3, <3>4, <3>5, WordChanged DEF r1
  <2>2. /\ r2 \in Nat
        /\ Added(k, 34, size, 0) = Word(k, 36) + r2 /\ Added(t, 34, size, 0) = Word(t, 36) + r2
    <3>1. (36 - 34) % 2 = 0 /\ 36 + 2 <= 34 + size
      BY <1>7
    <3> QED BY <1>7, <1>13, <1>14, <1>18, <3>1, WordChanged
  <2> HIDE DEF r1, r2
  <2> DEFINE A == Added(b, 34, size, 0)
             T == Added(t, 34, size, 0)
  <2>3. Word(b, 34) = 2048 + b[35] /\ Word(k, 34) = b[35] /\ Word(k, 36) = 256 * high + low
    BY <1>4, <1>11, <1>17 DEF Word, high, low
  <2>4. Word(t, 36) = 256 * h2 + l2
    BY <1>18 DEF Word
  <2>5. A \in Nat
    BY <1>2, <1>7, AddedTyped
  <2>6. Folded(A) = 65535
    <3>1. 65535 - Folded(A) = 0
      BY <1>2, ChecksumIs
    <3>2. Folded(A) \in Int
      BY <2>5 DEF Folded
    <3> QED BY <3>1, <3>2
  <2>7. A % 65535 = 0
    BY <2>5, <2>6, FullIs
  <2>8. A = 2048 + (256 * high + low) + r2 /\ T = (256 * h2 + l2) + r2
    BY <1>3, <1>4, <2>1, <2>2, <2>3, <2>4
  <2> DEFINE T2 == (256 * ((high + 8) % 256) + ((low + (IF high > 255 - 8 THEN 1 ELSE 0)) % 256)) + r2
  <2>13. T = T2
    BY <2>8 DEF h2, l2
  <2>14. A = 2048 + (256 * high + low) + r2
    BY <2>8
  <2> HIDE DEF A, T
  <2>9. T \in Nat /\ (T > 0 /\ T % 65535 = 0 <=> ~(high > 247 /\ low = 255))
    BY <1>3, <2>1, <2>2, <2>5, <2>7, <2>13, <2>14, EchoSum
  <2>10. Folded(T) = 65535 <=> ~(high > 247 /\ low = 255)
    BY <2>9, FullIs
  <2>11. Checksum(t, 34, size, 0) = 65535 - Folded(T)
    BY ChecksumIs DEF T
  <2>12. Folded(T) \in Int
    BY <2>9 DEF Folded
  <2> QED BY <1>5, <2>10, <2>11, <2>12
<1>20. g.bytes = t /\ g.len = len
  BY <1>6, <1>14, FrameWhole
<1> HIDE DEF g, h2, l2
<1>21. /\ Get(t, 6, 6) = Mac(Me) /\ t[23] = 1 /\ Word(t, 16) = total /\ t[34] = 0
  <2>1. Get(t, 6, 6) = Mac(Me) /\ Get(t, 23, 1) = << 1 >> /\ Get(t, 16, 2) = Two(total)
    BY <1>2, <1>10, <1>15
  <2> QED BY <1>15, <2>1, ByteIs, WordIs
<1>22. Word(b, 16) = total
  BY <1>2, WordIs
<1>23. SoundFrame(g, q)
  <2>1. /\ Total(g) = total /\ Total(q) = total /\ Proto(g) = 1 /\ IsEchoReply(g)
    BY <1>20, <1>21, <1>22 DEF Total, Proto, IsEchoReply, P, ICMP_V, b
  <2>2. P.ETH_SRC_MAC = 6 /\ P.IP_P = 14 /\ P.ICMP_TYPE_P = 34
    BY DEF P
  <2> QED BY <1>6, <1>16, <1>19, <1>20, <1>21, <2>1, <2>2 DEF SoundFrame, UDP_V, TCP_V, size
<1>24. BackReady(t, b, 1, 0)
  <2>1. /\ Get(t, 0, 6) = Get(b, 6, 6) /\ Get(t, 12, 2) = ETHTYPE_IP /\ Get(t, 23, 1) = << 1 >>
        /\ Get(t, 30, 4) = Get(b, 26, 4) /\ Get(t, 26, 4) = Get(b, 30, 4)
    BY <1>2, <1>9, <1>10, <1>15
  <2> QED BY <1>14, <2>1 DEF BackReady
<1>25. GoesBack(g, q)
  <2>1. 42 <= len
    BY <1>6
  <2> QED BY <1>6, <1>24, <2>1, BackIp DEF g, b
<1>26. Send(t, len).buf = t /\ Send(t, len).sent = <<g>>
  BY DEF Send, g
<1>27. Answers(Send(t, len), q)
  BY <1>14, <1>23, <1>25, <1>26 DEF Answers
<1> QED BY <1>1, <1>27 DEF b, len

\* What the peers send.
Answerable(r) ==
    /\ r.bytes \in Buffer /\ r.len \in Nat /\ 60 <= r.len
    /\ Get(r.bytes, 12, 2) = ETHTYPE_IP /\ Get(r.bytes, 23, 1) = << 1 >> =>
         \E total \in Nat :
            /\ 30 <= total /\ Get(r.bytes, 34, 1) = << 8 >> /\ Get(r.bytes, 16, 2) = Two(total)
            /\ r.len = Padded(total) /\ Checksum(r.bytes, 34, total - 20, 0) = 0

\* A peer's number and addresses are bytes.
LEMMA PeerIs ==
    ASSUME NEW h \in Peers
    PROVE  h \in 1..9 /\ h \in Octet /\ IsBytes(Mac(h), 6) /\ IsBytes(Ip(h), 4)
<1>1. h \in 1..9
  BY FramesAssumption
<1>2. h \in Octet
  BY <1>1, OctetIs
<1> QED BY <1>1, <1>2, MacBytes

\* The two types of frames are different.
LEMMA TypeBytes == IsBytes(ETHTYPE_ARP, 2) /\ IsBytes(ETHTYPE_IP, 2) /\ ETHTYPE_ARP # ETHTYPE_IP
<1>1. 8 \in Octet /\ 6 \in Octet /\ 0 \in Octet
  BY OctetIs
<1> QED BY <1>1, PairBytes DEF ETHTYPE_ARP, ETHTYPE_IP

\* The Ethernet header of a peer's frame.
LEMMA FromPeerIs ==
    ASSUME NEW h, NEW type, h \in Peers, IsBytes(type, 2)
    PROVE  FromPeer(h, type) \in Buffer /\ Get(FromPeer(h, type), 12, 2) = type
<1>1. Blank \in Buffer
  <2>1. 0 \in Octet
    BY OctetIs
  <2> QED BY <2>1 DEF Blank, Buffer
<1>2. IsBytes(Mac(Me), 6) /\ IsBytes(Mac(h), 6)
  BY PeerIs, MacBytes DEF Me
<1>3. FromPeer(h, type) = Blank ++ At(0, Mac(Me)) ++ At(6, Mac(h)) ++ At(12, type)
  BY DEF FromPeer, P
<1>4. Blank ++ At(0, Mac(Me)) ++ At(6, Mac(h)) ++ At(12, type) \in Buffer
  BY <1>1, <1>2, BufferWritten
<1>5. Get(Blank ++ At(0, Mac(Me)) ++ At(6, Mac(h)) ++ At(12, type), 12, 2) = type
  BY GetWritten
<1> QED BY <1>3, <1>4, <1>5

\* The IP header of a peer's frame, which ends with a clear field.
LEMMA PeerIpIs ==
    ASSUME NEW h, NEW dst, NEW proto, NEW total, h \in Peers, IsBytes(dst, 4), proto \in Octet, IsWord(total)
    PROVE  LET c == PeerIp(h, dst, proto, total)
           IN  /\ c \in Buffer /\ Get(c, 12, 2) = ETHTYPE_IP /\ Get(c, 23, 1) = <<proto>>
               /\ Get(c, 16, 2) = Two(total) /\ Get(c, 36, 2) = <<0, 0>>
<1> DEFINE e == FromPeer(h, ETHTYPE_IP)
           k == e ++ At(14, <<69, 16>>) ++ At(16, Two(total)) ++ At(19, <<h>>)
           m == k ++ At(23, <<proto>>) ++ At(26, Ip(h)) ++ At(30, dst)
<1>1. e \in Buffer /\ Get(e, 12, 2) = ETHTYPE_IP
  BY TypeBytes, FromPeerIs
<1>2. Get(e, 36, 2) = <<0, 0>>
  <2>1. e = Blank ++ At(0, Mac(Me)) ++ At(6, Mac(h)) ++ At(12, ETHTYPE_IP)
    BY DEF FromPeer, P
  <2>2. IsBytes(Mac(Me), 6) /\ IsBytes(Mac(h), 6) /\ IsBytes(ETHTYPE_IP, 2)
    BY PeerIs, MacBytes, TypeBytes DEF Me
  <2> HIDE DEF e
  <2>3. Get(e, 36, 2) = Get(Blank, 36, 2)
    BY <2>1, <2>2, GetKept
  <2>4. Get(Blank, 36, 2) = <<0, 0>>
    <3>1. Blank[36] = 0 /\ Blank[37] = 0
      BY ShownIs DEF Blank
    <3> QED BY <3>1 DEF Get
  <2> QED BY <2>3, <2>4
<1>3. /\ IsBytes(<<69, 16>>, 2) /\ IsBytes(Two(total), 2) /\ IsBytes(<<h>>, 1)
      /\ IsBytes(<<proto>>, 1) /\ IsBytes(Ip(h), 4)
  <2>1. 69 \in Octet /\ 16 \in Octet
    BY OctetIs
  <2> QED BY <2>1, PeerIs, PairBytes, TwoBytes, OneByte
<1>4. PeerIp(h, dst, proto, total) = fill_ip_hdr_checksum(m)
  BY DEF PeerIp, P
<1> HIDE DEF e
<1>5. k \in Buffer
  BY <1>1, <1>3, BufferWritten
<1>6. Get(k, 12, 2) = Get(e, 12, 2) /\ Get(k, 36, 2) = Get(e, 36, 2) /\ Get(k, 16, 2) = Two(total)
  BY <1>3, GetWritten, GetKept
<1> HIDE DEF k
<1>7. m \in Buffer
  BY <1>3, <1>5, BufferWritten
<1>8. /\ Get(m, 12, 2) = Get(k, 12, 2) /\ Get(m, 36, 2) = Get(k, 36, 2) /\ Get(m, 16, 2) = Get(k, 16, 2)
      /\ Get(m, 23, 1) = <<proto>>
  BY <1>3, GetWritten, GetKept
<1> HIDE DEF m
<1> QED BY <1>1, <1>2, <1>4, <1>6, <1>7, <1>8, IpFilled

\* An ARP request can be answered.
LEMMA ArpRequestIs ==
    ASSUME NEW h, NEW dst, h \in Peers, IsBytes(dst, 4)
    PROVE  Answerable(ArpRequest(h, dst))
<1> DEFINE e == FromPeer(h, ETHTYPE_ARP)
           k == e ++ At(14, arpreqhdr) ++ At(22, Mac(h))
           m == k ++ At(28, Ip(h)) ++ At(38, dst)
           r == ArpRequest(h, dst)
<1>1. r.len = 60 /\ r.bytes = m
  BY DEF ArpRequest, P
<1>2. e \in Buffer /\ Get(e, 12, 2) = ETHTYPE_ARP
  BY TypeBytes, FromPeerIs
<1>3. IsBytes(arpreqhdr, 8)
  BY OctetIs DEF arpreqhdr, IsBytes
<1>4. IsBytes(Mac(h), 6) /\ IsBytes(Ip(h), 4)
  BY PeerIs
<1> HIDE DEF e
<1>5. k \in Buffer
  BY <1>2, <1>3, <1>4, BufferWritten
<1>6. m \in Buffer
  BY <1>4, <1>5, BufferWritten
<1>7. Get(m, 12, 2) = ETHTYPE_ARP
  BY <1>2, <1>3, <1>4, GetKept
<1> HIDE DEF m, r
<1>8. Answerable(r)
  BY <1>1, <1>6, <1>7, TypeBytes DEF Answerable
<1> QED BY <1>8 DEF r

\* The lengths of data.
LEMMA SizeIs ==
    ASSUME NEW n \in Sizes
    PROVE  n \in Nat /\ 1 <= n /\ n <= 1400
BY FramesAssumption

\* A ping can be answered.
LEMMA PingIs ==
    ASSUME NEW h, NEW n, NEW w, h \in Peers, n \in Sizes, n > 1, IsWord(w)
    PROVE  Answerable(Ping(h, n, w))
<1> DEFINE c == PeerIp(h, Ip(Me), 1, 28 + n)
           k == c ++ At(34, <<8, 0>>) ++ At(42, Two(w))
           t == k ++ At(36, Two(Checksum(k, 34, 8 + n, 0)))
           r == Ping(h, n, w)
           total == 28 + n
<1>1. r.len = Padded(total) /\ r.bytes = t
  BY DEF Ping, P, ICMP_V
<1>2. n \in Nat /\ total \in Nat /\ 30 <= total /\ IsWord(total)
  BY SizeIs DEF IsWord
<1>3. /\ c \in Buffer /\ Get(c, 12, 2) = ETHTYPE_IP /\ Get(c, 16, 2) = Two(total) /\ Get(c, 36, 2) = <<0, 0>>
  <2>1. IsBytes(Ip(Me), 4) /\ 1 \in Octet
    BY MacBytes, OctetIs DEF Me
  <2> QED BY <1>2, <2>1, PeerIpIs
<1> HIDE DEF c
<1>4. IsBytes(<<8, 0>>, 2) /\ IsBytes(Two(w), 2)
  <2>1. 8 \in Octet /\ 0 \in Octet
    BY OctetIs
  <2> QED BY <2>1, PairBytes, TwoBytes
<1>5. k \in Buffer
  BY <1>3, <1>4, BufferWritten
<1>6. /\ Get(k, 12, 2) = ETHTYPE_IP /\ Get(k, 16, 2) = Two(total) /\ Get(k, 36, 2) = <<0, 0>>
  BY <1>3, <1>4, GetKept
<1>7. Get(k, 34, 1) = << 8 >>
  <2>1. Get(c ++ At(34, <<8, 0>>), 34, 2) = <<8, 0>>
    BY <1>4, GetWritten
  <2>2. (c ++ At(34, <<8, 0>>))[34] = 8
    BY <2>1 DEF Get
  <2>3. Get(c ++ At(34, <<8, 0>>), 34, 1) = << 8 >>
    BY <2>2, ByteIs
  <2> QED BY <1>4, <2>3, GetKept
<1> HIDE DEF k
<1>8. IsBytes(Two(Checksum(k, 34, 8 + n, 0)), 2)
  <2>1. 8 + n \in Nat
    BY <1>2
  <2> QED BY <1>5, <2>1, ChecksumTyped
<1>9. t \in Buffer
  BY <1>5, <1>8, BufferWritten
<1>10. /\ Get(t, 12, 2) = ETHTYPE_IP /\ Get(t, 16, 2) = Two(total) /\ Get(t, 34, 1) = << 8 >>
  BY <1>6, <1>7, <1>8, GetKept
<1>11. Checksum(t, 34, total - 20, 0) = 0
  <2>1. 8 + n \in Nat /\ 8 + n = total - 20 /\ (36 - 34) % 2 = 0 /\ 36 + 2 <= 34 + (8 + n)
    BY <1>2
  <2>2. Checksum(t, 34, 8 + n, 0) = 0
    BY <1>5, <1>6, <2>1, ChecksumCompletes
  <2> QED BY <2>1, <2>2
<1>12. Padded(total) \in Nat /\ 60 <= Padded(total)
  BY <1>2, PaddedIs
<1> HIDE DEF t, total, r
<1>13. Answerable(r)
  BY <1>1, <1>2, <1>9, <1>10, <1>11, <1>12 DEF Answerable
<1> QED BY <1>13 DEF r

\* A datagram can be answered.
LEMMA DatagramIs ==
    ASSUME NEW h, NEW n, NEW dst, h \in Peers, n \in Sizes, IsBytes(dst, 4)
    PROVE  Answerable(Datagram(h, n, dst))
<1> DEFINE c == PeerIp(h, dst, 17, 28 + n)
           x == <<4, h>> \o Two(1200)
           k == c ++ At(34, x) ++ At(38, Two(8 + n))
           t == k ++ At(40, Two(Checksum(k, 26, 16 + n, 17)))
           r == Datagram(h, n, dst)
           total == 28 + n
<1>1. r.len = Padded(total) /\ r.bytes = t
  BY DEF Datagram, UdpChecked, P, UDP_V
<1>2. n \in Nat /\ total \in Nat /\ IsWord(total) /\ IsWord(8 + n) /\ 16 + n \in Nat /\ 16 + n >= 8
  BY SizeIs DEF IsWord
<1>3. c \in Buffer /\ Get(c, 23, 1) = << 17 >>
  <2>1. 17 \in Octet
    BY OctetIs
  <2> QED BY <1>2, <2>1, PeerIpIs
<1> HIDE DEF c
<1>4. IsBytes(x, 4) /\ IsBytes(Two(8 + n), 2)
  <2>1. 4 \in Octet /\ h \in Octet /\ IsWord(1200)
    BY OctetIs, PeerIs DEF IsWord
  <2>2. IsBytes(<<4, h>>, 2) /\ IsBytes(Two(1200), 2) /\ IsBytes(Two(8 + n), 2)
    BY <1>2, <2>1, PairBytes, TwoBytes
  <2>3. IsBytes(x, 2 + 2)
    BY <2>2, JoinBytes
  <2> QED BY <2>2, <2>3
<1> HIDE DEF x
<1>5. k \in Buffer
  BY <1>3, <1>4, BufferWritten
<1>6. Get(k, 23, 1) = << 17 >>
  BY <1>3, <1>4, GetKept
<1> HIDE DEF k
<1>7. IsBytes(Two(Checksum(k, 26, 16 + n, 17)), 2)
  BY <1>2, <1>5, ChecksumTyped
<1>8. t \in Buffer
  BY <1>5, <1>7, BufferWritten
<1>9. Get(t, 23, 1) = << 17 >>
  BY <1>6, <1>7, GetKept
<1>10. Padded(total) \in Nat /\ 60 <= Padded(total)
  BY <1>2, PaddedIs
<1> HIDE DEF t, total, r
<1>11. Get(r.bytes, 23, 1) # << 1 >>
  BY <1>1, <1>9
<1>12. Answerable(r)
  BY <1>1, <1>8, <1>10, <1>11 DEF Answerable
<1> QED BY <1>12 DEF r

\* A segment can be answered.
LEMMA SegmentIs ==
    ASSUME NEW h, NEW hlen, NEW n, NEW flags, h \in Peers, hlen \in {5, 6}, n \in {0} \cup Sizes,
           flags \in Octet
    PROVE  Answerable(Segment(h, hlen, n, flags))
<1> DEFINE total == 20 + 4 * hlen + n
           c == PeerIp(h, Ip(Me), 6, total)
           x == <<4, h>> \o Two(80)
           k == c ++ At(34, x) ++ At(38, <<h, 255, 255, 250>>)
           m == k ++ At(42, <<0, 0, 10, 1>>) ++ At(46, <<16 * hlen, flags>>)
           len == 8 + (4 * hlen + n)
           t == m ++ At(50, Two(Checksum(m, 26, len, 6)))
           r == Segment(h, hlen, n, flags)
<1>1. r.len = Padded(total) /\ r.bytes = t
  BY DEF Segment, TcpChecked, P, TCP_V
<1>2. n \in Nat /\ total \in Nat /\ IsWord(total) /\ len \in Nat /\ len >= 8
  <2>1. n \in Nat /\ n <= 1400
    BY SizeIs
  <2> QED BY <2>1 DEF IsWord
<1> HIDE DEF total
<1>3. c \in Buffer /\ Get(c, 23, 1) = << 6 >>
  <2>1. 6 \in Octet /\ IsBytes(Ip(Me), 4)
    BY OctetIs, MacBytes DEF Me
  <2> QED BY <1>2, <2>1, PeerIpIs
<1> HIDE DEF c, len
<1>4. /\ IsBytes(x, 4) /\ IsBytes(<<h, 255, 255, 250>>, 4) /\ IsBytes(<<0, 0, 10, 1>>, 4)
      /\ IsBytes(<<16 * hlen, flags>>, 2)
  <2>1. /\ 4 \in Octet /\ h \in Octet /\ IsWord(80) /\ 255 \in Octet /\ 250 \in Octet
        /\ 0 \in Octet /\ 1 \in Octet /\ 10 \in Octet /\ 16 * hlen \in Octet
    BY OctetIs, PeerIs DEF IsWord
  <2>2. /\ IsBytes(<<4, h>>, 2) /\ IsBytes(Two(80), 2) /\ IsBytes(<<h, 255, 255, 250>>, 4)
        /\ IsBytes(<<0, 0, 10, 1>>, 4) /\ IsBytes(<<16 * hlen, flags>>, 2)
    BY <1>2, <2>1, PairBytes, TwoBytes, FourBytes
  <2>3. IsBytes(x, 2 + 2)
    BY <2>2, JoinBytes
  <2> QED BY <2>2, <2>3
<1> HIDE DEF x
<1>5. k \in Buffer
  BY <1>3, <1>4, BufferWritten
<1>6. Get(k, 23, 1) = << 6 >>
  BY <1>3, <1>4, GetKept
<1> HIDE DEF k
<1>7. m \in Buffer
  BY <1>4, <1>5, BufferWritten
<1>8. Get(m, 23, 1) = << 6 >>
  BY <1>4, <1>6, GetKept
<1> HIDE DEF m
<1>9. IsBytes(Two(Checksum(m, 26, len, 6)), 2)
  BY <1>2, <1>7, ChecksumTyped
<1>10. t \in Buffer
  BY <1>7, <1>9, BufferWritten
<1>11. Get(t, 23, 1) = << 6 >>
  BY <1>8, <1>9, GetKept
<1>12. Padded(total) \in Nat /\ 60 <= Padded(total)
  BY <1>2, PaddedIs
<1> HIDE DEF t, r
<1>13. Get(r.bytes, 23, 1) # << 1 >>
  BY <1>1, <1>11
<1>14. Answerable(r)
  BY <1>1, <1>10, <1>12, <1>13 DEF Answerable
<1> QED BY <1>14 DEF r

\* Every frame of a peer can be.
LEMMA RequestIs ==
    ASSUME NEW r \in Requests
    PROVE  Answerable(r)
<1>1. IsBytes(Ip(Me), 4) /\ IsBytes(Ip(8), 4)
  BY MacBytes DEF Me
<1>2. CASE r \in ArpRequests
  <2>1. PICK h \in Peers, dst \in {Ip(Me), Ip(8)} : r = ArpRequest(h, dst)
    BY <1>2 DEF ArpRequests
  <2> QED BY <1>1, <2>1, ArpRequestIs
<1>3. CASE r \in Pings
  <2>1. PICK h \in Peers, n \in { s \in Sizes : s > 1 }, w \in Words : r = Ping(h, n, w)
    BY <1>3 DEF Pings
  <2>2. n \in Sizes /\ n > 1 /\ IsWord(w)
    BY FramesAssumption DEF IsWord
  <2> QED BY <2>1, <2>2, PingIs
<1>4. CASE r \in Datagrams
  <2>1. PICK h \in Peers, n \in Sizes, dst \in {Ip(Me), Ip(8)} : r = Datagram(h, n, dst)
    BY <1>4 DEF Datagrams
  <2> QED BY <1>1, <2>1, DatagramIs
<1>5. CASE r \in Segments
  <2>1. PICK h \in Peers, hlen \in {5, 6}, n \in {0} \cup Sizes, flags \in {SYN, ACK, ACK + FIN, ACK + PUSH} :
            r = Segment(h, hlen, n, flags)
    BY <1>5 DEF Segments
  <2>2. flags \in Octet
    BY OctetIs DEF SYN, ACK, FIN, PUSH
  <2> QED BY <2>1, <2>2, SegmentIs
<1> QED BY <1>2, <1>3, <1>4, <1>5 DEF Requests

\* A frame fills the buffer.
LEMMA ReceivedIs ==
    ASSUME NEW r, NEW b, Answerable(r), b \in Buffer
    PROVE  Received(b, r) = r.bytes
<1>1. r.bytes \in Buffer /\ r.len \in Nat /\ 60 <= r.len
  BY DEF Answerable
<1>2. DOMAIN b = 0..(SHOWN - 1) /\ DOMAIN r.bytes = DOMAIN b
  BY <1>1 DEF Buffer
<1>3. \A i \in DOMAIN b : i < r.len
  BY <1>1, <1>2, ShownIs
<1>4. r.bytes = [i \in DOMAIN b |-> r.bytes[i]]
  BY <1>1, <1>2 DEF Buffer
<1> QED BY <1>3, <1>4 DEF Received

\* Two bytes that hold a number are that number's.
LEMMA WordBack ==
    ASSUME NEW b, NEW q, NEW n, b \in Buffer, q \in Nat, q + 2 <= 60, Word(b, q) = n
    PROVE  Get(b, q, 2) = Two(n)
<1> DEFINE x == b[q]
           y == b[q + 1]
<1>1. x \in Nat /\ y \in Nat /\ y < 256
  BY ByteOf
<1>2. n = 256 * x + y
  BY DEF Word
<1>3. Get(b, q, 2) = <<x, y>>
  BY DEF Get
<1> HIDE DEF x, y
<1>4. n \div 256 = x /\ n % 256 = y
  BY <1>1, <1>2
<1> QED BY <1>3, <1>4 DEF Two

\* Data beyond the header leaves the header.
LEMMA FilledSame ==
    ASSUME NEW b, NEW pos, NEW n, NEW x, b \in Buffer, pos \in Nat, pos <= 60, n \in Nat, IsBytes(x, n)
    PROVE  UpTo(pos, b ++ At(pos, x), b)
<1>1. b ++ At(pos, x) \in Buffer
  BY BufferWritten
<1>2. \A p, m \in Nat : p + m <= pos => Get(b ++ At(pos, x), p, m) = Get(b, p, m)
  BY GetKept
<1> QED BY <1>1, <1>2 DEF UpTo

\* No frame at all is no wrong answer.
LEMMA NothingAnswers ==
    ASSUME NEW b, NEW q, b \in Buffer
    PROVE  Answers(Nothing(b), q)
<1>1. Nothing(b).buf = b /\ Nothing(b).sent = <<>>
  BY DEF Nothing
<1> QED BY <1>1 DEF Answers

\* Every frame of the server is a sound answer to its request.
LEMMA LoopAnswers ==
    ASSUME NEW r, NEW dlen, Answerable(r), IsBytes(ipaddr, 4), seqnum \in Octet, dlen \in Sizes
    PROVE  Answers(packetloop(r.bytes, r.len, dlen), r)
<1> DEFINE b == r.bytes
           plen == r.len
           flags == b[47]
           len == get_tcp_data_len(b)
           start == 34 + 4 * (b[46] \div 16)
           filled == b ++ At(54, [i \in 1..dlen |-> 72])
           data == b ++ At(42, [i \in 1..dlen |-> 85])
           arp == eth_type_is_arp_and_my_ip(b, plen)
           ip == eth_type_is_ip_and_my_ip(b, plen)
<1>1. packetloop(b, plen, dlen) =
        IF arp THEN
            IF b[21] = 1 THEN make_arp_answer_from_request(b) ELSE Nothing(b)
        ELSE IF ~ip THEN Nothing(b)
        ELSE IF b[23] = 1 /\ b[34] = 8 THEN make_echo_reply_from_request(b, plen)
        ELSE IF b[23] = 17 /\ Word(b, 36) = 1200 THEN
            make_udp_reply_from_request_udpdat_ready(data, dlen, 1200)
        ELSE IF b[23] # 6 \/ plen < 54 \/ Word(b, 36) # 80 THEN Nothing(b)
        ELSE IF Has(flags, 2) THEN make_tcp_synack_from_syn(b)
        ELSE IF Has(flags, 16) /\ len = 0 /\ Has(flags, 1) THEN make_tcp_ack_from_any(b, 0, 0)
        ELSE IF Has(flags, 16) /\ len > 0 /\ start <= plen - 8 THEN www_server_reply(filled, len, dlen)
        ELSE Nothing(b)
  BY DEF packetloop, P, REQ, ICMP_V, UDP_V, TCP_V, SYN, ACK, FIN
<1>2. b \in Buffer
  BY DEF Answerable
<1>3. dlen \in Nat /\ IsWord(40 + dlen)
  BY SizeIs DEF IsWord
<1>4. arp => Get(b, 12, 2) = ETHTYPE_ARP /\ Get(b, 38, 4) = ipaddr
  BY DEF eth_type_is_arp_and_my_ip, P
<1>5. ip => Get(b, 12, 2) = ETHTYPE_IP /\ Get(b, 30, 4) = ipaddr
  BY DEF eth_type_is_ip_and_my_ip, P
<1> DEFINE goal(res) == Answers(res, r)
<1>6. goal(Nothing(b))
  BY <1>2, NothingAnswers
<1>7. arp => goal(make_arp_answer_from_request(b))
  BY <1>2, <1>4, ArpAnswers
<1>8. ip /\ b[23] = 1 => goal(make_echo_reply_from_request(b, plen))
  <2> SUFFICES ASSUME ip, b[23] = 1 PROVE goal(make_echo_reply_from_request(b, plen))
    OBVIOUS
  <2>1. Get(b, 23, 1) = << 1 >>
    BY ByteIs
  <2>2. PICK total \in Nat :
            /\ 30 <= total /\ Get(r.bytes, 34, 1) = << 8 >> /\ Get(r.bytes, 16, 2) = Two(total)
            /\ r.len = Padded(total) /\ Checksum(r.bytes, 34, total - 20, 0) = 0
    BY <1>5, <2>1 DEF Answerable
  <2>3. Pinged(r, total)
    BY <1>2, <1>5, <2>1, <2>2 DEF Pinged
  <2> QED BY <2>2, <2>3, EchoAnswers
<1>9. ip /\ b[23] = 17 /\ Word(b, 36) = 1200 =>
        goal(make_udp_reply_from_request_udpdat_ready(data, dlen, 1200))
  <2> SUFFICES ASSUME ip, b[23] = 17, Word(b, 36) = 1200
               PROVE  goal(make_udp_reply_from_request_udpdat_ready(data, dlen, 1200))
    OBVIOUS
  <2>1. Get(b, 23, 1) = << 17 >> /\ Get(b, 36, 2) = Two(1200)
    BY <1>2, ByteIs, WordBack
  <2>2. IsWord(1200)
    BY DEF IsWord
  <2>3. UpTo(42, data, b)
    <3> DEFINE x == [i \in 1..dlen |-> 85]
    <3>1. 85 \in Octet
      BY OctetIs
    <3>2. IsBytes(x, dlen)
      BY <3>1 DEF IsBytes
    <3> HIDE DEF x
    <3>3. UpTo(42, b ++ At(42, x), b)
      BY <1>2, <1>3, <3>2, FilledSame
    <3> QED BY <3>3 DEF x
  <2> HIDE DEF data
  <2> QED BY <1>3, <1>5, <2>1, <2>2, <2>3, UdpAnswers
<1>10. ip /\ b[23] = 6 => Segmented(b)
  BY <1>2, <1>5, ByteIs DEF Segmented
<1>11. SameHeader(b, b)
  BY <1>2 DEF SameHeader, UpTo
<1>12. Segmented(b) => goal(make_tcp_synack_from_syn(b))
  BY SynAckAnswers
<1>13. Segmented(b) /\ len = 0 => goal(make_tcp_ack_from_any(b, 0, 0))
  <2> SUFFICES ASSUME Segmented(b), len = 0 PROVE goal(make_tcp_ack_from_any(b, 0, 0))
    OBVIOUS
  <2>1. 0 = get_tcp_data_len(b)
    OBVIOUS
  <2> QED BY <1>11, <2>1, AckAnswers
<1>14. Segmented(b) /\ len > 0 => goal(www_server_reply(filled, len, dlen))
  <2> SUFFICES ASSUME Segmented(b), len > 0 PROVE goal(www_server_reply(filled, len, dlen))
    OBVIOUS
  <2>1. SameHeader(filled, b)
    <3> DEFINE x == [i \in 1..dlen |-> 72]
    <3>1. 72 \in Octet
      BY OctetIs
    <3>2. IsBytes(x, dlen)
      BY <3>1 DEF IsBytes
    <3> HIDE DEF x
    <3>3. UpTo(54, b ++ At(54, x), b)
      BY <1>2, <1>3, <3>2, FilledSame
    <3> QED BY <3>3 DEF x, SameHeader
  <2>2. len \in Nat /\ len # 0 /\ len = get_tcp_data_len(b)
    BY <1>2, DataLength
  <2> HIDE DEF filled, len
  <2> QED BY <1>3, <2>1, <2>2, WwwAnswers
<1> DEFINE res == packetloop(b, plen, dlen)
           ping == b[23] = 1 /\ b[34] = 8
           udp == b[23] = 17 /\ Word(b, 36) = 1200
           tcp == ~(b[23] # 6 \/ plen < 54 \/ Word(b, 36) # 80)
           syn == Has(flags, 2)
           bare == Has(flags, 16) /\ len = 0 /\ Has(flags, 1)
           get == Has(flags, 16) /\ len > 0 /\ start <= plen - 8
<1>15. CASE arp
  <2>1. CASE b[21] = 1
    <3>1. res = make_arp_answer_from_request(b)
      BY <1>1, <1>15, <2>1
    <3> QED BY <1>7, <1>15, <3>1
  <2>2. CASE b[21] # 1
    <3>1. res = Nothing(b)
      BY <1>1, <1>15, <2>2
    <3> QED BY <1>6, <3>1
  <2> QED BY <2>1, <2>2
<1>16. CASE ~arp /\ ~ip
  <2>1. res = Nothing(b)
    BY <1>1, <1>16
  <2> QED BY <1>6, <2>1
<1>17. CASE ~arp /\ ip /\ ping
  <2>1. res = make_echo_reply_from_request(b, plen)
    BY <1>1, <1>17
  <2> QED BY <1>8, <1>17, <2>1
<1>18. CASE ~arp /\ ip /\ ~ping /\ udp
  <2>1. res = make_udp_reply_from_request_udpdat_ready(data, dlen, 1200)
    BY <1>1, <1>18
  <2> QED BY <1>9, <1>18, <2>1
<1>19. CASE ~arp /\ ip /\ ~ping /\ ~udp /\ ~tcp
  <2>1. res = Nothing(b)
    BY <1>1, <1>19
  <2> QED BY <1>6, <2>1
<1>20. CASE ~arp /\ ip /\ ~ping /\ ~udp /\ tcp
  <2>1. Segmented(b)
    BY <1>10, <1>20
  <2>2. CASE syn
    <3>1. res = make_tcp_synack_from_syn(b)
      BY <1>1, <1>20, <2>2
    <3> QED BY <1>12, <2>1, <3>1
  <2>3. CASE ~syn /\ bare
    <3>1. res = make_tcp_ack_from_any(b, 0, 0)
      BY <1>1, <1>20, <2>3
    <3> QED BY <1>13, <2>1, <2>3, <3>1
  <2>4. CASE ~syn /\ ~bare /\ get
    <3>1. res = www_server_reply(filled, len, dlen)
      BY <1>1, <1>20, <2>4
    <3> QED BY <1>14, <2>1, <2>4, <3>1
  <2>5. CASE ~syn /\ ~bare /\ ~get
    <3>1. res = Nothing(b)
      BY <1>1, <1>20, <2>5
    <3> QED BY <1>6, <3>1
  <2> QED BY <2>2, <2>3, <2>4, <2>5
<1> QED BY <1>15, <1>16, <1>17, <1>18, <1>19, <1>20

-----------------------------------------------------------------------------
(* Frames of the board's own, in a buffer that held anything *)

\* A byte is the same in two buffers once it is written, or when it was.
Same(b, c, i) == b[i] = c[i]

\* A byte is the same in two buffers once it is written, or if it was before.
LEMMA ByteSame ==
    ASSUME NEW b, NEW c, NEW pos, NEW x, NEW i, pos \in Nat, i \in Nat, i < 60,
           (pos <= i /\ i < pos + Len(x)) \/ Same(b, c, i)
    PROVE  Same(b ++ At(pos, x), c ++ At(pos, x), i)
<1>1. i \in 0..(SHOWN - 1)
  BY ShownIs
<1> QED BY <1>1 DEF ++, At, Same

\* Buffers that agree where a checksum is over have the same.
LEMMA SumSameOver ==
    ASSUME NEW b, NEW c, NEW pos, NEW len, NEW type, b \in Buffer, c \in Buffer, pos \in Nat, len \in Nat,
           \A i \in Nat : i < 60 /\ pos <= i /\ i < pos + len => Same(b, c, i)
    PROVE  Checksum(b, pos, len, type) = Checksum(c, pos, len, type)
<1>1. \A i \in Nat : i < 60 /\ pos <= i /\ i < pos + len => b[i] = c[i]
  BY DEF Same
<1> QED BY <1>1, ChecksumSame

\* Completing the header of two buffers that agree on it leaves them so.
LEMMA FillSame ==
    ASSUME NEW b, NEW c, b \in Buffer, c \in Buffer,
           \A i \in Nat : i < 34 /\ i # 24 /\ i # 25 => Same(b, c, i)
    PROVE  \A i \in Nat : i < 60 /\ (i < 34 \/ Same(b, c, i))
             => Same(fill_ip_hdr_checksum(b), fill_ip_hdr_checksum(c), i)
<1> DEFINE d == b ++ At(24, <<0, 0>>) ++ At(20, <<64, 0>>) ++ At(22, << 64 >>)
           e == c ++ At(24, <<0, 0>>) ++ At(20, <<64, 0>>) ++ At(22, << 64 >>)
<1>1. IsBytes(<<0, 0>>, 2) /\ IsBytes(<<64, 0>>, 2) /\ IsBytes(<< 64 >>, 1)
  <2>1. 0 \in Octet /\ 64 \in Octet
    BY OctetIs
  <2> QED BY <2>1, PairBytes, OneByte
<1>2. d \in Buffer /\ e \in Buffer
  BY <1>1, BufferWritten, ZenonT(60)
<1>3. \A i \in Nat : i < 60 /\ (i < 34 \/ Same(b, c, i)) => Same(d, e, i)
  BY <1>1, ByteSame, LenIs
<1>4. /\ fill_ip_hdr_checksum(b) = d ++ At(24, Two(Checksum(d, 14, 20, 0)))
      /\ fill_ip_hdr_checksum(c) = e ++ At(24, Two(Checksum(e, 14, 20, 0)))
  BY DEF fill_ip_hdr_checksum, P
<1> HIDE DEF d, e
<1>5. Checksum(d, 14, 20, 0) = Checksum(e, 14, 20, 0)
  <2>1. \A i \in Nat : i < 60 /\ 14 <= i /\ i < 14 + 20 => Same(d, e, i)
    BY <1>3
  <2> QED BY <1>2, <2>1, SumSameOver
<1>6. IsBytes(Two(Checksum(d, 14, 20, 0)), 2)
  BY <1>2, ChecksumTyped
<1> QED BY <1>3, <1>4, <1>5, <1>6, ByteSame, LenIs

\* Frames are the same if the buffers agree on their length.
LEMMA FrameSame ==
    ASSUME NEW b, NEW c, NEW len, b \in Buffer, c \in Buffer, len \in Nat,
           \A i \in Nat : i < 60 /\ i < len => Same(b, c, i)
    PROVE  Frame(b, len) = Frame(c, len)
<1>1. DOMAIN b = 0..(SHOWN - 1) /\ DOMAIN c = 0..(SHOWN - 1)
  BY DEF Buffer
<1>2. \A k \in { i \in 0..(SHOWN - 1) : i < len } : b[k] = c[k]
  BY ShownIs DEF Same
<1>3. { i \in DOMAIN b : i < len } = { i \in DOMAIN c : i < len }
  BY <1>1
<1> QED BY <1>1, <1>2, <1>3 DEF Frame

\* The frames of x are sound, and those that y has.
Own(x, y) ==
    x.buf \in Buffer /\ x.sent = y.sent /\ \A k \in DOMAIN x.sent : \A q : SoundFrame(x.sent[k], q)

\* An IP header that is complete.
Headed(b, proto, total) ==
    /\ b \in Buffer /\ Get(b, 6, 6) = Mac(Me) /\ Get(b, 16, 2) = Two(total) /\ Get(b, 23, 1) = <<proto>>
    /\ Checksum(b, 14, 20, 0) = 0

\* Data after the header leaves it.
LEMMA HeadedKept ==
    ASSUME NEW b, NEW pos \in Nat, NEW x, NEW n \in Nat, NEW proto, NEW total,
           Headed(b, proto, total), IsBytes(x, n), 34 <= pos
    PROVE  Headed(b ++ At(pos, x), proto, total)
<1>1. b \in Buffer
  BY DEF Headed
<1>2. b ++ At(pos, x) \in Buffer
  BY <1>1, BufferWritten
<1>3. Checksum(b ++ At(pos, x), 14, 20, 0) = Checksum(b, 14, 20, 0)
  BY <1>1, ChecksumKept
<1>4. /\ Get(b ++ At(pos, x), 6, 6) = Get(b, 6, 6) /\ Get(b ++ At(pos, x), 16, 2) = Get(b, 16, 2)
      /\ Get(b ++ At(pos, x), 23, 1) = Get(b, 23, 1)
  BY GetKept
<1> QED BY <1>2, <1>3, <1>4 DEF Headed

\* The last steps: datagrams and segments.
LEMMA UdpOwn ==
    ASSUME NEW b, NEW c, NEW n, NEW total, NEW size, Headed(b, 17, total), c \in Buffer, n \in Nat,
           total = 28 + n, size = 42 + n,
           Get(b, 38, 2) = Two(8 + n), Get(b, 40, 2) = <<0, 0>>,
           \A i \in Nat : i < 60 /\ i < 42 + n => Same(b, c, i)
    PROVE  Own(Send(UdpChecked(b, n), size), Send(UdpChecked(c, n), size))
<1> DEFINE t == UdpChecked(b, n)
           u == UdpChecked(c, n)
           x == Two(Checksum(b, 26, 16 + n, 17))
<1>1. b \in Buffer
  BY DEF Headed
<1>2. t = b ++ At(40, x) /\ u = c ++ At(40, Two(Checksum(c, 26, 16 + n, 17)))
  BY DEF UdpChecked, P, UDP_V
<1>3. Checksum(b, 26, 16 + n, 17) = Checksum(c, 26, 16 + n, 17)
  <2>1. 16 + n \in Nat /\ \A i \in Nat : i < 60 /\ 26 <= i /\ i < 26 + (16 + n) => Same(b, c, i)
    OBVIOUS
  <2> QED BY <1>1, <2>1, SumSameOver
<1>4. IsBytes(x, 2)
  <2>1. 16 + n \in Nat /\ 16 + n >= 8
    OBVIOUS
  <2> QED BY <1>1, <2>1, ChecksumTyped
<1> HIDE DEF x, t, u
<1>5. u = c ++ At(40, x)
  BY <1>2, <1>3 DEF x
<1>6. t \in Buffer /\ u \in Buffer
  BY <1>1, <1>2, <1>4, <1>5, BufferWritten
<1>7. \A i \in Nat : i < 60 /\ i < 42 + n => Same(t, u, i)
  BY <1>2, <1>4, <1>5, ByteSame, LenIs
<1>8. Frame(t, 42 + n) = Frame(u, 42 + n)
  BY <1>6, <1>7, FrameSame
<1>9. IpReady(t, total, 17)
  <2>1. /\ t \in Buffer /\ Checksum(t, 14, 20, 0) = Checksum(b, 14, 20, 0)
        /\ Checksum(t, 26, 16 + n, 17) = 0
        /\ \A q, m \in Nat : (q + m <= 40 \/ 42 <= q) /\ q + m <= 60 => Get(t, q, m) = Get(b, q, m)
    BY <1>1, UdpCheckedIs DEF t
  <2>2. Get(t, 6, 6) = Mac(Me) /\ Get(t, 16, 2) = Two(total) /\ Get(t, 23, 1) = << 17 >>
        /\ Get(t, 38, 2) = Two(8 + n)
    BY <2>1 DEF Headed
  <2>3. 16 + n = total - 12 /\ 8 + n = total - 20
    OBVIOUS
  <2> QED BY <2>1, <2>2, <2>3 DEF Headed, IpReady
<1>10. \A q : SoundFrame(Frame(t, 42 + n), q)
  <2>1. total \in Nat /\ 28 <= total /\ 42 + n = total + 14
    OBVIOUS
  <2> QED BY <1>9, <2>1, SoundIp
<1> DEFINE g == Frame(t, 42 + n)
           r1 == Send(t, 42 + n)
           r2 == Send(u, 42 + n)
<1>11. r1.buf = t /\ r1.sent = <<g>> /\ r2.sent = <<g>>
  BY <1>8 DEF Send
<1> HIDE DEF g, r1, r2
<1>12. Own(r1, r2)
  BY <1>6, <1>10, <1>11 DEF Own, g
<1> QED BY <1>12 DEF r1, r2, t, u

\* The last step of a segment, in two buffers.
LEMMA TcpOwn ==
    ASSUME NEW b, NEW c, NEW len, NEW total, NEW size, Headed(b, 6, total), c \in Buffer, len \in Nat,
           20 <= len, total = 20 + len, size = 34 + len, Get(b, 50, 2) = <<0, 0>>,
           \A i \in Nat : i < 60 /\ i < 34 + len => Same(b, c, i)
    PROVE  Own(Send(TcpChecked(b, len), size), Send(TcpChecked(c, len), size))
<1> DEFINE t == TcpChecked(b, len)
           u == TcpChecked(c, len)
           x == Two(Checksum(b, 26, 8 + len, 6))
<1>1. b \in Buffer
  BY DEF Headed
<1>2. t = b ++ At(50, x) /\ u = c ++ At(50, Two(Checksum(c, 26, 8 + len, 6)))
  BY DEF TcpChecked, P, TCP_V
<1>3. Checksum(b, 26, 8 + len, 6) = Checksum(c, 26, 8 + len, 6)
  <2>1. 8 + len \in Nat /\ \A i \in Nat : i < 60 /\ 26 <= i /\ i < 26 + (8 + len) => Same(b, c, i)
    OBVIOUS
  <2> QED BY <1>1, <2>1, SumSameOver
<1>4. IsBytes(x, 2)
  <2>1. 8 + len \in Nat /\ 8 + len >= 8
    OBVIOUS
  <2> QED BY <1>1, <2>1, ChecksumTyped
<1> HIDE DEF x, t, u
<1>5. u = c ++ At(50, x)
  BY <1>2, <1>3 DEF x
<1>6. t \in Buffer /\ u \in Buffer
  BY <1>1, <1>2, <1>4, <1>5, BufferWritten
<1>7. \A i \in Nat : i < 60 /\ i < 34 + len => Same(t, u, i)
  BY <1>2, <1>4, <1>5, ByteSame, LenIs
<1>8. Frame(t, 34 + len) = Frame(u, 34 + len)
  BY <1>6, <1>7, FrameSame
<1>9. IpReady(t, total, 6)
  <2>1. /\ t \in Buffer /\ Checksum(t, 14, 20, 0) = Checksum(b, 14, 20, 0)
        /\ Checksum(t, 26, 8 + len, 6) = 0
        /\ \A q, m \in Nat : (q + m <= 50 \/ 52 <= q) /\ q + m <= 60 => Get(t, q, m) = Get(b, q, m)
    BY <1>1, TcpCheckedIs DEF t
  <2>2. Get(t, 6, 6) = Mac(Me) /\ Get(t, 16, 2) = Two(total) /\ Get(t, 23, 1) = << 6 >>
    BY <2>1 DEF Headed
  <2>3. 8 + len = total - 12
    OBVIOUS
  <2> QED BY <2>1, <2>2, <2>3 DEF Headed, IpReady
<1>10. \A q : SoundFrame(Frame(t, 34 + len), q)
  <2>1. total \in Nat /\ 28 <= total /\ 34 + len = total + 14
    OBVIOUS
  <2> QED BY <1>9, <2>1, SoundIp
<1> DEFINE g == Frame(t, 34 + len)
           r1 == Send(t, 34 + len)
           r2 == Send(u, 34 + len)
<1>11. r1.buf = t /\ r1.sent = <<g>> /\ r2.sent = <<g>>
  BY <1>8 DEF Send
<1> HIDE DEF g, r1, r2
<1>12. Own(r1, r2)
  BY <1>6, <1>10, <1>11 DEF Own, g
<1> QED BY <1>12 DEF r1, r2, t, u

\* IpHeader writes all of the header but the length, checksum and fixed fields.
LEMMA HeaderIs ==
    ASSUME NEW b, NEW d, NEW mac, NEW dst, NEW proto, b \in Buffer, IsBytes(mac, 6), IsBytes(dst, 4),
           proto \in Octet, ipid \in Octet, IsBytes(ipaddr, 4)
    PROVE  LET c == IpHeader(b, mac, dst, proto)
               g == IpHeader(d, mac, dst, proto)
           IN  /\ c \in Buffer /\ Get(c, 6, 6) = Mac(Me) /\ Get(c, 23, 1) = <<proto>>
               /\ Get(c, 16, 1) = << 0 >>
               /\ \A i \in Nat : i < 60 /\ (i < 24 \/ (26 <= i /\ i < 34) \/ Same(b, d, i)) => Same(c, g, i)
<1> DEFINE First(x) == x ++ At(0, mac) ++ At(6, Mac(Me)) ++ At(12, ETHTYPE_IP)
           Second(x) == x ++ At(14, iphdr) ++ At(19, <<ipid>>) ++ At(23, <<proto>>)
           Third(x) == x ++ At(30, dst) ++ At(26, ipaddr)
           b1 == First(b)
           b2 == Second(b1)
           b3 == Third(b2)
           d1 == First(d)
           d2 == Second(d1)
           d3 == Third(d2)
<1>1. IpHeader(b, mac, dst, proto) = b3 /\ IpHeader(d, mac, dst, proto) = d3
  BY DEF IpHeader, Template, P
<1>2. /\ IsBytes(Mac(Me), 6) /\ IsBytes(ETHTYPE_IP, 2) /\ IsBytes(iphdr, 9)
      /\ IsBytes(<<ipid>>, 1) /\ IsBytes(<<proto>>, 1)
  <2>1. IsBytes(iphdr, 9)
    BY OctetIs DEF iphdr, IsBytes
  <2> QED BY <2>1, TypeBytes, MacBytes, OneByte DEF Me
<1>3. b1 \in Buffer
  BY <1>2, BufferWritten
<1>4. Get(b1, 6, 6) = Mac(Me)
  BY <1>2, GetWritten, GetKept
<1>5. \A i \in Nat : i < 60 /\ (i < 14 \/ Same(b, d, i)) => Same(b1, d1, i)
  <2>1. \A i \in Nat : i < 60 /\ (i < 12 \/ Same(b, d, i))
          => Same(b ++ At(0, mac) ++ At(6, Mac(Me)), d ++ At(0, mac) ++ At(6, Mac(Me)), i)
    BY <1>2, ByteSame, LenIs, SMTT(60)
  <2> QED BY <1>2, <2>1, ByteSame, LenIs, SMTT(60)
<1> HIDE DEF b1, d1
<1>6. b2 \in Buffer
  <2>1. b1 ++ At(14, iphdr) \in Buffer
    BY <1>2, <1>3, BufferWritten
  <2> QED BY <1>2, <2>1, BufferWritten
<1>7. Get(b2, 6, 6) = Get(b1, 6, 6) /\ Get(b2, 23, 1) = <<proto>>
  BY <1>2, GetWritten, GetKept
<1>8. Get(b2, 16, 1) = << 0 >>
  <2> DEFINE k == b1 ++ At(14, iphdr)
  <2>1. Get(k, 16, 1) = Get(iphdr, 16 - 14 + 1, 1)
    BY <1>2, GetInside
  <2>2. Get(iphdr, 16 - 14 + 1, 1) = << 0 >>
    BY DEF Get, iphdr
  <2> HIDE DEF k
  <2>3. Get(k ++ At(19, <<ipid>>) ++ At(23, <<proto>>), 16, 1) = Get(k, 16, 1)
    BY <1>2, GetKept
  <2> QED BY <2>1, <2>2, <2>3 DEF k
<1>9. \A i \in Nat : i < 60 /\ ((14 <= i /\ i < 24) \/ Same(b1, d1, i)) => Same(b2, d2, i)
  BY <1>2, ByteSame, LenIs
<1> HIDE DEF b2, d2
<1>10. b3 \in Buffer
  BY <1>6, BufferWritten
<1>11. Get(b3, 6, 6) = Get(b2, 6, 6) /\ Get(b3, 16, 1) = Get(b2, 16, 1) /\ Get(b3, 23, 1) = Get(b2, 23, 1)
  BY GetKept
<1>12. \A i \in Nat : i < 60 /\ ((26 <= i /\ i < 34) \/ Same(b2, d2, i)) => Same(b3, d3, i)
  BY ByteSame, LenIs
<1> HIDE DEF b3, d3
<1>13. \A i \in Nat : i < 60 /\ (i < 24 \/ (26 <= i /\ i < 34) \/ Same(b, d, i)) => Same(b3, d3, i)
  BY <1>5, <1>9, <1>12
<1> QED BY <1>1, <1>4, <1>7, <1>8, <1>10, <1>11, <1>13

\* The header of a frame whose length the code writes as a byte.
LEMMA FixedIs ==
    ASSUME NEW b, NEW d, NEW mac, NEW dst, NEW proto, NEW low, b \in Buffer, d \in Buffer,
           IsBytes(mac, 6), IsBytes(dst, 4),
           proto \in Octet, ipid \in Octet, IsBytes(ipaddr, 4), low \in Octet
    PROVE  LET c == FixedLength(IpHeader(b, mac, dst, proto), low)
               e == FixedLength(IpHeader(d, mac, dst, proto), low)
           IN  /\ Headed(c, proto, low) /\ e \in Buffer
               /\ \A i \in Nat : i < 60 /\ (i < 34 \/ Same(b, d, i)) => Same(c, e, i)
<1> DEFINE h == IpHeader(b, mac, dst, proto)
           g == IpHeader(d, mac, dst, proto)
           k == h ++ At(17, <<low>>)
           m == g ++ At(17, <<low>>)
           c == FixedLength(h, low)
           e == FixedLength(g, low)
<1>1. /\ h \in Buffer /\ Get(h, 6, 6) = Mac(Me) /\ Get(h, 23, 1) = <<proto>> /\ Get(h, 16, 1) = << 0 >>
      /\ \A i \in Nat : i < 60 /\ (i < 24 \/ (26 <= i /\ i < 34) \/ Same(b, d, i)) => Same(h, g, i)
  BY HeaderIs
<1>2. g \in Buffer
  BY HeaderIs
<1>3. c = fill_ip_hdr_checksum(k) /\ e = fill_ip_hdr_checksum(m)
  BY DEF FixedLength, P
<1> HIDE DEF h, g, c, e
<1>4. IsBytes(<<low>>, 1)
  BY OneByte
<1>5. k \in Buffer /\ m \in Buffer
  BY <1>1, <1>2, <1>4, BufferWritten
<1>6. /\ Get(k, 6, 6) = Get(h, 6, 6) /\ Get(k, 23, 1) = Get(h, 23, 1)
      /\ Get(k, 16, 1) = << 0 >> /\ Get(k, 17, 1) = <<low>>
  BY <1>1, <1>4, GetKept, GetWritten
<1>7. \A i \in Nat : i < 60 /\ (i < 24 \/ (26 <= i /\ i < 34) \/ Same(b, d, i)) => Same(k, m, i)
  BY <1>1, <1>4, ByteSame
<1> HIDE DEF k, m
<1>8. Get(k, 16, 2) = Two(low)
  <2>1. k[16] = 0 /\ k[17] = low
    BY <1>6, ByteIs
  <2>2. low \div 256 = 0 /\ low % 256 = low
    BY OctetIs
  <2> QED BY <2>1, <2>2 DEF Get, Two
<1>9. Headed(c, proto, low)
  BY <1>1, <1>3, <1>5, <1>6, <1>8, IpFilled DEF Headed
<1>10. e \in Buffer
  BY <1>3, <1>5, IpFilled
<1>11. \A i \in Nat : i < 60 /\ (i < 34 \/ Same(k, m, i)) => Same(c, e, i)
  <2>1. \A i \in Nat : i < 34 /\ i # 24 /\ i # 25 => Same(k, m, i)
    BY <1>7
  <2> QED BY <1>3, <1>5, <2>1, FillSame
<1>12. \A i \in Nat : i < 60 /\ (i < 34 \/ Same(b, d, i)) => Same(c, e, i)
  BY <1>7, <1>11
<1> QED BY <1>9, <1>10, <1>12 DEF c, e, h, g

\* The ports, the length and a clear checksum of a datagram.
Ported(b, dport, sport, length) ==
    b ++ At(36, dport) ++ At(34, sport) ++ At(38, length) ++ At(40, <<0, 0>>)

\* Two buffers that agree up to the data of n bytes, which is to come.
PortsReady(b, d, n) ==
    /\ n \in Nat /\ Headed(b, 17, 28 + n) /\ d \in Buffer
    /\ Get(b, 38, 2) = Two(8 + n) /\ Get(b, 40, 2) = <<0, 0>>
    /\ \A i \in Nat : i < 42 => Same(b, d, i)

\* Two buffers agree once ports, length and checksum field are written.
LEMMA PortsIs ==
    ASSUME NEW b, NEW d, NEW dport, NEW sport, NEW length, NEW total, NEW n,
           Headed(b, 17, total), d \in Buffer,
           \A i \in Nat : i < 34 => Same(b, d, i),
           IsBytes(dport, 2), IsBytes(sport, 2), IsBytes(length, 2),
           n \in Nat, total = 28 + n, length = Two(8 + n)
    PROVE  PortsReady(Ported(b, dport, sport, length), Ported(d, dport, sport, length), n)
<1> DEFINE c == Ported(b, dport, sport, length)
           e == Ported(d, dport, sport, length)
<1>1. IsBytes(<<0, 0>>, 2)
  <2>1. 0 \in Octet
    BY OctetIs
  <2> QED BY <2>1, PairBytes
<1>2. Headed(c, 17, total)
  <2>1. Headed(b ++ At(36, dport) ++ At(34, sport), 17, total)
    BY HeadedKept
  <2> QED BY <1>1, <2>1, HeadedKept DEF Ported
<1>3. e \in Buffer
  <2>1. d ++ At(36, dport) ++ At(34, sport) \in Buffer
    BY BufferWritten
  <2> QED BY <1>1, <2>1, BufferWritten DEF Ported
<1>4. Get(c, 38, 2) = length /\ Get(c, 40, 2) = <<0, 0>>
  BY <1>1, GetWritten, GetKept DEF Ported
<1>5. \A i \in Nat : i < 42 => Same(c, e, i)
  BY <1>1, ByteSame, LenIs DEF Ported
<1> HIDE DEF c, e
<1>6. PortsReady(c, e, n)
  BY <1>2, <1>3, <1>4, <1>5 DEF PortsReady
<1> QED BY <1>6 DEF c, e

\* Data after them: enough for the length, or for what is modelled.
Enough(k, n) == 42 + k >= 60 \/ k >= n

\* A datagram is its own once its data is written.
LEMMA DataIs ==
    ASSUME NEW b, NEW d, NEW x, NEW n, NEW k, NEW size,
           PortsReady(b, d, n), IsBytes(x, k), k \in Nat, Enough(k, n), size = 42 + n
    PROVE  Own(Send(UdpChecked(b ++ At(42, x), n), size), Send(UdpChecked(d ++ At(42, x), n), size))
<1> DEFINE c == b ++ At(42, x)
           e == d ++ At(42, x)
           total == 28 + n
<1>0. /\ n \in Nat /\ Headed(b, 17, total) /\ d \in Buffer
      /\ Get(b, 38, 2) = Two(8 + n) /\ Get(b, 40, 2) = <<0, 0>>
      /\ \A i \in Nat : i < 42 => Same(b, d, i)
  BY DEF PortsReady
<1>1. Headed(c, 17, total)
  BY <1>0, HeadedKept
<1>2. e \in Buffer
  BY <1>0, BufferWritten
<1>3. Get(c, 38, 2) = Two(8 + n) /\ Get(c, 40, 2) = <<0, 0>>
  BY <1>0, GetKept
<1>4. \A i \in Nat : i < 60 /\ i < 42 + n => Same(c, e, i)
  BY <1>0, ByteSame, LenIs DEF Enough
<1> HIDE DEF c, e
<1>5. Own(Send(UdpChecked(c, n), size), Send(UdpChecked(e, n), size))
  BY <1>0, <1>1, <1>2, <1>3, <1>4, UdpOwn
<1> QED BY <1>5 DEF c, e

\* ip_arp_udp_tcp.c:717-762: the request for the time.
LEMMA NtpOwn ==
    ASSUME NEW b, NEW d, NEW h, b \in Buffer, d \in Buffer, h \in Peers, ipid \in Octet, IsBytes(ipaddr, 4)
    PROVE  Own(client_ntp_request(b, h, 7), client_ntp_request(d, h, 7))
<1> DEFINE b1 == FixedLength(IpHeader(b, Mac(h), Ip(h), 17), 76)
           d1 == FixedLength(IpHeader(d, Mac(h), Ip(h), 17), 76)
           length == Two(56)
           n == 48
           total == 76
           b2 == Ported(b1, Two(123), <<10, 7>>, length)
           d2 == Ported(d1, Two(123), <<10, 7>>, length)
           x == <<227, 0, 4, 250, 0, 1, 0, 0, 0, 1>> \o Zeros(38)
<1>1. /\ client_ntp_request(b, h, 7) = Send(UdpChecked(b2 ++ At(42, x), 48), 90)
      /\ client_ntp_request(d, h, 7) = Send(UdpChecked(d2 ++ At(42, x), 48), 90)
  BY DEF client_ntp_request, Ported, P, UDP_V
<1>2. IsBytes(x, 48)
  <2>1. IsBytes(<<227, 0, 4, 250, 0, 1, 0, 0, 0, 1>>, 10)
    BY OctetIs DEF IsBytes
  <2>2. IsBytes(x, 10 + 38)
    BY <2>1, ZerosBytes, JoinBytes
  <2> QED BY <2>2
<1> HIDE DEF x
<1>3. /\ 17 \in Octet /\ 76 \in Octet /\ IsBytes(Two(123), 2) /\ IsBytes(<<10, 7>>, 2)
      /\ IsBytes(Two(56), 2)
  <2>1. 17 \in Octet /\ 76 \in Octet /\ 10 \in Octet /\ 7 \in Octet /\ IsWord(123) /\ IsWord(56)
    BY OctetIs DEF IsWord
  <2> QED BY <2>1, PairBytes, TwoBytes
<1>4. Headed(b1, 17, 76) /\ d1 \in Buffer /\ \A i \in Nat : i < 34 => Same(b1, d1, i)
  BY <1>3, PeerIs, FixedIs
<1> HIDE DEF b1, d1
<1>5. PortsReady(b2, d2, 48)
  <2>1. n \in Nat /\ total = 28 + n /\ length = Two(8 + n)
    OBVIOUS
  <2>2. Headed(b1, 17, total) /\ IsBytes(Two(123), 2) /\ IsBytes(<<10, 7>>, 2) /\ IsBytes(length, 2)
    BY <1>3, <1>4
  <2> HIDE DEF n, total, length
  <2>3. PortsReady(b2, d2, n)
    BY <1>4, <2>1, <2>2, PortsIs
  <2> QED BY <2>3 DEF n
<1> HIDE DEF b2, d2
<1>6. 90 = 42 + 48 /\ Enough(48, 48)
  BY DEF Enough
<1>7. Own(Send(UdpChecked(b2 ++ At(42, x), 48), 90), Send(UdpChecked(d2 ++ At(42, x), 48), 90))
  BY <1>2, <1>5, <1>6, DataIs
<1> QED BY <1>1, <1>7

\* ip_arp_udp_tcp.c:873-933: the wake-up frame.
LEMMA WolOwn ==
    ASSUME NEW b, NEW d, NEW h, b \in Buffer, d \in Buffer, h \in Peers, ipid \in Octet, IsBytes(ipaddr, 4)
    PROVE  Own(send_wol(b, h), send_wol(d, h))
<1> DEFINE b1 == FixedLength(IpHeader(b, AllFf(6), AllFf(4), 17), 130)
           d1 == FixedLength(IpHeader(d, AllFf(6), AllFf(4), 17), 130)
           length == Two(110)
           n == 102
           total == 130
           size == 144
           b2 == Ported(b1, Two(9), <<10, 66>>, length)
           d2 == Ported(d1, Two(9), <<10, 66>>, length)
           x == AllFf(6) \o Mac(h) \o Mac(h)
<1>1. /\ send_wol(b, h) = Send(UdpChecked(b2 ++ At(42, x), 102), 144)
      /\ send_wol(d, h) = Send(UdpChecked(d2 ++ At(42, x), 102), 144)
  BY DEF send_wol, Ported, P, UDP_V
<1>2. IsBytes(x, 18)
  <2>1. IsBytes(AllFf(6), 6) /\ IsBytes(Mac(h), 6)
    BY ZerosBytes, PeerIs
  <2>2. IsBytes(AllFf(6) \o Mac(h), 6 + 6)
    BY <2>1, JoinBytes
  <2>3. IsBytes(x, 6 + 6 + 6)
    BY <2>1, <2>2, JoinBytes
  <2> QED BY <2>3
<1> HIDE DEF x
<1>3. /\ 17 \in Octet /\ 130 \in Octet /\ IsBytes(Two(9), 2) /\ IsBytes(<<10, 66>>, 2)
      /\ IsBytes(Two(110), 2) /\ IsBytes(AllFf(6), 6) /\ IsBytes(AllFf(4), 4)
  <2>1. 17 \in Octet /\ 130 \in Octet /\ 10 \in Octet /\ 66 \in Octet /\ IsWord(9) /\ IsWord(110)
    BY OctetIs DEF IsWord
  <2> QED BY <2>1, PairBytes, TwoBytes, ZerosBytes
<1>4. Headed(b1, 17, 130) /\ d1 \in Buffer /\ \A i \in Nat : i < 34 => Same(b1, d1, i)
  BY <1>3, FixedIs
<1> HIDE DEF b1, d1
<1>5. PortsReady(b2, d2, 102)
  <2>1. n \in Nat /\ total = 28 + n /\ length = Two(8 + n)
    OBVIOUS
  <2>2. Headed(b1, 17, total) /\ IsBytes(Two(9), 2) /\ IsBytes(<<10, 66>>, 2) /\ IsBytes(length, 2)
    BY <1>3, <1>4
  <2> HIDE DEF n, total, length
  <2>3. PortsReady(b2, d2, n)
    BY <1>4, <2>1, <2>2, PortsIs
  <2> QED BY <2>3 DEF n
<1> HIDE DEF b2, d2
<1>6. size = 42 + n /\ 18 \in Nat /\ Enough(18, n) /\ PortsReady(b2, d2, n)
  BY <1>5 DEF Enough
<1>7. Own(Send(UdpChecked(b2 ++ At(42, x), n), size), Send(UdpChecked(d2 ++ At(42, x), n), size))
  <2> HIDE DEF n, size
  <2> QED BY <1>2, <1>6, DataIs
<1> QED BY <1>1, <1>7

\* ip_arp_udp_tcp.c:1040-1104: the first segment of a connection.
LEMMA SynOwn ==
    ASSUME NEW b, NEW d, NEW h, b \in Buffer, d \in Buffer, h \in Peers, ipid \in Octet, seqnum \in Octet,
           IsBytes(ipaddr, 4)
    PROVE  Own(tcp_client_syn(b, h, 33, 80), tcp_client_syn(d, h, 33, 80))
<1> DEFINE b1 == FixedLength(IpHeader(b, Mac(h), Ip(h), 6), 44)
           d1 == FixedLength(IpHeader(d, Mac(h), Ip(h), 6), 44)
           x == <<0, 0, seqnum, 0>> \o Zeros(4)
           y == <<96, 2, 3, 0, 0, 0, 0, 0>>
           z == <<2, 4>> \o Two(750)
           First(c) == c ++ At(36, Two(80)) ++ At(34, <<11, 33>>) ++ At(38, x)
           Second(c) == c ++ At(46, y) ++ At(54, z)
           b2 == First(b1)
           d2 == First(d1)
           b3 == Second(b2)
           d3 == Second(d2)
<1>1. /\ tcp_client_syn(b, h, 33, 80) = Send(TcpChecked(b3, 24), 58)
      /\ tcp_client_syn(d, h, 33, 80) = Send(TcpChecked(d3, 24), 58)
  BY DEF tcp_client_syn, P, TCP_V, SYN
<1>2. /\ 6 \in Octet /\ 44 \in Octet /\ IsBytes(Two(80), 2) /\ IsBytes(<<11, 33>>, 2) /\ IsBytes(x, 8)
      /\ IsBytes(y, 8) /\ IsBytes(z, 4)
  <2>1. /\ 6 \in Octet /\ 44 \in Octet /\ 11 \in Octet /\ 33 \in Octet /\ 0 \in Octet /\ 2 \in Octet
        /\ 4 \in Octet /\ 96 \in Octet /\ 3 \in Octet /\ IsWord(80) /\ IsWord(750)
    BY OctetIs DEF IsWord
  <2>2. IsBytes(y, 8)
    BY <2>1 DEF IsBytes
  <2>3. IsBytes(<<0, 0, seqnum, 0>>, 4) /\ IsBytes(Zeros(4), 4)
    BY <2>1, FourBytes, ZerosBytes
  <2>4. IsBytes(x, 4 + 4)
    BY <2>3, JoinBytes
  <2>5. IsBytes(<<2, 4>>, 2) /\ IsBytes(Two(750), 2) /\ IsBytes(Two(80), 2) /\ IsBytes(<<11, 33>>, 2)
    BY <2>1, PairBytes, TwoBytes
  <2>6. IsBytes(z, 2 + 2)
    BY <2>5, JoinBytes
  <2> QED BY <2>1, <2>2, <2>4, <2>5, <2>6
<1>3. Get(y, 5, 2) = <<0, 0>>
  BY DEF Get
<1> HIDE DEF x, y, z
<1>4. Headed(b1, 6, 44) /\ d1 \in Buffer /\ \A i \in Nat : i < 34 => Same(b1, d1, i)
  BY <1>2, PeerIs, FixedIs
<1> HIDE DEF b1, d1
<1>5. Headed(b2, 6, 44)
  BY <1>2, <1>4, HeadedKept
<1>6. d2 \in Buffer
  <2>1. d1 ++ At(36, Two(80)) \in Buffer
    BY <1>2, <1>4, BufferWritten
  <2>2. d1 ++ At(36, Two(80)) ++ At(34, <<11, 33>>) \in Buffer
    BY <1>2, <2>1, BufferWritten
  <2> QED BY <1>2, <2>2, BufferWritten
<1>7. \A i \in Nat : i < 46 => Same(b2, d2, i)
  BY <1>2, <1>4, ByteSame, LenIs, SMTT(60)
<1> HIDE DEF b2, d2
<1>8. Headed(b3, 6, 44)
  BY <1>2, <1>5, HeadedKept
<1>9. d3 \in Buffer
  BY <1>2, <1>6, BufferWritten
<1>10. \A i \in Nat : i < 58 => Same(b3, d3, i)
  BY <1>2, <1>7, ByteSame, LenIs
<1>11. Get(b3, 50, 2) = <<0, 0>>
  <2> DEFINE k == b2 ++ At(46, y)
  <2>1. Get(k, 50, 2) = Get(y, 50 - 46 + 1, 2)
    BY <1>2, GetInside
  <2> HIDE DEF k
  <2>2. Get(k ++ At(54, z), 50, 2) = Get(k, 50, 2)
    BY <1>2, GetKept
  <2> QED BY <1>3, <2>1, <2>2 DEF k
<1> HIDE DEF b3, d3
<1>12. Own(Send(TcpChecked(b3, 24), 58), Send(TcpChecked(d3, 24), 58))
  <2> DEFINE len == 24
             total == 44
             size == 58
  <2>1. /\ len \in Nat /\ 20 <= len /\ total = 20 + len /\ size = 34 + len /\ Headed(b3, 6, total)
        /\ \A i \in Nat : i < 60 /\ i < 34 + len => Same(b3, d3, i)
    BY <1>8, <1>10
  <2> HIDE DEF len, total, size
  <2>2. Own(Send(TcpChecked(b3, len), size), Send(TcpChecked(d3, len), size))
    BY <1>9, <1>11, <2>1, TcpOwn
  <2> QED BY <2>2 DEF len, size
<1> QED BY <1>1, <1>12

\* ip_arp_udp_tcp.c:664-712: a ping of the board's own.
LEMMA PingOwn ==
    ASSUME NEW b, NEW d, NEW h, b \in Buffer, d \in Buffer, h \in Peers, ipid \in Octet, IsBytes(ipaddr, 4)
    PROVE  Own(client_icmp_request(b, h), client_icmp_request(d, h))
<1> DEFINE b1 == FixedLength(IpHeader(b, Mac(h), Ip(h), 1), 84)
           d1 == FixedLength(IpHeader(d, Mac(h), Ip(h), 1), 84)
           x == <<5, ipaddr[4], 0, 1>>
           y == [i \in 1..56 |-> 66]
           b2 == b1 ++ At(34, <<8, 0, 0, 0>>) ++ At(38, x) ++ At(42, y)
           d2 == d1 ++ At(34, <<8, 0, 0, 0>>) ++ At(38, x) ++ At(42, y)
           cksum == Two(Checksum(b2, 34, 64, 0))
           t == b2 ++ At(36, cksum)
           u == d2 ++ At(36, Two(Checksum(d2, 34, 64, 0)))
           g == Frame(t, 98)
<1>1. client_icmp_request(b, h) = Send(t, 98) /\ client_icmp_request(d, h) = Send(u, 98)
  BY DEF client_icmp_request, P, ICMP_V
<1>2. /\ 1 \in Octet /\ 84 \in Octet /\ IsBytes(<<8, 0, 0, 0>>, 4) /\ IsBytes(x, 4) /\ IsBytes(y, 56)
  <2>1. 1 \in Octet /\ 84 \in Octet /\ 8 \in Octet /\ 0 \in Octet /\ 5 \in Octet /\ 66 \in Octet
    BY OctetIs
  <2>2. ipaddr[4] \in Octet
    BY DEF IsBytes
  <2>3. IsBytes(y, 56)
    BY <2>1 DEF IsBytes
  <2> QED BY <2>1, <2>2, <2>3, FourBytes
<1> HIDE DEF x, y
<1>3. Headed(b1, 1, 84) /\ d1 \in Buffer /\ \A i \in Nat : i < 34 => Same(b1, d1, i)
  BY <1>2, PeerIs, FixedIs
<1> HIDE DEF b1, d1
<1>4. Headed(b2, 1, 84)
  BY <1>2, <1>3, HeadedKept
<1>5. d2 \in Buffer
  BY <1>2, <1>3, BufferWritten
<1>6. \A i \in Nat : i < 60 => Same(b2, d2, i)
  BY <1>2, <1>3, ByteSame, LenIs
<1>7. Get(b2, 34, 1) = << 8 >> /\ Get(b2, 36, 2) = <<0, 0>>
  <2> DEFINE k == b1 ++ At(34, <<8, 0, 0, 0>>)
  <2>1. Get(k, 34, 4) = <<8, 0, 0, 0>>
    BY <1>2, GetWritten
  <2>2. k[34] = 8 /\ k[36] = 0 /\ k[37] = 0
    <3> HIDE DEF k
    <3> QED BY <2>1 DEF Get
  <2>3. Get(k, 34, 1) = << 8 >> /\ Get(k, 36, 2) = <<0, 0>>
    BY <2>2 DEF Get
  <2> HIDE DEF k
  <2>4. Get(k ++ At(38, x) ++ At(42, y), 34, 1) = Get(k, 34, 1)
    BY <1>2, GetKept
  <2>5. Get(k ++ At(38, x) ++ At(42, y), 36, 2) = Get(k, 36, 2)
    BY <1>2, GetKept
  <2> QED BY <2>3, <2>4, <2>5 DEF k
<1> HIDE DEF b2, d2
<1>8. b2 \in Buffer
  BY <1>4 DEF Headed
<1>9. IsBytes(cksum, 2) /\ u = d2 ++ At(36, cksum)
  <2>1. Checksum(b2, 34, 64, 0) = Checksum(d2, 34, 64, 0)
    <3>1. \A i \in Nat : i < 60 /\ 34 <= i /\ i < 34 + 64 => Same(b2, d2, i)
      BY <1>6
    <3> QED BY <1>5, <1>8, <3>1, SumSameOver
  <2>2. IsBytes(cksum, 2)
    BY <1>8, ChecksumTyped
  <2> QED BY <2>1, <2>2
<1>10. Checksum(t, 34, 64, 0) = 0
  <2>1. (36 - 34) % 2 = 0 /\ 36 + 2 <= 34 + 64
    OBVIOUS
  <2> QED BY <1>7, <1>8, <2>1, ChecksumCompletes
<1> HIDE DEF cksum, u
<1>11. Headed(t, 1, 84)
  BY <1>4, <1>9, HeadedKept
<1>12. Get(t, 34, 1) = << 8 >>
  BY <1>7, <1>9, GetKept
<1>13. t \in Buffer /\ u \in Buffer
  BY <1>5, <1>8, <1>9, BufferWritten
<1>14. \A i \in Nat : i < 60 /\ i < 98 => Same(t, u, i)
  BY <1>6, <1>9, ByteSame
<1> HIDE DEF t
<1>15. Frame(t, 98) = Frame(u, 98)
  BY <1>13, <1>14, FrameSame
<1>16. IpReady(t, 84, 1)
  BY <1>11 DEF Headed, IpReady
<1>17. \A q : SoundFrame(g, q)
  <2>1. Checksum(t, 34, 84 - 20, 0) = 0 /\ 84 + 14 = 98
    BY <1>10
  <2>2. \A q : SoundFrame(Frame(t, 84 + 14), q)
    BY <1>12, <1>16, <2>1, SoundPing
  <2> QED BY <2>1, <2>2
<1> DEFINE r1 == Send(t, 98)
           r2 == Send(u, 98)
<1>18. r1.buf = t /\ r1.sent = <<g>> /\ r2.sent = <<g>>
  BY <1>15 DEF Send
<1> HIDE DEF g, r1, r2
<1>19. Own(r1, r2)
  BY <1>13, <1>17, <1>18 DEF Own
<1> QED BY <1>1, <1>19 DEF r1, r2

\* Two buffers with the header of a datagram but for its lengths and its
\* checksum; they agree on the bytes before m.
Prepared(b, d, m) ==
    /\ b \in Buffer /\ d \in Buffer /\ Get(b, 6, 6) = Mac(Me) /\ Get(b, 23, 1) = << 17 >>
    /\ Get(b, 40, 2) = <<0, 0>>
    /\ \A i \in Nat : i < 60 /\ i < m /\ i # 24 /\ i # 25 /\ i # 39 => Same(b, d, i)

\* They are after send_udp_prepare.
LEMMA PreparedIs ==
    ASSUME NEW b, NEW d, NEW sport, NEW dip, NEW dport, NEW mac, b \in Buffer, d \in Buffer,
           IsBytes(mac, 6), IsBytes(dip, 4), IsWord(sport), IsWord(dport),
           ipid \in Octet, IsBytes(ipaddr, 4)
    PROVE  Prepared(send_udp_prepare(b, sport, dip, dport, mac), send_udp_prepare(d, sport, dip, dport, mac), 42)
<1> DEFINE h == IpHeader(b, mac, dip, 17)
           g == IpHeader(d, mac, dip, 17)
           s == Two(sport)
           p == Two(dport)
           First(x) == x ++ At(16, << 0 >>) ++ At(36, p) ++ At(34, s)
           Second(x) == x ++ At(38, << 0 >>) ++ At(40, <<0, 0>>)
           h1 == First(h)
           g1 == First(g)
           h2 == Second(h1)
           g2 == Second(g1)
<1>1. send_udp_prepare(b, sport, dip, dport, mac) = h2 /\ send_udp_prepare(d, sport, dip, dport, mac) = g2
  BY DEF send_udp_prepare, P, UDP_V
<1>2. 17 \in Octet /\ IsBytes(<< 0 >>, 1) /\ IsBytes(<<0, 0>>, 2) /\ IsBytes(s, 2) /\ IsBytes(p, 2)
  <2>1. 17 \in Octet /\ 0 \in Octet
    BY OctetIs
  <2> QED BY <2>1, OneByte, PairBytes, TwoBytes
<1> HIDE DEF s, p
<1>3. /\ h \in Buffer /\ Get(h, 6, 6) = Mac(Me) /\ Get(h, 23, 1) = << 17 >>
      /\ \A i \in Nat : i < 60 /\ (i < 24 \/ (26 <= i /\ i < 34) \/ Same(b, d, i)) => Same(h, g, i)
  BY <1>2, HeaderIs
<1>4. g \in Buffer
  BY <1>2, HeaderIs
<1> HIDE DEF h, g
<1>5. h1 \in Buffer /\ g1 \in Buffer
  BY <1>2, <1>3, <1>4, BufferWritten
<1>6. Get(h1, 6, 6) = Mac(Me) /\ Get(h1, 23, 1) = << 17 >>
  BY <1>2, <1>3, GetKept
<1>7. \A i \in Nat : i < 38 /\ i # 24 /\ i # 25 => Same(h1, g1, i)
  <2>1. \A i \in Nat : i < 34 /\ i # 24 /\ i # 25 => Same(h, g, i)
    BY <1>3
  <2> QED BY <1>2, <2>1, ByteSame, LenIs, SMTT(60)
<1> HIDE DEF h1, g1
<1>8. h2 \in Buffer /\ g2 \in Buffer
  BY <1>2, <1>5, BufferWritten
<1>9. Get(h2, 6, 6) = Mac(Me) /\ Get(h2, 23, 1) = << 17 >> /\ Get(h2, 40, 2) = <<0, 0>>
  BY <1>2, <1>6, GetKept, GetWritten
<1>10. \A i \in Nat : i < 60 /\ i < 42 /\ i # 24 /\ i # 25 /\ i # 39 => Same(h2, g2, i)
  BY <1>2, <1>7, ByteSame, LenIs
<1> HIDE DEF h2, g2
<1>11. Prepared(h2, g2, 42)
  BY <1>8, <1>9, <1>10 DEF Prepared
<1> QED BY <1>1, <1>11

\* Data and the sender's address are written into both.
LEMMA PreparedKept ==
    ASSUME NEW b, NEW d, NEW m, NEW pos, NEW x, NEW n, Prepared(b, d, m), pos \in Nat, n \in Nat,
           IsBytes(x, n), 42 <= pos \/ (pos = 26 /\ n = 4)
    PROVE  Prepared(b ++ At(pos, x), d ++ At(pos, x), m)
<1> DEFINE c == b ++ At(pos, x)
           e == d ++ At(pos, x)
<1>1. c \in Buffer /\ e \in Buffer
  BY BufferWritten DEF Prepared
<1>2. Get(c, 6, 6) = Mac(Me) /\ Get(c, 23, 1) = << 17 >> /\ Get(c, 40, 2) = <<0, 0>>
  BY GetKept DEF Prepared
<1>3. \A i \in Nat : i < 60 /\ i < m /\ i # 24 /\ i # 25 /\ i # 39 => Same(c, e, i)
  BY ByteSame DEF Prepared
<1> HIDE DEF c, e
<1>4. Prepared(c, e, m)
  BY <1>1, <1>2, <1>3 DEF Prepared
<1> QED BY <1>4 DEF c, e

\* Data brings two buffers to agree up to its end.
LEMMA PreparedData ==
    ASSUME NEW b, NEW d, NEW m, NEW x, NEW k, NEW n, Prepared(b, d, 42), k \in Nat, n \in Nat,
           IsBytes(x, k), Enough(k, n), m = 42 + n
    PROVE  Prepared(b ++ At(42, x), d ++ At(42, x), m)
<1> DEFINE c == b ++ At(42, x)
           e == d ++ At(42, x)
<1>1. c \in Buffer /\ e \in Buffer
  BY BufferWritten DEF Prepared
<1>2. Get(c, 6, 6) = Mac(Me) /\ Get(c, 23, 1) = << 17 >> /\ Get(c, 40, 2) = <<0, 0>>
  BY GetKept DEF Prepared
<1>3. \A i \in Nat : i < 60 /\ i < m /\ i # 24 /\ i # 25 /\ i # 39 => Same(c, e, i)
  BY ByteSame, LenIs DEF Prepared, Enough
<1> HIDE DEF c, e
<1>4. Prepared(c, e, m)
  BY <1>1, <1>2, <1>3 DEF Prepared
<1> QED BY <1>4 DEF c, e

\* send_udp_transmit writes the rest.
LEMMA TransmittedIs ==
    ASSUME NEW b, NEW d, NEW n, NEW m, Prepared(b, d, m), n \in Nat, IsWord(28 + n), m = 42 + n
    PROVE  Own(send_udp_transmit(b, n), send_udp_transmit(d, n))
<1> DEFINE t == Two(28 + n)
           l == Two(8 + n)
           total == 28 + n
           b1 == b ++ At(16, t)
           d1 == d ++ At(16, t)
           b2 == fill_ip_hdr_checksum(b1)
           d2 == fill_ip_hdr_checksum(d1)
           b3 == b2 ++ At(38, l)
           d3 == d2 ++ At(38, l)
<1>1. /\ send_udp_transmit(b, n) = Send(UdpChecked(b3, n), 42 + n)
      /\ send_udp_transmit(d, n) = Send(UdpChecked(d3, n), 42 + n)
  BY DEF send_udp_transmit, P
<1>2. IsBytes(t, 2) /\ IsBytes(l, 2)
  <2>1. IsWord(8 + n)
    BY DEF IsWord
  <2> QED BY <2>1, TwoBytes
<1>3. b1 \in Buffer /\ d1 \in Buffer
  BY <1>2, BufferWritten DEF Prepared
<1>4. /\ Get(b1, 6, 6) = Mac(Me) /\ Get(b1, 16, 2) = t /\ Get(b1, 23, 1) = << 17 >>
      /\ Get(b1, 40, 2) = <<0, 0>>
  BY <1>2, GetKept, GetWritten DEF Prepared
<1>5. \A i \in Nat : i < 60 /\ i < m /\ i # 24 /\ i # 25 /\ i # 39 => Same(b1, d1, i)
  BY <1>2, ByteSame DEF Prepared
<1> HIDE DEF b1, d1, l
<1>6. b2 \in Buffer /\ d2 \in Buffer /\ Checksum(b2, 14, 20, 0) = 0
  BY <1>3, IpFilled
<1>7. /\ Get(b2, 6, 6) = Mac(Me) /\ Get(b2, 16, 2) = t /\ Get(b2, 23, 1) = << 17 >>
      /\ Get(b2, 40, 2) = <<0, 0>>
  BY <1>3, <1>4, IpFilled
<1>8. \A i \in Nat : i < 60 /\ i < m /\ i # 39 => Same(b2, d2, i)
  <2>1. \A i \in Nat : i < 34 /\ i # 24 /\ i # 25 => Same(b1, d1, i)
    BY <1>5
  <2>2. \A i \in Nat : i < 60 /\ (i < 34 \/ Same(b1, d1, i)) => Same(b2, d2, i)
    BY <1>3, <2>1, FillSame
  <2> QED BY <1>5, <2>2
<1> HIDE DEF b2, d2
<1>9. Headed(b2, 17, total)
  BY <1>6, <1>7 DEF Headed
<1> HIDE DEF t
<1>10. Headed(b3, 17, total)
  BY <1>2, <1>9, HeadedKept
<1>11. d3 \in Buffer
  BY <1>2, <1>6, BufferWritten
<1>12. Get(b3, 38, 2) = l /\ Get(b3, 40, 2) = <<0, 0>>
  BY <1>2, <1>7, GetKept, GetWritten
<1>13. \A i \in Nat : i < 60 /\ i < 42 + n => Same(b3, d3, i)
  BY <1>2, <1>8, ByteSame, LenIs
<1> HIDE DEF b3, d3, total
<1>14. Own(Send(UdpChecked(b3, n), m), Send(UdpChecked(d3, n), m))
  <2>1. total = 28 + n
    BY DEF total
  <2>2. Get(b3, 38, 2) = Two(8 + n)
    BY <1>12 DEF l
  <2> QED BY <1>10, <1>11, <1>12, <1>13, <2>1, <2>2, UdpOwn
<1> QED BY <1>1, <1>14

\* ip_arp_udp_tcp.c:792-869: a datagram of an application.
LEMMA UdpSendOwn ==
    ASSUME NEW b, NEW d, NEW h, NEW len, b \in Buffer, d \in Buffer, h \in Peers, len \in Nat,
           ipid \in Octet, IsBytes(ipaddr, 4)
    PROVE  Own(send_udp(b, h, len), send_udp(d, h, len))
<1> DEFINE n == IF len % 256 > 220 THEN 220 ELSE len % 256
           p == send_udp_prepare(b, 10, Ip(h), 9, Mac(h))
           q == send_udp_prepare(d, 10, Ip(h), 9, Mac(h))
           x == AllFf(n)
           m == 42 + n
<1>1. /\ send_udp(b, h, len) = send_udp_transmit(p ++ At(42, x), n)
      /\ send_udp(d, h, len) = send_udp_transmit(q ++ At(42, x), n)
  BY DEF send_udp, P
<1>2. n \in Nat /\ n <= 220
  OBVIOUS
<1> HIDE DEF n
<1>3. IsBytes(x, n) /\ Enough(n, n) /\ IsWord(28 + n)
  BY <1>2, ZerosBytes DEF Enough, IsWord
<1> HIDE DEF x
<1>4. Prepared(p, q, 42)
  <2>1. IsWord(10) /\ IsWord(9)
    BY DEF IsWord
  <2> QED BY <2>1, PeerIs, PreparedIs
<1> HIDE DEF p, q
<1>5. Prepared(p ++ At(42, x), q ++ At(42, x), m)
  BY <1>2, <1>3, <1>4, PreparedData
<1> QED BY <1>1, <1>2, <1>3, <1>5, TransmittedIs

\* dhcp_client.c: the message both DHCP requests are made from.
LEMMA TemplateOwn ==
    ASSUME NEW b, NEW d, b \in Buffer, d \in Buffer, ipid \in Octet, IsBytes(ipaddr, 4)
    PROVE  /\ Prepared(make_dhcp_message_template(b, 7), make_dhcp_message_template(d, 7), 42 + 248)
           /\ Prepared(make_dhcp_message_template(b, 7), make_dhcp_message_template(d, 7), 42 + 243)
<1> DEFINE p == send_udp_prepare(b, 68, AllFf(4), 67, AllFf(6))
           q == send_udp_prepare(d, 68, AllFf(4), 67, AllFf(6))
           x == <<1, 1, 6, 0, 1, 7, 7, 7>> \o Zeros(228)
           z == Zeros(4)
<1>1. /\ make_dhcp_message_template(b, 7) = p ++ At(42, x) ++ At(26, z)
      /\ make_dhcp_message_template(d, 7) = q ++ At(42, x) ++ At(26, z)
  BY DEF make_dhcp_message_template, P
<1>2. IsBytes(x, 236) /\ IsBytes(z, 4)
  <2>1. IsBytes(<<1, 1, 6, 0, 1, 7, 7, 7>>, 8)
    BY OctetIs DEF IsBytes
  <2>2. IsBytes(x, 8 + 228)
    BY <2>1, ZerosBytes, JoinBytes
  <2> QED BY <2>2, ZerosBytes
<1> HIDE DEF x, z
<1>3. Prepared(p, q, 42)
  <2>1. IsWord(68) /\ IsWord(67)
    BY DEF IsWord
  <2> QED BY <2>1, ZerosBytes, PreparedIs
<1> HIDE DEF p, q
<1>4. ASSUME NEW m, NEW n, n \in Nat, m = 42 + n
      PROVE  Prepared(p ++ At(42, x) ++ At(26, z), q ++ At(42, x) ++ At(26, z), m)
  <2>1. 236 \in Nat /\ Enough(236, n)
    BY DEF Enough
  <2>2. Prepared(p ++ At(42, x), q ++ At(42, x), m)
    BY <1>2, <1>3, <1>4, <2>1, PreparedData
  <2> QED BY <1>2, <2>2, PreparedKept
<1> QED BY <1>1, <1>4, ZenonT(60)

\* The search for a server.
LEMMA DiscoverOwn ==
    ASSUME NEW b, NEW d, b \in Buffer, d \in Buffer, ipid \in Octet, IsBytes(ipaddr, 4)
    PROVE  Own(send_dhcp_discover(b, 7), send_dhcp_discover(d, 7))
<1> DEFINE p == make_dhcp_message_template(b, 7)
           q == make_dhcp_message_template(d, 7)
           n == 248
           m == 42 + 248
<1>1. send_dhcp_discover(b, 7) = send_udp_transmit(p, n) /\ send_dhcp_discover(d, 7) = send_udp_transmit(q, n)
  BY DEF send_dhcp_discover
<1>2. Prepared(p, q, m)
  BY TemplateOwn
<1>3. n \in Nat /\ IsWord(28 + n) /\ m = 42 + n
  BY DEF IsWord
<1> HIDE DEF p, q, n, m
<1> QED BY <1>1, <1>2, <1>3, TransmittedIs

\* The renewal of a lease.
LEMMA RenewOwn ==
    ASSUME NEW b, NEW d, b \in Buffer, d \in Buffer, ipid \in Octet, IsBytes(ipaddr, 4)
    PROVE  Own(send_dhcp_renew_request(b, 7), send_dhcp_renew_request(d, 7))
<1> DEFINE p == make_dhcp_message_template(b, 7)
           q == make_dhcp_message_template(d, 7)
           n == 243
           m == 42 + 243
           p1 == p ++ At(54, ipaddr)
           q1 == q ++ At(54, ipaddr)
           p2 == p1 ++ At(26, ipaddr)
           q2 == q1 ++ At(26, ipaddr)
           p3 == p2 ++ At(46, << 2 >>)
           q3 == q2 ++ At(46, << 2 >>)
<1>1. /\ send_dhcp_renew_request(b, 7) = send_udp_transmit(p3, n)
      /\ send_dhcp_renew_request(d, 7) = send_udp_transmit(q3, n)
  BY DEF send_dhcp_renew_request, P
<1>2. Prepared(p, q, m)
  BY TemplateOwn
<1>3. n \in Nat /\ IsWord(28 + n) /\ m = 42 + n
  BY DEF IsWord
<1> HIDE DEF p, q, n, m
<1>4. IsBytes(<< 2 >>, 1)
  BY OctetIs, OneByte
<1>5. Prepared(p1, q1, m)
  BY <1>2, PreparedKept
<1> HIDE DEF p1, q1
<1>6. Prepared(p2, q2, m)
  BY <1>5, PreparedKept
<1> HIDE DEF p2, q2
<1>7. Prepared(p3, q3, m)
  BY <1>4, <1>6, PreparedKept
<1> HIDE DEF p3, q3
<1> QED BY <1>1, <1>3, <1>7, TransmittedIs

\* ip_arp_udp_tcp.c:941-1010: an ARP request or announcement.
LEMMA ArpOwn ==
    ASSUME NEW b, NEW d, NEW ip, NEW mac, b \in Buffer, d \in Buffer, IsBytes(ip, 4), IsBytes(mac, 6),
           IsBytes(ipaddr, 4)
    PROVE  Own(ArpFrame(b, ip, mac), ArpFrame(d, ip, mac))
<1> DEFINE y == AllFf(6)
           First(x) == x ++ At(0, y) ++ At(6, Mac(Me)) ++ At(12, ETHTYPE_ARP)
           Second(x) == x ++ At(14, arpreqhdr) ++ At(22, Mac(Me)) ++ At(32, mac)
           Third(x) == x ++ At(38, ip) ++ At(28, ipaddr)
           b1 == First(b)
           d1 == First(d)
           b2 == Second(b1)
           d2 == Second(d1)
           b3 == Third(b2)
           d3 == Third(d2)
<1>1. ArpFrame(b, ip, mac) = Send(b3, 42) /\ ArpFrame(d, ip, mac) = Send(d3, 42)
  BY DEF ArpFrame, P
<1>2. IsBytes(Mac(Me), 6) /\ IsBytes(ETHTYPE_ARP, 2) /\ IsBytes(arpreqhdr, 8) /\ IsBytes(y, 6)
  <2>1. IsBytes(arpreqhdr, 8)
    BY OctetIs DEF arpreqhdr, IsBytes
  <2> QED BY <2>1, TypeBytes, MacBytes, ZerosBytes DEF Me
<1> HIDE DEF y
<1>3. b1 \in Buffer /\ d1 \in Buffer
  BY <1>2, BufferWritten
<1>4. Get(b1, 6, 6) = Mac(Me) /\ Get(b1, 12, 2) = ETHTYPE_ARP
  BY <1>2, GetWritten, GetKept
<1>5. \A i \in Nat : i < 14 => Same(b1, d1, i)
  <2>1. \A i \in Nat : i < 6 => Same(b ++ At(0, y), d ++ At(0, y), i)
    BY <1>2, ByteSame, LenIs, SMTT(60)
  <2>2. \A i \in Nat : i < 12 => Same(b ++ At(0, y) ++ At(6, Mac(Me)), d ++ At(0, y) ++ At(6, Mac(Me)), i)
    BY <1>2, <2>1, ByteSame, LenIs
  <2> QED BY <1>2, <2>2, ByteSame, LenIs
<1> HIDE DEF b1, d1
<1>6. b2 \in Buffer /\ d2 \in Buffer
  BY <1>2, <1>3, BufferWritten
<1>7. Get(b2, 6, 6) = Mac(Me) /\ Get(b2, 12, 2) = ETHTYPE_ARP
  BY <1>2, <1>4, GetKept
<1>8. \A i \in Nat : i < 38 /\ (i < 28 \/ 32 <= i) => Same(b2, d2, i)
  <2>1. \A i \in Nat : i < 28 =>
          Same(b1 ++ At(14, arpreqhdr) ++ At(22, Mac(Me)), d1 ++ At(14, arpreqhdr) ++ At(22, Mac(Me)), i)
    BY <1>2, <1>5, ByteSame, LenIs
  <2> QED BY <2>1, ByteSame, LenIs
<1> HIDE DEF b2, d2
<1>9. b3 \in Buffer /\ d3 \in Buffer
  BY <1>6, BufferWritten
<1>10. Get(b3, 6, 6) = Mac(Me) /\ Get(b3, 12, 2) = ETHTYPE_ARP
  BY <1>7, GetKept
<1>11. \A i \in Nat : i < 60 /\ i < 42 => Same(b3, d3, i)
  <2>1. \A i \in Nat : i < 42 /\ (i < 28 \/ 32 <= i) => Same(b2 ++ At(38, ip), d2 ++ At(38, ip), i)
    BY <1>8, ByteSame, LenIs
  <2> QED BY <2>1, ByteSame, LenIs
<1> HIDE DEF b3, d3
<1>12. Frame(b3, 42) = Frame(d3, 42)
  BY <1>9, <1>11, FrameSame
<1>13. \A q : SoundFrame(Frame(b3, 42), q)
  <2>1. 42 \in Nat /\ 14 <= 42
    OBVIOUS
  <2> QED BY <1>9, <1>10, <2>1, SoundArp
<1> DEFINE g == Frame(b3, 42)
           r1 == Send(b3, 42)
           r2 == Send(d3, 42)
<1>14. r1.buf = b3 /\ r1.sent = <<g>> /\ r2.sent = <<g>>
  BY <1>12 DEF Send
<1> HIDE DEF g, r1, r2
<1>15. Own(r1, r2)
  BY <1>9, <1>13, <1>14 DEF Own, g
<1> QED BY <1>1, <1>15 DEF r1, r2

\* No frame is its own.
LEMMA NothingOwn ==
    ASSUME NEW b, NEW d, b \in Buffer
    PROVE  Own(Nothing(b), Nothing(d))
BY DEF Own, Nothing

-----------------------------------------------------------------------------
(* The passes *)

\* The inductive invariant: the buffer holds bytes, and the board has an
\* address of four bytes, of its own or none.
FramesInv ==
    /\ buf \in Buffer /\ ipaddr \in {Zeros(4), Ip(Me)} /\ seqnum \in Octet /\ ipid \in Octet
    /\ FramesSound /\ ReplyGoesBack /\ OnlyOwnBytes

\* The board's address is four bytes, set or not.
LEMMA AddressIs ==
    ASSUME NEW a \in {Zeros(4), Ip(Me)}
    PROVE  IsBytes(a, 4)
BY ZerosBytes, MacBytes DEF Me

\* The counters are bytes.
LEMMA Counted ==
    ASSUME NEW n, NEW k, n \in Octet, k \in {1, 3}
    PROVE  (n + k) % 256 \in Octet
<1>1. n + k \in Nat
  BY OctetIs
<1> QED BY <1>1, OctetIs

\* The invariant holds at first: nothing was sent.
LEMMA FramesInit == Init => FramesInv
<1> SUFFICES ASSUME Init PROVE FramesInv
  OBVIOUS
<1>1. Blank \in Buffer /\ 10 \in Octet /\ 2 \in Octet
  <2>1. 0 \in Octet
    BY OctetIs
  <2> QED BY <2>1, OctetIs DEF Blank, Buffer
<1>2. sent = <<>> /\ again = <<>>
  BY DEF Init
<1>3. FramesSound /\ ReplyGoesBack /\ OnlyOwnBytes
  BY <1>2 DEF FramesSound, ReplyGoesBack, OnlyOwnBytes
<1> QED BY <1>1, <1>3 DEF Init, FramesInv

\* Noise is a buffer.
LEMMA NoiseIs == Noise \in Buffer
<1>1. 170 \in Octet
  BY OctetIs
<1> QED BY <1>1 DEF Noise, Buffer

\* A pass that answers a request.
LEMMA FramesReceive ==
    ASSUME FramesInv, Receive, ipaddr' = ipaddr
    PROVE  FramesInv'
<1>1. IsBytes(ipaddr, 4)
  BY AddressIs DEF FramesInv
<1>2. PICK r \in Requests, dlen \in Sizes :
        /\ Took(r, packetloop(Received(buf, r), r.len, dlen), packetloop(Received(Noise, r), r.len, dlen))
        /\ seqnum' = IF sent' # <<>> /\ r.bytes[P.IP_PROTO_P] = TCP_V /\ r.bytes[P.TCP_FLAGS_P] = SYN
                     THEN (seqnum + 3) % 256 ELSE seqnum
        /\ UNCHANGED ipid
  BY DEF Receive
<1>3. Answerable(r)
  BY RequestIs
<1>4. Received(buf, r) = r.bytes /\ Received(Noise, r) = r.bytes
  BY <1>3, ReceivedIs, NoiseIs DEF FramesInv
<1> DEFINE res == packetloop(r.bytes, r.len, dlen)
<1>5. Answers(res, r)
  BY <1>1, <1>3, LoopAnswers DEF FramesInv
<1>6. request' = r /\ buf' = res.buf /\ sent' = res.sent /\ again' = res.sent
  BY <1>2, <1>4 DEF Took
<1> HIDE DEF res
<1>7. FramesSound' /\ ReplyGoesBack' /\ OnlyOwnBytes'
  BY <1>5, <1>6 DEF Answers, FramesSound, ReplyGoesBack, OnlyOwnBytes
<1>8. buf' \in Buffer
  BY <1>5, <1>6 DEF Answers
<1>9. seqnum' \in Octet /\ ipid' \in Octet
  BY <1>2, Counted DEF FramesInv
<1> QED BY <1>7, <1>8, <1>9 DEF FramesInv

\* A pass that sends a frame of the board's own.
LEMMA OwnSent ==
    ASSUME NEW x, NEW y, FramesInv, Own(x, y), Took(None, x, y), ipaddr' = ipaddr,
           seqnum' \in Octet, ipid' \in Octet
    PROVE  FramesInv'
<1>1. request' = None /\ buf' = x.buf /\ sent' = x.sent /\ again' = y.sent
  BY DEF Took
<1>2. FramesSound' /\ ReplyGoesBack' /\ OnlyOwnBytes' /\ buf' \in Buffer
  BY <1>1 DEF Own, FramesSound, ReplyGoesBack, OnlyOwnBytes
<1> QED BY <1>2 DEF FramesInv

\* Every IP frame of the board's own is sound, and the same whatever the buffer
\* held.
LEMMA IpFrameOwn ==
    ASSUME NEW b, NEW d, NEW which, NEW h, NEW n, b \in Buffer, d \in Buffer, h \in Peers, n \in Sizes,
           which \in {"ping", "ntp", "wol", "udp", "discover", "renew", "syn"},
           ipid \in Octet, seqnum \in Octet, IsBytes(ipaddr, 4)
    PROVE  Own(IpFrame(b, which, h, n), IpFrame(d, which, h, n))
<1>0. n \in Nat
  BY FramesAssumption
<1>1. CASE which = "ping"
  <2>1. /\ IpFrame(b, which, h, n) = client_icmp_request(b, h)
        /\ IpFrame(d, which, h, n) = client_icmp_request(d, h)
    BY <1>1 DEF IpFrame
  <2> QED BY <2>1, PingOwn
<1>2. CASE which = "ntp"
  <2>1. /\ IpFrame(b, which, h, n) = client_ntp_request(b, h, 7)
        /\ IpFrame(d, which, h, n) = client_ntp_request(d, h, 7)
    BY <1>2 DEF IpFrame
  <2> QED BY <2>1, NtpOwn
<1>3. CASE which = "wol"
  <2>1. IpFrame(b, which, h, n) = send_wol(b, h) /\ IpFrame(d, which, h, n) = send_wol(d, h)
    BY <1>3 DEF IpFrame
  <2> QED BY <2>1, WolOwn
<1>4. CASE which = "udp"
  <2>1. IpFrame(b, which, h, n) = send_udp(b, h, n) /\ IpFrame(d, which, h, n) = send_udp(d, h, n)
    BY <1>4 DEF IpFrame
  <2> QED BY <1>0, <2>1, UdpSendOwn
<1>5. CASE which = "discover"
  <2>1. /\ IpFrame(b, which, h, n) = send_dhcp_discover(b, 7)
        /\ IpFrame(d, which, h, n) = send_dhcp_discover(d, 7)
    BY <1>5 DEF IpFrame
  <2> QED BY <2>1, DiscoverOwn
<1>6. CASE which = "renew"
  <2>1. /\ IpFrame(b, which, h, n) = send_dhcp_renew_request(b, 7)
        /\ IpFrame(d, which, h, n) = send_dhcp_renew_request(d, 7)
    BY <1>6 DEF IpFrame
  <2> QED BY <2>1, RenewOwn
<1>7. CASE which = "syn"
  <2>1. /\ IpFrame(b, which, h, n) = tcp_client_syn(b, h, 33, 80)
        /\ IpFrame(d, which, h, n) = tcp_client_syn(d, h, 33, 80)
    BY <1>7 DEF IpFrame
  <2> QED BY <2>1, SynOwn
<1> QED BY <1>1, <1>2, <1>3, <1>4, <1>5, <1>6, <1>7

\* Sending one keeps the invariant.
LEMMA FramesSendIp ==
    ASSUME FramesInv, SendIp, ipaddr' = ipaddr
    PROVE  FramesInv'
<1>1. IsBytes(ipaddr, 4) /\ buf \in Buffer /\ seqnum \in Octet /\ ipid \in Octet
  BY AddressIs DEF FramesInv
<1>2. PICK which \in {"ping", "ntp", "wol", "udp", "discover", "renew", "syn"}, h \in Peers, n \in Sizes :
        /\ Took(None, IpFrame(buf, which, h, n), IpFrame(Noise, which, h, n))
        /\ seqnum' = IF which = "syn" THEN (seqnum + 3) % 256 ELSE seqnum
        /\ ipid' = (ipid + 1) % 256
  BY DEF SendIp
<1>3. Own(IpFrame(buf, which, h, n), IpFrame(Noise, which, h, n))
  BY <1>1, NoiseIs, IpFrameOwn
<1>4. seqnum' \in Octet /\ ipid' \in Octet
  BY <1>1, <1>2, Counted
<1> QED BY <1>2, <1>3, <1>4, OwnSent

\* So does sending an ARP frame.
LEMMA FramesSendArp ==
    ASSUME FramesInv, SendArp, ipaddr' = ipaddr
    PROVE  FramesInv'
<1>1. IsBytes(ipaddr, 4) /\ buf \in Buffer /\ seqnum' \in Octet /\ ipid' \in Octet
  BY AddressIs DEF FramesInv, SendArp
<1>2. CASE Took(None, gratutious_arp(buf), gratutious_arp(Noise))
  <2>1. Own(gratutious_arp(buf), gratutious_arp(Noise))
    BY <1>1, NoiseIs, ZerosBytes, ArpOwn DEF gratutious_arp
  <2> QED BY <1>1, <1>2, <2>1, OwnSent
<1>3. CASE \E h \in Peers : Took(None, client_arp_whohas(buf, h), client_arp_whohas(Noise, h))
  <2>1. PICK h \in Peers : Took(None, client_arp_whohas(buf, h), client_arp_whohas(Noise, h))
    BY <1>3
  <2>2. Own(client_arp_whohas(buf, h), client_arp_whohas(Noise, h))
    <3>1. CASE ipaddr[1] = 0
      BY <1>1, <3>1, NothingOwn DEF client_arp_whohas
    <3>2. CASE ipaddr[1] # 0
      BY <1>1, <3>2, NoiseIs, PeerIs, ZerosBytes, ArpOwn DEF client_arp_whohas
    <3> QED BY <3>1, <3>2
  <2> QED BY <1>1, <2>1, <2>2, OwnSent
<1> QED BY <1>2, <1>3 DEF SendArp

\* FramesInv is inductive.
LEMMA FramesInductive == FramesInv /\ [Next]_framevars => FramesInv'
<1> SUFFICES ASSUME FramesInv, [Next]_framevars PROVE FramesInv'
  OBVIOUS
<1>1. CASE Receive /\ UNCHANGED ipaddr
  BY <1>1, FramesReceive
<1>2. CASE SendIp /\ UNCHANGED ipaddr
  BY <1>2, FramesSendIp
<1>3. CASE SendArp /\ UNCHANGED ipaddr
  BY <1>3, FramesSendArp
<1>4. CASE client_ifconfig
  <2>1. sent' = <<>> /\ again' = <<>> /\ request' = None /\ ipaddr' = Ip(Me) /\ UNCHANGED <<buf, seqnum, ipid>>
    BY <1>4 DEF client_ifconfig
  <2>2. FramesSound' /\ ReplyGoesBack' /\ OnlyOwnBytes'
    BY <2>1 DEF FramesSound, ReplyGoesBack, OnlyOwnBytes
  <2> QED BY <2>1, <2>2 DEF FramesInv
<1>5. CASE UNCHANGED framevars
  BY <1>5 DEF framevars, FramesInv, FramesSound, ReplyGoesBack, OnlyOwnBytes
<1> QED BY <1>1, <1>2, <1>3, <1>4, <1>5 DEF Next

\* It holds throughout.
LEMMA FramesHolds == Spec => []FramesInv
BY FramesInit, FramesInductive, PTL DEF Spec

\* ip_arp_udp_tcp.c:274-299, 448-643, 664-1104: for any peers, any lengths
\* of data up to 1400 bytes and any order of passes, every frame is acceptable to
\* its receiver: the checksums hold over the fields as sent and the lengths of IP,
\* UDP and Ethernet agree, but for the two exceptions an echo reply has.
THEOREM EveryFrameAccepted == Spec => []FramesSound
<1>1. FramesInv => FramesSound
  BY DEF FramesInv
<1> QED BY <1>1, FramesHolds, PTL

\* ip_arp_udp_tcp.c:263-391, 448-539, 580-643: every reply, and each of the two
\* that a request for a page gets from the one buffer, goes back to the sender of
\* the request, with its ports, and acknowledges what that carried.
THEOREM RepliesReturn == Spec => []ReplyGoesBack
<1>1. FramesInv => ReplyGoesBack
  BY DEF FramesInv
<1> QED BY <1>1, FramesHolds, PTL

\* ip_arp_udp_tcp.c:649-1104: what a pass sends does not depend on what the
\* packet buffer held before it.
THEOREM NothingLeftBehind == Spec => []OnlyOwnBytes
<1>1. FramesInv => OnlyOwnBytes
  BY DEF FramesInv
<1> QED BY <1>1, FramesHolds, PTL

-----------------------------------------------------------------------------
(* Look-ups: sequences put together *)

\* What DnsConstants says, name by name.
LEMMA NameIs ==
    /\ Dns!DnsConstants
    /\ TID \in Nat /\ TID >= 2 /\ INDEX \in Nat /\ INDEX >= 28 /\ MaxRequests \in Nat
    /\ \A n \in Extras : n \in Nat
BY BytesAssumption DEF Dns!DnsConstants

\* A flattened sequence, one element after the other.
LEMMA FlattenIs ==
    ASSUME NEW seqs \in Seq(Seq(Nat)), NEW n, n = Len(seqs)
    PROVE  \E g \in [0..n -> Seq(Nat)] :
              /\ g[0] = <<>> /\ \A k \in 1..n : g[k] = g[k - 1] \o seqs[k]
              /\ g[n] = Dns!FlattenSeq(seqs)
<1> DEFINE S == Seq(Nat)
           f == [x \in (1..n) \X S |-> x[2] \o seqs[x[1]]]
<1>1. n \in Nat /\ \A k \in 1..n : seqs[k] \in S
  OBVIOUS
<1>2. PICK g \in [0..n -> S] : IsRecursive(g, n, <<>>, f)
  <2>1. <<>> \in S
    OBVIOUS
  <2>2. ASSUME NEW x \in (1..n) \X S PROVE x[2] \o seqs[x[1]] \in S
    <3>1. x[1] \in 1..n /\ x[2] \in S
      BY <2>2
    <3> QED BY <1>1, <3>1
  <2>3. f \in [(1..n) \X S -> S]
    BY <2>2
  <2> HIDE DEF S, f
  <2> QED BY <1>1, <2>1, <2>3, RecursionExists
<1>3. ASSUME NEW k \in 1..n PROVE g[k] = g[k - 1] \o seqs[k]
  <2>1. k \in 1..n /\ k - 1 \in 0..n
    BY <1>1, <1>3
  <2>2. g[k - 1] \in S
    <3> HIDE DEF S, f
    <3> QED BY <2>1
  <2>3. f[<<k, g[k - 1]>>] = g[k - 1] \o seqs[k]
    BY <2>1, <2>2
  <2>4. g[k] = f[<<k, g[k - 1]>>]
    <3> HIDE DEF S, f
    <3> QED BY <1>2, <2>1 DEF IsRecursive
  <2> QED BY <2>3, <2>4
<1>0. g[0] = <<>>
  <2> HIDE DEF S, f
  <2> QED BY <1>2 DEF IsRecursive
<1>4. CASE n = 0
  <2>0. Len(seqs) = 0
    BY <1>4
  <2>1. Dns!FlattenSeq(seqs) = <<>>
    <3>1. Dns!FlattenSeq(seqs) = seqs
      BY <2>0, Zenon DEF Dns!FlattenSeq
    <3>2. seqs = <<>>
      BY <2>0
    <3> QED BY <3>1, <3>2
  <2> QED BY <1>0, <1>3, <1>4, <2>1
<1>5. CASE n # 0
  <2> DEFINE E(h) == [i \in 1..n |-> IF i = 1 THEN seqs[i] ELSE h[i - 1] \o seqs[i]]
             h == [i \in 1..n |-> g[i]]
             F == CHOOSE q : q = E(q)
  <2>1. h = E(h)
    <3>1. ASSUME NEW i \in 1..n PROVE h[i] = E(h)[i]
      <4>1. CASE i = 1
        <5>1. g[0] = <<>> /\ g[1] = g[0] \o seqs[1]
          <6>1. 1 \in 1..n /\ 1 - 1 = 0
            BY <1>1, <1>5
          <6>2. g[1] = g[1 - 1] \o seqs[1]
            BY <1>3, <6>1
          <6> QED BY <1>0, <6>1, <6>2
        <5> QED BY <1>1, <4>1, <5>1
      <4>2. CASE i # 1
        <5>1. i - 1 \in 1..n
          BY <1>1, <4>2
        <5> QED BY <1>3, <4>2, <5>1
      <4> QED BY <4>1, <4>2
    <3> QED BY <3>1
  <2>2. F = E(F)
    BY <2>1
  <2>3. Dns!FlattenSeq(seqs) = F[n]
    BY <1>5 DEF Dns!FlattenSeq
  <2> HIDE DEF F
  <2>4. \A i \in 1..n : F[i] = g[i]
    <3> DEFINE A == { i \in Nat : i + 1 <= n => F[i + 1] = g[i + 1] }
    <3>1. 0 \in A
      <4>1. 1 \in 1..n
        BY <1>1, <1>5
      <4>2. F[1] = seqs[1] /\ h[1] = seqs[1] /\ h[1] = g[1]
        BY <2>1, <2>2, <4>1
      <4> QED BY <4>2
    <3>2. ASSUME NEW i \in Nat, i \in A PROVE i + 1 \in A
      <4> SUFFICES ASSUME i + 2 <= n PROVE F[i + 2] = g[i + 2]
        OBVIOUS
      <4>1. i + 2 \in 1..n /\ i + 1 \in 1..n /\ i + 2 # 1 /\ (i + 2) - 1 = i + 1
        BY <1>1
      <4>2. F[i + 1] = g[i + 1]
        BY <3>2, <4>1
      <4>3. F[i + 2] = F[i + 1] \o seqs[i + 2]
        BY <2>2, <4>1
      <4>4. g[i + 2] = g[i + 1] \o seqs[i + 2]
        BY <1>3, <4>1
      <4> QED BY <4>2, <4>3, <4>4
    <3> HIDE DEF A
    <3>3. \A i \in Nat : i \in A
      BY <3>1, <3>2, NatInductionOnSet
    <3> TAKE i \in 1..n
    <3>4. i - 1 \in Nat /\ (i - 1) + 1 = i
      BY <1>1
    <3>5. i - 1 \in A
      BY <3>3, <3>4
    <3>6. (i - 1) + 1 <= n
      BY <1>1, <3>4
    <3>7. F[(i - 1) + 1] = g[(i - 1) + 1]
      BY <3>5, <3>6 DEF A
    <3> QED BY <3>4, <3>7
  <2>5. g[n] = Dns!FlattenSeq(seqs)
    <3>1. n \in 1..n
      BY <1>1, <1>5
    <3> QED BY <2>3, <2>4, <3>1
  <2> QED BY <1>0, <1>3, <2>5
<1> QED BY <1>1, <1>4, <1>5

\* r is s followed by t.
Joined(r, s, n, t, m) ==
    /\ n \in Nat /\ m \in Nat /\ r \in Seq(Nat) /\ Len(r) = n + m
    /\ \A i \in Nat : 1 <= i /\ i <= n => r[i] = s[i]
    /\ \A i \in Nat : 1 <= i /\ i <= m => r[n + i] = t[i]

\* Two sequences put together.
LEMMA JoinIs ==
    ASSUME NEW s \in Seq(Nat), NEW t \in Seq(Nat), NEW n, n = Len(s), NEW m, m = Len(t)
    PROVE  Joined(s \o t, s, n, t, m)
<1>1. n \in Nat /\ m \in Nat
  OBVIOUS
<1>2. s \o t \in Seq(Nat) /\ Len(s \o t) = n + m
  OBVIOUS
<1>3. ASSUME NEW i \in Nat, 1 <= i, i <= n PROVE (s \o t)[i] = s[i]
  BY <1>1, <1>3
<1>4. ASSUME NEW i \in Nat, 1 <= i, i <= m PROVE (s \o t)[n + i] = t[i]
  BY <1>1, <1>4
<1> QED BY <1>1, <1>2, <1>3, <1>4 DEF Joined

\* k blocks and one more are no more than m blocks if k is less than m.
LEMMA BlocksBefore ==
    ASSUME NEW k \in Nat, NEW m \in Nat, NEW a \in Nat, k < m
    PROVE  k * a \in Nat /\ m * a \in Nat /\ k * a + a <= m * a
<1>1. PICK d \in Nat : m = k + 1 + d
  <2>1. m - k - 1 \in Nat /\ m = k + 1 + (m - k - 1)
    OBVIOUS
  <2> QED BY <2>1
<1>2. k * a \in Nat /\ m * a \in Nat /\ d * a \in Nat
  OBVIOUS
<1>3. m * a = k * a + a + d * a
  BY <1>1
<1> QED BY <1>2, <1>3

\* The same sequence n times.
Copied(r, s, n, a) ==
    /\ r \in Seq(Nat) /\ Len(r) = n * a
    /\ \A k \in Nat, j \in Nat : k < n /\ 1 <= j /\ j <= a => r[k * a + j] = s[j]

\* A sequence made of copies.
LEMMA CopiesIs ==
    ASSUME NEW s \in Seq(Nat), NEW n \in Nat
    PROVE  Copied(Dns!FlattenSeq([k \in 1..n |-> s]), s, n, Len(s))
<1> DEFINE c == [k \in 1..n |-> s]
           a == Len(s)
           r == Dns!FlattenSeq(c)
<1>1. c \in Seq(Seq(Nat)) /\ Len(c) = n /\ \A k \in 1..n : c[k] = s
  OBVIOUS
<1>2. a \in Nat /\ a = Len(s)
  OBVIOUS
<1>3. PICK g \in [0..n -> Seq(Nat)] :
          /\ g[0] = <<>> /\ \A k \in 1..n : g[k] = g[k - 1] \o c[k]
          /\ g[n] = r
  <2> HIDE DEF c
  <2> QED BY <1>1, FlattenIs
<1> HIDE DEF c, a, r
<1> DEFINE Good(m) ==
        /\ Len(g[m]) = m * a
        /\ \A k \in Nat, j \in Nat : k < m /\ 1 <= j /\ j <= a => g[m][k * a + j] = s[j]
           A == { m \in Nat : m <= n => Good(m) }
<1>4. Good(0)
  BY <1>2, <1>3
<1>5. ASSUME NEW m \in Nat, m + 1 <= n, Good(m) PROVE Good(m + 1)
  <2>0. m + 1 <= n
    BY <1>5
  <2>1. m + 1 \in 1..n /\ (m + 1) - 1 = m /\ m \in 0..n
    BY <2>0
  <2> DEFINE h == g[m]
             p == m * a
  <2>2. g[m + 1] = h \o s
    BY <1>1, <1>3, <2>1
  <2>3. h \in Seq(Nat) /\ p \in Nat /\ (m + 1) * a = p + a
    BY <1>2, <2>1
  <2>4. Len(h) = p /\ \A k \in Nat, j \in Nat : k < m /\ 1 <= j /\ j <= a => h[k * a + j] = s[j]
    BY <1>5
  <2> HIDE DEF h, p
  <2>5. Joined(g[m + 1], h, p, s, a)
    BY <1>2, <2>2, <2>3, <2>4, JoinIs
  <2>6. ASSUME NEW k \in Nat, NEW j \in Nat, k < m + 1, 1 <= j, j <= a
        PROVE  g[m + 1][k * a + j] = s[j]
    <3>1. CASE k = m
      <4>1. g[m + 1][p + j] = s[j]
        BY <2>5, <2>6 DEF Joined
      <4> QED BY <3>1, <4>1 DEF p
    <3>2. CASE k < m
      <4> DEFINE q == k * a
                 i == q + j
      <4>1. q \in Nat /\ q + a <= p
        BY <1>2, <3>2, BlocksBefore DEF p
      <4>2. h[i] = s[j]
        BY <2>4, <2>6, <3>2
      <4> HIDE DEF q
      <4>3. i \in Nat /\ 1 <= i /\ i <= p
        BY <1>2, <2>3, <2>6, <4>1
      <4> HIDE DEF i
      <4>4. g[m + 1][i] = h[i]
        BY <2>5, <4>3 DEF Joined
      <4>5. g[m + 1][i] = s[j]
        BY <4>2, <4>4
      <4> QED BY <4>5 DEF i, q
    <3>3. k = m \/ k < m
      BY <2>6
    <3> QED BY <3>1, <3>2, <3>3
  <2>7. Len(g[m + 1]) = (m + 1) * a
    BY <2>3, <2>5 DEF Joined
  <2> QED BY <2>6, <2>7
<1>6. \A m \in Nat : m \in A
  <2> HIDE DEF Good
  <2>1. 0 \in A
    BY <1>4
  <2>2. ASSUME NEW m \in Nat, m \in A PROVE m + 1 \in A
    BY <1>5, <2>2
  <2> HIDE DEF A
  <2> QED BY <2>1, <2>2, NatInductionOnSet
<1>7. Good(n)
  <2> HIDE DEF Good
  <2>1. n \in A /\ n <= n
    BY <1>6
  <2> QED BY <2>1
<1>8. r = g[n] /\ g[n] \in Seq(Nat)
  BY <1>3
<1>9. Copied(r, s, n, a)
  BY <1>7, <1>8 DEF Copied
<1> QED BY <1>9 DEF r, c, a

-----------------------------------------------------------------------------
(* Look-ups: names *)

\* Where the length of the label after a dot at i leads to: the next dot, or the end.
DotAt(s, i, e) ==
    /\ e \in Nat /\ i < e /\ e <= Len(s) + 1 /\ (e <= Len(s) => s[e] = 46)
    /\ \A j \in Nat : i < j /\ j < e => s[j] # 46
\* w is s with lengths in the places of the dots.
Codes(w, s) ==
    /\ s \in Seq(Nat) /\ w \in Seq(Nat) /\ Len(w) = Len(s)
    /\ \A i \in Nat : 1 <= i /\ i <= Len(s) =>
        /\ w[i] # 0
        /\ IF s[i] = 46 THEN DotAt(s, i, i + 1 + w[i]) ELSE w[i] = s[i]
Label(x) == x \in Seq(Nat) /\ Len(x) # 0 /\ \A j \in Nat : 1 <= j /\ j <= Len(x) => x[j] # 0 /\ x[j] # 46

\* A byte before a label.
LEMMA HeadIs ==
    ASSUME NEW x \in Seq(Nat), NEW v \in Nat, NEW n, n = Len(x)
    PROVE  Joined(<<v>> \o x, <<v>>, 1, x, n)
<1>1. <<v>> \in Seq(Nat) /\ Len(<<v>>) = 1
  OBVIOUS
<1> QED BY <1>1, JoinIs

\* One more label.
LEMMA LabelCoded ==
    ASSUME NEW s, NEW w, NEW x, Codes(w, s), Label(x), NEW n, n = Len(s), NEW l, l = Len(x)
    PROVE  Codes(w \o (<<l>> \o x), s \o (<< 46 >> \o x))
<1> DEFINE t == << 46 >> \o x
           v == <<l>> \o x
           ss == s \o t
           ww == w \o v
<1>1. n \in Nat /\ l \in Nat /\ l # 0 /\ s \in Seq(Nat) /\ w \in Seq(Nat) /\ x \in Seq(Nat) /\ Len(w) = n
  BY DEF Codes, Label
<1>2. Joined(t, << 46 >>, 1, x, l) /\ Joined(v, <<l>>, 1, x, l)
  BY <1>1, HeadIs
<1>3. t \in Seq(Nat) /\ v \in Seq(Nat) /\ Len(t) = 1 + l /\ Len(v) = 1 + l
  BY <1>2 DEF Joined
<1> HIDE DEF t, v
<1>4. Joined(ss, s, n, t, 1 + l)
  BY <1>1, <1>3, JoinIs
<1>5. Joined(ww, w, n, v, 1 + l)
  BY <1>1, <1>3, JoinIs
<1> HIDE DEF ss, ww
<1>6. ss[n + 1] = 46 /\ ww[n + 1] = l
  <2>1. t[1] = 46 /\ v[1] = l
    BY <1>2 DEF Joined
  <2>2. ss[n + 1] = t[1] /\ ww[n + 1] = v[1]
    BY <1>1, <1>4, <1>5, SMTT(60) DEF Joined
  <2> QED BY <2>1, <2>2
<1>7. ASSUME NEW i \in Nat, n + 1 < i, i <= n + 1 + l
      PROVE  ss[i] # 46 /\ ww[i] = ss[i] /\ ww[i] # 0
  <2> DEFINE j == i - n - 1
  <2>1. j \in Nat /\ 1 <= j /\ j <= l /\ n + (1 + j) = i /\ 1 + j \in Nat /\ 1 <= 1 + j /\ 1 + j <= 1 + l
    BY <1>1, <1>7
  <2> HIDE DEF j
  <2>2. ss[n + (1 + j)] = t[1 + j] /\ ww[n + (1 + j)] = v[1 + j]
    BY <1>4, <1>5, <2>1 DEF Joined
  <2>3. t[1 + j] = x[j] /\ v[1 + j] = x[j]
    BY <1>2, <2>1 DEF Joined
  <2>4. x[j] # 0 /\ x[j] # 46
    BY <2>1 DEF Label
  <2> QED BY <2>1, <2>2, <2>3, <2>4
<1>8. ASSUME NEW i \in Nat, 1 <= i, i <= n
      PROVE  ww[i] # 0 /\ IF ss[i] = 46 THEN DotAt(ss, i, i + 1 + ww[i]) ELSE ww[i] = ss[i]
  <2>1. ss[i] = s[i] /\ ww[i] = w[i]
    BY <1>4, <1>5, <1>8 DEF Joined
  <2>2. w[i] # 0 /\ IF s[i] = 46 THEN DotAt(s, i, i + 1 + w[i]) ELSE w[i] = s[i]
    BY <1>8 DEF Codes
  <2>3. ASSUME s[i] = 46 PROVE DotAt(ss, i, i + 1 + w[i])
    <3> DEFINE e == i + 1 + w[i]
    <3>1. /\ e \in Nat /\ i < e /\ e <= n + 1 /\ (e <= n => s[e] = 46)
          /\ \A j \in Nat : i < j /\ j < e => s[j] # 46
      BY <2>2, <2>3 DEF DotAt
    <3> HIDE DEF e
    <3>2. e <= Len(ss) + 1
      BY <1>1, <1>4, <3>1 DEF Joined
    <3>3. ss[e] = 46
      <4>1. CASE e = n + 1
        BY <1>6, <4>1
      <4>2. CASE e <= n
        BY <1>4, <1>8, <3>1, <4>2 DEF Joined
      <4> QED BY <1>1, <3>1, <4>1, <4>2
    <3>4. ASSUME NEW j \in Nat, i < j, j < e PROVE ss[j] # 46
      <4>1. 1 <= j /\ j <= n
        BY <1>1, <1>8, <3>1, <3>4
      <4> QED BY <1>4, <3>1, <3>4, <4>1 DEF Joined
    <3>5. DotAt(ss, i, e)
      BY <3>1, <3>2, <3>3, <3>4 DEF DotAt
    <3> QED BY <3>5 DEF e
  <2> QED BY <2>1, <2>2, <2>3
<1>9. DotAt(ss, n + 1, n + 1 + 1 + ww[n + 1])
  <2> DEFINE e == n + 1 + 1 + l
  <2>1. e \in Nat /\ n + 1 < e /\ e = Len(ss) + 1
    BY <1>1, <1>4 DEF Joined
  <2>2. ASSUME NEW j \in Nat, n + 1 < j, j < e PROVE ss[j] # 46
    <3>1. j <= n + 1 + l
      BY <1>1, <2>2
    <3> QED BY <1>7, <2>2, <3>1
  <2>3. DotAt(ss, n + 1, e)
    <3> HIDE DEF e
    <3>1. Len(ss) \in Nat
      BY <1>4 DEF Joined
    <3>2. e <= Len(ss) + 1 /\ ~(e <= Len(ss))
      BY <2>1, <3>1
    <3> QED BY <2>1, <2>2, <3>2 DEF DotAt
  <2> QED BY <1>6, <2>3
<1>10. ASSUME NEW i \in Nat, 1 <= i, i <= Len(ss)
       PROVE  ww[i] # 0 /\ IF ss[i] = 46 THEN DotAt(ss, i, i + 1 + ww[i]) ELSE ww[i] = ss[i]
  <2>1. CASE i <= n
    BY <1>8, <1>10, <2>1
  <2>2. CASE i = n + 1
    <3>1. ss[i] = 46 /\ ww[i] = l /\ DotAt(ss, i, i + 1 + ww[i])
      BY <1>6, <1>9, <2>2
    <3> QED BY <1>1, <3>1
  <2>3. CASE n + 1 < i
    <3>1. i <= n + 1 + l
      BY <1>4, <1>10 DEF Joined
    <3> QED BY <1>7, <2>3, <3>1
  <2>4. i <= n \/ i = n + 1 \/ n + 1 < i
    BY <1>1
  <2> QED BY <2>1, <2>2, <2>3, <2>4
<1>11. Codes(ww, ss)
  BY <1>4, <1>5, <1>10 DEF Codes, Joined
<1> QED BY <1>11 DEF ss, ww, t, v

\* A name: labels without dots and zeros, and what its question takes of the index.
LEMMA NameOf ==
    ASSUME NEW name \in Names
    PROVE  /\ name \in Seq(Seq(Nat)) /\ Len(name) \in Nat /\ Len(name) # 0
           /\ \A k \in 1..Len(name) : Label(name[k]) /\ name[k] \in Seq(Nat) /\ Len(name[k]) \in Nat
                                        /\ 1 <= Len(name[k]) /\ Len(name[k]) < 64
           /\ Len(Dns!Wire(name)) + 16 < INDEX /\ AddressOf(name) \in Nat
<1> DEFINE C == Dns!Chars
<1>1. /\ name \in Seq(Seq(C)) /\ name # <<>> /\ AddressOf(name) \in Nat /\ AddressOf(name) <= 255
      /\ \A k \in DOMAIN name : 1 <= Len(name[k]) /\ Len(name[k]) <= 63
      /\ Len(Dns!Wire(name)) + 16 < INDEX
  BY NameIs DEF Dns!DnsConstants
<1>2. ASSUME NEW c \in C PROVE c \in Nat /\ c # 0 /\ c # 46
  BY <1>2 DEF Dns!Chars, Dns!DOT
<1> HIDE DEF C
<1>3. Len(name) \in Nat /\ DOMAIN name = 1..Len(name)
  BY <1>1
<1>4. Len(name) # 0
  BY <1>1
<1>5. ASSUME NEW k \in 1..Len(name)
      PROVE  Label(name[k]) /\ name[k] \in Seq(Nat) /\ Len(name[k]) \in Nat /\ 1 <= Len(name[k]) /\ Len(name[k]) < 64
  <2> DEFINE x == name[k]
  <2>1. x \in Seq(C) /\ 1 <= Len(x) /\ Len(x) <= 63
    <3> DEFINE D == Seq(C)
    <3>1. name \in Seq(D) /\ Len(name) \in Nat /\ k \in 1..Len(name)
      BY <1>1, <1>3, <1>5
    <3> HIDE DEF D
    <3>2. name[k] \in D
      BY <3>1
    <3>3. name[k] \in Seq(C)
      BY <3>2 DEF D
    <3>4. k \in DOMAIN name
      BY <1>3, <1>5
    <3>5. 1 <= Len(name[k]) /\ Len(name[k]) <= 63
      BY <1>1, <3>4, ZenonT(60)
    <3> QED BY <3>3, <3>5
  <2> HIDE DEF x
  <2>2. Len(x) \in Nat /\ Len(x) # 0 /\ 1 <= Len(x) /\ Len(x) < 64 /\ DOMAIN x = 1..Len(x)
    BY <2>1
  <2>3. \A j \in 1..Len(x) : x[j] \in C
    BY <2>1
  <2>4. \A j \in 1..Len(x) : x[j] \in Nat
    BY <1>2, <2>3
  <2>5. x \in Seq(Nat)
    <3>1. x = [j \in 1..Len(x) |-> x[j]]
      BY <2>1
    <3> QED BY <2>2, <2>4, <3>1
  <2>6. \A j \in Nat : 1 <= j /\ j <= Len(x) => x[j] # 0 /\ x[j] # 46
    <3> TAKE j \in Nat
    <3> HAVE 1 <= j /\ j <= Len(x)
    <3>1. j \in 1..Len(x)
      BY <2>2
    <3> QED BY <1>2, <2>3, <3>1
  <2>7. Label(x)
    BY <2>2, <2>5, <2>6 DEF Label
  <2> QED BY <2>2, <2>5, <2>7 DEF x
<1>6. name \in Seq(Seq(Nat))
  <2>1. name = [k \in 1..Len(name) |-> name[k]]
    BY <1>1
  <2> QED BY <1>3, <1>5, <2>1
<1>7. AddressOf(name) \in Nat
  BY <1>1
<1> QED BY <1>1, <1>3, <1>4, <1>5, <1>6, <1>7

\* The labels of a name behind dots, and behind their lengths.
Dotted(name) == Dns!FlattenSeq([k \in DOMAIN name |-> << 46 >> \o name[k]])
Lengthened(name) == Dns!FlattenSeq([k \in DOMAIN name |-> <<Len(name[k])>> \o name[k]])

\* Lengths are in the places of the dots.
LEMMA NameCoded ==
    ASSUME NEW name \in Names
    PROVE  /\ Codes(Lengthened(name), Dotted(name)) /\ Len(Dotted(name)) # 0
           /\ Dotted(name)[1] = 46 /\ Lengthened(name)[1] < 64
<1> DEFINE n == Len(name)
           ds == [k \in DOMAIN name |-> << 46 >> \o name[k]]
           ws == [k \in DOMAIN name |-> <<Len(name[k])>> \o name[k]]
<1>1. n \in Nat /\ n # 0 /\ DOMAIN name = 1..n /\ 1 \in 1..n
  BY NameOf
<1>2. \A k \in 1..n : /\ Label(name[k]) /\ name[k] \in Seq(Nat) /\ Len(name[k]) \in Nat
                      /\ 1 <= Len(name[k]) /\ Len(name[k]) < 64
  BY NameOf
<1> HIDE DEF n
<1>3. ds \in Seq(Seq(Nat)) /\ Len(ds) = n /\ \A k \in 1..n : ds[k] = << 46 >> \o name[k]
  <2>1. \A k \in 1..n : << 46 >> \o name[k] \in Seq(Nat)
    BY <1>2
  <2> QED BY <1>1, <2>1
<1>4. ws \in Seq(Seq(Nat)) /\ Len(ws) = n /\ \A k \in 1..n : ws[k] = <<Len(name[k])>> \o name[k]
  <2>1. \A k \in 1..n : <<Len(name[k])>> \o name[k] \in Seq(Nat)
    BY <1>2
  <2> QED BY <1>1, <2>1
<1>5. Dns!FlattenSeq(ds) = Dotted(name) /\ Dns!FlattenSeq(ws) = Lengthened(name)
  BY DEF Dotted, Lengthened
<1> HIDE DEF ds, ws
<1>6. PICK g \in [0..n -> Seq(Nat)] :
          /\ g[0] = <<>> /\ \A k \in 1..n : g[k] = g[k - 1] \o ds[k]
          /\ g[n] = Dotted(name)
  BY <1>3, <1>5, FlattenIs
<1>7. PICK h \in [0..n -> Seq(Nat)] :
          /\ h[0] = <<>> /\ \A k \in 1..n : h[k] = h[k - 1] \o ws[k]
          /\ h[n] = Lengthened(name)
  BY <1>4, <1>5, FlattenIs
<1> DEFINE Good(k) == /\ Codes(h[k], g[k])
                      /\ k # 0 => Len(g[k]) # 0 /\ g[k][1] = 46 /\ h[k][1] < 64
           A == { k \in Nat : k <= n => Good(k) }
<1>8. Good(0)
  BY <1>6, <1>7 DEF Codes
<1>9. ASSUME NEW k \in Nat, k + 1 <= n, Good(k) PROVE Good(k + 1)
  <2> DEFINE x == name[k + 1]
             l == Len(x)
             s == g[k]
             w == h[k]
             p == Len(s)
  <2>0. k + 1 <= n
    BY <1>9
  <2>1. k + 1 \in 1..n /\ (k + 1) - 1 = k /\ k \in 0..n
    BY <1>1, <2>0
  <2>2. Label(x) /\ x \in Seq(Nat) /\ l \in Nat /\ 1 <= l /\ l < 64
    BY <1>2, <2>1
  <2>3. g[k + 1] = s \o (<< 46 >> \o x) /\ h[k + 1] = w \o (<<l>> \o x)
    BY <1>3, <1>4, <1>6, <1>7, <2>1
  <2>4. Codes(w, s) /\ (k # 0 => p # 0 /\ s[1] = 46 /\ w[1] < 64)
    BY <1>9
  <2>5. s \in Seq(Nat) /\ w \in Seq(Nat) /\ Len(w) = p /\ p \in Nat
    BY <2>4 DEF Codes
  <2> HIDE DEF x, l, s, w, p
  <2> DEFINE t == << 46 >> \o x
             v == <<l>> \o x
  <2>6. Codes(w \o v, s \o t)
    BY <2>2, <2>4, <2>5, LabelCoded DEF p, l
  <2>7. t \in Seq(Nat) /\ v \in Seq(Nat) /\ Len(t) = 1 + l /\ Len(v) = 1 + l /\ t[1] = 46 /\ v[1] = l
    <3>1. Joined(t, << 46 >>, 1, x, l) /\ Joined(v, <<l>>, 1, x, l)
      BY <2>2, HeadIs DEF l
    <3> QED BY <3>1 DEF Joined
  <2> HIDE DEF t, v
  <2> DEFINE ss == s \o t
             ww == w \o v
  <2>8. Joined(ss, s, p, t, 1 + l) /\ Joined(ww, w, p, v, 1 + l)
    BY <2>5, <2>7, JoinIs DEF p
  <2> HIDE DEF ss, ww
  <2>9. Len(ss) # 0
    BY <2>2, <2>5, <2>8 DEF Joined
  <2>10. ss[1] = 46 /\ ww[1] < 64
    <3>1. CASE k = 0
      <4>1. s = <<>>
        BY <1>6, <3>1 DEF s
      <4>2. p = 0
        BY <4>1 DEF p
      <4>3. ss[p + 1] = t[1] /\ ww[p + 1] = v[1]
        BY <2>2, <2>8 DEF Joined
      <4> QED BY <2>2, <2>7, <4>2, <4>3
    <3>2. CASE k # 0
      <4>1. 1 <= p
        BY <2>4, <2>5, <3>2
      <4>2. ss[1] = s[1] /\ ww[1] = w[1]
        BY <2>8, <4>1 DEF Joined
      <4> QED BY <2>4, <3>2, <4>2
    <3> QED BY <3>1, <3>2
  <2> QED BY <2>3, <2>6, <2>9, <2>10 DEF t, v, ss, ww
<1>10. \A k \in Nat : k \in A
  <2> HIDE DEF Good
  <2>1. 0 \in A
    BY <1>8
  <2>2. ASSUME NEW k \in Nat, k \in A PROVE k + 1 \in A
    BY <1>1, <1>9, <2>2
  <2> HIDE DEF A
  <2> QED BY <2>1, <2>2, NatInductionOnSet
<1>11. Good(n)
  <2> HIDE DEF Good
  <2>1. n \in A /\ n <= n
    BY <1>1, <1>10
  <2> QED BY <2>1
<1> QED BY <1>1, <1>6, <1>7, <1>11

\* What a server reads of a name.
Spelled(w, l) ==
    /\ l \in Nat /\ 2 <= l /\ w \in Seq(Nat) /\ Len(w) = l /\ w[1] < 64 /\ w[l] = 0
    /\ \A i \in Nat : 1 <= i /\ i < l => w[i] # 0

\* How a name is written.
LEMMA WireIs ==
    ASSUME NEW name \in Names
    PROVE  Spelled(Dns!Wire(name), Len(Dns!Wire(name)))
<1> DEFINE w == Lengthened(name)
           p == Len(w)
           r == w \o << 0 >>
<1>1. Dns!Wire(name) = r
  BY DEF Dns!Wire, Lengthened
<1>2. /\ w \in Seq(Nat) /\ p \in Nat /\ p # 0 /\ w[1] < 64
      /\ \A i \in Nat : 1 <= i /\ i <= p => w[i] # 0
  BY NameCoded DEF Codes
<1> HIDE DEF w, p
<1>3. Joined(r, w, p, << 0 >>, 1)
  <2>1. << 0 >> \in Seq(Nat) /\ Len(<< 0 >>) = 1
    OBVIOUS
  <2> QED BY <1>2, <2>1, JoinIs DEF p
<1> HIDE DEF r
<1>4. /\ r \in Seq(Nat) /\ Len(r) = p + 1
      /\ \A i \in Nat : 1 <= i /\ i <= p => r[i] = w[i]
  BY <1>3 DEF Joined
<1>5. r[p + 1] = 0
  BY <1>3 DEF Joined
<1>6. Spelled(r, p + 1)
  <2>1. r[1] < 64
    BY <1>2, <1>4
  <2>2. ASSUME NEW i \in Nat, 1 <= i, i < p + 1 PROVE r[i] # 0
    BY <1>2, <1>4, <2>2
  <2> QED BY <1>2, <1>4, <1>5, <2>1, <2>2 DEF Spelled
<1> QED BY <1>1, <1>4, <1>6

\* The question is written as the server writes the name.
LEMMA EncodedIsWire ==
    ASSUME NEW name \in Names
    PROVE  Dns!Encoded(Dns!HostName(name)) = Dns!Wire(name)
<1> DEFINE s == Dotted(name)
           w == Lengthened(name)
           p == Len(s)
<1>1. Codes(w, s) /\ p # 0 /\ s[1] = 46
  BY NameCoded
<1>2. s \in Seq(Nat) /\ w \in Seq(Nat) /\ Len(w) = p /\ p \in Nat
  BY <1>1 DEF Codes
<1>3. Dns!HostName(name) = Tail(s)
  BY DEF Dns!HostName, Dotted, Dns!DOT
<1>4. Dns!Wire(name) = w \o << 0 >>
  BY DEF Dns!Wire, Lengthened
<1> HIDE DEF s, w, p
<1>5. << 46 >> \o Tail(s) = s
  <2>1. p = Len(s)
    BY DEF p
  <2> QED BY <1>1, <1>2, <2>1
<1> DEFINE End(i) == Dns!Min({ j \in (i + 1)..Len(s) : s[j] = 46 } \cup {Len(s) + 1})
<1>6. ASSUME NEW i \in 1..p, s[i] = 46 PROVE End(i) - i - 1 = w[i]
  <2> DEFINE e == i + 1 + w[i]
             S == { j \in (i + 1)..Len(s) : s[j] = 46 } \cup {Len(s) + 1}
  <2>1. DotAt(s, i, e)
    <3>1. i \in Nat /\ 1 <= i /\ i <= Len(s)
      BY <1>2 DEF p
    <3> QED BY <1>1, <1>6, <3>1 DEF Codes
  <2>2. w[i] \in Nat
    BY <1>2
  <2>3. /\ e \in Nat /\ i < e /\ e <= p + 1 /\ (e <= p => s[e] = 46)
        /\ \A j \in Nat : i < j /\ j < e => s[j] # 46
    BY <2>1 DEF DotAt, p
  <2> HIDE DEF e
  <2>4. Len(s) = p
    BY DEF p
  <2>5. e \in S
    <3>1. CASE e = p + 1
      BY <2>4, <3>1
    <3>2. CASE e # p + 1
      <4>1. e <= p /\ i + 1 <= e
        BY <1>2, <2>3, <3>2
      <4>2. e \in (i + 1)..p /\ s[e] = 46
        BY <1>2, <2>3, <4>1
      <4> QED BY <2>4, <4>2
    <3> QED BY <3>1, <3>2
  <2>6. ASSUME NEW j \in S PROVE j \in Nat /\ e <= j
    <3>1. CASE j = p + 1
      BY <1>2, <2>3, <3>1
    <3>2. CASE j \in (i + 1)..p /\ s[j] = 46
      <4>1. j \in Nat /\ i < j
        BY <1>2, <3>2
      <4>2. ~(j < e)
        BY <2>3, <3>2, <4>1
      <4> QED BY <2>3, <4>1, <4>2
    <3> QED BY <2>4, <2>6, <3>1, <3>2
  <2> HIDE DEF S
  <2>7. Dns!Min(S) = e
    <3> DEFINE c == CHOOSE j \in S : \A y \in S : j <= y
    <3>1. c \in S /\ \A y \in S : c <= y
      BY <2>5, <2>6
    <3> HIDE DEF c
    <3>2. c = e
      BY <2>3, <2>5, <2>6, <3>1
    <3> QED BY <3>2 DEF Dns!Min, c
  <2>8. End(i) = e
    BY <2>7 DEF S
  <2> HIDE DEF End
  <2> QED BY <2>2, <2>8 DEF e
<1> DEFINE f == [i \in DOMAIN s |-> IF s[i] = 46 THEN End(i) - i - 1 ELSE s[i]]
<1>7. Dns!Encoded(Dns!HostName(name)) = f \o << 0 >>
  BY <1>3, <1>5 DEF Dns!Encoded, Dns!DOT
<1>8. f = w
  <2> HIDE DEF End
  <2>1. DOMAIN s = 1..p /\ DOMAIN w = 1..p /\ w = [i \in 1..p |-> w[i]]
    BY <1>2 DEF p
  <2>2. ASSUME NEW i \in 1..p PROVE (IF s[i] = 46 THEN End(i) - i - 1 ELSE s[i]) = w[i]
    <3>1. CASE s[i] = 46
      BY <1>6, <3>1
    <3>2. CASE s[i] # 46
      <4>1. i \in Nat /\ 1 <= i /\ i <= Len(s)
        BY <1>2 DEF p
      <4>2. w[i] = s[i]
        BY <1>1, <3>2, <4>1 DEF Codes
      <4> QED BY <3>2, <4>2
    <3> QED BY <3>1, <3>2
  <2> QED BY <2>1, <2>2
<1> QED BY <1>4, <1>7, <1>8

-----------------------------------------------------------------------------
(* Look-ups: one record *)

\* A least number.
LEMMA MinIs ==
    ASSUME NEW S, S \subseteq Nat, S # {}
    PROVE  Dns!Min(S) \in S /\ \A x \in S : Dns!Min(S) <= x
<1> DEFINE A == { m \in Nat : \A x \in S : m < x }
<1>1. \E c \in S : \A x \in S : c <= x
  <2>1. SUFFICES ASSUME \A c \in S : \E x \in S : x < c PROVE FALSE
    OBVIOUS
  <2>2. ASSUME NEW x \in S PROVE 0 < x
    <3>1. PICK y \in S : y < x
      BY <2>1
    <3> QED BY <3>1
  <2>3. 0 \in A
    BY <2>2
  <2>4. ASSUME NEW m \in Nat, m \in A PROVE m + 1 \in A
    <3>1. ASSUME NEW x \in S PROVE m + 1 < x
      <4>1. PICK y \in S : y < x
        BY <2>1
      <4>2. m < y
        BY <2>4
      <4> QED BY <4>1, <4>2
    <3> QED BY <3>1
  <2>5. PICK x \in S : TRUE
    OBVIOUS
  <2>6. x \in Nat
    OBVIOUS
  <2> HIDE DEF A
  <2>7. x \in A
    BY <2>3, <2>4, <2>6, NatInductionOnSet
  <2> QED BY <2>5, <2>7 DEF A
<1> DEFINE c == CHOOSE c \in S : \A x \in S : c <= x
<1>2. c \in S /\ \A x \in S : c <= x
  BY <1>1
<1> QED BY <1>2 DEF Dns!Min

\* What is at i of the buffer.
Shows(b, i, s, l) == \A j \in Nat : j < l => Dns!Byte(b, i + j) = s[j + 1]

\* Below the index nothing wraps.
LEMMA IndexIs ==
    ASSUME NEW i \in Nat, i < INDEX
    PROVE  INDEX \in Nat /\ i % INDEX = i
BY NameIs

\* Over a pointer.
LEMMA PointerOver ==
    ASSUME NEW b, NEW n, NEW i \in Nat, i + 2 < INDEX, Dns!Byte(b, i) = 192
    PROVE  Dns!AfterName(b, n, i) = i + 2
<1>1. (i + 2) % INDEX = i + 2
  BY IndexIs
<1>2. 192 >= 64
  OBVIOUS
<1> QED BY <1>1, <1>2 DEF Dns!AfterName

\* Over a name in full that is not the end of the answer.
LEMMA NameOver ==
    ASSUME NEW b, NEW n \in Nat, NEW i \in Nat, NEW w, NEW l, Spelled(w, l), Shows(b, i, w, l),
           i + l + 12 <= n, n < INDEX
    PROVE  Dns!AfterName(b, n, i) = i + l
<1> DEFINE Place(k) == (i + k) % INDEX
           Ends == { k \in 1..INDEX : Dns!Byte(b, Place(k)) = 0 }
           Beyond == { k \in 0..(INDEX - 1) : Place(k) >= n - 7 }
<1>1. /\ l \in Nat /\ 2 <= l /\ INDEX \in Nat /\ w[1] < 64 /\ w[l] = 0
      /\ \A j \in Nat : 1 <= j /\ j < l => w[j] # 0
  BY NameIs DEF Spelled
<1>2. ASSUME NEW k \in Nat, k < l PROVE Place(k) = i + k /\ Dns!Byte(b, Place(k)) = w[k + 1] /\ k < INDEX
  <2>1. i + k \in Nat /\ i + k < INDEX /\ k < INDEX
    BY <1>1, <1>2
  <2>2. Place(k) = i + k
    BY <2>1, IndexIs
  <2> HIDE DEF Place
  <2> QED BY <1>2, <2>1, <2>2 DEF Shows
<1>3. ~(Dns!Byte(b, i) >= 64)
  <2>1. i + 0 = i /\ 0 \in Nat /\ 0 < l
    BY <1>1
  <2>2. Dns!Byte(b, i + 0) = w[0 + 1]
    BY <2>1 DEF Shows
  <2>3. w[1] \in Nat
    BY <1>1 DEF Spelled
  <2> QED BY <1>1, <2>1, <2>2, <2>3
<1>4. Place(l) = i + l
  <2>1. i + l \in Nat /\ i + l < INDEX
    BY <1>1
  <2> QED BY <2>1, IndexIs
<1> HIDE DEF Place
<1>5. l - 1 \in Ends
  <2>1. l - 1 \in Nat /\ l - 1 < l /\ 1 <= l - 1 /\ (l - 1) + 1 = l
    BY <1>1
  <2>2. Dns!Byte(b, Place(l - 1)) = w[(l - 1) + 1] /\ l - 1 < INDEX
    BY <1>2, <2>1
  <2> QED BY <1>1, <2>1, <2>2
<1>6. ASSUME NEW k \in Ends PROVE k \in Nat /\ l - 1 <= k
  <2>1. k \in Nat /\ 1 <= k /\ Dns!Byte(b, Place(k)) = 0
    BY <1>1
  <2>2. CASE k < l
    <3>1. w[k + 1] = 0
      BY <1>2, <2>1, <2>2
    <3>2. k + 1 \in Nat /\ 1 <= k + 1 /\ ~(k + 1 < l)
      BY <1>1, <2>1, <3>1
    <3> QED BY <1>1, <2>1, <3>2
  <2> QED BY <1>1, <2>1, <2>2
<1>7. ASSUME NEW k \in Beyond PROVE k \in Nat /\ l <= k
  <2>1. k \in Nat /\ Place(k) >= n - 7
    BY <1>1
  <2>2. CASE k < l
    <3>1. Place(k) = i + k
      BY <1>2, <2>1, <2>2
    <3> QED BY <1>1, <2>1, <2>2, <3>1
  <2> QED BY <1>1, <2>1, <2>2
<1> HIDE DEF Ends, Beyond
<1>8. Dns!Min(Ends) = l - 1
  <2>1. Ends \subseteq Nat /\ Ends # {}
    BY <1>5, <1>6
  <2>2. Dns!Min(Ends) \in Ends /\ \A x \in Ends : Dns!Min(Ends) <= x
    BY <2>1, MinIs
  <2> QED BY <1>1, <1>5, <1>6, <2>2
<1>9. ASSUME Beyond # {} PROVE ~(Dns!Min(Beyond) < Dns!Min(Ends))
  <2>1. Beyond \subseteq Nat
    BY <1>7
  <2>2. Dns!Min(Beyond) \in Beyond
    BY <1>9, <2>1, MinIs
  <2> QED BY <1>1, <1>7, <1>8, <2>2
<1>10. Ends # {}
  BY <1>5
<1>11. Dns!AfterName(b, n, i) = Place(Dns!Min(Ends) + 1)
  <2>1. Dns!Limit(n) = n - 7
    BY DEF Dns!Limit
  <2> QED BY <1>3, <1>9, <1>10, <2>1 DEF Dns!AfterName, Place, Ends, Beyond
<1>12. (l - 1) + 1 = l
  BY <1>1
<1> QED BY <1>4, <1>8, <1>11, <1>12

\* Over an alias, or to the end of the answer.
LEMMA AliasOver ==
    ASSUME NEW b, NEW n \in Nat, NEW i, NEW t \in Nat, Dns!AfterName(b, n, i) = t,
           t + 12 <= n, n < INDEX, Dns!Byte(b, t + 1) = 5, Dns!Byte(b, t + 9) = 2
    PROVE  Dns!Record(b, n, i) = IF t + 12 < n - 7 THEN Dns!GoOn(t + 12)
                                 ELSE Dns!Found(3, Dns!NoAddress)
<1>1. INDEX \in Nat /\ t + 8 \in Nat /\ t + 8 < INDEX /\ t + 12 \in Nat /\ t + 12 < INDEX
  BY NameIs
<1>2. (t + 8) % INDEX = t + 8 /\ (t + 12) % INDEX = t + 12
  BY <1>1, IndexIs
<1>3. (t + 8) + 1 = t + 9 /\ (t + 8) + 2 + 2 = t + 12
  OBVIOUS
<1>4. Dns!AfterRecord(b, t) = t + 12
  BY <1>2, <1>3 DEF Dns!AfterRecord
<1>5. t # -1 /\ 5 # 1 /\ Dns!Limit(n) = n - 7
  BY DEF Dns!Limit
<1> QED BY <1>4, <1>5 DEF Dns!Record

\* An address is read.
LEMMA AddressRead ==
    ASSUME NEW b, NEW n \in Nat, NEW i, NEW t \in Nat, Dns!AfterName(b, n, i) = t,
           t + 14 <= n, n < INDEX, Dns!Byte(b, t + 1) = 1, Dns!Byte(b, t + 9) = 4,
           NEW a \in [1..4 -> Nat], Shows(b, t + 10, a, 4)
    PROVE  Dns!Record(b, n, i) = Dns!Found(0, a)
<1>1. t + 10 \in Nat /\ t + 10 < INDEX
  BY NameIs
<1>2. (t + 10) % INDEX = t + 10
  BY <1>1, IndexIs
<1>3. t # -1
  OBVIOUS
<1>4. ASSUME NEW j \in 1..4 PROVE Dns!Byte(b, t + 10 + j - 1) = a[j]
  <2>1. j - 1 \in Nat /\ j - 1 < 4 /\ (j - 1) + 1 = j /\ t + 10 + (j - 1) = t + 10 + j - 1
    OBVIOUS
  <2> QED BY <2>1 DEF Shows
<1>5. [j \in 1..4 |-> Dns!Byte(b, t + 10 + j - 1)] = a
  BY <1>4
<1> QED BY <1>2, <1>3, <1>5 DEF Dns!Record

-----------------------------------------------------------------------------
(* Look-ups: the walk *)

\* Every byte is a number.
LEMMA ByteNat ==
    ASSUME NEW b \in Seq(Nat), NEW i \in Nat
    PROVE  Dns!Byte(b, i) \in Nat
<1>1. CASE i < Len(b)
  <2>1. i + 1 \in 1..Len(b)
    BY <1>1
  <2> QED BY <1>1, <2>1 DEF Dns!Byte
<1>2. CASE ~(i < Len(b))
  BY <1>2 DEF Dns!Byte
<1> QED BY <1>1, <1>2

\* An index stays below its end.
LEMMA IndexBelow ==
    ASSUME NEW x \in Nat
    PROVE  x % INDEX \in Nat /\ x % INDEX < INDEX
BY NameIs

\* The name is stepped over, or the search has no end.
LEMMA AfterNameTyped ==
    ASSUME NEW b \in Seq(Nat), NEW n \in Nat, NEW i \in Nat
    PROVE  Dns!AfterName(b, n, i) = -1 \/ Dns!AfterName(b, n, i) \in Nat
<1> DEFINE Place(k) == (i + k) % INDEX
           Ends == { k \in 1..INDEX : Dns!Byte(b, Place(k)) = 0 }
           Beyond == { k \in 0..(INDEX - 1) : Place(k) >= Dns!Limit(n) }
           t == Dns!AfterName(b, n, i)
<1>1. \/ t = Place(2)
      \/ Beyond # {} /\ t = Place(Dns!Min(Beyond))
      \/ Ends # {} /\ t = Place(Dns!Min(Ends) + 1)
      \/ t = -1
  <2>1. t = IF Dns!Byte(b, i) >= 64 THEN Place(2)
            ELSE IF Beyond # {} /\ (Ends = {} \/ Dns!Min(Beyond) < Dns!Min(Ends)) THEN Place(Dns!Min(Beyond))
            ELSE IF Ends # {} THEN Place(Dns!Min(Ends) + 1)
            ELSE -1
    BY DEF Dns!AfterName
  <2> HIDE DEF Place, Ends, Beyond, t
  <2> QED BY <2>1
<1>2. ASSUME NEW k \in Nat PROVE Place(k) \in Nat
  BY IndexBelow
<1>3. Ends \subseteq Nat /\ Beyond \subseteq Nat
  BY NameIs
<1> HIDE DEF Place, Ends, Beyond, t
<1>5. Beyond # {} => Place(Dns!Min(Beyond)) \in Nat
  BY <1>2, <1>3, MinIs
<1>6. Ends # {} => Place(Dns!Min(Ends) + 1) \in Nat
  <2>1. Ends # {} => Dns!Min(Ends) \in Nat
    BY <1>3, MinIs
  <2> QED BY <1>2, <2>1
<1>7. t = -1 \/ t \in Nat
  BY <1>1, <1>2, <1>5, <1>6
<1> QED BY <1>7 DEF t

\* From one record the walk goes on to an index, or it is over.
LEMMA RecordGoes ==
    ASSUME NEW b \in Seq(Nat), NEW n \in Nat, NEW i \in Nat
    PROVE  LET r == Dns!Record(b, n, i) IN r.at = -1 \/ (r.at \in Nat /\ r.at < INDEX)
<1> DEFINE t == Dns!AfterName(b, n, i)
           r == Dns!Record(b, n, i)
<1>1. t = -1 \/ t \in Nat
  BY AfterNameTyped
<1>2. ASSUME t \in Nat PROVE Dns!AfterRecord(b, t) \in Nat /\ Dns!AfterRecord(b, t) < INDEX
  <2> DEFINE x == (t + 8) % INDEX
  <2>1. x \in Nat
    <3>1. t + 8 \in Nat
      BY <1>2
    <3> QED BY <3>1, IndexBelow
  <2>2. Dns!AfterRecord(b, t) = (x + Dns!Byte(b, x + 1) + 2) % INDEX
    BY DEF Dns!AfterRecord
  <2> HIDE DEF x
  <2>3. x + Dns!Byte(b, x + 1) + 2 \in Nat
    BY <2>1, ByteNat, SMTT(60)
  <2> QED BY <2>2, <2>3, IndexBelow
<1>3. r.at = -1 \/ (t # -1 /\ r.at = Dns!AfterRecord(b, t))
  <2> DEFINE A == Dns!AfterRecord(b, t)
             F == [j \in 1..4 |-> Dns!Byte(b, ((t + 10) % INDEX) + j - 1)]
  <2>1. \/ r = Dns!Hangs
        \/ t # -1 /\ r = Dns!GoOn(A)
        \/ r = Dns!Found(3, Dns!NoAddress)
        \/ r = Dns!Found(2, Dns!NoAddress)
        \/ r = Dns!Found(0, F)
    BY DEF Dns!Record
  <2> HIDE DEF A, F, r, t
  <2>2. \/ r.at = -1
        \/ t # -1 /\ r.at = A
    BY <2>1 DEF Dns!Hangs, Dns!Found, Dns!GoOn
  <2> QED BY <2>2 DEF A
<1> HIDE DEF t, r
<1>4. r.at = -1 \/ (r.at \in Nat /\ r.at < INDEX)
  BY <1>1, <1>2, <1>3
<1> QED BY <1>4 DEF r

\* One record after the other.
Steps(b, n, f) ==
    \A k \in Nat, i \in Nat : k < INDEX /\ i < INDEX =>
        f[k + 1][i] = LET r == Dns!Record(b, n, i) IN IF r.at = -1 THEN r ELSE f[k][r.at]

\* The walk goes from record to record.
LEMMA WalkSteps ==
    ASSUME NEW b \in Seq(Nat), NEW n \in Nat
    PROVE  \E f : /\ Steps(b, n, f)
                  /\ Dns!Walk(b, n) = f[INDEX][(12 + Dns!Byte(b, 0)) % INDEX]
<1> DEFINE I == 0..(INDEX - 1)
           Rec(i) == Dns!Record(b, n, i)
           R == { Rec(i) : i \in I } \cup {Dns!Hangs}
           S == [I -> R]
           a == [i \in I |-> Dns!Hangs]
           step == [x \in (1..INDEX) \X S |-> [i \in I |-> IF Rec(i).at = -1 THEN Rec(i) ELSE x[2][Rec(i).at]]]
<1>1. INDEX \in Nat /\ INDEX # 0
  BY NameIs
<1>2. ASSUME NEW i \in I PROVE Rec(i).at = -1 \/ Rec(i).at \in I
  <2>1. i \in Nat
    BY <1>1
  <2>2. Rec(i).at = -1 \/ (Rec(i).at \in Nat /\ Rec(i).at < INDEX)
    BY <2>1, RecordGoes
  <2> HIDE DEF Rec
  <2> QED BY <1>1, <2>2
<1> HIDE DEF I, Rec
<1>3. a \in S
  OBVIOUS
<1>4. step \in [(1..INDEX) \X S -> S]
  <2>1. ASSUME NEW x \in (1..INDEX) \X S, NEW i \in I
        PROVE  (IF Rec(i).at = -1 THEN Rec(i) ELSE x[2][Rec(i).at]) \in R
    <3>1. x[2] \in S
      BY <2>1
    <3>2. ASSUME Rec(i).at \in I PROVE x[2][Rec(i).at] \in R
      BY <3>1, <3>2
    <3>3. Rec(i) \in R
      BY <2>1
    <3> HIDE DEF R
    <3> QED BY <1>2, <2>1, <3>2, <3>3
  <2> HIDE DEF R
  <2> QED BY <2>1
<1>5. PICK g \in [0..INDEX -> S] : IsRecursive(g, INDEX, a, step)
  <2> HIDE DEF S, a, step
  <2> QED BY <1>1, <1>3, <1>4, RecursionExists
<1>6. g[0] = a
  BY <1>5 DEF IsRecursive
<1>7. ASSUME NEW k \in 1..INDEX
      PROVE  g[k] = [i \in I |-> IF Rec(i).at = -1 THEN Rec(i) ELSE g[k - 1][Rec(i).at]]
  <2>1. k - 1 \in 0..INDEX
    BY <1>1
  <2>2. g[k - 1] \in S
    <3> HIDE DEF S
    <3> QED BY <2>1
  <2>3. g[k] = step[<<k, g[k - 1]>>]
    <3> HIDE DEF step
    <3> QED BY <1>5 DEF IsRecursive
  <2> HIDE DEF S
  <2>4. <<k, g[k - 1]>> \in (1..INDEX) \X S
    BY <2>2
  <2> QED BY <2>3, <2>4
<1> DEFINE Eq(h) == [k \in 0..INDEX |->
                        [i \in I |-> IF k = 0 THEN Dns!Hangs
                                     ELSE IF Rec(i).at = -1 THEN Rec(i) ELSE h[k - 1][Rec(i).at]]]
<1>8. g = Eq(g)
  <2>1. ASSUME NEW k \in 0..INDEX PROVE g[k] = Eq(g)[k]
    <3>1. CASE k = 0
      BY <1>6, <3>1
    <3>2. CASE k # 0
      <4>1. k \in 1..INDEX
        BY <1>1, <3>2
      <4> QED BY <1>7, <3>2, <4>1
    <3> QED BY <3>1, <3>2
  <2>2. DOMAIN g = 0..INDEX /\ DOMAIN Eq(g) = 0..INDEX
    <3> HIDE DEF S
    <3> QED OBVIOUS
  <2>3. g = [k \in 0..INDEX |-> g[k]] /\ Eq(g) = [k \in 0..INDEX |-> Eq(g)[k]]
    <3> HIDE DEF S
    <3> QED OBVIOUS
  <2> HIDE DEF Eq
  <2> QED BY <2>1, <2>3
<1> DEFINE found == CHOOSE h : h = Eq(h)
<1>9. found = Eq(found)
  <2> HIDE DEF Eq
  <2> QED BY <1>8
<1>10. Dns!Walk(b, n) = found[INDEX][(12 + Dns!Byte(b, 0)) % INDEX]
  BY DEF Dns!Walk, I, Rec
<1> HIDE DEF found
<1>11. Steps(b, n, found)
  <2> SUFFICES ASSUME NEW k \in Nat, NEW i \in Nat, k < INDEX, i < INDEX
               PROVE  found[k + 1][i] = IF Rec(i).at = -1 THEN Rec(i) ELSE found[k][Rec(i).at]
    BY DEF Steps, Rec
  <2>1. k + 1 \in 0..INDEX /\ k + 1 # 0 /\ (k + 1) - 1 = k
    BY <1>1
  <2>2. i \in I
    BY <1>1 DEF I
  <2>3. found[k + 1] = Eq(found)[k + 1]
    <3> HIDE DEF Eq
    <3> QED BY <1>9
  <2>4. Eq(found)[k + 1] = [j \in I |-> IF k + 1 = 0 THEN Dns!Hangs
                                        ELSE IF Rec(j).at = -1 THEN Rec(j) ELSE found[(k + 1) - 1][Rec(j).at]]
    BY <2>1
  <2> QED BY <2>1, <2>2, <2>3, <2>4
<1> QED BY <1>10, <1>11

-----------------------------------------------------------------------------
(* Look-ups: answers *)

\* A name as a pointer, or in full.
Scribed(v, l) == v \in Seq(Nat) /\ l \in Nat /\ Len(v) = l /\ ((l = 2 /\ v[1] = 192) \/ Spelled(v, l))

\* A server that writes names by pointers or in full.
LEMMA WrittenIs ==
    ASSUME NEW name \in Names, NEW form \in {"pointer", "full"},
           NEW v, v = Dns!Written(form, name)
    PROVE  Scribed(v, Len(v)) /\ 2 <= Len(v)
<1>1. CASE form = "pointer"
  <2>1. v = <<192, 12>>
    BY <1>1 DEF Dns!Written
  <2> QED BY <2>1 DEF Scribed
<1>2. CASE form = "full"
  <2>1. v = Dns!Wire(name)
    BY <1>2 DEF Dns!Written
  <2> QED BY <2>1, WireIs DEF Scribed, Spelled
<1> QED BY <1>1, <1>2

\* It is stepped over.
LEMMA ScribedOver ==
    ASSUME NEW b, NEW n \in Nat, NEW i \in Nat, NEW v, NEW l, Scribed(v, l), Shows(b, i, v, l),
           i + l + 12 <= n, n < INDEX
    PROVE  Dns!AfterName(b, n, i) = i + l
<1>1. CASE l = 2 /\ v[1] = 192
  <2>1. 0 \in Nat /\ 0 < l /\ i + 0 = i
    BY <1>1
  <2>2. Dns!Byte(b, i + 0) = v[0 + 1]
    BY <2>1 DEF Shows
  <2>3. Dns!Byte(b, i) = 192 /\ i + 2 < INDEX
    BY <1>1, <2>1, <2>2, NameIs
  <2> QED BY <1>1, <2>3, PointerOver
<1>2. CASE Spelled(v, l)
  BY <1>2, NameOver
<1> QED BY <1>1, <1>2 DEF Scribed

\* A record: its name, its type, the length of its data, its data.
Recorded(s, v, l, type, data, d) ==
    /\ l \in Nat /\ d \in Nat /\ s \in Seq(Nat) /\ Len(s) = l + 10 + d
    /\ \A i \in Nat : 1 <= i /\ i <= l => s[i] = v[i]
    /\ s[l + 2] = type /\ s[l + 10] = d
    /\ \A i \in Nat : 1 <= i /\ i <= d => s[l + 10 + i] = data[i]

\* What is put together so is a record.
LEMMA RecordedIs ==
    ASSUME NEW v, NEW l, Scribed(v, l), NEW type \in Nat, NEW data \in Seq(Nat), NEW d, d = Len(data)
    PROVE  Recorded(v \o <<0, type, 0, 1, 0, 0, 0, 60, 0, d>> \o data, v, l, type, data, d)
<1> DEFINE h == <<0, type, 0, 1, 0, 0, 0, 60, 0, d>>
           x == v \o h
           s == x \o data
<1>1. l \in Nat /\ d \in Nat /\ v \in Seq(Nat) /\ Len(v) = l
  BY DEF Scribed
<1>2. h \in Seq(Nat) /\ Len(h) = 10 /\ h[2] = type /\ h[10] = d
  BY <1>1
<1> HIDE DEF h
<1>3. Joined(x, v, l, h, 10)
  BY <1>1, <1>2, JoinIs
<1> HIDE DEF x
<1>4. x \in Seq(Nat) /\ Len(x) = l + 10
  BY <1>3 DEF Joined
<1>5. Joined(s, x, l + 10, data, d)
  BY <1>4, JoinIs
<1> HIDE DEF s
<1>6. s \in Seq(Nat) /\ Len(s) = l + 10 + d
  BY <1>5 DEF Joined
<1>7. ASSUME NEW i \in Nat, 1 <= i, i <= l PROVE s[i] = v[i]
  <2>1. i <= l + 10
    BY <1>1, <1>7
  <2>2. s[i] = x[i]
    BY <1>5, <1>7, <2>1 DEF Joined
  <2>3. x[i] = v[i]
    BY <1>3, <1>7 DEF Joined
  <2> QED BY <2>2, <2>3
<1>8. ASSUME NEW i \in Nat, 1 <= i, i <= 10 PROVE s[l + i] = h[i]
  <2>1. l + i \in Nat /\ 1 <= l + i /\ l + i <= l + 10
    BY <1>1, <1>8
  <2>2. s[l + i] = x[l + i]
    BY <1>5, <2>1 DEF Joined
  <2>3. x[l + i] = h[i]
    BY <1>3, <1>8 DEF Joined
  <2> QED BY <2>2, <2>3
<1>9. s[l + 2] = type /\ s[l + 10] = d
  <2>1. s[l + 2] = h[2] /\ s[l + 10] = h[10]
    BY <1>8
  <2> QED BY <1>2, <2>1
<1>10. ASSUME NEW i \in Nat, 1 <= i, i <= d PROVE s[l + 10 + i] = data[i]
  BY <1>5, <1>10 DEF Joined
<1>11. Recorded(s, v, l, type, data, d)
  BY <1>1, <1>6, <1>7, <1>9, <1>10 DEF Recorded
<1> QED BY <1>11 DEF s, x, h

\* c aliases s, each of a bytes, and an address of a + 2 or nothing.
Answered(r, c, s, a, x, address) ==
    /\ c \in Nat /\ a \in Nat /\ r \in Seq(Nat) /\ Len(r) = c * a + IF address THEN a + 2 ELSE 0
    /\ \A k \in Nat, j \in Nat : k < c /\ 1 <= j /\ j <= a => r[k * a + j] = s[j]
    /\ address => \A j \in Nat : 1 <= j /\ j <= a + 2 => r[c * a + j] = x[j]

\* The records of an answer, e bytes.
RecordsOf(r, e, name, c, address) ==
    \E v, l, s, x :
        /\ Scribed(v, l) /\ l \in Nat /\ 2 <= l
        /\ Recorded(s, v, l, 5, <<192, 12>>, 2)
        /\ Recorded(x, v, l, 1, Dns!Address(name), 4)
        /\ Answered(r, c, s, l + 12, x, address) /\ e = Len(r)

\* The records a server sends.
LEMMA RecordsAre ==
    ASSUME NEW name \in Names, NEW form \in {"pointer", "full"}, NEW c \in Nat, NEW address \in BOOLEAN,
           NEW e, e = Len(Dns!Records(form, name, c, address))
    PROVE  RecordsOf(Dns!Records(form, name, c, address), e, name, c, address)
<1> DEFINE v == Dns!Written(form, name)
           l == Len(v)
           z == Dns!Address(name)
           s == v \o <<0, 5, 0, 1, 0, 0, 0, 60, 0, 2>> \o <<192, 12>>
           x == v \o <<0, 1, 0, 1, 0, 0, 0, 60, 0, 4>> \o z
           a == l + 12
           p == c * a
           r == Dns!Records(form, name, c, address)
           cs == Dns!FlattenSeq([k \in 1..c |-> s])
           y == IF address THEN x ELSE <<>>
           m == IF address THEN a + 2 ELSE 0
<1>1. Scribed(v, l) /\ 2 <= l
  BY WrittenIs
<1>2. l \in Nat
  BY <1>1 DEF Scribed
<1>3. z \in Seq(Nat) /\ Len(z) = 4 /\ <<192, 12>> \in Seq(Nat) /\ Len(<<192, 12>>) = 2
  BY NameOf DEF Dns!Address
<1>4. Dns!Alias(form, name) = s
  BY <1>3 DEF Dns!Alias, Dns!Resource, Dns!CNAME
<1>5. Dns!Resource(form, name, 1, Dns!Address(name)) = x
  BY <1>3 DEF Dns!Resource
<1>6. r = cs \o y
  BY <1>4, <1>5 DEF Dns!Records
<1> HIDE DEF v, l, z
<1>7. Recorded(s, v, l, 5, <<192, 12>>, 2)
  BY <1>1, <1>3, RecordedIs
<1>8. Recorded(x, v, l, 1, z, 4)
  BY <1>1, <1>3, RecordedIs
<1> HIDE DEF s, x, r
<1>9. s \in Seq(Nat) /\ Len(s) = a /\ x \in Seq(Nat) /\ Len(x) = a + 2
  BY <1>2, <1>7, <1>8 DEF Recorded
<1>10. a \in Nat /\ p \in Nat
  BY <1>2
<1>18. Copied(cs, s, c, Len(s)) /\ Len(s) = a /\ p = c * a
  BY <1>9, CopiesIs
<1> HIDE DEF cs, a, p
<1>11. /\ cs \in Seq(Nat) /\ Len(cs) = p
       /\ \A k \in Nat, j \in Nat : k < c /\ 1 <= j /\ j <= a => cs[k * a + j] = s[j]
  BY <1>18 DEF Copied
<1>12. y \in Seq(Nat) /\ Len(y) = m
  BY <1>9, <1>10
<1> HIDE DEF y, m
<1>13. Joined(r, cs, p, y, m)
  BY <1>6, <1>10, <1>11, <1>12, JoinIs
<1>14. r \in Seq(Nat) /\ Len(r) = p + m
  BY <1>13 DEF Joined
<1>15. ASSUME NEW k \in Nat, NEW j \in Nat, k < c, 1 <= j, j <= a PROVE r[k * a + j] = s[j]
  <2> DEFINE q == k * a
             i == q + j
  <2>1. q \in Nat /\ q + a <= p
    BY <1>10, <1>15, BlocksBefore DEF p
  <2>2. cs[i] = s[j]
    BY <1>11, <1>15
  <2> HIDE DEF q
  <2>3. i \in Nat /\ 1 <= i /\ i <= p
    BY <1>10, <1>15, <2>1
  <2> HIDE DEF i
  <2>4. r[i] = cs[i]
    BY <1>13, <2>3 DEF Joined
  <2>5. r[i] = s[j]
    BY <2>2, <2>4
  <2> QED BY <2>5 DEF i, q
<1>16. ASSUME address, NEW j \in Nat, 1 <= j, j <= a + 2 PROVE r[p + j] = x[j]
  <2>1. y = x /\ m = a + 2
    BY <1>16 DEF y, m
  <2> QED BY <1>13, <1>16, <2>1 DEF Joined
<1>17. Answered(r, c, s, a, x, address)
  BY <1>10, <1>14, <1>15, <1>16 DEF Answered, p, m
<1>19. RecordsOf(r, e, name, c, address)
  <2>1. e = Len(r)
    BY DEF r
  <2> QED BY <1>1, <1>2, <1>7, <1>8, <1>17, <2>1 DEF a, z, RecordsOf
<1> QED BY <1>19 DEF r

-----------------------------------------------------------------------------
(* Look-ups: what the walk finds *)

\* A record in the buffer, before the end of the answer.
Laid(b, n, i, v, l, s, type, data, d) ==
    /\ n \in Nat /\ n < INDEX /\ i \in Nat /\ i + Len(s) <= n /\ 2 <= d
    /\ Scribed(v, l) /\ Recorded(s, v, l, type, data, d) /\ Shows(b, i, s, Len(s))

\* What the walk reads of it.
LEMMA RecordSeen ==
    ASSUME NEW b, NEW n, NEW i, NEW v, NEW l, NEW s, NEW type, NEW data, NEW d,
           Laid(b, n, i, v, l, s, type, data, d)
    PROVE  /\ l \in Nat /\ Dns!AfterName(b, n, i) = i + l
           /\ Dns!Byte(b, i + l + 1) = type /\ Dns!Byte(b, i + l + 9) = d
           /\ Shows(b, i + l + 10, data, d)
<1> DEFINE e == Len(s)
<1>0. /\ n \in Nat /\ n < INDEX /\ i \in Nat /\ i + e <= n /\ 2 <= d /\ e = Len(s)
      /\ Scribed(v, l) /\ Recorded(s, v, l, type, data, d) /\ Shows(b, i, s, e)
  BY DEF Laid
<1> HIDE DEF e
<1>1. l \in Nat /\ d \in Nat /\ e = l + 10 + d
  BY <1>0 DEF Recorded
<1>2. ASSUME NEW j \in Nat, j < e PROVE Dns!Byte(b, i + j) = s[j + 1]
  BY <1>0, <1>2 DEF Shows
<1>3. Shows(b, i, v, l)
  <2>1. ASSUME NEW j \in Nat, j < l PROVE Dns!Byte(b, i + j) = v[j + 1]
    <3>1. j + 1 \in Nat /\ 1 <= j + 1 /\ j + 1 <= l /\ j < e
      BY <1>0, <1>1, <2>1
    <3>2. Dns!Byte(b, i + j) = s[j + 1]
      BY <1>2, <3>1
    <3>3. s[j + 1] = v[j + 1]
      BY <1>0, <3>1 DEF Recorded
    <3> QED BY <3>2, <3>3
  <2> QED BY <2>1 DEF Shows
<1>4. Dns!AfterName(b, n, i) = i + l
  <2>1. i + l + 12 <= n
    BY <1>0, <1>1
  <2> QED BY <1>0, <1>1, <1>3, <2>1, ScribedOver
<1>5. Dns!Byte(b, i + l + 1) = type
  <2>1. l + 1 \in Nat /\ l + 1 < e /\ i + (l + 1) = i + l + 1 /\ (l + 1) + 1 = l + 2
    BY <1>0, <1>1
  <2>2. Dns!Byte(b, i + (l + 1)) = s[(l + 1) + 1]
    BY <1>2, <2>1
  <2>3. s[l + 2] = type
    BY <1>0 DEF Recorded
  <2> QED BY <2>1, <2>2, <2>3
<1>6. Dns!Byte(b, i + l + 9) = d
  <2>1. l + 9 \in Nat /\ l + 9 < e /\ i + (l + 9) = i + l + 9 /\ (l + 9) + 1 = l + 10
    BY <1>0, <1>1
  <2>2. Dns!Byte(b, i + (l + 9)) = s[(l + 9) + 1]
    BY <1>2, <2>1
  <2>3. s[l + 10] = d
    BY <1>0 DEF Recorded
  <2> QED BY <2>1, <2>2, <2>3
<1>7. Shows(b, i + l + 10, data, d)
  <2>1. ASSUME NEW j \in Nat, j < d PROVE Dns!Byte(b, i + l + 10 + j) = data[j + 1]
    <3> DEFINE q == l + 10 + j
               g == j + 1
    <3>1. q \in Nat /\ q < e /\ i + q = i + l + 10 + j /\ q + 1 = l + 10 + g
      BY <1>0, <1>1, <2>1
    <3>2. g \in Nat /\ 1 <= g /\ g <= d
      BY <1>0, <1>1, <2>1
    <3> HIDE DEF q
    <3>3. Dns!Byte(b, i + q) = s[q + 1]
      BY <1>2, <3>1
    <3> HIDE DEF g
    <3>4. s[l + 10 + g] = data[g]
      BY <1>0, <3>2 DEF Recorded
    <3>5. Dns!Byte(b, i + l + 10 + j) = data[g]
      BY <3>1, <3>3, <3>4
    <3> QED BY <3>5 DEF g
  <2> QED BY <2>1 DEF Shows
<1> QED BY <1>1, <1>4, <1>5, <1>6, <1>7

\* Aliases at p[0], p[1] ...; after the last of c the address, or nothing.
Chain(b, n, p, c, address, z) ==
    /\ \A k \in Nat : k <= c => p[k] \in Nat /\ (k < c \/ address => p[k] < INDEX)
    /\ \A k \in Nat : k < c =>
          Dns!Record(b, n, p[k]) = IF k + 1 < c \/ address THEN Dns!GoOn(p[k + 1])
                                   ELSE Dns!Found(3, Dns!NoAddress)
    /\ address => Dns!Record(b, n, p[c]) = Dns!Found(0, z)

\* The walk along them.
LEMMA ChainWalked ==
    ASSUME NEW b, NEW n, NEW f, Steps(b, n, f), NEW p, NEW c \in Nat, NEW address \in BOOLEAN, NEW z,
           Chain(b, n, p, c, address, z), address \/ c # 0, c < INDEX
    PROVE  f[INDEX][p[0]] = IF address THEN Dns!Found(0, z) ELSE Dns!Found(3, Dns!NoAddress)
<1> DEFINE result == IF address THEN Dns!Found(0, z) ELSE Dns!Found(3, Dns!NoAddress)
           Good(m) == \A k \in Nat, j \in Nat :
                          /\ k + m = c /\ m < j /\ j <= INDEX /\ (address \/ m # 0)
                          => f[j][p[k]] = result
           A == { m \in Nat : Good(m) }
<1>1. INDEX \in Nat
  BY NameIs
<1>2. ASSUME NEW k \in Nat, NEW j \in Nat, k <= c, k < c \/ address, j < INDEX
      PROVE  f[j + 1][p[k]] = LET r == Dns!Record(b, n, p[k]) IN IF r.at = -1 THEN r ELSE f[j][r.at]
  <2>1. p[k] \in Nat /\ p[k] < INDEX
    BY <1>2 DEF Chain
  <2> QED BY <1>2, <2>1 DEF Steps
<1>3. Good(0)
  <2> SUFFICES ASSUME NEW k \in Nat, NEW j \in Nat, k + 0 = c, 0 < j, j <= INDEX, address
               PROVE  f[j][p[k]] = Dns!Found(0, z)
    OBVIOUS
  <2>1. j - 1 \in Nat /\ (j - 1) + 1 = j /\ j - 1 < INDEX /\ k = c /\ k <= c
    BY <1>1
  <2>2. Dns!Record(b, n, p[k]) = Dns!Found(0, z)
    BY <2>1 DEF Chain
  <2>3. Dns!Found(0, z).at = -1
    BY DEF Dns!Found
  <2>4. f[(j - 1) + 1][p[k]] = Dns!Found(0, z)
    BY <1>2, <2>1, <2>2, <2>3
  <2> QED BY <2>1, <2>4
<1>4. ASSUME NEW m \in Nat, Good(m) PROVE Good(m + 1)
  <2> HIDE DEF result
  <2> SUFFICES ASSUME NEW k \in Nat, NEW j \in Nat, k + (m + 1) = c, m + 1 < j, j <= INDEX
               PROVE  f[j][p[k]] = result
    BY DEF Good
  <2> DEFINE h == j - 1
  <2>1. h \in Nat /\ h + 1 = j /\ h < INDEX /\ h <= INDEX /\ m < h /\ k < c /\ k <= c /\ k + 1 \in Nat
        /\ (k + 1) + m = c /\ (k + 1 < c <=> m # 0) /\ k + 1 <= c
    BY <1>1
  <2> HIDE DEF h
  <2> DEFINE R == Dns!Record(b, n, p[k])
  <2>2. f[h + 1][p[k]] = IF R.at = -1 THEN R ELSE f[h][R.at]
    BY <1>2, <2>1
  <2>3. CASE m # 0 \/ address
    <3>1. f[h][p[k + 1]] = result
      BY <1>4, <2>1, <2>3
    <3>2. R = Dns!GoOn(p[k + 1])
      BY <2>1, <2>3 DEF Chain
    <3>3. p[k + 1] \in Nat
      BY <2>1 DEF Chain
    <3>4. R.at = p[k + 1] /\ R.at # -1
      BY <3>2, <3>3 DEF Dns!GoOn
    <3> HIDE DEF R
    <3>5. f[h + 1][p[k]] = result
      BY <2>2, <3>1, <3>4
    <3> QED BY <2>1, <3>5
  <2>4. CASE ~(m # 0 \/ address)
    <3>1. R = Dns!Found(3, Dns!NoAddress)
      BY <2>1, <2>4 DEF Chain
    <3>2. R.at = -1
      BY <3>1 DEF Dns!Found
    <3>3. result = Dns!Found(3, Dns!NoAddress)
      BY <2>4 DEF result
    <3> HIDE DEF R
    <3>4. f[h + 1][p[k]] = result
      BY <2>2, <3>1, <3>2, <3>3
    <3> QED BY <2>1, <3>4
  <2> QED BY <2>3, <2>4
<1> HIDE DEF Good, result
<1>5. \A m \in Nat : m \in A
  <2>1. 0 \in A
    BY <1>3
  <2>2. ASSUME NEW m \in Nat, m \in A PROVE m + 1 \in A
    BY <1>4, <2>2
  <2> HIDE DEF A
  <2> QED BY <2>1, <2>2, NatInductionOnSet
<1>6. Good(c)
  BY <1>5
<1>7. f[INDEX][p[0]] = result
  <2>1. 0 \in Nat /\ 0 + c = c /\ INDEX <= INDEX /\ (address \/ c # 0)
    BY <1>1
  <2> QED BY <1>1, <1>6, <2>1 DEF Good
<1> QED BY <1>7 DEF result

\* An alias in the buffer.
LEMMA AliasSeen ==
    ASSUME NEW b, NEW n, NEW h, NEW v, NEW l, NEW s, NEW a, n \in Nat, n < INDEX, h \in Nat, Scribed(v, l),
           Recorded(s, v, l, 5, <<192, 12>>, 2), a = l + 12, Shows(b, h, s, a), h + a <= n
    PROVE  Dns!Record(b, n, h) = IF h + a < n - 7 THEN Dns!GoOn(h + a) ELSE Dns!Found(3, Dns!NoAddress)
<1> DEFINE type == 5
           data == <<192, 12>>
           d == 2
<1>1. /\ l \in Nat /\ a = Len(s) /\ 2 <= d
      /\ Recorded(s, v, l, type, data, d)
  BY DEF Recorded
<1>6. Laid(b, n, h, v, l, s, type, data, d)
  BY <1>1 DEF Laid
<1> HIDE DEF type, data, d
<1>0. Dns!AfterName(b, n, h) = h + l /\ Dns!Byte(b, h + l + 1) = type /\ Dns!Byte(b, h + l + 9) = d
  BY <1>6, RecordSeen
<1>2. Dns!AfterName(b, n, h) = h + l /\ Dns!Byte(b, h + l + 1) = 5 /\ Dns!Byte(b, h + l + 9) = 2
  BY <1>0 DEF type, d
<1> DEFINE t == h + l
<1>3. t \in Nat /\ t + 12 = h + a
  BY <1>1
<1>4. Dns!AfterName(b, n, h) = t /\ Dns!Byte(b, t + 1) = 5 /\ Dns!Byte(b, t + 9) = 2
  BY <1>2
<1> HIDE DEF t
<1>5. t + 12 <= n
  BY <1>3
<1>7. Dns!Record(b, n, h) = IF t + 12 < n - 7 THEN Dns!GoOn(t + 12) ELSE Dns!Found(3, Dns!NoAddress)
  BY <1>3, <1>4, <1>5, AliasOver
<1> QED BY <1>3, <1>7

\* An address in the buffer.
LEMMA AddressSeen ==
    ASSUME NEW b, NEW n, NEW h, NEW v, NEW l, NEW x, NEW z, NEW a, n \in Nat, n < INDEX, h \in Nat,
           Scribed(v, l), z \in [1..4 -> Nat], Recorded(x, v, l, 1, z, 4),
           a = l + 14, Shows(b, h, x, a), h + a <= n
    PROVE  Dns!Record(b, n, h) = Dns!Found(0, z)
<1> DEFINE type == 1
           d == 4
<1>1. l \in Nat /\ a = Len(x) /\ 2 <= d /\ Recorded(x, v, l, type, z, d)
  BY DEF Recorded
<1>6. Laid(b, n, h, v, l, x, type, z, d)
  BY <1>1 DEF Laid
<1> HIDE DEF type, d
<1>0. /\ Dns!AfterName(b, n, h) = h + l /\ Dns!Byte(b, h + l + 1) = type /\ Dns!Byte(b, h + l + 9) = d
      /\ Shows(b, h + l + 10, z, d)
  BY <1>6, RecordSeen
<1>2. /\ Dns!AfterName(b, n, h) = h + l /\ Dns!Byte(b, h + l + 1) = 1 /\ Dns!Byte(b, h + l + 9) = 4
      /\ Shows(b, h + l + 10, z, 4)
  BY <1>0 DEF type, d
<1> DEFINE t == h + l
<1>3. t \in Nat /\ t + 14 = h + a
  BY <1>1
<1>4. /\ Dns!AfterName(b, n, h) = t /\ Dns!Byte(b, t + 1) = 1 /\ Dns!Byte(b, t + 9) = 4
      /\ Shows(b, t + 10, z, 4)
  BY <1>2
<1> HIDE DEF t
<1>5. t + 14 <= n
  BY <1>3
<1> QED BY <1>3, <1>4, <1>5, AddressRead

\* An answer with records is a chain of them, fewer than the index counts.
LEMMA RecordsChained ==
    ASSUME NEW name \in Names, NEW c \in Nat, NEW address \in BOOLEAN,
           NEW b, NEW n \in Nat, n < INDEX, NEW i \in Nat, NEW e \in Nat, i + e = n,
           NEW r, RecordsOf(r, e, name, c, address), Shows(b, i, r, e)
    PROVE  c < INDEX /\ \E p : p[0] = i /\ Chain(b, n, p, c, address, Dns!Address(name))
<1> DEFINE z == Dns!Address(name)
<1>1. PICK v, l, s, x :
              /\ Scribed(v, l) /\ l \in Nat /\ 2 <= l
              /\ Recorded(s, v, l, 5, <<192, 12>>, 2)
              /\ Recorded(x, v, l, 1, z, 4)
              /\ Answered(r, c, s, l + 12, x, address) /\ e = Len(r)
  BY DEF RecordsOf
<1>2. z \in [1..4 -> Nat]
  BY NameOf DEF Dns!Address
<1> HIDE DEF z
<1> DEFINE a == l + 12
           p == [k \in Nat |-> i + k * a]
           q == c * a
<1>3. INDEX \in Nat /\ a \in Nat /\ q \in Nat /\ 14 <= a /\ a = l + 12
  BY <1>1, NameIs
<1>4. Answered(r, c, s, a, x, address)
  BY <1>1
<1>5. \A k \in Nat : p[k] \in Nat /\ p[k] = i + k * a
  <2> HIDE DEF a
  <2>1. ASSUME NEW k \in Nat PROVE k * a \in Nat
    BY <1>3
  <2>2. ASSUME NEW k \in Nat PROVE p[k] \in Nat /\ p[k] = i + k * a
    <3> DEFINE m == k * a
    <3>1. m \in Nat /\ p[k] = i + m
      BY <2>1
    <3> HIDE DEF p, m
    <3>2. p[k] \in Nat
      BY <3>1
    <3> QED BY <3>1, <3>2 DEF m
  <2> QED BY <2>2
<1>6. ASSUME NEW k \in Nat PROVE p[k + 1] = p[k] + a
  <2>1. (k + 1) * a = k * a + a /\ k * a \in Nat
    BY <1>3
  <2>2. p[k + 1] = i + (k + 1) * a /\ p[k] = i + k * a
    BY <1>5
  <2> QED BY <1>3, <2>1, <2>2
<1>7. p[0] = i
  <2>1. 0 * a = 0
    BY <1>3
  <2> QED BY <1>5, <2>1
<1>8. p[c] = i + q
  BY <1>5
<1>9. ASSUME NEW k \in Nat, k < c PROVE k * a \in Nat /\ k * a + a <= q
  <2> HIDE DEF a
  <2> QED BY <1>3, <1>9, BlocksBefore
<1>10. c <= q
  <2>1. PICK d \in Nat : a = 1 + d
    <3>1. a - 1 \in Nat /\ a = 1 + (a - 1)
      BY <1>3
    <3> QED BY <3>1
  <2>2. c * (1 + d) = c + c * d /\ c * d \in Nat
    OBVIOUS
  <2>3. q = c * (1 + d)
    BY <2>1
  <2> HIDE DEF q, a
  <2> QED BY <2>2, <2>3
<1>11. q <= e /\ (address => e = q + (a + 2)) /\ (~address => e = q)
  <2>1. e = q + IF address THEN a + 2 ELSE 0
    BY <1>1, <1>4 DEF Answered
  <2> HIDE DEF q, a
  <2>2. CASE address
    BY <1>3, <2>1, <2>2
  <2>3. CASE ~address
    BY <1>3, <2>1, <2>3
  <2> QED BY <2>2, <2>3
<1>12. \A k \in Nat, j \in Nat : k < c /\ 1 <= j /\ j <= a => r[k * a + j] = s[j]
  BY <1>4 DEF Answered
<1>13. address => \A j \in Nat : 1 <= j /\ j <= a + 2 => r[q + j] = x[j]
  BY <1>4 DEF Answered
<1> HIDE DEF p, q, a
<1>14. ASSUME NEW m \in Nat, NEW j \in Nat, m + j < e PROVE Dns!Byte(b, i + m + j) = r[m + (j + 1)]
  <2> DEFINE g == m + j
  <2>1. g \in Nat /\ g < e /\ i + g = i + m + j /\ g + 1 = m + (j + 1)
    BY <1>14
  <2> HIDE DEF g
  <2>2. Dns!Byte(b, i + g) = r[g + 1]
    BY <2>1 DEF Shows
  <2> QED BY <2>1, <2>2
<1>15. ASSUME NEW k \in Nat, k < c
       PROVE  /\ p[k] < INDEX
              /\ Dns!Record(b, n, p[k]) = IF k + 1 < c \/ address THEN Dns!GoOn(p[k + 1])
                                          ELSE Dns!Found(3, Dns!NoAddress)
  <2> DEFINE h == p[k]
             m == k * a
  <2>1. m \in Nat /\ m + a <= q /\ h = i + m /\ h \in Nat
    BY <1>5, <1>9, <1>15
  <2>2. ASSUME NEW j \in Nat, 1 <= j, j <= a PROVE r[m + j] = s[j]
    BY <1>12, <1>15, <2>2
  <2>3. p[k + 1] = h + a
    BY <1>6
  <2>4. IF k + 1 < c THEN m + a + a <= q ELSE m + a = q
    <3>1. (k + 1) * a = m + a
      BY <1>3
    <3>2. CASE k + 1 < c
      <4>1. (k + 1) * a + a <= q
        BY <1>9, <3>2
      <4> QED BY <3>1, <3>2, <4>1
    <3>3. CASE ~(k + 1 < c)
      <4>1. k + 1 = c
        BY <1>15, <3>3
      <4> QED BY <3>1, <3>3, <4>1 DEF q
    <3> QED BY <3>2, <3>3
  <2> HIDE DEF h, m
  <2>5. Shows(b, h, s, a)
    <3>1. ASSUME NEW j \in Nat, j < a PROVE Dns!Byte(b, h + j) = s[j + 1]
      <4>1. m + j < e /\ h + j = i + m + j /\ j + 1 \in Nat /\ 1 <= j + 1 /\ j + 1 <= a
        BY <1>3, <1>11, <2>1, <3>1
      <4>2. Dns!Byte(b, i + m + j) = r[m + (j + 1)]
        BY <1>14, <2>1, <4>1
      <4>3. r[m + (j + 1)] = s[j + 1]
        BY <2>2, <4>1
      <4> QED BY <4>1, <4>2, <4>3
    <3> QED BY <3>1 DEF Shows
  <2>6. h + a <= n
    BY <1>3, <1>11, <2>1
  <2>9. Dns!Record(b, n, h) = IF h + a < n - 7 THEN Dns!GoOn(h + a) ELSE Dns!Found(3, Dns!NoAddress)
    BY <1>1, <1>3, <2>1, <2>5, <2>6, AliasSeen
  <2>10. h + a < n - 7 <=> (k + 1 < c \/ address)
    <3>1. CASE k + 1 < c
      <4>1. m + a + a <= q
        BY <2>4, <3>1
      <4> QED BY <1>3, <1>11, <2>1, <3>1, <4>1
    <3>2. CASE ~(k + 1 < c) /\ address
      <4>1. m + a = q /\ e = q + (a + 2)
        BY <1>11, <2>4, <3>2
      <4> QED BY <1>3, <2>1, <3>2, <4>1
    <3>3. CASE ~(k + 1 < c) /\ ~address
      <4>1. m + a = q /\ e = q
        BY <1>11, <2>4, <3>3
      <4> QED BY <1>3, <2>1, <3>3, <4>1
    <3> QED BY <3>1, <3>2, <3>3
  <2>11. h < INDEX
    BY <1>3, <2>1, <2>6
  <2>12. Dns!Record(b, n, h) = IF k + 1 < c \/ address THEN Dns!GoOn(p[k + 1])
                               ELSE Dns!Found(3, Dns!NoAddress)
    <3>1. p[k + 1] = h + a
      BY <1>6 DEF h
    <3> QED BY <2>9, <2>10, <3>1
  <2> QED BY <2>11, <2>12 DEF h
<1>16. ASSUME address PROVE p[c] < INDEX /\ Dns!Record(b, n, p[c]) = Dns!Found(0, z)
  <2> DEFINE h == p[c]
             g == a + 2
  <2>1. h = i + q /\ h \in Nat /\ e = q + g /\ g = l + 14 /\ g \in Nat
    <3>1. h = i + q /\ e = q + g
      BY <1>8, <1>11, <1>16
    <3>2. g = l + 14 /\ g \in Nat
      BY <1>1, <1>3
    <3> HIDE DEF h, g
    <3> QED BY <1>3, <3>1, <3>2
  <2>2. ASSUME NEW j \in Nat, 1 <= j, j <= g PROVE r[q + j] = x[j]
    BY <1>13, <1>16, <2>2
  <2> HIDE DEF h, g
  <2>3. Shows(b, h, x, g)
    <3>1. ASSUME NEW j \in Nat, j < g PROVE Dns!Byte(b, h + j) = x[j + 1]
      <4>1. q + j < e /\ h + j = i + q + j /\ j + 1 \in Nat /\ 1 <= j + 1 /\ j + 1 <= g
        BY <1>1, <1>3, <2>1, <3>1
      <4>2. Dns!Byte(b, i + q + j) = r[q + (j + 1)]
        BY <1>3, <1>14, <4>1
      <4>3. r[q + (j + 1)] = x[j + 1]
        BY <2>2, <4>1
      <4> QED BY <4>1, <4>2, <4>3
    <3> QED BY <3>1 DEF Shows
  <2>4. h + g = n /\ h < INDEX
    BY <1>3, <2>1
  <2>5. Dns!Record(b, n, h) = Dns!Found(0, z)
    <3>1. h + g <= n
      BY <2>4
    <3> QED BY <1>1, <1>2, <2>1, <2>3, <3>1, AddressSeen
  <2> QED BY <2>4, <2>5 DEF h
<1>17. Chain(b, n, p, c, address, z)
  <2>1. ASSUME NEW k \in Nat, k <= c PROVE p[k] \in Nat /\ (k < c \/ address => p[k] < INDEX)
    <3>1. k < c \/ k = c
      BY <2>1
    <3> QED BY <1>5, <1>15, <1>16, <3>1
  <2> QED BY <1>15, <1>16, <2>1 DEF Chain
<1>18. c < INDEX
  BY <1>3, <1>10, <1>11
<1> QED BY <1>7, <1>17, <1>18 DEF z

\* The records of an answer, in the buffer from an index to the end of the packet.
RecordsLaid(name, c, address, b, n, i, e, r) ==
    n < INDEX /\ i + e = n /\ RecordsOf(r, e, name, c, address) /\ Shows(b, i, r, e)

\* A chain from an index on.
Strung(b, n, i, c, address, z) == \E p : p[0] = i /\ Chain(b, n, p, c, address, z)

\* The records form a chain.
LEMMA LaidChained ==
    ASSUME NEW name \in Names, NEW c \in Nat, NEW address \in BOOLEAN, NEW b, NEW n \in Nat,
           NEW i \in Nat, NEW e \in Nat, NEW r, RecordsLaid(name, c, address, b, n, i, e, r)
    PROVE  c < INDEX /\ Strung(b, n, i, c, address, Dns!Address(name))
<1>1. n < INDEX /\ i + e = n /\ RecordsOf(r, e, name, c, address) /\ Shows(b, i, r, e)
  BY DEF RecordsLaid
<1>2. c < INDEX /\ \E p : p[0] = i /\ Chain(b, n, p, c, address, Dns!Address(name))
  BY <1>1, RecordsChained, SMTT(60)
<1> QED BY <1>2 DEF Strung

\* What an answer with records says, from the index on.
LEMMA WalkIs ==
    ASSUME NEW name \in Names, NEW form \in {"pointer", "full"}, NEW c \in Nat, NEW address \in BOOLEAN,
           address \/ c # 0, NEW r, r = Dns!Records(form, name, c, address),
           NEW b \in Seq(Nat), NEW n \in Nat, n < INDEX,
           NEW i \in Nat, i = (12 + Dns!Byte(b, 0)) % INDEX,
           NEW e \in Nat, e = Len(r), i + e = n, Shows(b, i, r, e)
    PROVE  Dns!Walk(b, n) = IF address THEN Dns!Found(0, Dns!Address(name))
                            ELSE Dns!Found(3, Dns!NoAddress)
<1>0. RecordsOf(r, e, name, c, address)
  BY RecordsAre
<1>5. RecordsLaid(name, c, address, b, n, i, e, r)
  BY <1>0 DEF RecordsLaid
<1>3. c < INDEX /\ Strung(b, n, i, c, address, Dns!Address(name))
  BY <1>5, LaidChained, ZenonT(60)
<1>1. PICK p : c < INDEX /\ p[0] = i /\ Chain(b, n, p, c, address, Dns!Address(name))
  BY <1>3 DEF Strung
<1>2. PICK f : Steps(b, n, f) /\ Dns!Walk(b, n) = f[INDEX][(12 + Dns!Byte(b, 0)) % INDEX]
  BY WalkSteps
<1>4. f[INDEX][p[0]] = IF address THEN Dns!Found(0, Dns!Address(name)) ELSE Dns!Found(3, Dns!NoAddress)
  BY <1>1, <1>2, ChainWalked
<1> QED BY <1>1, <1>2, <1>4

-----------------------------------------------------------------------------
(* Look-ups: the bytes of questions and answers *)

\* What a question asks: the name, its type, its class.
Body(name) == Dns!Wire(name) \o Dns!TypeAClassIN

\* It is short, and tells names apart.
LEMMA BodyIs ==
    ASSUME NEW name \in Names
    PROVE  /\ Body(name) \in Seq(Nat) /\ Len(Body(name)) + 12 < INDEX
           /\ \A other \in Names : Body(other) = Body(name) => other = name
<1> DEFINE T == Dns!TypeAClassIN
<1>1. T \in Seq(Nat) /\ Len(T) = 4
  BY DEF Dns!TypeAClassIN
<1> HIDE DEF T
<1>2. ASSUME NEW x \in Names
      PROVE  /\ Dns!Wire(x) \in Seq(Nat) /\ Len(Dns!Wire(x)) \in Nat /\ Len(Dns!Wire(x)) + 16 < INDEX
             /\ Joined(Body(x), Dns!Wire(x), Len(Dns!Wire(x)), T, 4)
  <2>1. Dns!Wire(x) \in Seq(Nat) /\ Len(Dns!Wire(x)) \in Nat
    BY WireIs DEF Spelled
  <2>2. Joined(Dns!Wire(x) \o T, Dns!Wire(x), Len(Dns!Wire(x)), T, 4)
    BY <1>1, <2>1, JoinIs
  <2>3. Body(x) = Dns!Wire(x) \o T
    BY DEF Body, T
  <2> QED BY <2>1, <2>2, <2>3, NameOf
<1>3. ASSUME NEW x \in Names, Body(x) = Body(name) PROVE x = name
  <2> DEFINE w == Dns!Wire(x)
             u == Dns!Wire(name)
             b == Body(x)
             p == Len(w)
             q == Len(u)
  <2>1. /\ w \in Seq(Nat) /\ p \in Nat /\ p = Len(w) /\ Joined(b, w, p, T, 4)
        /\ u \in Seq(Nat) /\ q \in Nat /\ q = Len(u) /\ Joined(b, u, q, T, 4)
    <3>1. Body(name) = b
      BY <1>3
    <3> QED BY <1>2, <3>1
  <2> HIDE DEF w, u, b, p, q
  <2>2. p = q
    BY <2>1 DEF Joined
  <2>3. ASSUME NEW i \in 1..p PROVE w[i] = u[i]
    <3>1. i \in Nat /\ 1 <= i /\ i <= p /\ i <= q
      BY <2>1, <2>2
    <3> QED BY <2>1, <3>1 DEF Joined
  <2>4. w = u
    <3>1. w \in Seq(Nat) /\ u \in Seq(Nat) /\ Len(w) = p /\ Len(u) = p /\ p \in Nat
      BY <2>1, <2>2
    <3>2. \A i \in 1..p : w[i] = u[i]
      BY <2>3
    <3> QED BY <3>1, <3>2
  <2>5. \A a, c \in Names : Dns!Wire(a) = Dns!Wire(c) => a = c
    BY NameIs DEF Dns!DnsConstants
  <2> QED BY <2>4, <2>5 DEF w, u
<1>4. Body(name) \in Seq(Nat) /\ Len(Body(name)) + 12 < INDEX
  <2>1. Body(name) \in Seq(Nat) /\ Len(Body(name)) = Len(Dns!Wire(name)) + 4
    BY <1>2 DEF Joined
  <2>2. Len(Dns!Wire(name)) \in Nat /\ Len(Dns!Wire(name)) + 16 < INDEX
    BY <1>2
  <2> QED BY <2>1, <2>2, NameIs
<1> QED BY <1>3, <1>4

\* A header, a body, and the records after it.
Packed(bytes, b, flags, r) ==
    /\ bytes \in Seq(Nat) /\ Len(b) \in Nat /\ Len(r) \in Nat /\ Len(bytes) = 12 + Len(b) + Len(r)
    /\ bytes[1] = Len(b) /\ bytes[4] = flags
    /\ \A j \in Nat : 1 <= j /\ j <= Len(b) => bytes[12 + j] = b[j]
    /\ \A j \in Nat : 1 <= j /\ j <= Len(r) => bytes[12 + Len(b) + j] = r[j]

\* What is put together so is packed.
LEMMA PackedIs ==
    ASSUME NEW h \in Seq(Nat), Len(h) = 12, NEW b \in Seq(Nat), h[1] = Len(b), NEW r \in Seq(Nat)
    PROVE  Packed(h \o b \o r, b, h[4], r)
<1> DEFINE x == h \o b
           bytes == x \o r
           l == Len(b)
           e == Len(r)
           s == 12 + l
<1>1. l \in Nat /\ l = Len(b) /\ e \in Nat /\ e = Len(r) /\ s = 12 + l
  OBVIOUS
<1>2. Joined(x, h, 12, b, l)
  BY JoinIs
<1> HIDE DEF x, l, e, s
<1>3. x \in Seq(Nat) /\ Len(x) = s /\ s \in Nat
  BY <1>1, <1>2 DEF Joined
<1>4. Joined(bytes, x, s, r, e)
  BY <1>1, <1>3, JoinIs
<1> HIDE DEF bytes
<1>5. bytes \in Seq(Nat) /\ Len(bytes) = 12 + l + e
  BY <1>1, <1>4 DEF Joined
<1>6. ASSUME NEW j \in Nat, 1 <= j, j <= 12 PROVE bytes[j] = h[j]
  <2>1. j <= s
    BY <1>1, <1>6
  <2>2. bytes[j] = x[j]
    BY <1>4, <1>6, <2>1 DEF Joined
  <2> QED BY <1>2, <1>6, <2>2 DEF Joined
<1>7. ASSUME NEW j \in Nat, 1 <= j, j <= l PROVE bytes[12 + j] = b[j]
  <2>1. 12 + j \in Nat /\ 1 <= 12 + j /\ 12 + j <= s
    BY <1>1, <1>7
  <2>2. bytes[12 + j] = x[12 + j]
    BY <1>4, <2>1 DEF Joined
  <2> QED BY <1>2, <1>7, <2>2 DEF Joined
<1>8. ASSUME NEW j \in Nat, 1 <= j, j <= e PROVE bytes[12 + l + j] = r[j]
  <2>1. bytes[s + j] = r[j]
    BY <1>4, <1>8 DEF Joined
  <2> QED BY <1>1, <2>1
<1>9. bytes[1] = l /\ bytes[4] = h[4]
  BY <1>1, <1>6
<1>10. Packed(bytes, b, h[4], r)
  BY <1>1, <1>5, <1>7, <1>8, <1>9 DEF Packed
<1> QED BY <1>10 DEF bytes, x

\* A question.
LEMMA QuestionIs ==
    ASSUME NEW name \in Names, NEW t \in Nat, NEW q, q = Dns!Question(Dns!HostName(name), t)
    PROVE  q \in Seq(Nat) /\ q[1] = Len(Body(name)) /\ SubSeq(q, 13, Len(q)) = Body(name) /\ q[2] = t
<1> DEFINE b == Body(name)
           h == <<Len(b), t, 1, 0, 0, 1, 0, 0, 0, 0, 0, 0>>
<1>1. q = h \o b
  BY EncodedIsWire DEF Dns!Question, Body
<1>2. b \in Seq(Nat) /\ Len(b) \in Nat
  BY BodyIs
<1> HIDE DEF b
<1>3. h \in Seq(Nat) /\ Len(h) = 12 /\ h[1] = Len(b) /\ h[2] = t
  BY <1>2
<1> HIDE DEF h
<1>4. Joined(q, h, 12, b, Len(b))
  BY <1>1, <1>2, <1>3, JoinIs
<1>5. q \in Seq(Nat) /\ Len(q) = 12 + Len(b) /\ q[1] = Len(b) /\ q[2] = t
  BY <1>3, <1>4 DEF Joined
<1>6. SubSeq(q, 13, Len(q)) = b
  <2> DEFINE l == Len(b)
             n == Len(q)
             u == SubSeq(q, 13, n)
  <2>1. l \in Nat /\ n \in Nat /\ n = 12 + l /\ l = Len(b) /\ n = Len(q)
    BY <1>2, <1>5
  <2>2. \A j \in Nat : 1 <= j /\ j <= l => q[12 + j] = b[j]
    BY <1>4 DEF Joined
  <2> HIDE DEF l, n
  <2>3. u \in Seq(Nat) /\ Len(u) = l
    BY <1>5, <2>1
  <2>4. ASSUME NEW j \in 1..l PROVE u[j] = b[j]
    <3>1. u[j] = q[12 + j]
      BY <1>5, <2>1
    <3>2. j \in Nat /\ 1 <= j /\ j <= l
      BY <2>1
    <3> HIDE DEF u
    <3> QED BY <2>2, <3>1, <3>2
  <2> HIDE DEF u
  <2>5. u = b
    BY <1>2, <2>1, <2>3, <2>4
  <2> QED BY <2>5 DEF u, n
<1> QED BY <1>5, <1>6 DEF b

\* What a packet leaves in the buffer.
LEMMA OverIs ==
    ASSUME NEW bytes \in Seq(Nat), dns \in Seq(Nat), NEW b, b = Dns!Over(bytes)
    PROVE  b \in Seq(Nat) /\ \A i \in Nat : i < Len(bytes) => Dns!Byte(b, i) = bytes[i + 1]
<1> DEFINE n == Len(bytes)
           t == SubSeq(dns, n + 1, Len(dns))
           x == bytes \o t
<1>1. b = x
  BY DEF Dns!Over
<1>2. t \in Seq(Nat) /\ n \in Nat /\ n = Len(bytes)
  OBVIOUS
<1> HIDE DEF t, n
<1>3. Joined(x, bytes, n, t, Len(t))
  BY <1>2, JoinIs
<1> HIDE DEF x
<1>4. x \in Seq(Nat) /\ n <= Len(x)
  <2>1. Len(t) \in Nat
    BY <1>2
  <2> QED BY <1>2, <1>3, <2>1 DEF Joined
<1>5. ASSUME NEW i \in Nat, i < n PROVE Dns!Byte(x, i) = bytes[i + 1]
  <2>1. i + 1 \in Nat /\ 1 <= i + 1 /\ i + 1 <= n /\ i < Len(x)
    BY <1>2, <1>4, <1>5
  <2>2. x[i + 1] = bytes[i + 1]
    BY <1>3, <2>1 DEF Joined
  <2> QED BY <2>1, <2>2 DEF Dns!Byte
<1> QED BY <1>1, <1>2, <1>4, <1>5

\* So does one that the driver ends with a zero.
LEMMA EndedOverIs ==
    ASSUME NEW bytes \in Seq(Nat), dns \in Seq(Nat), NEW b, b = Dns!Over(bytes \o << 0 >>)
    PROVE  b \in Seq(Nat) /\ \A i \in Nat : i < Len(bytes) => Dns!Byte(b, i) = bytes[i + 1]
<1> DEFINE x == bytes \o << 0 >>
           n == Len(bytes)
<1>1. << 0 >> \in Seq(Nat) /\ Len(<< 0 >>) = 1 /\ n \in Nat /\ n = Len(bytes)
  OBVIOUS
<1> HIDE DEF n
<1>2. Joined(x, bytes, n, << 0 >>, 1)
  BY <1>1, JoinIs
<1>3. b = Dns!Over(x)
  OBVIOUS
<1> HIDE DEF x
<1>4. x \in Seq(Nat) /\ Len(x) = n + 1
  BY <1>2 DEF Joined
<1>5. b \in Seq(Nat) /\ \A i \in Nat : i < Len(x) => Dns!Byte(b, i) = x[i + 1]
  BY <1>3, <1>4, OverIs
<1>6. ASSUME NEW i \in Nat, i < n PROVE Dns!Byte(b, i) = bytes[i + 1]
  <2>1. i + 1 \in Nat /\ 1 <= i + 1 /\ i + 1 <= n /\ i < Len(x)
    BY <1>1, <1>4, <1>6
  <2>2. x[i + 1] = bytes[i + 1]
    BY <1>2, <2>1 DEF Joined
  <2> QED BY <1>5, <2>1, <2>2
<1> QED BY <1>1, <1>5, <1>6

\* The records of an answer: a sequence, empty if there are none.
LEMMA RecordsEmpty ==
    ASSUME NEW r, NEW e, NEW name, NEW c \in Nat, NEW address \in BOOLEAN, RecordsOf(r, e, name, c, address)
    PROVE  r \in Seq(Nat) /\ (r # <<>> => address \/ c # 0)
<1>1. PICK v, l, s, x : Answered(r, c, s, l + 12, x, address)
  BY DEF RecordsOf
<1> DEFINE a == l + 12
<1>2. a \in Nat /\ r \in Seq(Nat) /\ Len(r) = c * a + IF address THEN a + 2 ELSE 0
  BY <1>1 DEF Answered
<1> HIDE DEF a
<1>3. ASSUME c = 0, ~address PROVE r = <<>>
  <2>1. c * a = 0
    BY <1>2, <1>3
  <2>2. Len(r) = 0
    BY <1>2, <1>3, <2>1
  <2> QED BY <1>2, <2>2
<1> QED BY <1>2, <1>3

\* What is read from an answer within reach.
LEMMA AnswerWalked ==
    ASSUME NEW name \in Names, NEW form \in {"pointer", "full"}, NEW c \in Nat, NEW address \in BOOLEAN,
           NEW r, r = Dns!Records(form, name, c, address), r # <<>>,
           NEW bytes, NEW flags, Packed(bytes, Body(name), flags, r), NEW n, n = Len(bytes), n < INDEX,
           dns \in Seq(Nat), NEW b, b = Dns!Over(bytes \o << 0 >>)
    PROVE  /\ b \in Seq(Nat)
           /\ Dns!Walk(b, n) = IF address THEN Dns!Found(0, Dns!Address(name))
                               ELSE Dns!Found(3, Dns!NoAddress)
<1> DEFINE e == Len(r)
           l == Len(Body(name))
           i == 12 + l
<1>1. RecordsOf(r, e, name, c, address)
  BY RecordsAre
<1>2. r \in Seq(Nat) /\ (address \/ c # 0)
  BY <1>1, RecordsEmpty
<1>3. /\ bytes \in Seq(Nat) /\ l \in Nat /\ e \in Nat /\ e = Len(r) /\ n = i + e /\ n \in Nat
      /\ bytes[1] = l /\ \A j \in Nat : 1 <= j /\ j <= e => bytes[i + j] = r[j]
  BY DEF Packed
<1>4. b \in Seq(Nat) /\ \A j \in Nat : j < n => Dns!Byte(b, j) = bytes[j + 1]
  BY <1>3, EndedOverIs
<1> HIDE DEF e, l
<1>5. Dns!Byte(b, 0) = l /\ i \in Nat /\ i < INDEX
  <2>1. 0 \in Nat /\ 0 < n /\ 0 + 1 = 1 /\ i \in Nat /\ i <= n
    BY <1>3
  <2>2. Dns!Byte(b, 0) = bytes[0 + 1]
    BY <1>4, <2>1
  <2> QED BY <1>3, <2>1, <2>2, NameIs
<1>6. i = (12 + Dns!Byte(b, 0)) % INDEX
  BY <1>5, IndexIs
<1>7. Shows(b, i, r, e)
  <2>1. ASSUME NEW j \in Nat, j < e PROVE Dns!Byte(b, i + j) = r[j + 1]
    <3>1. i + j \in Nat /\ i + j < n /\ (i + j) + 1 = i + (j + 1) /\ j + 1 \in Nat /\ 1 <= j + 1 /\ j + 1 <= e
      BY <1>3, <1>5, <2>1
    <3>2. Dns!Byte(b, i + j) = bytes[(i + j) + 1]
      BY <1>4, <3>1
    <3>3. bytes[i + (j + 1)] = r[j + 1]
      BY <1>3, <3>1
    <3> QED BY <3>1, <3>2, <3>3
  <2> QED BY <2>1 DEF Shows
<1> HIDE DEF i
<1>8. i \in Nat /\ e \in Nat /\ e = Len(r) /\ i + e = n /\ n \in Nat
  BY <1>3, <1>5 DEF i
<1>9. Dns!Walk(b, n) = IF address THEN Dns!Found(0, Dns!Address(name)) ELSE Dns!Found(3, Dns!NoAddress)
  BY <1>2, <1>4, <1>6, <1>7, <1>8, WalkIs
<1> QED BY <1>4, <1>9

-----------------------------------------------------------------------------
(* Look-ups: the network *)

\* The id of the next question.
LEMMA NextIdIs ==
    ASSUME NEW x \in Nat
    PROVE  ((x % TID) + 1) % TID = (x + 1) % TID /\ (x + 1) % TID \in Nat /\ x % TID \in Nat
<1> DEFINE q == x \div TID
           r == x % TID
<1>0. TID \in Nat \ {0} /\ TID >= 2
  BY NameIs
<1>1. q \in Nat /\ r \in 0..(TID - 1) /\ x = TID * q + r
  BY <1>0, Division
<1>4. (x + 1) % TID \in Nat /\ r \in Nat
  BY <1>0
<1> HIDE DEF q, r
<1>2. CASE r + 1 < TID
  <2>1. r + 1 \in 0..(TID - 1) /\ x + 1 = TID * q + (r + 1)
    BY <1>0, <1>1, <1>2
  <2>2. (x + 1) % TID = r + 1
    BY <1>0, <1>1, <2>1, RemainderUnique
  <2>3. (r + 1) % TID = r + 1
    BY <1>0, <2>1
  <2> QED BY <1>4, <2>2, <2>3 DEF r
<1>3. CASE r + 1 = TID
  <2>1. TID * (q + 1) = TID * q + TID
    BY <1>0, <1>1
  <2>2. x + 1 = TID * (q + 1) + 0 /\ 0 \in 0..(TID - 1)
    BY <1>0, <1>1, <1>3, <2>1
  <2>3. (x + 1) % TID = 0
    BY <1>0, <1>1, <2>2, RemainderUnique
  <2>4. TID % TID = 0
    BY <1>0
  <2> QED BY <1>3, <1>4, <2>3, <2>4 DEF r
<1> QED BY <1>0, <1>1, <1>2, <1>3

\* Questions with the same id are the same, or all ids apart.
LEMMA SameId ==
    ASSUME NEW x \in Nat, NEW y \in Nat, x % TID = y % TID, y <= x, y > x - TID
    PROVE  y = x
<1> DEFINE p == x \div TID
           q == y \div TID
           r == x % TID
<1>0. TID \in Nat \ {0}
  BY NameIs
<1>1. p \in Nat /\ q \in Nat /\ r \in Nat /\ x = TID * p + r /\ y = TID * q + r
  <2>1. p \in Nat /\ r \in 0..(TID - 1) /\ x = TID * p + r
    BY <1>0, Division
  <2>2. q \in Nat /\ y = TID * q + (y % TID)
    BY <1>0, Division
  <2> QED BY <1>0, <2>1, <2>2
<1> HIDE DEF p, q, r
<1>2. ASSUME q + 1 <= p PROVE FALSE
  <2>1. TID * (q + 1) <= TID * p /\ TID * (q + 1) = TID * q + TID
    BY <1>0, <1>1, <1>2
  <2> QED BY <1>0, <1>1, <2>1
<1>3. ASSUME p + 1 <= q PROVE FALSE
  <2>1. TID * (p + 1) <= TID * q /\ TID * (p + 1) = TID * p + TID
    BY <1>0, <1>1, <1>3
  <2> QED BY <1>0, <1>1, <2>1
<1>4. p = q
  BY <1>1, <1>2, <1>3
<1> QED BY <1>1, <1>4

\* A question on the way: its port carries its id, its bytes its name.
Posed(m, n, ask) ==
    /\ m.sport = <<224, m.number % TID>>
    /\ \E name \in Names :
          m.bytes = Dns!Question(Dns!HostName(name), m.number % TID) /\ (m.number = n => ask = name)

\* An answer with the records of a name.
AnswerOf(m, name, form, c, r) ==
    /\ m.name = name /\ m.address \in BOOLEAN /\ r = Dns!Records(form, name, c, m.address)
    /\ m.empty = (r = <<>>) /\ Packed(m.bytes, Body(name), 128, r)
Told(m, n, ask) ==
    \E name \in Names, form \in {"pointer", "full"}, c \in Nat :
        (\E r : AnswerOf(m, name, form, c, r)) /\ (m.number = n => ask = name)

\* An answer that there is no such name.
Refused(m) == m.address = FALSE /\ m.bytes \in Seq(Nat) /\ m.bytes[4] = 131

\* A message, when n questions have been sent and the last was for ask.
Sound(m, n, ask) ==
    /\ m.number \in Nat /\ m.number <= n
    /\ m.to = "server" => Posed(m, n, ask)
    /\ m.to = "board" => m.dport = <<224, m.number % TID>> /\ (Told(m, n, ask) \/ Refused(m))

\* A reply with records.
LEMMA ReplyTold ==
    ASSUME Forms \subseteq {"pointer", "full"}, NEW q, NEW n, NEW ask, Posed(q, n, ask), q.number \in Nat,
           NEW x \in Names, SubSeq(q.bytes, 13, Len(q.bytes)) = Body(x),
           NEW form \in Forms, NEW c \in Extras, NEW address \in BOOLEAN, NEW m,
           m = Dns!Reply(q, x, 128, Dns!Records(form, x, c, address), address)
    PROVE  /\ m.to = "board" /\ m.number = q.number /\ m.dport = <<224, q.number % TID>>
           /\ Told(m, n, ask)
<1> DEFINE r == Dns!Records(form, x, c, address)
           s == SubSeq(q.bytes, 13, Len(q.bytes))
           h == <<q.bytes[1], q.bytes[2], 129, 128, 0, 1, 0, 1, 0, 0, 0, 0>>
<1>1. PICK name \in Names :
          q.bytes = Dns!Question(Dns!HostName(name), q.number % TID) /\ (q.number = n => ask = name)
  BY DEF Posed
<1>2. q.number % TID \in Nat
  BY NextIdIs
<1>3. q.bytes[1] = Len(Body(name)) /\ s = Body(name) /\ q.bytes[2] \in Nat
  <2> DEFINE u == q.bytes
             t == q.number % TID
  <2>1. t \in Nat /\ u = Dns!Question(Dns!HostName(name), t)
    BY <1>1, <1>2
  <2> HIDE DEF u, t
  <2>2. u[1] = Len(Body(name)) /\ SubSeq(u, 13, Len(u)) = Body(name) /\ u[2] = t
    BY <2>1, QuestionIs
  <2> QED BY <2>1, <2>2 DEF u
<1>4. x = name
  BY <1>3, BodyIs
<1>5. form \in {"pointer", "full"} /\ c \in Nat
  BY NameIs
<1>6. r \in Seq(Nat)
  <2> DEFINE e == Len(r)
  <2>1. RecordsOf(r, e, x, c, address)
    BY <1>5, RecordsAre
  <2> HIDE DEF r, e
  <2> QED BY <1>5, <2>1, RecordsEmpty
<1>7. /\ m.to = "board" /\ m.number = q.number /\ m.name = x /\ m.address = address
      /\ m.empty = (r = <<>>) /\ m.bytes = h \o s \o r /\ m.dport = q.sport
  BY DEF Dns!Reply
<1> HIDE DEF r, s
<1>8. Body(name) \in Seq(Nat) /\ Len(Body(name)) \in Nat
  BY BodyIs
<1>9. h \in Seq(Nat) /\ Len(h) = 12 /\ h[1] = Len(Body(name)) /\ h[4] = 128
  BY <1>3, <1>8
<1> HIDE DEF h
<1>10. Packed(m.bytes, Body(x), 128, r)
  <2>1. Packed(h \o Body(name) \o r, Body(name), h[4], r)
    BY <1>6, <1>8, <1>9, PackedIs
  <2> QED BY <1>3, <1>4, <1>7, <1>9, <2>1
<1>11. AnswerOf(m, x, form, c, r)
  BY <1>7, <1>10 DEF AnswerOf, r
<1>12. Told(m, n, ask)
  BY <1>1, <1>4, <1>5, <1>7, <1>11 DEF Told
<1> QED BY <1>7, <1>12 DEF Posed

\* A reply that there is no such name.
LEMMA ReplyRefused ==
    ASSUME NEW q, NEW n, NEW ask, Posed(q, n, ask), q.number \in Nat,
           NEW m, m = Dns!Reply(q, <<>>, 131, <<>>, FALSE)
    PROVE  /\ m.to = "board" /\ m.number = q.number /\ m.dport = <<224, q.number % TID>>
           /\ Refused(m)
<1> DEFINE s == SubSeq(q.bytes, 13, Len(q.bytes))
           h == <<q.bytes[1], q.bytes[2], 129, 131, 0, 1, 0, 1, 0, 0, 0, 0>>
           r == <<>>
<1>1. PICK name \in Names : q.bytes = Dns!Question(Dns!HostName(name), q.number % TID)
  BY DEF Posed
<1>2. q.number % TID \in Nat
  BY NextIdIs
<1>3. q.bytes[1] = Len(Body(name)) /\ s = Body(name) /\ q.bytes[2] \in Nat
  <2> DEFINE u == q.bytes
             t == q.number % TID
  <2>1. t \in Nat /\ u = Dns!Question(Dns!HostName(name), t)
    BY <1>1, <1>2
  <2> HIDE DEF u, t
  <2>2. u[1] = Len(Body(name)) /\ SubSeq(u, 13, Len(u)) = Body(name) /\ u[2] = t
    BY <2>1, QuestionIs
  <2> QED BY <2>1, <2>2 DEF u
<1>7. /\ m.to = "board" /\ m.number = q.number /\ m.address = FALSE
      /\ m.bytes = h \o s \o r /\ m.dport = q.sport
  BY DEF Dns!Reply
<1>6. r \in Seq(Nat)
  OBVIOUS
<1> HIDE DEF r, s
<1>8. Body(name) \in Seq(Nat) /\ Len(Body(name)) \in Nat
  BY BodyIs
<1>9. h \in Seq(Nat) /\ Len(h) = 12 /\ h[1] = Len(Body(name)) /\ h[4] = 131
  BY <1>3, <1>8
<1> HIDE DEF h
<1>10. Packed(h \o Body(name) \o r, Body(name), h[4], r)
  BY <1>6, <1>8, <1>9, PackedIs
<1>11. m.bytes \in Seq(Nat) /\ m.bytes[4] = 131
  BY <1>3, <1>7, <1>9, <1>10 DEF Packed
<1> QED BY <1>7, <1>11 DEF Posed, Refused

\* What is on the way, and what the answer that was taken says.
DnsInv ==
    /\ questions \in Nat /\ dnstid_l = questions % TID /\ dns \in Seq(Nat)
    /\ \A m \in dnsNet : Sound(m, questions, asked)
    /\ haveDNSanswer =>
          /\ taken.number \in Nat /\ taken.number <= questions /\ taken.number % TID = questions % TID
          /\ taken.number = questions /\ Dns!Readable(taken.len, taken.empty)
             => dns_answerip = Dns!Address(asked)

\* The bytes of an answer.
LEMMA AnswerBytes ==
    ASSUME NEW m, NEW n, NEW ask, Sound(m, n, ask), m.to = "board"
    PROVE  m.bytes \in Seq(Nat) /\ Len(m.bytes) \in Nat
<1>1. Told(m, n, ask) \/ Refused(m)
  BY DEF Sound
<1>2. CASE Told(m, n, ask)
  BY <1>2 DEF Told, AnswerOf, Packed
<1>3. CASE Refused(m)
  BY <1>3 DEF Refused
<1>4. m.bytes \in Seq(Nat)
  BY <1>1, <1>2, <1>3
<1> QED BY <1>4

\* What is made of an answer with the id of the last question.
LEMMA AnswerSays ==
    ASSUME DnsInv, NEW m \in dnsNet, m.to = "board",
           NEW n, n = Len(m.bytes), NEW b, b = Dns!Over(m.bytes \o << 0 >>)
    PROVE  /\ b \in Seq(Nat)
           /\ Dns!IsAnswer(m) => /\ m.number \in Nat /\ m.number <= questions
                                 /\ m.number % TID = questions % TID
           /\ ~Dns!FlagsGood(m) => m.address = FALSE
           /\ Dns!FlagsGood(m) =>
                 /\ m.address \in BOOLEAN /\ (m.number = questions => asked = m.name)
                 /\ Dns!Readable(n, m.empty) =>
                       Dns!Walk(b, n) = IF m.address THEN Dns!Found(0, Dns!Address(m.name))
                                        ELSE Dns!Found(3, Dns!NoAddress)
<1>1. Sound(m, questions, asked) /\ dns \in Seq(Nat) /\ dnstid_l = questions % TID
  BY DEF DnsInv
<1>2. m.bytes \in Seq(Nat) /\ n \in Nat
  BY <1>1, AnswerBytes
<1>3. b \in Seq(Nat)
  BY <1>1, <1>2, EndedOverIs
<1>4. ASSUME Dns!IsAnswer(m)
      PROVE  m.number \in Nat /\ m.number <= questions /\ m.number % TID = questions % TID
  <2> DEFINE t == m.number % TID
             u == questions % TID
  <2>1. m.dport = <<224, t>> /\ dnstid_l = u
    BY <1>1 DEF Sound
  <2>2. m.dport = <<224, dnstid_l>>
    BY <1>4 DEF Dns!IsAnswer, Dns!DNSCLIENT_SRC_PORT_H
  <2> HIDE DEF t, u
  <2>3. t = u
    BY <2>1, <2>2
  <2> QED BY <1>1, <2>3 DEF t, u, Sound
<1>5. CASE Told(m, questions, asked)
  <2>0. PICK name \in Names, form \in {"pointer", "full"}, c \in Nat :
            (\E r : AnswerOf(m, name, form, c, r)) /\ (m.number = questions => asked = name)
    BY <1>5 DEF Told
  <2>1. PICK r : AnswerOf(m, name, form, c, r) /\ (m.number = questions => asked = name)
    BY <2>0
  <2> DEFINE address == m.address
             bytes == m.bytes
  <2>2. /\ m.name = name /\ address \in BOOLEAN /\ r = Dns!Records(form, name, c, address)
        /\ m.empty = (r = <<>>) /\ Packed(bytes, Body(name), 128, r)
        /\ n = Len(bytes) /\ b = Dns!Over(bytes \o << 0 >>) /\ dns \in Seq(Nat)
    BY <1>1, <2>1 DEF AnswerOf
  <2>3. Dns!FlagsGood(m)
    <3>1. m.bytes[4] = 128
      BY <2>2 DEF Packed
    <3>2. (128 \div 128) % 2 = 1 /\ 128 % 16 = 0
      OBVIOUS
    <3> QED BY <3>1, <3>2 DEF Dns!FlagsGood
  <2> HIDE DEF address, bytes
  <2>4. ASSUME Dns!Readable(n, m.empty)
        PROVE  Dns!Walk(b, n) = IF address THEN Dns!Found(0, Dns!Address(name))
                                ELSE Dns!Found(3, Dns!NoAddress)
    <3>1. n < INDEX /\ r # <<>>
      BY <2>2, <2>4 DEF Dns!Readable
    <3> QED BY <2>2, <3>1, AnswerWalked
  <2> QED BY <1>3, <1>4, <2>1, <2>2, <2>3, <2>4 DEF address
<1>6. CASE Refused(m)
  <2>1. ~Dns!FlagsGood(m)
    <3>1. 131 % 16 = 3
      OBVIOUS
    <3> QED BY <1>6, <3>1 DEF Refused, Dns!FlagsGood
  <2> QED BY <1>3, <1>4, <1>6, <2>1 DEF Refused
<1> QED BY <1>1, <1>5, <1>6 DEF Sound

\* In the beginning nothing is on the way.
LEMMA DnsInit == Dns!Init => DnsInv
<1> SUFFICES ASSUME Dns!Init PROVE DnsInv
  OBVIOUS
<1>1. TID \in Nat \ {0}
  BY NameIs
<1>2. 0 % TID = 0
  BY <1>1
<1>3. questions = 0 /\ dnstid_l = 0 /\ dns = <<>> /\ dnsNet = {} /\ haveDNSanswer = FALSE
  BY DEF Dns!Init
<1> QED BY <1>2, <1>3 DEF DnsInv

\* Asking.
LEMMA DnsRequest ==
    ASSUME DnsInv, NEW name \in Names, NEW up \in BOOLEAN, Dns!dnslkup_request(name, up)
    PROVE  DnsInv'
<1>1. CASE ~up
  <2>1. UNCHANGED <<dnstid_l, questions, asked, dns, dnsNet>> /\ haveDNSanswer' = FALSE
    BY <1>1 DEF Dns!dnslkup_request
  <2> QED BY <2>1 DEF DnsInv
<1>2. CASE up
  <2> DEFINE t == Dns!NextTid
             bytes == Dns!Question(Dns!HostName(name), t)
             k == questions + 1
             m == [to |-> "server", sport |-> <<224, t>>, dport |-> 53, bytes |-> bytes, number |-> k]
  <2>1. /\ haveDNSanswer' = FALSE /\ dnstid_l' = t /\ questions' = k /\ asked' = name
        /\ dns' = Dns!Over(bytes)
    BY <1>2 DEF Dns!dnslkup_request
  <2>2. dnsNet' = dnsNet \cup {m}
    <3>1. dnsNet' = dnsNet \cup
              {[to |-> "server", sport |-> <<224, t>>, dport |-> 53, bytes |-> bytes, number |-> questions']}
      BY <1>2 DEF Dns!dnslkup_request, Dns!DNSCLIENT_SRC_PORT_H, Dns!SERVER_PORT
    <3> QED BY <2>1, <3>1
  <2>3. questions \in Nat /\ k \in Nat /\ t = k % TID /\ t \in Nat /\ dns \in Seq(Nat)
    <3>1. questions \in Nat /\ dnstid_l = questions % TID /\ dns \in Seq(Nat)
      BY DEF DnsInv
    <3>2. t = ((questions % TID) + 1) % TID
      BY <3>1 DEF Dns!NextTid
    <3> QED BY <3>1, <3>2, NextIdIs
  <2>4. bytes \in Seq(Nat)
    <3> HIDE DEF t
    <3> QED BY <2>3, QuestionIs
  <2>5. dns' \in Seq(Nat)
    <3> HIDE DEF bytes
    <3> QED BY <2>1, <2>3, <2>4, OverIs
  <2>6. Sound(m, k, name)
    <3>1. m.to = "server" /\ m.sport = <<224, t>> /\ m.bytes = bytes /\ m.number = k
      OBVIOUS
    <3> HIDE DEF m, k, t
    <3>2. Posed(m, k, name)
      BY <2>3, <3>1 DEF Posed
    <3> QED BY <2>3, <3>1, <3>2 DEF Sound
  <2>7. ASSUME NEW x \in dnsNet PROVE Sound(x, k, name)
    <3>1. Sound(x, questions, asked) /\ questions \in Nat
      BY DEF DnsInv
    <3>2. x.number \in Nat /\ x.number <= k /\ x.number # k
      BY <3>1 DEF Sound
    <3> HIDE DEF k
    <3>3. x.to = "server" => Posed(x, k, name)
      BY <3>1, <3>2 DEF Sound, Posed
    <3>4. Told(x, questions, asked) => Told(x, k, name)
      BY <3>2 DEF Told
    <3>5. x.to = "board" => x.dport = <<224, x.number % TID>> /\ (Told(x, k, name) \/ Refused(x))
      BY <3>1, <3>4 DEF Sound
    <3> QED BY <3>2, <3>3, <3>5 DEF Sound
  <2> HIDE DEF m, k, t, bytes
  <2>8. \A x \in dnsNet' : Sound(x, questions', asked')
    BY <2>1, <2>2, <2>6, <2>7
  <2> QED BY <2>1, <2>3, <2>5, <2>8 DEF DnsInv
<1> QED BY <1>1, <1>2

\* What the server may reply.
LEMMA ReplyAmong ==
    ASSUME NEW q, NEW m \in Dns!RepliesTo(q)
    PROVE  \/ m = Dns!Reply(q, <<>>, 131, <<>>, FALSE)
           \/ \E x \in Names : SubSeq(q.bytes, 13, Len(q.bytes)) = Body(x) /\ m \in Dns!Replies(q, x)
<1> DEFINE s == SubSeq(q.bytes, 13, Len(q.bytes))
           no == Dns!Reply(q, <<>>, 131, <<>>, FALSE)
<1>1. CASE m = no
  BY <1>1
<1>2. CASE m # no
  <2>1. m \in UNION { Dns!Replies(q, x) : x \in { x \in Names : s = Dns!Wire(x) \o Dns!TypeAClassIN } }
    BY <1>2 DEF Dns!RepliesTo
  <2> HIDE DEF s, no
  <2>2. \E x \in Names : s = Dns!Wire(x) \o Dns!TypeAClassIN /\ m \in Dns!Replies(q, x)
    BY <2>1
  <2> QED BY <2>2 DEF Body, s
<1> QED BY <1>1, <1>2

\* The server.
LEMMA DnsServer ==
    ASSUME Forms \subseteq {"pointer", "full"}, DnsInv, Dns!ServerAnswers
    PROVE  DnsInv'
<1>1. PICK q \in dnsNet :
          q.to = "server" /\ \E m \in Dns!RepliesTo(q) : dnsNet' = (dnsNet \ {q}) \cup {m}
  BY DEF Dns!ServerAnswers
<1>8. PICK m \in Dns!RepliesTo(q) : dnsNet' = (dnsNet \ {q}) \cup {m}
  BY <1>1
<1>2. /\ \/ m = Dns!Reply(q, <<>>, 131, <<>>, FALSE)
         \/ \E name \in Names : SubSeq(q.bytes, 13, Len(q.bytes)) = Body(name) /\ m \in Dns!Replies(q, name)
      /\ dnsNet' = (dnsNet \ {q}) \cup {m}
  BY <1>8, ReplyAmong
<1>3. UNCHANGED <<dnstid_l, haveDNSanswer, dns_answerip, taken, dns, asked, questions>>
  BY DEF Dns!ServerAnswers, Dns!dnsResult
<1>4. Posed(q, questions, asked) /\ q.number \in Nat /\ q.number <= questions
  BY <1>1 DEF DnsInv, Sound
<1>5. /\ m.to = "board" /\ m.number = q.number /\ m.dport = <<224, q.number % TID>>
      /\ Told(m, questions, asked) \/ Refused(m)
  <2>1. CASE \E name \in Names : /\ SubSeq(q.bytes, 13, Len(q.bytes)) = Body(name)
                                    /\ m \in Dns!Replies(q, name)
    <3>1. PICK name \in Names, form \in Forms, c \in Extras, address \in BOOLEAN :
              /\ SubSeq(q.bytes, 13, Len(q.bytes)) = Body(name)
              /\ m = Dns!Reply(q, name, 128, Dns!Records(form, name, c, address), address)
      BY <2>1 DEF Dns!Replies
    <3> QED BY <1>4, <3>1, ReplyTold
  <2>2. CASE m = Dns!Reply(q, <<>>, 131, <<>>, FALSE)
    <3> DEFINE r == Dns!Reply(q, <<>>, 131, <<>>, FALSE)
    <3>1. r.to = "board" /\ r.number = q.number /\ r.dport = <<224, q.number % TID>> /\ Refused(r)
      BY <1>4, ReplyRefused, ZenonT(60)
    <3>2. m = r
      BY <2>2
    <3> HIDE DEF r
    <3> QED BY <3>1, <3>2, ZenonT(60)
  <2> QED BY <1>2, <2>1, <2>2
<1>6. Sound(m, questions, asked)
  BY <1>4, <1>5 DEF Sound
<1>7. \A x \in dnsNet' : Sound(x, questions, asked)
  BY <1>2, <1>6 DEF DnsInv
<1> QED BY <1>3, <1>7 DEF DnsInv

\* What a packet does.
LEMMA DnsArrives ==
    ASSUME DnsInv, NEW m \in dnsNet, Dns!udp_client_check_for_dns_answer(m)
    PROVE  DnsInv'
<1> DEFINE n == Len(m.bytes)
           b == Dns!Over(m.bytes \o << 0 >>)
           w == Dns!Walk(b, n)
           good == Dns!IsAnswer(m) /\ Dns!FlagsGood(m)
<1>1. m.to = "board" /\ dns' = b /\ UNCHANGED <<dnstid_l, asked, questions, dnsNet>>
  BY DEF Dns!udp_client_check_for_dns_answer
<1>2. \/ /\ good /\ w.error = 0 /\ haveDNSanswer' = TRUE /\ dns_answerip' = w.address
         /\ taken' = [number |-> m.number, len |-> n, empty |-> m.empty]
      \/ UNCHANGED <<haveDNSanswer, dns_answerip, taken>>
  BY <1>1 DEF Dns!udp_client_check_for_dns_answer
<1> HIDE DEF n, b
<1>3. /\ b \in Seq(Nat)
      /\ Dns!IsAnswer(m) => /\ m.number \in Nat /\ m.number <= questions
                            /\ m.number % TID = questions % TID
      /\ Dns!FlagsGood(m) =>
            /\ m.address \in BOOLEAN /\ (m.number = questions => asked = m.name)
            /\ Dns!Readable(n, m.empty) =>
                  w = IF m.address THEN Dns!Found(0, Dns!Address(m.name))
                      ELSE Dns!Found(3, Dns!NoAddress)
  BY <1>1, AnswerSays DEF n, b
<1> HIDE DEF w
<1>4. CASE UNCHANGED <<haveDNSanswer, dns_answerip, taken>>
  BY <1>1, <1>3, <1>4 DEF DnsInv
<1>5. CASE /\ good /\ w.error = 0 /\ haveDNSanswer' = TRUE /\ dns_answerip' = w.address
           /\ taken' = [number |-> m.number, len |-> n, empty |-> m.empty]
  <2>1. taken'.number = m.number /\ taken'.len = n /\ taken'.empty = m.empty
    BY <1>5
  <2>2. ASSUME m.number = questions, Dns!Readable(n, m.empty) PROVE dns_answerip' = Dns!Address(asked)
    <3>1. w = IF m.address THEN Dns!Found(0, Dns!Address(m.name)) ELSE Dns!Found(3, Dns!NoAddress)
      BY <1>3, <1>5, <2>2
    <3>2. Dns!Found(3, Dns!NoAddress).error = 3
      BY DEF Dns!Found
    <3>3. m.address
      BY <1>5, <3>1, <3>2
    <3>4. w.address = Dns!Address(m.name)
      BY <3>1, <3>3 DEF Dns!Found
    <3>5. m.name = asked
      BY <1>3, <1>5, <2>2
    <3> QED BY <1>5, <3>4, <3>5
  <2>3. Dns!Readable(n, m.empty) <=> Dns!Readable(taken'.len, taken'.empty)
    BY <2>1
  <2>4. /\ taken'.number \in Nat /\ taken'.number <= questions /\ taken'.number % TID = questions % TID
        /\ taken'.number = questions /\ Dns!Readable(taken'.len, taken'.empty)
           => dns_answerip' = Dns!Address(asked)
    BY <1>3, <1>5, <2>1, <2>2, <2>3
  <2>5. Dns!Readable(taken.len, taken.empty)' <=> Dns!Readable(taken'.len, taken'.empty)
    BY DEF Dns!Readable
  <2> QED BY <1>1, <1>3, <2>4, <2>5 DEF DnsInv
<1> QED BY <1>2, <1>4, <1>5

\* What every state of the look-ups satisfies.
LEMMA DnsInductive ==
    ASSUME Forms \subseteq {"pointer", "full"}, DnsInv, [Dns!Next]_dnsvars
    PROVE  DnsInv'
<1>1. CASE UNCHANGED dnsvars
  BY <1>1 DEF dnsvars, DnsInv
<1>2. CASE Dns!Next
  <2>1. ASSUME NEW name \in Names, NEW up \in BOOLEAN, Dns!dnslkup_request(name, up) PROVE DnsInv'
    BY <2>1, DnsRequest
  <2>2. ASSUME NEW m \in dnsNet, Dns!udp_client_check_for_dns_answer(m) PROVE DnsInv'
    BY <2>2, DnsArrives
  <2>3. CASE Dns!ServerAnswers
    BY <2>3, DnsServer
  <2> QED BY <1>2, <2>1, <2>2, <2>3 DEF Dns!Next
<1> QED BY <1>1, <1>2

\* It holds always.
LEMMA DnsHolds ==
    ASSUME Forms \subseteq {"pointer", "full"}
    PROVE  MCSpec => []DnsInv
<1>1. MCInit => DnsInv
  BY DnsInit DEF MCInit
<1>2. DnsInv /\ [MCNext]_mcvars => DnsInv'
  <2> SUFFICES ASSUME DnsInv, [MCNext]_mcvars PROVE DnsInv'
    OBVIOUS
  <2>1. [Dns!Next]_dnsvars
    BY DEF MCNext, mcvars
  <2> QED BY <2>1, DnsInductive
<1> QED BY <1>1, <1>2, PTL DEF MCSpec

\* dnslkup.c:143-153, 162-218: for any names, any number of ids, of aliases and of
\* questions, and answers that come late, twice or out of order: the address
\* handed out belongs to the name last asked for, as long as names in answers
\* are written in full or by a pointer, the answer is within the reach of its
\* index and has not outlived all other ids.
THEOREM AddressOfLastName ==
    ASSUME Forms \subseteq {"pointer", "full"}
    PROVE  MCSpec => []AnswerIsForQuestion
<1>1. DnsInv => AnswerIsForQuestion
  <2> SUFFICES ASSUME DnsInv, haveDNSanswer, taken.number > questions - TID,
                      Dns!Readable(taken.len, taken.empty)
               PROVE  dns_answerip = Dns!Address(asked)
    BY DEF AnswerIsForQuestion, Dns!AnswerIsForQuestion
  <2>1. /\ questions \in Nat /\ taken.number \in Nat /\ taken.number <= questions
        /\ taken.number % TID = questions % TID
    BY DEF DnsInv
  <2>2. taken.number = questions
    BY <2>1, SameId
  <2> QED BY <2>2 DEF DnsInv
<1> QED BY <1>1, DnsHolds, PTL

\* dnslkup.c:162-218: for any names and any number of aliases, an answer within the
\* reach of the index is walked to its first address, or reported to have none
\* without reading what an earlier packet left behind it.
THEOREM AnswersRead ==
    ASSUME Forms \subseteq {"pointer", "full"}
    PROVE  MCSpec => AnswerIsRead
<1>1. DnsInv /\ [MCNext]_mcvars => [Dns!ReadsAnswer]_Dns!dnsvars
  <2> SUFFICES ASSUME DnsInv, NEW m \in dnsNet, m.to = "board", Dns!IsAnswer(m),
                      Dns!FlagsGood(m) => Dns!Readable(Len(m.bytes), m.empty),
                      Dns!udp_client_check_for_dns_answer(m)
               PROVE  IF m.address THEN haveDNSanswer' /\ dns_answerip' = Dns!Address(m.name)
                      ELSE ~hung' /\ dns_ansError' \in {1, 3} /\ haveDNSanswer' = haveDNSanswer
    BY DEF Dns!ReadsAnswer
  <2> DEFINE n == Len(m.bytes)
             b == Dns!Over(m.bytes \o << 0 >>)
             w == Dns!Walk(b, n)
             good == Dns!FlagsGood(m)
  <2>1. /\ dns' = b /\ hung' = (good /\ w = Dns!Hangs)
        /\ good /\ w.error = 0 => haveDNSanswer' = TRUE /\ dns_answerip' = w.address
        /\ ~(good /\ w.error = 0) =>
              /\ haveDNSanswer' = haveDNSanswer
              /\ dns_ansError' = IF hung' THEN dns_ansError ELSE IF good THEN w.error ELSE 1
    BY DEF Dns!udp_client_check_for_dns_answer
  <2>2. /\ ~good => m.address = FALSE
        /\ good => /\ m.address \in BOOLEAN
                   /\ w = IF m.address THEN Dns!Found(0, Dns!Address(m.name))
                          ELSE Dns!Found(3, Dns!NoAddress)
    BY AnswerSays
  <2> HIDE DEF n, b, w, good
  <2>3. CASE good /\ m.address
    <3>1. w = Dns!Found(0, Dns!Address(m.name))
      BY <2>2, <2>3
    <3>2. w.error = 0 /\ w.address = Dns!Address(m.name)
      BY <3>1 DEF Dns!Found
    <3> QED BY <2>1, <2>3, <3>2
  <2>4. CASE good /\ ~m.address
    <3>1. w = Dns!Found(3, Dns!NoAddress)
      BY <2>2, <2>4
    <3>2. w.error = 3 /\ Dns!Hangs.error = -1
      BY <3>1 DEF Dns!Found, Dns!Hangs
    <3>4. ~(good /\ w = Dns!Hangs)
      BY <3>2
    <3>3. ~hung'
      BY <2>1, <3>4
    <3> QED BY <2>1, <2>4, <3>2, <3>3
  <2>5. CASE ~good
    BY <2>1, <2>2, <2>5
  <2>6. good => m.address \in BOOLEAN
    BY <2>2
  <2> QED BY <2>3, <2>4, <2>5, <2>6
<1> QED BY <1>1, DnsHolds, PTL DEF MCSpec, AnswerIsRead, Dns!AnswerIsRead
=============================================================================
