-------------------------- MODULE GpsReaderProofs --------------------------
(***************************************************************************)
(* Proofs about GpsReader, for every buffer size and number of reads.      *)
(***************************************************************************)
EXTENDS GpsReader, TLAPS

Chars == Bytes \cup {NUL}

\* While a sentence is collected, what was heard is as long as the caret says,
\* and is in the buffer if no read failed.
Collecting ==
    /\ msg_carret > 0 =>
          /\ msg_buffer[0] = "dollar"
          /\ Len(heard) = msg_carret
          /\ clean => \A i \in 0..(msg_carret - 1) : msg_buffer[i] = heard[i + 1]
    /\ top \in Index

Inv == TypeOK /\ Collecting /\ Framed /\ Intact

LEMMA InvInit == Init => Inv
<1>. SUFFICES ASSUME Init PROVE Inv  OBVIOUS
<1>1. 0 \in Index  BY SizeAssumption DEF Index
<1>2. heard \in Seq(Bytes \cup {NUL})  BY DEF Init
<1>3. msg_buffer \in [Index -> Bytes \cup {NUL}]  BY DEF Init
<1>4. cycles \in 0..Cycles /\ tx \in 0..(SentLen - 1)  BY SizeAssumption DEF Init
<1>5. TypeOK  BY <1>1, <1>2, <1>3, <1>4 DEF Init, TypeOK
<1>6. Collecting  BY <1>1 DEF Init, Collecting
<1> QED BY <1>5, <1>6 DEF Init, Inv, Framed, Intact

\* What a read leaves of the receiver.
LEMMA ReadType ==
    ASSUME TypeOK, NEW i, NEW b, NEW ok, Read(i, b, ok)
    PROVE  tx' \in 0..(SentLen - 1)
<1>1. ASSUME NEW n \in Nat PROVE n % SentLen \in 0..(SentLen - 1)
  BY SizeAssumption
<1>2. tx + 1 \in Nat  BY DEF TypeOK
<1> QED BY <1>1, <1>2 DEF Read, TypeOK

\* Waiting for a '$'.
LEMMA IdleReadStep ==
    ASSUME Inv, IdleRead
    PROVE  Inv'
<1>1. PICK b \in Chars, ok \in BOOLEAN :
         /\ Read(0, b, ok)
         /\ msg_buffer' = [msg_buffer EXCEPT ![0] = b]
         /\ top' = Higher(0)
         /\ IF b = "dollar"
            THEN msg_carret' = 1 /\ heard' = <<b>> /\ clean' = ok
            ELSE UNCHANGED <<msg_carret, heard, clean>>
  BY DEF IdleRead, Chars
<1>2. 0 \in Index /\ 1 \in Index  BY SizeAssumption DEF Index
<1>3. tx' \in 0..(SentLen - 1)  BY <1>1, ReadType DEF Inv
<1>4. top' \in Index  BY <1>1, <1>2 DEF Higher, Inv, Collecting
<1>5. msg_buffer' \in [Index -> Chars] /\ msg_buffer'[0] = b
  BY <1>1, <1>2 DEF Inv, TypeOK, Chars
<1>6. /\ cycles' \in 0..Cycles /\ result' = "running"
      /\ len' = len /\ noisy' = noisy
  BY SizeAssumption DEF IdleRead, Inv, TypeOK
<1>7. CASE b = "dollar"
  <2>1. msg_carret' = 1 /\ heard' = <<b>> /\ clean' = ok  BY <1>1, <1>7
  <2>2. heard' \in Seq(Chars) /\ Len(heard') = 1 /\ heard'[1] = b
    <3>1. b \in Chars  OBVIOUS
    <3> QED BY <2>1, <3>1
  <2>3. TypeOK'
    BY <1>2, <1>3, <1>4, <1>5, <1>6, <2>1, <2>2 DEF Inv, TypeOK, Chars, Index
  <2>4. Collecting'  BY <1>4, <1>5, <1>7, <2>1, <2>2 DEF Collecting
  <2> QED BY <1>6, <2>3, <2>4 DEF Inv, Framed, Intact
<1>8. CASE b # "dollar"
  <2>1. msg_carret' = 0 /\ heard' = heard /\ clean' = clean
    BY <1>1, <1>8 DEF IdleRead
  <2>2. TypeOK'
    BY <1>2, <1>3, <1>4, <1>5, <1>6, <2>1 DEF Inv, TypeOK, Chars, Index
  <2>3. Collecting'  BY <1>4, <2>1 DEF Collecting
  <2> QED BY <1>6, <2>2, <2>3 DEF Inv, Framed, Intact
<1> QED BY <1>7, <1>8

\* Collecting a sentence: the byte read is appended to what was heard and to
\* what is in the buffer.
LEMMA SentenceReadStep ==
    ASSUME Inv, SentenceRead
    PROVE  Inv'
<1>. DEFINE caret == msg_carret + 1
<1>1. PICK b \in Chars, ok \in BOOLEAN :
         /\ Read(msg_carret, b, ok)
         /\ heard' = Append(heard, b)
         /\ clean' = (clean /\ ok)
         /\ \/ /\ TooLong(caret)
               /\ GiveUp
               /\ msg_buffer' = Store(b) /\ top' = Higher(msg_carret)
               /\ UNCHANGED len
            \/ /\ ~TooLong(caret) /\ Complete(Store(b), caret)
               /\ Terminate(Store(b), caret)
            \/ /\ ~TooLong(caret) /\ ~Complete(Store(b), caret)
               /\ msg_carret' = caret
               /\ msg_buffer' = Store(b) /\ top' = Higher(msg_carret)
               /\ UNCHANGED <<len, result>>
  BY DEF SentenceRead, Chars
<1>. DEFINE buf == Store(b)
<1>2. msg_carret \in Index /\ msg_carret > 0  BY DEF SentenceRead, Inv, TypeOK, Index
<1>3. tx' \in 0..(SentLen - 1)  BY <1>1, ReadType DEF Inv
<1>4. cycles' \in 0..Cycles  BY SizeAssumption DEF SentenceRead, Inv, TypeOK
<1>5. heard' \in Seq(Chars) /\ Len(heard') = caret /\ heard'[caret] = b
  BY <1>1, <1>2 DEF Inv, TypeOK, Collecting, Chars
<1>6. buf \in [Index -> Chars] /\ buf[0] = "dollar" /\ buf[msg_carret] = b
  BY <1>2, SizeAssumption DEF Inv, TypeOK, Collecting, Store, Chars, Index
<1>7. clean' => \A i \in 0..msg_carret : buf[i] = heard'[i + 1]
  <2>. SUFFICES ASSUME clean', NEW i \in 0..msg_carret
                PROVE  buf[i] = heard'[i + 1]
    OBVIOUS
  <2>1. CASE i = msg_carret  BY <1>5, <1>6, <2>1
  <2>2. CASE i < msg_carret
    <3>1. i \in Index /\ buf[i] = msg_buffer[i]
      BY <1>2, <2>2, SizeAssumption DEF Store, Inv, TypeOK, Index
    <3>2. msg_buffer[i] = heard[i + 1]
      <4>1. clean  BY <1>1
      <4>2. i \in 0..(msg_carret - 1)  BY <1>2, <2>2 DEF Index
      <4> QED BY <1>2, <4>1, <4>2 DEF Inv, Collecting
    <3>3. heard'[i + 1] = heard[i + 1]
      BY <1>1, <1>2, <2>2 DEF Inv, TypeOK, Collecting, Index
    <3> QED BY <3>1, <3>2, <3>3
  <2> QED BY <1>2, <2>1, <2>2 DEF Index
<1>8. Higher(msg_carret) \in Index  BY <1>2 DEF Higher, Inv, Collecting
<1>9. noisy' = noisy /\ clean' \in BOOLEAN
  BY <1>1 DEF SentenceRead, Inv, TypeOK
<1>. HIDE DEF buf
<1>10. CASE TooLong(caret)
  <2>1. /\ msg_carret' = 0 /\ result' = "nothing" /\ len' = len
        /\ msg_buffer' = buf /\ top' = Higher(msg_carret)
    BY <1>1, <1>10 DEF GiveUp, buf
  <2>2. TypeOK'
    BY <1>3, <1>4, <1>5, <1>6, <1>8, <1>9, <2>1, SizeAssumption
    DEF Inv, TypeOK, Chars, Index
  <2> QED BY <1>8, <2>1, <2>2 DEF Inv, Collecting, Framed, Intact
<1>11. CASE ~TooLong(caret) /\ Complete(buf, caret)
  <2>1. /\ msg_carret' = 0 /\ result' = "sentence" /\ len' = caret
        /\ msg_buffer' = [buf EXCEPT ![caret] = NUL] /\ top' = Higher(caret)
    BY <1>1, <1>11 DEF Terminate, buf
  <2>2. caret \in Index  BY <1>2, <1>11, SizeAssumption DEF TooLong, Index
  <2>3. top' \in Index  BY <2>1, <2>2 DEF Higher, Inv, Collecting
  <2>4. msg_buffer' \in [Index -> Chars] /\ msg_buffer'[caret] = NUL
    BY <1>6, <2>1, <2>2 DEF Chars
  <2>5. \A i \in 0..msg_carret : msg_buffer'[i] = buf[i]
    BY <1>2, <1>6, <2>1, <2>2 DEF Index
  <2>6. TypeOK'
    BY <1>3, <1>4, <1>5, <1>9, <2>1, <2>2, <2>3, <2>4, SizeAssumption
    DEF Inv, TypeOK, Chars, Index
  <2>7. caret >= 3
    <3>1. buf[caret - 1] = "lf" /\ buf[caret - 2] = "cr"  BY <1>11 DEF Complete
    <3>2. msg_carret # 1  BY <1>6, <3>1
    <3> QED BY <1>2, <3>2 DEF Index
  <2>8. Framed'
    <3>1. msg_buffer'[caret - 1] = "lf" /\ msg_buffer'[caret - 2] = "cr"
      BY <1>2, <1>11, <2>5 DEF Complete, Index
    <3>2. msg_buffer'[0] = "dollar"  BY <1>2, <1>6, <2>5 DEF Index
    <3> QED BY <2>1, <2>2, <2>4, <2>7, <3>1, <3>2 DEF Framed, Index
  <2>9. Intact'
    BY <1>2, <1>5, <1>7, <2>1, <2>5 DEF Intact, Index
  <2> QED BY <2>1, <2>3, <2>6, <2>8, <2>9 DEF Inv, Collecting
<1>12. CASE ~TooLong(caret) /\ ~Complete(buf, caret)
  <2>1. /\ msg_carret' = caret /\ result' = result /\ len' = len
        /\ msg_buffer' = buf /\ top' = Higher(msg_carret)
    BY <1>1, <1>12 DEF buf
  <2>2. caret \in Index  BY <1>2, <1>12, SizeAssumption DEF TooLong, Index
  <2>3. TypeOK'
    BY <1>3, <1>4, <1>5, <1>6, <1>8, <1>9, <2>1, <2>2, SizeAssumption
    DEF Inv, TypeOK, Chars, Index
  <2>4. result' = "running"  BY <2>1 DEF SentenceRead
  <2>5. Collecting'
    BY <1>2, <1>5, <1>6, <1>7, <1>8, <2>1 DEF Collecting, Index
  <2> QED BY <2>3, <2>4, <2>5 DEF Inv, Framed, Intact
<1> QED BY <1>10, <1>11, <1>12

LEMMA InvStep == Inv /\ [Next]_vars => Inv'
<1>. SUFFICES ASSUME Inv, [Next]_vars PROVE Inv'  OBVIOUS
<1>1. CASE Call
  BY <1>1, SizeAssumption DEF Call, Inv, TypeOK, Collecting, Framed, Intact, reader
<1>2. CASE IdleRead  BY <1>2, IdleReadStep
<1>3. CASE SentenceRead  BY <1>3, SentenceReadStep
<1>4. CASE Exhausted
  BY <1>4 DEF Exhausted, Inv, TypeOK, Collecting, Framed, Intact, reader
<1>5. CASE Settle
  BY <1>5 DEF Settle, Inv, TypeOK, Collecting, Framed, Intact, reader
<1>6. CASE UNCHANGED vars
  BY <1>6 DEF vars, Inv, TypeOK, Collecting, Framed, Intact, reader
<1> QED BY <1>1, <1>2, <1>3, <1>4, <1>5, <1>6 DEF Next, Step

\* The inductive invariant, for any size of the buffer and any bytes (_parseGPS).
THEOREM Invariance == Spec => []Inv
BY InvInit, InvStep, PTL DEF Spec

\* _parseGPS touches no byte outside _msg_buffer, whatever is received.
THEOREM InBoundsHolds == Spec => []InBounds
<1>1. Inv => InBounds
  BY SizeAssumption DEF Inv, TypeOK, Collecting, InBounds, Index
<1> QED BY <1>1, Invariance, PTL

\* A sentence that is handed on is framed and terminated inside the buffer.
THEOREM FramedHolds == Spec => []Framed
<1>1. Inv => Framed  BY DEF Inv
<1> QED BY <1>1, Invariance, PTL

\* A sentence in which no read failed is the one the receiver sent.
THEOREM IntactHolds == Spec => []Intact
<1>1. Inv => Intact  BY DEF Inv
<1> QED BY <1>1, Invariance, PTL

\* The caret never leaves the buffer and every byte in it is one that was read
\* or the NUL of a terminated sentence (_parseGPS).
THEOREM TypeCorrect == Spec => []TypeOK
<1>1. Inv => TypeOK  BY DEF Inv
<1> QED BY <1>1, Invariance, PTL

-----------------------------------------------------------------------------
(* In step with the receiver *)

\* The reader is as far in a sentence as the receiver, and has all of it so far.
InStep ==
    /\ msg_carret = tx
    /\ \A i \in 0..(msg_carret - 1) : msg_buffer[i] = SentenceByte(i)

\* _parseGPS returns with a sentence, and it is the receiver's.
Returns == result = "running" /\ result' = "sentence"
Delivered == len = SentLen /\ \A i \in 0..(SentLen - 1) : msg_buffer[i] = SentenceByte(i)

\* The bytes of a settled receiver: the line end comes at the end only.
LEMMA SentenceBytes ==
    ASSUME NEW i \in 0..(SentLen - 1)
    PROVE  /\ SentenceByte(i) \in Bytes
           /\ i = 0 <=> SentenceByte(i) = "dollar"
           /\ i = SentLen - 1 <=> SentenceByte(i) = "lf"
           /\ i = SentLen - 2 <=> SentenceByte(i) = "cr"
BY SizeAssumption DEF SentenceByte, Bytes

LEMMA ReadInStep ==
    ASSUME Inv, ~noisy, InStep, NEW b, NEW ok, Read(msg_carret, b, ok)
    PROVE  b = SentenceByte(msg_carret) /\ tx' = IF tx = SentLen - 1 THEN 0 ELSE tx + 1
<1>1. b = SentenceByte(msg_carret) /\ tx' = (tx + 1) % SentLen
  BY DEF Read, InStep
<1>2. tx \in 0..(SentLen - 1) /\ SentLen \in Nat /\ SentLen > 2
  BY SizeAssumption DEF Inv, TypeOK
<1>3. (tx + 1) % SentLen = IF tx = SentLen - 1 THEN 0 ELSE tx + 1
  BY <1>2
<1> QED BY <1>1, <1>3

LEMMA IdleInStep ==
    ASSUME Inv, ~noisy, InStep, IdleRead
    PROVE  InStep' /\ ~Returns
<1>1. PICK b \in Chars, ok \in BOOLEAN :
         /\ Read(0, b, ok)
         /\ msg_buffer' = [msg_buffer EXCEPT ![0] = b]
         /\ IF b = "dollar" THEN msg_carret' = 1 ELSE UNCHANGED msg_carret
  BY DEF IdleRead, Chars
<1>2. msg_carret = 0 /\ tx = 0 /\ result' = "running"
  BY DEF IdleRead, InStep
<1>3. b = SentenceByte(0) /\ tx' = 1
  BY <1>1, <1>2, ReadInStep, SizeAssumption
<1>4. SentenceByte(0) = "dollar" /\ 0 \in Index
  BY SizeAssumption DEF SentenceByte, Index
<1>5. msg_carret' = 1 /\ msg_buffer'[0] = SentenceByte(0)
  BY <1>1, <1>3, <1>4 DEF Inv, TypeOK
<1> QED BY <1>2, <1>3, <1>5 DEF InStep, Returns

LEMMA SentenceInStep ==
    ASSUME Inv, ~noisy, InStep, SentenceRead
    PROVE  InStep' /\ (Returns => Delivered')
<1> DEFINE caret == msg_carret + 1
<1>1. PICK b \in Chars, ok \in BOOLEAN :
         LET buf == Store(b)
         IN  /\ Read(msg_carret, b, ok)
             /\ \/ TooLong(caret)
                \/ ~TooLong(caret) /\ Complete(buf, caret) /\ Terminate(buf, caret)
                \/ /\ ~TooLong(caret) /\ ~Complete(buf, caret)
                   /\ msg_carret' = caret /\ msg_buffer' = buf /\ UNCHANGED result
  BY DEF SentenceRead, Chars
<1>2. PICK buf : buf = Store(b)
  OBVIOUS
<1>3. /\ msg_carret = tx /\ tx \in 1..(SentLen - 1) /\ msg_carret \in Index
      /\ SentLen \in Nat /\ SentLen > 2 /\ SentLen < MSG_BUF_SIZE /\ MSG_BUF_SIZE \in Nat
  BY SizeAssumption DEF InStep, SentenceRead, Inv, TypeOK, Index
<1>4. /\ b = SentenceByte(msg_carret)
      /\ tx' = IF tx = SentLen - 1 THEN 0 ELSE tx + 1
  BY <1>1, ReadInStep
<1>5. buf \in [Index -> Chars] /\ \A i \in 0..msg_carret : buf[i] = SentenceByte(i)
  <2>1. buf = [msg_buffer EXCEPT ![msg_carret] = b]
    BY <1>2 DEF Store
  <2>2. \A i \in 0..msg_carret : i \in Index /\ (i = msg_carret \/ i \in 0..(msg_carret - 1))
    BY <1>3 DEF Index
  <2> QED BY <2>1, <2>2, <1>3, <1>4 DEF InStep, Inv, TypeOK, Chars
<1>6. ~TooLong(caret)
  BY <1>3 DEF TooLong
<1>7. Complete(buf, caret) <=> tx = SentLen - 1
  <2>1. /\ caret - 2 \in 0..msg_carret /\ caret - 1 \in 0..msg_carret
        /\ caret - 2 \in 0..(SentLen - 1) /\ caret - 1 \in 0..(SentLen - 1)
    BY <1>3
  <2>2. buf[caret - 2] = SentenceByte(caret - 2) /\ buf[caret - 1] = SentenceByte(caret - 1)
    BY <1>5, <2>1
  <2>3. /\ caret - 1 = SentLen - 1 <=> SentenceByte(caret - 1) = "lf"
        /\ caret - 2 = SentLen - 2 <=> SentenceByte(caret - 2) = "cr"
    BY <2>1, SentenceBytes
  <2> QED BY <2>2, <2>3, <1>3 DEF Complete
<1>8. CASE tx = SentLen - 1
  <2>1. Terminate(buf, caret)
    BY <1>1, <1>2, <1>6, <1>7, <1>8
  <2>2. /\ msg_carret' = 0 /\ len' = SentLen
        /\ msg_buffer' = [buf EXCEPT ![SentLen] = NUL]
    BY <2>1, <1>3, <1>8 DEF Terminate
  <2>3. \A i \in 0..(SentLen - 1) : msg_buffer'[i] = SentenceByte(i)
    BY <2>2, <1>3, <1>5, <1>8 DEF Index
  <2> QED BY <2>2, <2>3, <1>4, <1>8 DEF InStep, Delivered
<1>9. CASE tx # SentLen - 1
  <2>1. msg_carret' = caret /\ msg_buffer' = buf /\ result' = result
    BY <1>1, <1>2, <1>6, <1>7, <1>9
  <2>2. \A i \in 0..(caret - 1) : buf[i] = SentenceByte(i)
    BY <1>3, <1>5
  <2> QED BY <2>1, <2>2, <1>3, <1>4, <1>9 DEF InStep, Returns
<1> QED BY <1>8, <1>9

\* Once the reader is in step with a settled receiver it stays so, for any size
\* of the buffer that holds the sentence and any number of reads per call, and
\* every sentence it returns is the receiver's (the safety half of
\* Resynchronises: what it has once understood it goes on understanding).
StaysInStep == [][~noisy /\ InStep => InStep' /\ (Returns => Delivered')]_vars

\* A settled receiver that is understood once is understood for good (_parseGPS).
THEOREM StaysInStepHolds == Spec => StaysInStep
<1>1. Inv /\ [Next]_vars => [~noisy /\ InStep => InStep' /\ (Returns => Delivered')]_vars
  <2> SUFFICES ASSUME Inv, Next, ~noisy, InStep
               PROVE  InStep' /\ (Returns => Delivered')
    OBVIOUS
  <2>1. CASE Call
    BY <2>1 DEF Call, reader, InStep, Returns
  <2>2. CASE IdleRead
    BY <2>2, IdleInStep
  <2>3. CASE SentenceRead
    BY <2>3, SentenceInStep
  <2>4. CASE Exhausted
    BY <2>4 DEF Exhausted, reader, InStep, Returns
  <2>5. ~Settle
    BY DEF Settle
  <2> QED BY <2>1, <2>2, <2>3, <2>4, <2>5 DEF Next, Step
<1> QED BY <1>1, Invariance, PTL DEF Spec, StaysInStep
=============================================================================
