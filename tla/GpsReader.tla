------------------------------ MODULE GpsReader ------------------------------
(***************************************************************************)
(* _parseGPS of granum_main.c: the main loop calls it once per iteration   *)
(* to collect bytes of the GPS receiver in _msg_buffer until an NMEA       *)
(* sentence "$...\r\n" is complete.  The caret survives from call to call. *)
(* The result of read() is not looked at: when it fails (the device did    *)
(* not open, or a signal interrupts it) the byte that was in the buffer    *)
(* before is taken for the byte read.                                      *)
(*                                                                         *)
(* The receiver is noisy at first (any byte, reads that fail) and settles  *)
(* at some point: from then on it sends well-formed sentences.             *)
(***************************************************************************)
EXTENDS Integers, Sequences

CONSTANTS
    MSG_BUF_SIZE,   \* 256
    Cycles,         \* reads per call (100)
    SentLen         \* bytes of the sentences a settled receiver sends

ASSUME SizeAssumption ==
    /\ MSG_BUF_SIZE \in Nat /\ MSG_BUF_SIZE > 2
    /\ Cycles \in Nat \ {0}
    /\ SentLen \in 3..(MSG_BUF_SIZE - 1)

VARIABLES
    msg_buffer,   \* _msg_buffer, indexed from 0
    msg_carret,   \* _msg_carret
    cycles,       \* reads left in this call
    result,       \* "running", or what the last call returned
    len,          \* where the last complete sentence was terminated
    top,          \* the highest index of the buffer touched so far
    noisy,        \* the receiver has not settled
    tx,           \* index in its sentence of the next byte it sends
    heard,        \* the bytes received since the '$' that started the sentence
    clean         \* none of them was taken from a failed read

reader == <<msg_buffer, msg_carret, len, top>>
vars == <<reader, cycles, result, noisy, tx, heard, clean>>

\* '$', the two line-end bytes, a byte of text, and the NUL that ends a string.
Bytes == {"dollar", "cr", "lf", "text"}
NUL   == "nul"
Index == 0..(MSG_BUF_SIZE - 1)

\* The byte at position i of a well-formed sentence.
SentenceByte(i) == CASE i = 0           -> "dollar"
                     [] i = SentLen - 2 -> "cr"
                     [] i = SentLen - 1 -> "lf"
                     [] OTHER           -> "text"

Higher(i) == IF i > top THEN i ELSE top

-----------------------------------------------------------------------------
\* read(fd, buffer + i, 1): either a byte b arrives, or nothing changes.
\* ok tells which, for the history variables only.
Read(i, b, ok) ==
    \/ /\ noisy
       /\ ok = FALSE /\ b = msg_buffer[i]
       /\ UNCHANGED tx
    \/ /\ ok = TRUE
       /\ b \in IF noisy THEN Bytes ELSE {SentenceByte(tx)}
       /\ tx' = IF noisy THEN tx ELSE (tx + 1) % SentLen

\* The main loop calls _parseGPS(gps_fd, 100).
Call ==
    /\ result # "running"
    /\ result' = "running"
    /\ cycles' = Cycles
    /\ UNCHANGED <<reader, noisy, tx, heard, clean>>

\* No sentence is being collected: wait for its '$'.
IdleRead ==
    /\ result = "running" /\ cycles > 0 /\ msg_carret = 0
    /\ \E b \in Bytes \cup {NUL}, ok \in BOOLEAN :
          /\ Read(0, b, ok)
          /\ msg_buffer' = [msg_buffer EXCEPT ![0] = b]
          /\ top' = Higher(0)
          /\ IF b = "dollar"
             THEN msg_carret' = 1 /\ heard' = <<b>> /\ clean' = ok
             ELSE UNCHANGED <<msg_carret, heard, clean>>
    /\ cycles' = cycles - 1
    /\ UNCHANGED <<result, len, noisy>>

\* Mutant: the caret advanced before the byte is stored, not after.
Store_PreIncrement(b) == [msg_buffer EXCEPT ![msg_carret + 1] = b]
Store(b) == [msg_buffer EXCEPT ![msg_carret] = b]

\* Mutants: the sentence is given up one byte too late, or too early.
TooLong_OffByOne(caret) == caret > MSG_BUF_SIZE
TooLong_Early(caret) == caret >= MSG_BUF_SIZE - 1
TooLong(caret) == caret >= MSG_BUF_SIZE

Complete(buf, caret) == buf[caret - 2] = "cr" /\ buf[caret - 1] = "lf"

GiveUp == msg_carret' = 0 /\ result' = "nothing"

\* Mutant: the terminator overwrites the last byte.
Terminate_OneEarly(buf, caret) ==
    /\ msg_buffer' = [buf EXCEPT ![caret - 1] = NUL]
    /\ top' = Higher(caret) /\ len' = caret
    /\ msg_carret' = 0 /\ result' = "sentence"
Terminate(buf, caret) ==
    /\ msg_buffer' = [buf EXCEPT ![caret] = NUL]
    /\ top' = Higher(caret) /\ len' = caret
    /\ msg_carret' = 0 /\ result' = "sentence"

\* A byte of the sentence.
SentenceRead ==
    /\ result = "running" /\ cycles > 0 /\ msg_carret # 0
    /\ \E b \in Bytes \cup {NUL}, ok \in BOOLEAN :
          LET caret == msg_carret + 1
              buf   == Store(b)
          IN  /\ Read(msg_carret, b, ok)
              /\ heard' = Append(heard, b)
              /\ clean' = (clean /\ ok)
              /\ \/ /\ TooLong(caret)
                    /\ GiveUp
                    /\ msg_buffer' = buf /\ top' = Higher(msg_carret)
                    /\ UNCHANGED len
                 \/ /\ ~TooLong(caret) /\ Complete(buf, caret)
                    /\ Terminate(buf, caret)
                 \/ /\ ~TooLong(caret) /\ ~Complete(buf, caret)
                    /\ msg_carret' = caret
                    /\ msg_buffer' = buf /\ top' = Higher(msg_carret)
                    /\ UNCHANGED <<len, result>>
    /\ cycles' = cycles - 1
    /\ UNCHANGED noisy

\* The reads of this call are used up.
Exhausted ==
    /\ result = "running" /\ cycles = 0
    /\ result' = "nothing"
    /\ UNCHANGED <<reader, cycles, noisy, tx, heard, clean>>

\* The receiver settles, somewhere in a sentence.
Settle ==
    /\ noisy
    /\ noisy' = FALSE
    /\ tx' \in 0..(SentLen - 1)
    /\ UNCHANGED <<reader, cycles, result, heard, clean>>

Init ==
    /\ msg_buffer = [i \in Index |-> NUL]
    /\ msg_carret = 0 /\ len = 0 /\ top = 0
    /\ cycles = 0 /\ result = "nothing"
    /\ noisy = TRUE /\ tx = 0
    /\ heard = <<>> /\ clean = FALSE

Step == Call \/ IdleRead \/ SentenceRead \/ Exhausted

Next == Step \/ Settle

Spec == Init /\ [][Next]_vars

\* The main loop keeps calling and the settled receiver keeps sending.
FairSpec == Spec /\ WF_vars(Step)

-----------------------------------------------------------------------------
TypeOK ==
    /\ msg_buffer \in [Index -> Bytes \cup {NUL}]
    /\ msg_carret \in Index
    /\ cycles \in 0..Cycles
    /\ result \in {"running", "sentence", "nothing"}
    /\ len \in Nat /\ top \in Nat
    /\ noisy \in BOOLEAN /\ tx \in 0..(SentLen - 1)
    /\ heard \in Seq(Bytes \cup {NUL}) /\ clean \in BOOLEAN

\* Whatever the receiver sends and whichever reads fail, no byte outside
\* _msg_buffer is written, the terminating NUL included, and none is read: the
\* test of the two last bytes looks no further down than the first.
InBounds ==
    /\ top < MSG_BUF_SIZE
    /\ msg_carret > 0 => msg_buffer[0] = "dollar"

\* A sentence handed to minmea is framed: it starts with '$', ends with the
\* line end and is terminated inside the buffer.
Framed ==
    result = "sentence" =>
        /\ len \in 3..(MSG_BUF_SIZE - 1)
        /\ msg_buffer[0] = "dollar"
        /\ msg_buffer[len - 2] = "cr" /\ msg_buffer[len - 1] = "lf"
        /\ msg_buffer[len] = NUL

\* If no read failed in it, the sentence is exactly what the receiver sent from
\* its '$' on, however many calls it took to collect.
Intact ==
    (result = "sentence" /\ clean) =>
        /\ Len(heard) = len
        /\ \A i \in 0..(len - 1) : msg_buffer[i] = heard[i + 1]

\* Garbage does no lasting harm: a settled receiver is understood, again and
\* again, whatever was in the buffer when it settled.
Whole == result = "sentence" /\ clean /\ len = SentLen
Resynchronises == ~noisy ~> Whole
=============================================================================
