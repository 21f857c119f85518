--------------------------- MODULE TelemetryProofs ---------------------------
(***************************************************************************)
(* Proofs about Telemetry, for any numbers of messages, of starts and of   *)
(* file names: what was sent is on the card, and the card is never         *)
(* overwritten.                                                            *)
(***************************************************************************)
EXTENDS Telemetry, SequenceTheorems, TLAPS

\* m is on the card for good, or an error of the card concerns it.
Recorded(m) == m \in failed \/ \E f \in names : \E i \in 1..synced[f] : log[f][i] = m

\* m is in the open file, or an error of the card concerns it.
InFile(m) == m \in failed \/ \E i \in 1..Len(log[file_fd]) : log[file_fd][i] = m

\* A file without a name is empty; a thread sends only into a named file.
CardOK ==
    /\ \A f \in Files : f \notin names => log[f] = <<>> /\ synced[f] = 0
    /\ running = "on" => file_fd \in names
    /\ \A t \in Threads : pc[t] # "idle" => running = "on"

\* What was sent is recorded, and so is what is about to be sent.
SentOK ==
    /\ \A m \in radio \cup rasp : Recorded(m)
    /\ \A t \in Threads :
          /\ pc[t] = "fsync" => InFile(cur[t])
          /\ pc[t] \in {"radio", "rasp"} => Recorded(cur[t])

\* The message of a thread carries the thread's name and its latest number.
NumbersOK ==
    \A t \in Threads :
        /\ count[t] <= total
        /\ pc[t] # "idle" => /\ cur[t].thread = t /\ cur[t].boot = boot
                             /\ cur[t].n = count[t]

\* The open file holds messages of this start, none of them newer than what
\* its thread is about to write.
EntriesOK ==
    running = "on" =>
        \A i \in 1..Len(log[file_fd]) :
            LET e == log[file_fd][i]
            IN  /\ e.boot = boot /\ e.n <= count[e.thread]
                /\ pc[e.thread] = "write" => e.n < count[e.thread]

Inv == TypeOK /\ CardOK /\ SentOK /\ NumbersOK /\ EntriesOK /\ LogOrder

LEMMA BoundFacts == MaxMsgs \in Nat /\ MaxBoots \in Nat \ {0} /\ 0 \in Files
BY BoundAssumption DEF Files

LEMMA LogFacts ==
    ASSUME TypeOK, NEW f \in Files
    PROVE  /\ log[f] \in Seq(Messages) /\ Len(log[f]) \in Nat
           /\ synced[f] \in Nat /\ synced[f] <= Len(log[f])
           /\ \A i \in 1..Len(log[f]) : log[f][i] \in Messages
<1>1. log[f] \in Seq(Messages)  BY DEF TypeOK
<1>2. Len(log[f]) \in Nat /\ \A i \in 1..Len(log[f]) : log[f][i] \in Messages
  BY <1>1, LenProperties, ElementOfSeq
<1> QED BY <1>1, <1>2 DEF TypeOK

\* What is left of the open file when it loses its end.
LEMMA CutFacts ==
    ASSUME TypeOK, NEW k \in synced[file_fd]..Len(log[file_fd])
    PROVE  LET s == SubSeq(log[file_fd], 1, k)
           IN  /\ s \in Seq(Messages) /\ Len(s) = k
               /\ \A i \in 1..k : s[i] = log[file_fd][i] /\ i \in 1..Len(log[file_fd])
               /\ k \in Nat /\ synced[file_fd] <= k /\ k <= Len(log[file_fd])
<1>1. /\ Len(log[file_fd]) \in Nat /\ synced[file_fd] \in Nat
      /\ \A i \in 1..Len(log[file_fd]) : log[file_fd][i] \in Messages
  BY LogFacts DEF TypeOK
<1>2. k \in Nat /\ synced[file_fd] <= k /\ k <= Len(log[file_fd])
  BY <1>1
<1>3. \A i \in 1..k : log[file_fd][i] \in Messages
  BY <1>1, <1>2
<1> DEFINE s == SubSeq(log[file_fd], 1, k)
<1>4. /\ s \in Seq(Messages) /\ Len(s) = IF 1 <= k THEN k - 1 + 1 ELSE 0
      /\ \A i \in 1..(k - 1 + 1) : s[i] = log[file_fd][1 + i - 1]
  BY <1>2, <1>3, SubSeqProperties
<1> HIDE DEF s
<1>5. Len(s) = k /\ k - 1 + 1 = k /\ \A i \in 1..k : 1 + i - 1 = i
  BY <1>2, <1>4
<1> QED BY <1>1, <1>2, <1>4, <1>5 DEF s

\* The two outcomes of a sync.
FsyncDone ==
    /\ synced' = [synced EXCEPT ![file_fd] = Len(log[file_fd])]
    /\ UNCHANGED <<log, failed>>

FsyncFails ==
    /\ failed' = failed \cup Unsafe(file_fd)
    /\ \E k \in synced[file_fd]..Len(log[file_fd]) :
          log' = [log EXCEPT ![file_fd] = SubSeq(log[file_fd], 1, k)]
    /\ UNCHANGED synced

LEMMA FsyncOutcomes ==
    ASSUME NEW t, Fsync(t)
    PROVE  FsyncDone \/ FsyncFails
BY DEF Fsync, FsyncDone, FsyncFails

\* A failed sync leaves a part of the open file that holds what was synced.
LEMMA FsyncFailsFacts ==
    ASSUME TypeOK, FsyncFails
    PROVE  /\ \A f \in Files : f # file_fd => log'[f] = log[f]
           /\ log'[file_fd] \in Seq(Messages)
           /\ Len(log'[file_fd]) \in Nat /\ Len(log'[file_fd]) <= Len(log[file_fd])
           /\ synced[file_fd] <= Len(log'[file_fd])
           /\ \A i \in 1..Len(log'[file_fd]) : /\ log'[file_fd][i] = log[file_fd][i]
                                              /\ i \in 1..Len(log[file_fd])
           /\ log' \in [Files -> Seq(Messages)]
<1>1. PICK k \in synced[file_fd]..Len(log[file_fd]) :
         log' = [log EXCEPT ![file_fd] = SubSeq(log[file_fd], 1, k)]
  BY DEF FsyncFails
<1> DEFINE s == SubSeq(log[file_fd], 1, k)
<1>2. /\ s \in Seq(Messages) /\ Len(s) = k
      /\ \A i \in 1..k : s[i] = log[file_fd][i] /\ i \in 1..Len(log[file_fd])
      /\ k \in Nat /\ synced[file_fd] <= k /\ k <= Len(log[file_fd])
  BY CutFacts
<1>3. log' = [log EXCEPT ![file_fd] = s]
  BY <1>1
<1> HIDE DEF s
<1> QED BY <1>2, <1>3 DEF TypeOK

\* A message stays recorded if no file loses what is durable in it.
LEMMA RecordedStays ==
    ASSUME TypeOK, TypeOK', NEW m, Recorded(m), failed \subseteq failed',
           \A f \in names : Kept(f) /\ (synced[f] # 0 => f \in names')
    PROVE  Recorded(m)'
<1>1. CASE m \in failed  BY <1>1 DEF Recorded
<1>2. CASE m \notin failed
  <2>1. PICK f \in names : \E i \in 1..synced[f] : log[f][i] = m
    BY <1>2 DEF Recorded
  <2>2. PICK i \in 1..synced[f] : log[f][i] = m  BY <2>1
  <2>3. f \in Files /\ synced[f] \in Nat /\ synced'[f] \in Nat
    BY DEF TypeOK
  <2>4. f \in names' /\ synced[f] <= synced'[f] /\ log'[f][i] = m
    BY <2>2, <2>3 DEF Kept
  <2>5. i \in 1..synced'[f]  BY <2>3, <2>4
  <2> QED BY <2>4, <2>5 DEF Recorded
<1> QED BY <1>1, <1>2

LEMMA InvInit == Init => Inv
<1>. SUFFICES ASSUME Init PROVE Inv  OBVIOUS
<1>0. <<>> \in Seq(Messages) /\ <<>> \in Seq(Kinds) /\ Len(<<>>) = 0  BY EmptySeq
<1>1. NoMsg \in Messages
  BY BoundFacts DEF NoMsg, Messages, Threads, Kinds
<1>2. TypeOK
  <2>1. boot \in 1..MaxBoots /\ total \in 0..MaxMsgs /\ ticker \in 0..(TickerPeriod - 1)
    BY BoundAssumption DEF Init
  <2>2. log \in [Files -> Seq(Messages)] /\ synced \in [Files -> Nat]
    BY <1>0 DEF Init
  <2>3. \A f \in Files : synced[f] <= Len(log[f])  BY <1>0 DEF Init
  <2>4. /\ pc \in [Threads -> Locations] /\ cur \in [Threads -> Messages]
        /\ todo \in [Threads -> Seq(Kinds)] /\ count \in [Threads -> 0..MaxMsgs]
    BY <1>0, <1>1, BoundFacts DEF Init, Locations
  <2> QED BY <2>1, <2>2, <2>3, <2>4, BoundFacts DEF Init, TypeOK
<1>3. CardOK  BY DEF Init, CardOK
<1>4. SentOK  BY DEF Init, SentOK
<1>5. NumbersOK  BY DEF Init, NumbersOK
<1>6. EntriesOK  BY DEF Init, EntriesOK
<1>7. LogOrder  BY <1>0 DEF Init, LogOrder
<1> QED BY <1>2, <1>3, <1>4, <1>5, <1>6, <1>7 DEF Inv

-----------------------------------------------------------------------------
\* Type correctness, action by action.

LEMMA StartType ==
    ASSUME Inv, Start
    PROVE  TypeOK'
<1>1. PICK f \in Files : /\ FreshFile(f) /\ file_fd' = f
                         /\ names' = names \cup {f}
                         /\ log' = [log EXCEPT ![f] = <<>>]
                         /\ synced' = [synced EXCEPT ![f] = 0]
  BY DEF Start
<1>2. <<>> \in Seq(Messages) /\ Len(<<>>) = 0  BY EmptySeq
<1>3. log' \in [Files -> Seq(Messages)] /\ synced' \in [Files -> Nat]
  BY <1>1, <1>2 DEF Inv, TypeOK
<1>4. \A g \in Files : synced'[g] <= Len(log'[g])
  BY <1>1, <1>2 DEF Inv, TypeOK
<1> QED BY <1>1, <1>3, <1>4 DEF Start, sinks, threads, Inv, TypeOK

LEMMA IterationType ==
    ASSUME Inv, Iteration
    PROVE  TypeOK'
<1>1. PICK g \in {<<>>, <<"gps">>}, st \in {<<>>, <<"status">>} :
         todo' = [todo EXCEPT !["main"] =
                    <<"luminosity", "pressure", "sonar">> \o g \o st]
  BY DEF Iteration
<1>2. g \in Seq(Kinds) /\ st \in Seq(Kinds)
  <2>1. <<>> \in Seq(Kinds)  BY EmptySeq
  <2>2. <<"gps">> \in Seq(Kinds) /\ <<"status">> \in Seq(Kinds)  BY DEF Kinds
  <2> QED BY <2>1, <2>2
<1>3. <<"luminosity", "pressure", "sonar">> \in Seq(Kinds)  BY DEF Kinds
<1>4. <<"luminosity", "pressure", "sonar">> \o g \in Seq(Kinds)
  BY <1>2, <1>3, ConcatProperties
<1>5. <<"luminosity", "pressure", "sonar">> \o g \o st \in Seq(Kinds)
  BY <1>2, <1>4, ConcatProperties
<1>6. todo' \in [Threads -> Seq(Kinds)]  BY <1>1, <1>5 DEF Inv, TypeOK, Threads
<1> QED BY <1>6 DEF Iteration, card, sinks, Inv, TypeOK

LEMMA SampleType ==
    ASSUME Inv, Sample
    PROVE  TypeOK'
<1>1. <<"imu", "quaternion">> \in Seq(Kinds)  BY DEF Kinds
<1>2. todo' \in [Threads -> Seq(Kinds)]
  BY <1>1 DEF Sample, Inv, TypeOK, Threads
<1>3. ticker' \in 0..(TickerPeriod - 1)
  BY BoundAssumption DEF Sample, SampleDue, Inv, TypeOK
<1> QED BY <1>2, <1>3 DEF Sample, card, sinks, Inv, TypeOK

LEMMA CallType ==
    ASSUME Inv, NEW t \in Threads, Call(t)
    PROVE  TypeOK'
<1>1. /\ total \in Nat /\ total < MaxMsgs /\ count[t] \in Nat /\ count[t] <= total
      /\ boot \in 1..MaxBoots
  BY BoundFacts DEF Call, Inv, TypeOK, NumbersOK
<1>2. Head(todo[t]) \in Kinds /\ Tail(todo[t]) \in Seq(Kinds)
  BY HeadTailProperties DEF Call, Inv, TypeOK
<1>3. count[t] + 1 \in 0..MaxMsgs /\ total + 1 \in 0..MaxMsgs  BY <1>1, BoundFacts
<1>4. Msg(t, Head(todo[t]), count[t] + 1) \in Messages
  <2>1. boot \in 0..MaxBoots  BY <1>1, BoundFacts
  <2> QED BY <1>2, <1>3, <2>1 DEF Msg, Messages
<1>5. /\ cur' \in [Threads -> Messages] /\ count' \in [Threads -> 0..MaxMsgs]
      /\ todo' \in [Threads -> Seq(Kinds)] /\ pc' \in [Threads -> Locations]
  BY <1>2, <1>3, <1>4 DEF Call, Fill, Inv, TypeOK, Locations
<1> QED BY <1>3, <1>5 DEF Call, card, sinks, Inv, TypeOK

\* The steps of send_telem.
LEMMA MoveType ==
    ASSUME Inv, NEW t \in Threads, NEW from, NEW to \in Locations, Move(t, from, to)
    PROVE  /\ running = "on" /\ pc[t] = from /\ file_fd \in Files
           /\ cur[t] \in Messages
           /\ pc' = [pc EXCEPT ![t] = to] /\ pc' \in [Threads -> Locations]
           /\ UNCHANGED <<boot, running, file_fd, names, cur, todo, count, ticker, total>>
BY DEF Move, Inv, TypeOK

LEMMA WriteFileType ==
    ASSUME Inv, NEW t \in Threads, WriteFile(t)
    PROVE  TypeOK'
<1>1. /\ file_fd \in Files /\ cur[t] \in Messages /\ pc' \in [Threads -> Locations]
      /\ UNCHANGED <<boot, running, file_fd, names, cur, todo, count, ticker, total>>
  BY MoveType DEF WriteFile, AfterWrite, Locations
<1>2. Append(log[file_fd], cur[t]) \in Seq(Messages)
      /\ Len(Append(log[file_fd], cur[t])) = Len(log[file_fd]) + 1
  BY <1>1, LogFacts, AppendProperties DEF Inv
<1>3. log' \in [Files -> Seq(Messages)]
  BY <1>1, <1>2 DEF WriteFile, Inv, TypeOK
<1>4. failed' \subseteq Messages  BY <1>1 DEF WriteFile, Inv, TypeOK
<1>5. ASSUME NEW f \in Files PROVE synced'[f] <= Len(log'[f])
  <2>1. Len(log[f]) \in Nat /\ synced[f] \in Nat /\ synced[f] <= Len(log[f])
    BY LogFacts DEF Inv
  <2>2. log'[f] = log[f] \/ (f = file_fd /\ log'[f] = Append(log[file_fd], cur[t]))
    BY <1>1 DEF WriteFile, Inv, TypeOK
  <2>3. synced'[f] = synced[f]  BY DEF WriteFile
  <2> QED BY <1>2, <2>1, <2>2, <2>3
<1> QED BY <1>1, <1>3, <1>4, <1>5 DEF WriteFile, Inv, TypeOK

LEMMA FsyncType ==
    ASSUME Inv, NEW t \in Threads, Fsync(t)
    PROVE  TypeOK'
<1>1. /\ file_fd \in Files /\ pc' \in [Threads -> Locations]
      /\ UNCHANGED <<boot, running, file_fd, names, cur, todo, count, ticker, total>>
      /\ UNCHANGED <<radio, rasp>>
  BY MoveType DEF Fsync, Locations
<1>2. /\ Len(log[file_fd]) \in Nat
      /\ \A i \in 1..Len(log[file_fd]) : log[file_fd][i] \in Messages
  BY <1>1, LogFacts DEF Inv
<1>3. CASE FsyncDone
  <2>1. synced' \in [Files -> Nat]  BY <1>1, <1>2, <1>3 DEF FsyncDone, Inv, TypeOK
  <2>2. ASSUME NEW f \in Files PROVE synced'[f] <= Len(log'[f])
    BY <1>1, <1>2, <1>3 DEF FsyncDone, Inv, TypeOK
  <2> QED BY <1>1, <1>3, <2>1, <2>2 DEF FsyncDone, Inv, TypeOK
<1>4. CASE FsyncFails
  <2>1. failed' \subseteq Messages
    <3>1. \A i \in (synced[file_fd] + 1)..Len(log[file_fd]) : i \in 1..Len(log[file_fd])
      BY <1>1, <1>2 DEF Inv, TypeOK
    <3>2. Unsafe(file_fd) \subseteq Messages  BY <1>2, <3>1 DEF Unsafe
    <3> QED BY <1>4, <3>2 DEF FsyncFails, Inv, TypeOK
  <2>2. log' \in [Files -> Seq(Messages)] /\ \A f \in Files : synced'[f] <= Len(log'[f])
    BY <1>1, <1>4, FsyncFailsFacts DEF FsyncFails, Inv, TypeOK
  <2> QED BY <1>1, <1>4, <2>1, <2>2 DEF FsyncFails, Inv, TypeOK
<1> QED BY <1>3, <1>4, FsyncOutcomes

LEMMA PortType ==
    ASSUME Inv, NEW t \in Threads, WriteRadio(t) \/ WriteRasp(t)
    PROVE  TypeOK'
<1>1. /\ cur[t] \in Messages /\ pc' \in [Threads -> Locations]
      /\ UNCHANGED <<boot, running, file_fd, names, cur, todo, count, ticker, total>>
  BY MoveType DEF WriteRadio, WriteRasp, Locations
<1>2. radio' \subseteq Messages /\ rasp' \subseteq Messages
  BY <1>1 DEF WriteRadio, WriteRasp, Inv, TypeOK
<1> QED BY <1>1, <1>2 DEF WriteRadio, WriteRasp, Inv, TypeOK

LEMMA PowerLossType ==
    ASSUME Inv, PowerLoss
    PROVE  TypeOK'
<1>1. PICK k \in synced[file_fd]..Len(log[file_fd]) :
         /\ log' = [log EXCEPT ![file_fd] = SubSeq(log[file_fd], 1, k)]
         /\ synced' = [synced EXCEPT ![file_fd] = k]
         /\ \/ names' = names
            \/ running = "on" /\ k = 0 /\ names' = names \ {file_fd}
  BY DEF PowerLoss
<1>2. file_fd \in Files  BY DEF Inv, TypeOK
<1>3. /\ Len(log[file_fd]) \in Nat /\ synced[file_fd] \in Nat
      /\ \A i \in 1..Len(log[file_fd]) : log[file_fd][i] \in Messages
  BY <1>2, LogFacts DEF Inv
<1>4. k \in Nat /\ k <= Len(log[file_fd])  BY <1>1, <1>3
<1>5. \A i \in 1..k : log[file_fd][i] \in Messages  BY <1>3, <1>4
<1>6. /\ SubSeq(log[file_fd], 1, k) \in Seq(Messages)
      /\ Len(SubSeq(log[file_fd], 1, k)) = k
  BY <1>4, <1>5, SubSeqProperties
<1>7. log' \in [Files -> Seq(Messages)] /\ synced' \in [Files -> Nat]
  BY <1>1, <1>2, <1>4, <1>6 DEF Inv, TypeOK
<1>8. \A f \in Files : synced'[f] <= Len(log'[f])
  BY <1>1, <1>2, <1>4, <1>6 DEF Inv, TypeOK
<1>9. NoMsg \in Messages  BY BoundFacts DEF NoMsg, Messages, Threads, Kinds
<1>10. <<>> \in Seq(Kinds)  BY EmptySeq
<1>11. /\ pc' \in [Threads -> Locations] /\ cur' \in [Threads -> Messages]
       /\ todo' \in [Threads -> Seq(Kinds)] /\ count' \in [Threads -> 0..MaxMsgs]
  BY <1>9, <1>10, BoundFacts DEF PowerLoss, Locations
<1>12. boot' \in 1..MaxBoots /\ ticker' \in 0..(TickerPeriod - 1) /\ names' \subseteq Files
  BY <1>1, BoundAssumption DEF PowerLoss, Inv, TypeOK
<1> QED BY <1>7, <1>8, <1>11, <1>12 DEF PowerLoss, sinks, Inv, TypeOK

-----------------------------------------------------------------------------
\* Steps that leave the card alone, as far as their effect on it goes.
CardKept == \A f \in Files : Kept(f) /\ (f \in names /\ synced[f] # 0 => f \in names')

LEMMA UntouchedCard ==
    ASSUME TypeOK, UNCHANGED card
    PROVE  CardKept
BY DEF TypeOK, card, CardKept, Kept

LEMMA StartKeeps ==
    ASSUME Inv, Start
    PROVE  CardKept
<1>1. PICK f \in Files : /\ FreshFile(f)
                         /\ names' = names \cup {f}
                         /\ log' = [log EXCEPT ![f] = <<>>]
                         /\ synced' = [synced EXCEPT ![f] = 0]
  BY DEF Start
<1>2. synced[f] = 0  BY <1>1 DEF FreshFile, Inv, CardOK
<1>3. ASSUME NEW g \in Files PROVE Kept(g) /\ (g \in names => g \in names')
  <2>1. CASE g = f  BY <1>1, <1>2, <2>1 DEF Kept, Inv, TypeOK
  <2>2. CASE g # f  BY <1>1, <2>2 DEF Kept, Inv, TypeOK
  <2> QED BY <2>1, <2>2
<1> QED BY <1>3 DEF CardKept

LEMMA WriteFileKeeps ==
    ASSUME Inv, NEW t \in Threads, WriteFile(t)
    PROVE  CardKept
<1>1. /\ file_fd \in Files /\ cur[t] \in Messages /\ names' = names
  BY MoveType DEF WriteFile, AfterWrite, Locations
<1>2. ASSUME NEW f \in Files PROVE Kept(f)
  <2>1. synced'[f] = synced[f]  BY DEF WriteFile
  <2>2. /\ log[f] \in Seq(Messages) /\ Len(log[f]) \in Nat
        /\ synced[f] \in Nat /\ synced[f] <= Len(log[f])
    BY LogFacts DEF Inv
  <2>3. CASE log'[f] = log[f]  BY <2>1, <2>2, <2>3 DEF Kept
  <2>4. CASE f = file_fd /\ log'[f] = Append(log[f], cur[t])
    <3>1. \A i \in 1..Len(log[f]) : log'[f][i] = log[f][i]
      BY <1>1, <2>2, <2>4, AppendProperties
    <3>2. \A i \in 1..synced[f] : log'[f][i] = log[f][i]  BY <2>2, <3>1
    <3> QED BY <2>1, <2>2, <3>2 DEF Kept
  <2> QED BY <1>1, <2>3, <2>4 DEF WriteFile, Inv, TypeOK
<1> QED BY <1>1, <1>2 DEF CardKept

LEMMA FsyncKeeps ==
    ASSUME Inv, NEW t \in Threads, Fsync(t)
    PROVE  CardKept
<1>1. file_fd \in Files /\ names' = names  BY MoveType DEF Fsync, Locations
<1>2. ASSUME NEW f \in Files PROVE Kept(f)
  <2>1. Len(log[f]) \in Nat /\ synced[f] \in Nat /\ synced[f] <= Len(log[f])
    BY LogFacts DEF Inv
  <2>2. CASE FsyncDone
    <3>1. synced'[f] \in {synced[f], Len(log[f])}  BY <1>1, <2>2 DEF FsyncDone, Inv, TypeOK
    <3> QED BY <2>1, <2>2, <3>1 DEF FsyncDone, Kept
  <2>3. CASE FsyncFails
    <3>1. synced'[f] = synced[f]  BY <2>3 DEF FsyncFails
    <3>2. \A i \in 1..synced[f] : log'[f][i] = log[f][i]
      <4>1. CASE f # file_fd  BY <2>3, <4>1, FsyncFailsFacts DEF Inv
      <4>2. CASE f = file_fd
        <5>1. /\ Len(log'[f]) \in Nat /\ synced[f] <= Len(log'[f])
              /\ \A i \in 1..Len(log'[f]) : log'[f][i] = log[f][i]
          BY <2>3, <4>2, FsyncFailsFacts DEF Inv
        <5> QED BY <2>1, <5>1
      <4> QED BY <4>1, <4>2
    <3> QED BY <2>1, <3>1, <3>2 DEF Kept
  <2> QED BY <2>2, <2>3, FsyncOutcomes
<1> QED BY <1>1, <1>2 DEF CardKept

\* A loss of power takes nothing that was synced.
LEMMA PowerLossKeeps ==
    ASSUME Inv, PowerLoss
    PROVE  CardKept
<1>1. PICK k \in synced[file_fd]..Len(log[file_fd]) :
         /\ log' = [log EXCEPT ![file_fd] = SubSeq(log[file_fd], 1, k)]
         /\ synced' = [synced EXCEPT ![file_fd] = k]
         /\ \/ names' = names
            \/ running = "on" /\ k = 0 /\ names' = names \ {file_fd}
  BY DEF PowerLoss
<1>2. file_fd \in Files  BY DEF Inv, TypeOK
<1>3. /\ Len(log[file_fd]) \in Nat /\ synced[file_fd] \in Nat
      /\ \A i \in 1..Len(log[file_fd]) : log[file_fd][i] \in Messages
  BY <1>2, LogFacts DEF Inv
<1>4. k \in Nat /\ synced[file_fd] <= k /\ k <= Len(log[file_fd])  BY <1>1, <1>3
<1>5. \A i \in 1..k : log[file_fd][i] \in Messages  BY <1>3, <1>4
<1>6. \A i \in 1..(k - 1 + 1) : SubSeq(log[file_fd], 1, k)[i] = log[file_fd][1 + i - 1]
  BY <1>4, <1>5, SubSeqProperties
<1>7. \A i \in 1..synced[file_fd] : SubSeq(log[file_fd], 1, k)[i] = log[file_fd][i]
  <2>. SUFFICES ASSUME NEW i \in 1..synced[file_fd]
                PROVE  SubSeq(log[file_fd], 1, k)[i] = log[file_fd][i]
    OBVIOUS
  <2>1. i \in 1..(k - 1 + 1) /\ 1 + i - 1 = i  BY <1>3, <1>4
  <2> QED BY <1>6, <2>1
<1>8. ASSUME NEW f \in Files
      PROVE  Kept(f) /\ (f \in names /\ synced[f] # 0 => f \in names')
  <2>1. CASE f = file_fd
    <3>1. log'[f] = SubSeq(log[file_fd], 1, k) /\ synced'[f] = k
      BY <1>1, <1>2, <2>1 DEF Inv, TypeOK
    <3>2. Kept(f)  BY <1>4, <1>7, <2>1, <3>1 DEF Kept
    <3>3. synced[f] # 0 => k # 0  BY <1>3, <1>4, <2>1
    <3> QED BY <1>1, <3>2, <3>3
  <2>2. CASE f # file_fd
    <3>1. log'[f] = log[f] /\ synced'[f] = synced[f]
      BY <1>1, <2>2 DEF Inv, TypeOK
    <3>2. Kept(f)  BY <3>1 DEF Kept, Inv, TypeOK
    <3> QED BY <1>1, <2>2, <3>2
  <2> QED BY <2>1, <2>2
<1> QED BY <1>8 DEF CardKept

-----------------------------------------------------------------------------
\* The invariant, action by action.

LEMMA StillRecorded ==
    ASSUME Inv, TypeOK', CardKept, failed \subseteq failed', NEW m, Recorded(m)
    PROVE  Recorded(m)'
<1>1. names \subseteq Files  BY DEF Inv, TypeOK
<1>2. \A f \in names : Kept(f) /\ (synced[f] # 0 => f \in names')
  BY <1>1 DEF CardKept
<1> QED BY <1>2, RecordedStays DEF Inv

\* Steps of no thread in send_telem.
LEMMA QuietStep ==
    ASSUME Inv, TypeOK', UNCHANGED <<boot, file_fd, card, sinks, pc, cur, count, total>>,
           running' = "on" <=> running = "on"
    PROVE  Inv'
<1>1. CardOK'  BY DEF card, Inv, CardOK
<1>2. SentOK'  BY DEF card, sinks, Inv, SentOK, Recorded, InFile
<1>3. NumbersOK'  BY DEF Inv, NumbersOK
<1>4. EntriesOK'  BY DEF card, Inv, EntriesOK
<1>5. LogOrder'  BY DEF card, Inv, LogOrder
<1> QED BY <1>1, <1>2, <1>3, <1>4, <1>5 DEF Inv

LEMMA StartStep ==
    ASSUME Inv, Start
    PROVE  Inv'
<1>1. PICK f \in Files : /\ FreshFile(f) /\ file_fd' = f
                         /\ names' = names \cup {f}
                         /\ log' = [log EXCEPT ![f] = <<>>]
                         /\ synced' = [synced EXCEPT ![f] = 0]
  BY DEF Start
<1>2. TypeOK'  BY StartType
<1>3. \A t \in Threads : pc[t] = "idle" /\ pc'[t] = "idle"
  BY DEF Start, threads, Inv, CardOK
<1>4. log'[f] = <<>> /\ Len(<<>>) = 0 /\ \A g \in Files : g # f => log'[g] = log[g]
  BY <1>1, EmptySeq DEF Inv, TypeOK
<1>5. CardOK'
  BY <1>1, <1>3, <1>4 DEF Inv, TypeOK, CardOK
<1>6. SentOK'
  <2>1. radio' = radio /\ rasp' = rasp /\ failed' = failed  BY DEF Start, sinks
  <2>2. ASSUME NEW m \in radio \cup rasp PROVE Recorded(m)'
    BY <1>2, <2>1, StartKeeps, StillRecorded DEF Inv, SentOK
  <2> QED BY <1>3, <2>1, <2>2 DEF SentOK
<1>7. NumbersOK'  BY <1>3 DEF Start, threads, Inv, NumbersOK
<1>8. EntriesOK'  BY <1>1, <1>4 DEF EntriesOK
<1>9. LogOrder'
  <2>1. ASSUME NEW g \in Files, NEW i \in 1..Len(log'[g]), NEW j \in 1..Len(log'[g])
        PROVE  /\ log'[g][i].boot = log'[g][j].boot
               /\ i < j /\ log'[g][i].thread = log'[g][j].thread
                     => log'[g][i].n < log'[g][j].n
    <3>1. CASE g = f  BY <1>4, <3>1
    <3>2. CASE g # f  BY <1>4, <3>2 DEF Inv, LogOrder
    <3> QED BY <3>1, <3>2
  <2> QED BY <2>1 DEF LogOrder
<1> QED BY <1>2, <1>5, <1>6, <1>7, <1>8, <1>9 DEF Inv

LEMMA CallStep ==
    ASSUME Inv, NEW t \in Threads, Call(t)
    PROVE  Inv'
<1>1. TypeOK'  BY CallType
<1>2. /\ running = "on" /\ pc[t] = "idle"
      /\ UNCHANGED <<boot, running, file_fd, card, sinks>>
  BY DEF Call
<1>3. /\ pc'[t] = "write" /\ count'[t] = count[t] + 1
      /\ cur'[t] = Msg(t, Head(todo[t]), count[t] + 1)
      /\ \A u \in Threads : u # t => /\ pc'[u] = pc[u] /\ count'[u] = count[u]
                                    /\ cur'[u] = cur[u]
  BY DEF Call, Fill, Inv, TypeOK
<1>4. \A u \in Threads : count[u] \in Nat  BY BoundFacts DEF Inv, TypeOK
<1>5. CardOK'  BY <1>2 DEF card, Inv, CardOK
<1>6. SentOK'
  BY <1>2, <1>3 DEF card, sinks, Inv, SentOK, Recorded, InFile
<1>7. NumbersOK'
  <2>1. total' = total + 1 /\ total \in Nat  BY BoundFacts DEF Call, Inv, TypeOK
  <2>2. ASSUME NEW u \in Threads
        PROVE  /\ count'[u] <= total'
               /\ pc'[u] # "idle" => /\ cur'[u].thread = u /\ cur'[u].boot = boot'
                                     /\ cur'[u].n = count'[u]
    <3>1. CASE u = t
      BY <1>2, <1>3, <1>4, <2>1, <3>1 DEF Msg, Inv, NumbersOK
    <3>2. CASE u # t  BY <1>2, <1>3, <1>4, <2>1, <3>2 DEF Inv, NumbersOK
    <3> QED BY <3>1, <3>2
  <2> QED BY <2>2 DEF NumbersOK
<1>8. EntriesOK'
  <2>1. log' = log /\ file_fd' = file_fd /\ boot' = boot /\ file_fd \in Files
    BY <1>2 DEF card, Inv, TypeOK
  <2>2. ASSUME NEW i \in 1..Len(log[file_fd]), NEW e, e = log[file_fd][i]
        PROVE  /\ e.boot = boot /\ e.n <= count'[e.thread]
               /\ pc'[e.thread] = "write" => e.n < count'[e.thread]
    <3>1. e \in Messages  BY <2>1, <2>2, LogFacts DEF Inv
    <3>2. e.thread \in Threads /\ e.n \in Nat  BY <3>1, BoundFacts DEF Messages
    <3>3. /\ e.boot = boot /\ e.n <= count[e.thread]
          /\ pc[e.thread] = "write" => e.n < count[e.thread]
      BY <1>2, <2>2 DEF Inv, EntriesOK
    <3>4. CASE e.thread = t  BY <1>3, <1>4, <3>2, <3>3, <3>4
    <3>5. CASE e.thread # t  BY <1>3, <3>2, <3>3, <3>5
    <3> QED BY <3>4, <3>5
  <2> QED BY <2>1, <2>2 DEF EntriesOK
<1>9. LogOrder'  BY <1>2 DEF card, Inv, LogOrder
<1> QED BY <1>1, <1>5, <1>6, <1>7, <1>8, <1>9 DEF Inv

\* The write to the card: the message is the newest of its thread in the file.
LEMMA WriteFileStep ==
    ASSUME Inv, NEW t \in Threads, WriteFile(t)
    PROVE  Inv'
<1>1. TypeOK'  BY WriteFileType
<1>2. /\ running = "on" /\ pc[t] = "write" /\ file_fd \in Files /\ cur[t] \in Messages
      /\ pc' = [pc EXCEPT ![t] = "fsync"]
      /\ UNCHANGED <<boot, running, file_fd, names, cur, todo, count, ticker, total>>
      /\ UNCHANGED <<synced, radio, rasp>>
  BY MoveType DEF WriteFile, AfterWrite, Locations
<1>3. /\ pc'[t] = "fsync"
      /\ \A u \in Threads : u # t => pc'[u] = pc[u]
  BY <1>2 DEF Inv, TypeOK
<1>4. /\ log[file_fd] \in Seq(Messages) /\ Len(log[file_fd]) \in Nat
      /\ \A i \in 1..Len(log[file_fd]) : log[file_fd][i] \in Messages
  BY <1>2, LogFacts DEF Inv
<1>5. \/ log' = log /\ failed' = failed \cup {cur[t]}
      \/ log' = [log EXCEPT ![file_fd] = Append(log[file_fd], cur[t])] /\ failed' = failed
  BY DEF WriteFile
<1>6. /\ Len(Append(log[file_fd], cur[t])) = Len(log[file_fd]) + 1
      /\ \A i \in 1..Len(log[file_fd]) :
            Append(log[file_fd], cur[t])[i] = log[file_fd][i]
      /\ Append(log[file_fd], cur[t])[Len(log[file_fd]) + 1] = cur[t]
  BY <1>2, <1>4, AppendProperties
<1>7. \A f \in Files : f # file_fd => log'[f] = log[f]  BY <1>5 DEF Inv, TypeOK
<1>8. cur[t].thread = t /\ cur[t].boot = boot /\ cur[t].n = count[t]
  BY <1>2 DEF Inv, NumbersOK
<1>9. ASSUME NEW i \in 1..Len(log[file_fd])
      PROVE  /\ log[file_fd][i].boot = boot
             /\ log[file_fd][i].n <= count[log[file_fd][i].thread]
             /\ pc[log[file_fd][i].thread] = "write" =>
                   log[file_fd][i].n < count[log[file_fd][i].thread]
  BY <1>2 DEF Inv, EntriesOK
<1>10. CardOK'  BY <1>2, <1>3, <1>7 DEF Inv, CardOK
<1>11. SentOK'
  <2>1. failed \subseteq failed'  BY <1>5
  <2>2. ASSUME NEW m, Recorded(m) PROVE Recorded(m)'
    BY <1>1, <2>1, <2>2, WriteFileKeeps, StillRecorded
  <2>3. ASSUME NEW m, InFile(m) PROVE InFile(m)'
    <3>1. CASE m \in failed  BY <2>1, <3>1 DEF InFile
    <3>2. CASE m \notin failed
      <4>1. PICK i \in 1..Len(log[file_fd]) : log[file_fd][i] = m
        BY <2>3, <3>2 DEF InFile
      <4>2. CASE log' = log  BY <1>2, <4>1, <4>2 DEF InFile
      <4>3. CASE log' = [log EXCEPT ![file_fd] = Append(log[file_fd], cur[t])]
        <5>1. log'[file_fd] = Append(log[file_fd], cur[t])
          BY <1>2, <4>3 DEF Inv, TypeOK
        <5>2. i \in 1..Len(log'[file_fd]) /\ log'[file_fd][i] = m
          BY <1>4, <1>6, <4>1, <5>1
        <5> QED BY <1>2, <5>2 DEF InFile
      <4> QED BY <1>5, <4>2, <4>3
    <3> QED BY <3>1, <3>2
  <2>4. InFile(cur[t])'
    <3>1. CASE failed' = failed \cup {cur[t]}  BY <1>2, <3>1 DEF InFile
    <3>2. CASE log' = [log EXCEPT ![file_fd] = Append(log[file_fd], cur[t])]
      <4>1. log'[file_fd] = Append(log[file_fd], cur[t])
        BY <1>2, <3>2 DEF Inv, TypeOK
      <4>2. /\ Len(log[file_fd]) + 1 \in 1..Len(log'[file_fd])
            /\ log'[file_fd][Len(log[file_fd]) + 1] = cur[t]
        BY <1>4, <1>6, <4>1
      <4> QED BY <1>2, <4>2 DEF InFile
    <3> QED BY <1>5, <3>1, <3>2
  <2>5. \A m \in radio' \cup rasp' : Recorded(m)'  BY <1>2, <2>2 DEF Inv, SentOK
  <2>6. ASSUME NEW u \in Threads
        PROVE  /\ pc'[u] = "fsync" => InFile(cur[u])'
               /\ pc'[u] \in {"radio", "rasp"} => Recorded(cur[u])'
    <3>1. CASE u = t  BY <1>3, <2>4, <3>1
    <3>2. CASE u # t
      <4>1. pc'[u] = pc[u] /\ cur'[u] = cur[u]  BY <1>2, <1>3, <3>2
      <4>2. ASSUME NEW m, m = cur[u]
            PROVE  /\ pc[u] = "fsync" => InFile(m)'
                   /\ pc[u] \in {"radio", "rasp"} => Recorded(m)'
        BY <2>2, <2>3, <4>2 DEF Inv, SentOK
      <4>3. pc[u] = "fsync" => InFile(cur[u])'  BY <4>1, <4>2 DEF InFile
      <4>4. pc[u] \in {"radio", "rasp"} => Recorded(cur[u])'  BY <4>1, <4>2 DEF Recorded
      <4> QED BY <4>1, <4>3, <4>4
    <3> QED BY <3>1, <3>2
  <2> QED BY <2>5, <2>6 DEF SentOK
<1>12. NumbersOK'  BY <1>2, <1>3 DEF Inv, NumbersOK
<1>13. EntriesOK'
  <2>1. ASSUME NEW i \in 1..Len(log'[file_fd]), NEW e, e = log'[file_fd][i]
        PROVE  /\ e.boot = boot /\ e.n <= count[e.thread]
               /\ pc'[e.thread] = "write" => e.n < count[e.thread]
    <3>1. CASE i \in 1..Len(log[file_fd]) /\ e = log[file_fd][i]
      <4>1. e.thread \in Threads  BY <1>4, <3>1 DEF Messages
      <4>2. pc'[e.thread] = "write" => pc[e.thread] = "write"  BY <1>2, <1>3, <4>1
      <4> QED BY <1>9, <3>1, <4>2
    <3>2. CASE e = cur[t]
      <4>1. count[t] \in Nat  BY BoundFacts DEF Inv, TypeOK
      <4> QED BY <1>3, <1>8, <3>2, <4>1
    <3>3. (i \in 1..Len(log[file_fd]) /\ e = log[file_fd][i]) \/ e = cur[t]
      <4>1. CASE log' = log  BY <2>1, <4>1
      <4>2. CASE log' = [log EXCEPT ![file_fd] = Append(log[file_fd], cur[t])]
        <5>1. log'[file_fd] = Append(log[file_fd], cur[t])
          BY <1>2, <4>2 DEF Inv, TypeOK
        <5>2. i \in 1..Len(log[file_fd]) \/ i = Len(log[file_fd]) + 1
          BY <1>4, <1>6, <5>1
        <5> QED BY <1>6, <2>1, <5>1, <5>2
      <4> QED BY <1>5, <4>1, <4>2
    <3> QED BY <3>1, <3>2, <3>3
  <2> QED BY <1>2, <2>1 DEF EntriesOK
<1>14. LogOrder'
  <2>1. CASE log' = log  BY <2>1 DEF Inv, LogOrder
  <2>2. CASE log' = [log EXCEPT ![file_fd] = Append(log[file_fd], cur[t])]
    <3>1. log'[file_fd] = Append(log[file_fd], cur[t])  BY <1>2, <2>2 DEF Inv, TypeOK
    <3>2. ASSUME NEW f \in Files, NEW i \in 1..Len(log'[f]), NEW j \in 1..Len(log'[f])
          PROVE  /\ log'[f][i].boot = log'[f][j].boot
                 /\ i < j /\ log'[f][i].thread = log'[f][j].thread
                       => log'[f][i].n < log'[f][j].n
      <4>1. CASE f # file_fd  BY <1>7, <4>1 DEF Inv, LogOrder
      <4>2. CASE f = file_fd
        <5>1. ASSUME NEW h \in 1..Len(log'[f])
              PROVE  \/ h \in 1..Len(log[f]) /\ log'[f][h] = log[f][h]
                     \/ h = Len(log[f]) + 1 /\ log'[f][h] = cur[t]
          BY <1>4, <1>6, <3>1, <4>2
        <5>2. CASE i \in 1..Len(log[f]) /\ j \in 1..Len(log[f])
          <6>1. log'[f][i] = log[f][i] /\ log'[f][j] = log[f][j]
            BY <1>6, <3>1, <4>2, <5>2
          <6> QED BY <5>2, <6>1 DEF Inv, LogOrder
        <5>3. CASE i \in 1..Len(log[f]) /\ j = Len(log[f]) + 1
          <6>1. log'[f][i] = log[f][i] /\ log'[f][j] = cur[t]
            BY <1>6, <3>1, <4>2, <5>3
          <6>2. log[f][i].boot = boot  BY <1>9, <4>2, <5>3
          <6>3. log[f][i].thread = t => log[f][i].n < count[t]
            BY <1>2, <1>9, <4>2, <5>3
          <6> QED BY <1>8, <6>1, <6>2, <6>3
        <5>4. CASE i = Len(log[f]) + 1 /\ j \in 1..Len(log[f])
          <6>1. log'[f][i] = cur[t] /\ log'[f][j] = log[f][j]
            BY <1>6, <3>1, <4>2, <5>4
          <6>2. log[f][j].boot = boot  BY <1>9, <4>2, <5>4
          <6>3. ~(i < j)  BY <1>4, <4>2, <5>4
          <6> QED BY <1>8, <6>1, <6>2, <6>3
        <5>5. CASE i = Len(log[f]) + 1 /\ j = Len(log[f]) + 1
          <6>1. ~(i < j) /\ i = j  BY <1>4, <4>2, <5>5
          <6> QED BY <6>1
        <5> QED BY <5>1, <5>2, <5>3, <5>4, <5>5
      <4> QED BY <4>1, <4>2
    <3> QED BY <3>2 DEF LogOrder
  <2> QED BY <1>5, <2>1, <2>2
<1> QED BY <1>1, <1>10, <1>11, <1>12, <1>13, <1>14 DEF Inv

\* The sync: everything in the open file is recorded, or the card has reported an
\* error about what is not.
LEMMA FsyncStep ==
    ASSUME Inv, NEW t \in Threads, Fsync(t)
    PROVE  Inv'
<1>1. TypeOK'  BY FsyncType
<1>2. /\ running = "on" /\ pc[t] = "fsync" /\ file_fd \in Files
      /\ pc' = [pc EXCEPT ![t] = "radio"]
      /\ UNCHANGED <<boot, running, file_fd, names, cur, todo, count, ticker, total>>
      /\ UNCHANGED <<radio, rasp>>
  BY MoveType DEF Fsync, Locations
<1>3. /\ pc'[t] = "radio"
      /\ \A u \in Threads : u # t => pc'[u] = pc[u]
  BY <1>2 DEF Inv, TypeOK
<1>4. file_fd \in names  BY <1>2 DEF Inv, CardOK
<1>5. /\ \A f \in Files : f # file_fd => synced'[f] = synced[f] /\ log'[f] = log[f]
      /\ failed \subseteq failed'
  <2>1. CASE FsyncDone  BY <1>2, <2>1 DEF FsyncDone, Inv, TypeOK
  <2>2. CASE FsyncFails  BY <1>2, <2>2, FsyncFailsFacts DEF FsyncFails, Inv
  <2> QED BY <2>1, <2>2, FsyncOutcomes
<1>6. /\ \A i \in 1..Len(log'[file_fd]) : /\ i \in 1..Len(log[file_fd])
                                          /\ log'[file_fd][i] = log[file_fd][i]
      /\ log[file_fd] \in Seq(Messages)
  <2>1. CASE FsyncDone  BY <1>2, <2>1, LogFacts DEF FsyncDone, Inv
  <2>2. CASE FsyncFails  BY <1>2, <2>2, FsyncFailsFacts, LogFacts DEF Inv
  <2> QED BY <2>1, <2>2, FsyncOutcomes
<1>7. CardOK'  BY <1>2, <1>3, <1>4, <1>5 DEF Inv, CardOK
<1>8. SentOK'
  <2>1. ASSUME NEW m, Recorded(m) PROVE Recorded(m)'
    BY <1>1, <1>5, <2>1, FsyncKeeps, StillRecorded
  <2>2. ASSUME NEW m, InFile(m) PROVE Recorded(m)' /\ InFile(m)'
    <3>1. CASE m \in failed  BY <1>5, <3>1 DEF InFile, Recorded
    <3>2. CASE FsyncDone /\ m \notin failed
      <4>1. synced'[file_fd] = Len(log[file_fd]) /\ log' = log
        BY <1>2, <3>2 DEF FsyncDone, Inv, TypeOK
      <4> QED BY <1>2, <1>4, <2>2, <3>2, <4>1 DEF InFile, Recorded
    <3>3. CASE FsyncFails /\ m \notin failed
      <4>1. PICK i \in 1..Len(log[file_fd]) : log[file_fd][i] = m
        BY <2>2, <3>3 DEF InFile
      <4>2. CASE i \in 1..synced[file_fd]
        <5>1. Recorded(m)  BY <1>4, <4>1, <4>2 DEF Recorded
        <5>2. Recorded(m)'  BY <2>1, <5>1
        <5>3. InFile(m)'
          <6>1. /\ Len(log'[file_fd]) \in Nat /\ synced[file_fd] <= Len(log'[file_fd])
                /\ \A j \in 1..Len(log'[file_fd]) : log'[file_fd][j] = log[file_fd][j]
            BY <3>3, FsyncFailsFacts DEF Inv
          <6>2. synced[file_fd] \in Nat  BY <1>2 DEF Inv, TypeOK
          <6>3. i \in 1..Len(log'[file_fd])  BY <4>2, <6>1, <6>2
          <6> QED BY <1>2, <4>1, <6>1, <6>3 DEF InFile
        <5> QED BY <5>2, <5>3
      <4>3. CASE i \notin 1..synced[file_fd]
        <5>1. i \in (synced[file_fd] + 1)..Len(log[file_fd])
          BY <1>2, <4>3, LogFacts DEF Inv
        <5>2. m \in failed'  BY <3>3, <4>1, <5>1 DEF FsyncFails, Unsafe
        <5> QED BY <5>2 DEF InFile, Recorded
      <4> QED BY <4>2, <4>3
    <3> QED BY <3>1, <3>2, <3>3, FsyncOutcomes
  <2>3. \A m \in radio' \cup rasp' : Recorded(m)'  BY <1>2, <2>1 DEF Inv, SentOK
  <2>4. ASSUME NEW u \in Threads
        PROVE  /\ pc'[u] = "fsync" => InFile(cur[u])'
               /\ pc'[u] \in {"radio", "rasp"} => Recorded(cur[u])'
    <3>1. cur'[u] = cur[u]  BY <1>2
    <3>2. ASSUME NEW m, m = cur[u]
          PROVE  /\ pc[u] = "fsync" => InFile(m)' /\ Recorded(m)'
                 /\ pc[u] \in {"radio", "rasp"} => Recorded(m)'
      BY <2>1, <2>2, <3>2 DEF Inv, SentOK
    <3>3. pc[u] = "fsync" => InFile(cur[u])'  BY <3>1, <3>2 DEF InFile
    <3>4. pc[u] \in {"fsync", "radio", "rasp"} => Recorded(cur[u])'
      BY <3>1, <3>2 DEF Recorded
    <3>5. pc'[u] = pc[u] \/ (pc[u] = "fsync" /\ pc'[u] = "radio")  BY <1>2, <1>3
    <3> QED BY <3>3, <3>4, <3>5
  <2> QED BY <2>3, <2>4 DEF SentOK
<1>9. NumbersOK'  BY <1>2, <1>3 DEF Inv, NumbersOK
<1>10. EntriesOK'
  <2>1. ASSUME NEW i \in 1..Len(log'[file_fd]), NEW e, e = log'[file_fd][i]
        PROVE  /\ e.boot = boot /\ e.n <= count[e.thread]
               /\ pc'[e.thread] = "write" => e.n < count[e.thread]
    <3>1. i \in 1..Len(log[file_fd]) /\ e = log[file_fd][i]  BY <1>6, <2>1
    <3>2. /\ e.boot = boot /\ e.n <= count[e.thread]
          /\ pc[e.thread] = "write" => e.n < count[e.thread]
      BY <1>2, <3>1 DEF Inv, EntriesOK
    <3>3. e.thread \in Threads  BY <1>2, <3>1, LogFacts DEF Inv, Messages
    <3> QED BY <1>3, <3>2, <3>3
  <2> QED BY <1>2, <2>1 DEF EntriesOK
<1>11. LogOrder'
  <2>1. ASSUME NEW f \in Files, NEW i \in 1..Len(log'[f]), NEW j \in 1..Len(log'[f])
        PROVE  /\ log'[f][i].boot = log'[f][j].boot
               /\ i < j /\ log'[f][i].thread = log'[f][j].thread
                     => log'[f][i].n < log'[f][j].n
    <3>1. /\ i \in 1..Len(log[f]) /\ log'[f][i] = log[f][i]
          /\ j \in 1..Len(log[f]) /\ log'[f][j] = log[f][j]
      BY <1>5, <1>6
    <3> QED BY <3>1 DEF Inv, LogOrder
  <2> QED BY <2>1 DEF LogOrder
<1> QED BY <1>1, <1>7, <1>8, <1>9, <1>10, <1>11 DEF Inv

\* The radio and the Raspberry Pi are given what is recorded.
LEMMA PortStep ==
    ASSUME Inv, NEW t \in Threads, WriteRadio(t) \/ WriteRasp(t)
    PROVE  Inv'
<1>1. TypeOK'  BY PortType
<1>2. /\ running = "on" /\ pc[t] \in {"radio", "rasp"} /\ file_fd \in Files
      /\ pc' = [pc EXCEPT ![t] = IF pc[t] = "radio" THEN "rasp" ELSE "idle"]
      /\ UNCHANGED <<boot, running, file_fd, names, cur, todo, count, ticker, total>>
      /\ UNCHANGED <<log, synced, failed>>
  BY MoveType DEF WriteRadio, WriteRasp, Locations
<1>3. /\ pc'[t] = (IF pc[t] = "radio" THEN "rasp" ELSE "idle")
      /\ \A u \in Threads : u # t => pc'[u] = pc[u]
  BY <1>2 DEF Inv, TypeOK
<1>4. radio' \cup rasp' \subseteq radio \cup rasp \cup {cur[t]}
  BY DEF WriteRadio, WriteRasp
<1>5. CardOK'  BY <1>2, <1>3 DEF Inv, CardOK
<1>6. SentOK'
  <2>1. \A m : Recorded(m)' <=> Recorded(m)  BY <1>2 DEF Recorded
  <2>2. \A m : InFile(m)' <=> InFile(m)  BY <1>2 DEF InFile
  <2>3. ASSUME NEW m \in radio' \cup rasp' PROVE Recorded(m)'
    BY <1>2, <1>4, <2>1 DEF Inv, SentOK
  <2>4. ASSUME NEW u \in Threads
        PROVE  /\ pc'[u] = "fsync" => InFile(cur[u])'
               /\ pc'[u] \in {"radio", "rasp"} => Recorded(cur[u])'
    <3>1. cur'[u] = cur[u]  BY <1>2
    <3>2. ASSUME NEW m, m = cur[u]
          PROVE  /\ pc[u] = "fsync" => InFile(m)'
                 /\ pc[u] \in {"radio", "rasp"} => Recorded(m)'
      BY <2>1, <2>2, <3>2 DEF Inv, SentOK
    <3>3. pc[u] = "fsync" => InFile(cur[u])'  BY <3>1, <3>2 DEF InFile
    <3>4. pc[u] \in {"radio", "rasp"} => Recorded(cur[u])'
      BY <3>1, <3>2 DEF Recorded
    <3>5. pc'[u] = pc[u] \/ (pc[u] \in {"radio", "rasp"} /\ pc'[u] \in {"rasp", "idle"})
      BY <1>2, <1>3
    <3> QED BY <3>3, <3>4, <3>5
  <2> QED BY <2>3, <2>4 DEF SentOK
<1>7. NumbersOK'  BY <1>2, <1>3 DEF Inv, NumbersOK
<1>8. EntriesOK'
  <2>1. ASSUME NEW i \in 1..Len(log[file_fd])
        PROVE  pc'[log[file_fd][i].thread] = "write" =>
                   pc[log[file_fd][i].thread] = "write"
    <3>1. log[file_fd][i].thread \in Threads
      BY <1>2, LogFacts DEF Inv, Messages
    <3> QED BY <1>3, <3>1
  <2> QED BY <1>2, <2>1 DEF Inv, EntriesOK
<1>9. LogOrder'  BY <1>2 DEF Inv, LogOrder
<1> QED BY <1>1, <1>5, <1>6, <1>7, <1>8, <1>9 DEF Inv

LEMMA PowerLossStep ==
    ASSUME Inv, PowerLoss
    PROVE  Inv'
<1>1. PICK k \in synced[file_fd]..Len(log[file_fd]) :
         /\ log' = [log EXCEPT ![file_fd] = SubSeq(log[file_fd], 1, k)]
         /\ synced' = [synced EXCEPT ![file_fd] = k]
         /\ \/ names' = names
            \/ running = "on" /\ k = 0 /\ names' = names \ {file_fd}
  BY DEF PowerLoss
<1>2. TypeOK'  BY PowerLossType
<1>3. file_fd \in Files  BY DEF Inv, TypeOK
<1>4. /\ Len(log[file_fd]) \in Nat /\ synced[file_fd] \in Nat
      /\ \A i \in 1..Len(log[file_fd]) : log[file_fd][i] \in Messages
  BY <1>3, LogFacts DEF Inv
<1>5. k \in Nat /\ k <= Len(log[file_fd])  BY <1>1, <1>4
<1>6. \A i \in 1..k : log[file_fd][i] \in Messages  BY <1>4, <1>5
<1>7. /\ Len(SubSeq(log[file_fd], 1, k)) = k
      /\ \A i \in 1..(k - 1 + 1) : SubSeq(log[file_fd], 1, k)[i] = log[file_fd][1 + i - 1]
  BY <1>5, <1>6, SubSeqProperties
<1>8. /\ log'[file_fd] = SubSeq(log[file_fd], 1, k) /\ synced'[file_fd] = k
      /\ \A f \in Files : f # file_fd => log'[f] = log[f] /\ synced'[f] = synced[f]
  BY <1>1, <1>3 DEF Inv, TypeOK
<1>9. /\ running' = "off" /\ \A t \in Threads : pc'[t] = "idle" /\ count'[t] = 0
      /\ file_fd' = file_fd /\ total' = total
      /\ radio' = radio /\ rasp' = rasp /\ failed' = failed
  BY DEF PowerLoss, sinks
<1>10. CardOK'
  <2>1. k = 0 => log'[file_fd] = <<>>
    <3>1. SubSeq(log[file_fd], 1, 0) = <<>>  BY SubSeqEmpty
    <3> QED BY <1>8, <3>1
  <2>2. file_fd \notin names => k = 0
    <3>1. file_fd \notin names => Len(log[file_fd]) = 0
      BY <1>3, EmptySeq DEF Inv, CardOK
    <3> QED BY <1>4, <1>5, <3>1
  <2>3. ASSUME NEW f \in Files, f \notin names'
        PROVE  log'[f] = <<>> /\ synced'[f] = 0
    <3>1. CASE f = file_fd
      <4>1. k = 0  BY <1>1, <2>2, <2>3, <3>1
      <4> QED BY <1>8, <2>1, <3>1, <4>1
    <3>2. CASE f # file_fd
      <4>1. f \notin names  BY <1>1, <2>3, <3>2
      <4> QED BY <1>8, <3>2, <4>1 DEF Inv, CardOK
    <3> QED BY <3>1, <3>2
  <2> QED BY <1>9, <2>3 DEF CardOK
<1>11. SentOK'
  <2>1. ASSUME NEW m \in radio \cup rasp PROVE Recorded(m)'
    BY <1>2, <1>9, PowerLossKeeps, StillRecorded DEF Inv, SentOK
  <2> QED BY <1>9, <2>1 DEF SentOK
<1>12. NumbersOK'
  <2>1. total \in Nat  BY BoundFacts DEF Inv, TypeOK
  <2> QED BY <1>9, <2>1 DEF NumbersOK
<1>13. EntriesOK'  BY <1>9 DEF EntriesOK
<1>14. LogOrder'
  <2>1. ASSUME NEW f \in Files, NEW i \in 1..Len(log'[f])
        PROVE  i \in 1..Len(log[f]) /\ log'[f][i] = log[f][i]
    <3>1. CASE f # file_fd  BY <1>8, <3>1
    <3>2. CASE f = file_fd
      <4>1. i \in 1..k  BY <1>7, <1>8, <3>2
      <4>2. i \in 1..(k - 1 + 1) /\ 1 + i - 1 = i /\ i \in 1..Len(log[f])
        BY <1>4, <1>5, <3>2, <4>1
      <4> QED BY <1>7, <1>8, <3>2, <4>2
    <3> QED BY <3>1, <3>2
  <2>2. ASSUME NEW f \in Files, NEW i \in 1..Len(log'[f]), NEW j \in 1..Len(log'[f])
        PROVE  /\ log'[f][i].boot = log'[f][j].boot
               /\ i < j /\ log'[f][i].thread = log'[f][j].thread
                     => log'[f][i].n < log'[f][j].n
    BY <2>1 DEF Inv, LogOrder
  <2> QED BY <2>2 DEF LogOrder
<1> QED BY <1>2, <1>10, <1>11, <1>12, <1>13, <1>14 DEF Inv

-----------------------------------------------------------------------------
\* Every step of the two threads, of the start and of a loss of power keeps
\* the invariant and what is durable on the card.
LEMMA NextStep ==
    ASSUME Inv, [Next]_vars
    PROVE  Inv' /\ CardKept
<1>1. CASE Start  BY <1>1, StartStep, StartKeeps
<1>2. CASE StartFails
  <2>1. TypeOK'  BY <1>2 DEF StartFails, card, sinks, threads, Inv, TypeOK
  <2>2. Inv'  BY <1>2, <2>1, QuietStep DEF StartFails, threads
  <2> QED BY <1>2, <2>2, UntouchedCard DEF StartFails, Inv
<1>3. CASE Iteration
  <2>1. Inv'  BY <1>3, IterationType, QuietStep DEF Iteration
  <2> QED BY <1>3, <2>1, UntouchedCard DEF Iteration, Inv
<1>4. CASE Sample
  <2>1. Inv'  BY <1>4, SampleType, QuietStep DEF Sample
  <2> QED BY <1>4, <2>1, UntouchedCard DEF Sample, Inv
<1>5. CASE PowerLoss  BY <1>5, PowerLossStep, PowerLossKeeps
<1>6. ASSUME NEW t \in Threads, send_telem(t) PROVE Inv' /\ CardKept
  <2>1. CASE Call(t)
    <3>1. UNCHANGED card  BY <2>1 DEF Call
    <3> QED BY <2>1, <3>1, CallStep, UntouchedCard DEF Inv
  <2>2. CASE WriteFile(t)  BY <2>2, WriteFileStep, WriteFileKeeps
  <2>3. CASE Fsync(t)  BY <2>3, FsyncStep, FsyncKeeps
  <2>4. CASE WriteRadio(t) \/ WriteRasp(t)
    <3>1. UNCHANGED card  BY <2>4 DEF WriteRadio, WriteRasp, Move, card
    <3> QED BY <2>4, <3>1, PortStep, UntouchedCard DEF Inv
  <2> QED BY <1>6, <2>1, <2>2, <2>3, <2>4 DEF send_telem
<1>7. CASE UNCHANGED vars
  <2>1. TypeOK'  BY <1>7 DEF vars, card, sinks, threads, Inv, TypeOK
  <2>2. Inv'  BY <1>7, <2>1, QuietStep DEF vars, threads
  <2> QED BY <1>7, <2>2, UntouchedCard DEF vars, Inv
<1> QED BY <1>1, <1>2, <1>3, <1>4, <1>5, <1>6, <1>7 DEF Next

\* Every reachable state satisfies the inductive invariant, however the two
\* threads interleave and whenever power is lost.
THEOREM Invariance == Spec => []Inv
<1>1. Inv /\ [Next]_vars => Inv'  BY NextStep
<1> QED BY <1>1, InvInit, PTL DEF Spec

\* Types: in particular the counters stay within the bounds of the model and
\* no file has more synced than it holds.
THEOREM TypeCorrect == Spec => []TypeOK
<1>1. Inv => TypeOK  BY DEF Inv
<1> QED BY <1>1, Invariance, PTL

\* send_telem writes and syncs before it sends: what the ground or the
\* Raspberry Pi got is on the card for good, unless its write failed or a sync
\* did while it was not durable yet.
THEOREM LoggedBeforeSentHolds == Spec => []LoggedBeforeSent
<1>1. Inv => LoggedBeforeSent
  BY DEF Inv, SentOK, Recorded, LoggedBeforeSent, Durable
<1> QED BY <1>1, Invariance, PTL

\* A file holds one start, each thread's messages in the order of sending.
THEOREM LogOrderHolds == Spec => []LogOrder
<1>1. Inv => LogOrder  BY DEF Inv
<1> QED BY <1>1, Invariance, PTL

\* No step, the choice of the file at a start included, changes or loses what
\* is durable in a file.
THEOREM NoOverwriteHolds == Spec => NoOverwrite
<1>1. Inv /\ [Next]_vars => [\A f \in Files : Kept(f)]_vars
  BY NextStep DEF CardKept
<1> QED BY <1>1, Invariance, PTL DEF Spec, NoOverwrite

-----------------------------------------------------------------------------
(* The recorder *)

\* Beginnings of two sequences that agree.
LEMMA Beginnings ==
    ASSUME NEW S, NEW u \in Seq(S), NEW v \in Seq(S), NEW a \in 0..Len(u), NEW b \in 0..Len(v),
           a <= b, \A i \in 1..a : u[i] = v[i]
    PROVE  LET s == SubSeq(u, 1, a)
               t == SubSeq(v, 1, b)
           IN  /\ s \in Seq(S) /\ t \in Seq(S) /\ R!IsPrefix(s, t)
               /\ a = b => s = t
               /\ a = 0 => s = <<>>
               /\ R!ToSet(s) = {u[i] : i \in 1..a}
<1> DEFINE s == SubSeq(u, 1, a)
           t == SubSeq(v, 1, b)
<1>1. /\ Len(u) \in Nat /\ Len(v) \in Nat /\ a \in Nat /\ b \in Nat
      /\ \A i \in 1..a : u[i] \in S
      /\ \A i \in 1..b : v[i] \in S
  BY LenProperties, ElementOfSeq
<1>2. s \in Seq(S) /\ Len(s) = a /\ \A i \in 1..a : s[i] = u[i]
  <2>1. /\ s \in Seq(S) /\ Len(s) = IF 1 <= a THEN a - 1 + 1 ELSE 0
        /\ \A i \in 1..(a - 1 + 1) : s[i] = u[1 + i - 1]
    BY <1>1, SubSeqProperties
  <2> HIDE DEF s
  <2> QED BY <1>1, <2>1
<1>3. t \in Seq(S) /\ Len(t) = b /\ \A i \in 1..b : t[i] = v[i]
  <2>1. /\ t \in Seq(S) /\ Len(t) = IF 1 <= b THEN b - 1 + 1 ELSE 0
        /\ \A i \in 1..(b - 1 + 1) : t[i] = v[1 + i - 1]
    BY <1>1, SubSeqProperties
  <2> HIDE DEF t
  <2> QED BY <1>1, <2>1
<1>s. a = 0 => s = <<>>
  BY SubSeqEmpty
<1> HIDE DEF s, t
<1>4. SubSeq(s, 1, a) = s
  <2>1. /\ SubSeq(s, 1, a) \in Seq(S) /\ Len(SubSeq(s, 1, a)) = IF 1 <= a THEN a - 1 + 1 ELSE 0
        /\ \A i \in 1..(a - 1 + 1) : SubSeq(s, 1, a)[i] = s[1 + i - 1]
    BY <1>1, <1>2, SubSeqProperties
  <2>2. Len(SubSeq(s, 1, a)) = Len(s) /\ \A i \in 1..Len(SubSeq(s, 1, a)) : SubSeq(s, 1, a)[i] = s[i]
    BY <1>1, <1>2, <2>1
  <2> QED BY <2>1, <2>2, <1>2, SeqEqual
<1>5. SubSeq(t, 1, a) = s
  <2>0. \A i \in 1..a : t[i] \in S
    BY <1>1, <1>3
  <2>1. /\ SubSeq(t, 1, a) \in Seq(S) /\ Len(SubSeq(t, 1, a)) = IF 1 <= a THEN a - 1 + 1 ELSE 0
        /\ \A i \in 1..(a - 1 + 1) : SubSeq(t, 1, a)[i] = t[1 + i - 1]
    BY <2>0, SubSeqProperties
  <2>2. Len(SubSeq(t, 1, a)) = Len(s) /\ \A i \in 1..Len(SubSeq(t, 1, a)) : SubSeq(t, 1, a)[i] = s[i]
    BY <1>1, <1>2, <1>3, <2>1
  <2> QED BY <2>1, <2>2, <1>2, SeqEqual
<1>6. R!IsPrefix(s, t)
  BY <1>2, <1>3, <1>4, <1>5 DEF R!IsPrefix
<1>7. a = b => s = t
  BY <1>2, <1>3, SeqEqual
<1>8. R!ToSet(s) = {u[i] : i \in 1..a}
  <2>1. DOMAIN s = 1..a
    BY <1>2, LenProperties
  <2> QED BY <1>2, <2>1 DEF R!ToSet
<1> QED BY <1>2, <1>3, <1>6, <1>7, <1>8, <1>s DEF s, t

\* What a step leaves of a file that keeps its name.
LEMMA DiskStep ==
    ASSUME Inv, Inv', NEW f \in names, f \in names', Kept(f)
    PROVE  /\ OnCard[f] \in Seq(Messages) /\ OnCard'[f] \in Seq(Messages)
           /\ R!IsPrefix(OnCard[f], OnCard'[f])
           /\ synced'[f] = synced[f] => OnCard'[f] = OnCard[f]
           /\ synced[f] = 0 => OnCard[f] = <<>>
           /\ R!ToSet(OnCard[f]) = {log[f][i] : i \in 1..synced[f]}
<1>1. f \in Files
  BY DEF Inv, TypeOK
<1>2. PICK u \in Seq(Messages), a \in Nat : u = log[f] /\ a = synced[f] /\ a \in 0..Len(u)
  BY <1>1, LogFacts DEF Inv
<1>3. PICK v \in Seq(Messages), b \in Nat : v = log'[f] /\ b = synced'[f] /\ b \in 0..Len(v)
  <2>1. log'[f] \in Seq(Messages) /\ synced'[f] \in Nat /\ synced'[f] <= Len(log'[f])
    BY <1>1 DEF Inv, TypeOK
  <2>2. Len(log'[f]) \in Nat
    BY <2>1, LenProperties
  <2> QED BY <2>1, <2>2
<1>4. /\ a \in 0..Len(u) /\ b \in 0..Len(v) /\ a <= b
      /\ \A i \in 1..a : u[i] = v[i]
  BY <1>2, <1>3 DEF Kept
<1>5. OnCard[f] = SubSeq(u, 1, a) /\ OnCard'[f] = SubSeq(v, 1, b)
  BY <1>2, <1>3 DEF OnCard
<1>6. /\ SubSeq(u, 1, a) \in Seq(Messages) /\ SubSeq(v, 1, b) \in Seq(Messages)
      /\ R!IsPrefix(SubSeq(u, 1, a), SubSeq(v, 1, b))
      /\ a = b => SubSeq(u, 1, a) = SubSeq(v, 1, b)
      /\ a = 0 => SubSeq(u, 1, a) = <<>>
      /\ R!ToSet(SubSeq(u, 1, a)) = {u[i] : i \in 1..a}
  BY <1>4, Beginnings
<1> QED BY <1>2, <1>3, <1>5, <1>6

\* A step that makes nothing of the files durable leaves the disk alone.
LEMMA DiskKept ==
    ASSUME Inv, Inv', CardKept, UNCHANGED <<names, synced>>
    PROVE  OnCard' = OnCard
<1>1. ASSUME NEW f \in names PROVE OnCard'[f] = OnCard[f]
  <2>1. f \in Files /\ f \in names' /\ synced'[f] = synced[f] /\ Kept(f)
    BY DEF Inv, TypeOK, CardKept
  <2> QED BY <2>1, DiskStep
<1>2. OnCard = [f \in names |-> OnCard[f]] /\ OnCard' = [f \in names |-> OnCard'[f]]
  BY DEF OnCard
<1> QED BY <1>1, <1>2

\* What is recorded is in the recorder.
LEMMA RecordedOnCard ==
    ASSUME Inv, Inv', CardKept, UNCHANGED <<names, synced>>, NEW m, Recorded(m)
    PROVE  R!Recorded(m)
<1>1. CASE m \in failed
  BY <1>1 DEF R!Recorded
<1>2. CASE m \notin failed
  <2>1. PICK f \in names : \E i \in 1..synced[f] : log[f][i] = m
    BY <1>2 DEF Recorded
  <2>2. f \in Files /\ f \in names' /\ Kept(f)
    BY DEF Inv, TypeOK, CardKept
  <2>3. m \in R!ToSet(OnCard[f])
    BY <2>1, <2>2, DiskStep
  <2>4. f \in DOMAIN OnCard
    BY DEF OnCard
  <2> QED BY <2>3, <2>4 DEF R!Recorded
<1> QED BY <1>1, <1>2

\* More of one file becomes durable.
LEMMA RecordStep ==
    ASSUME Inv, Inv', CardKept, UNCHANGED <<names, sinks>>, file_fd \in names,
           \A f \in Files : f # file_fd => synced'[f] = synced[f]
    PROVE  R!Record(file_fd)
<1>1. DOMAIN OnCard = names /\ DOMAIN OnCard' = names
  BY DEF OnCard
<1>2. ASSUME NEW f \in names, f # file_fd PROVE OnCard'[f] = OnCard[f]
  <2>1. f \in Files /\ f \in names' /\ synced'[f] = synced[f] /\ Kept(f)
    BY <1>2 DEF Inv, TypeOK, CardKept
  <2> QED BY <2>1, DiskStep
<1>3. OnCard'[file_fd] \in Seq(Messages) /\ R!IsPrefix(OnCard[file_fd], OnCard'[file_fd])
  <2>1. file_fd \in Files /\ file_fd \in names' /\ Kept(file_fd)
    BY DEF Inv, TypeOK, CardKept
  <2> QED BY <2>1, DiskStep
<1>4. OnCard' = [OnCard EXCEPT ![file_fd] = OnCard'[file_fd]]
  <2>1. OnCard' = [f \in names |-> OnCard'[f]]
    BY DEF OnCard
  <2>2. OnCard = [f \in names |-> OnCard[f]]
    BY DEF OnCard
  <2>3. PICK o, d : o = OnCard' /\ d = OnCard
    OBVIOUS
  <2>4. o = [f \in names |-> o[f]] /\ d = [f \in names |-> d[f]]
    BY <2>1, <2>2, <2>3
  <2>5. \A f \in names : f # file_fd => o[f] = d[f]
    BY <1>2, <2>3
  <2>6. o = [d EXCEPT ![file_fd] = o[file_fd]]
    BY <2>4, <2>5
  <2> QED BY <2>3, <2>6
<1> QED BY <1>1, <1>3, <1>4 DEF R!Record, sinks

\* Every step of the threads, of a start and of a loss of power is a step of the
\* recorder, or the recorder does nothing.
LEMMA RecorderStep ==
    ASSUME Inv, Inv', CardKept, Next
    PROVE  [R!Next]_(R!vars)
<1> USE DEF R!Next, R!vars
<1>1. CASE Start
  <2>1. PICK f \in Files : /\ FreshFile(f)
                           /\ names' = names \cup {f}
                           /\ log' = [log EXCEPT ![f] = <<>>]
                           /\ synced' = [synced EXCEPT ![f] = 0]
    BY <1>1 DEF Start
  <2>2. f \notin DOMAIN OnCard /\ DOMAIN OnCard = names
    BY <2>1 DEF OnCard, FreshFile
  <2>3. OnCard' = [g \in names \cup {f} |-> IF g = f THEN <<>> ELSE OnCard[g]]
    <3>1. ASSUME NEW g \in names \cup {f}
          PROVE  SubSeq(log'[g], 1, synced'[g]) = IF g = f THEN <<>> ELSE OnCard[g]
      <4>1. CASE g = f
        <5>1. SubSeq(<<>>, 1, 0) = <<>>
          BY SubSeqEmpty
        <5> QED BY <2>1, <4>1, <5>1 DEF Inv, TypeOK
      <4>2. CASE g # f
        <5>1. g \in names /\ g \in Files
          BY <4>2 DEF Inv, TypeOK
        <5> QED BY <2>1, <4>2, <5>1 DEF Inv, TypeOK, OnCard
      <4> QED BY <4>1, <4>2
    <3> QED BY <2>1, <3>1 DEF OnCard
  <2>4. R!Open(f)
    BY <1>1, <2>2, <2>3 DEF R!Open, Start, sinks
  <2> QED BY <2>4
<1>2. CASE StartFails \/ Iteration \/ Sample \/ \E t \in Threads : Call(t)
  <2>1. UNCHANGED <<names, synced, sinks>>
    BY <1>2 DEF StartFails, Iteration, Sample, Call, card
  <2> QED BY <2>1, DiskKept DEF sinks
<1>3. ASSUME NEW t \in Threads, WriteFile(t) PROVE [R!Next]_(R!vars)
  <2>1. UNCHANGED <<names, synced, radio, rasp>>
    BY <1>3 DEF WriteFile, Move
  <2>2. failed \subseteq failed' /\ failed' \subseteq Messages
    BY <1>3 DEF WriteFile, Inv, TypeOK
  <2> QED BY <2>1, <2>2, DiskKept DEF R!Refuse
<1>4. ASSUME NEW t \in Threads, Fsync(t) PROVE [R!Next]_(R!vars)
  <2>1. UNCHANGED <<names, radio, rasp>> /\ file_fd \in Files /\ file_fd \in names
    BY <1>4 DEF Fsync, Move, Inv, TypeOK, CardOK
  <2>2. CASE FsyncDone
    <3>1. UNCHANGED sinks /\ \A f \in Files : f # file_fd => synced'[f] = synced[f]
      BY <2>1, <2>2 DEF FsyncDone, sinks, Inv, TypeOK
    <3>2. R!Record(file_fd) /\ file_fd \in DOMAIN OnCard
      BY <2>1, <3>1, RecordStep DEF OnCard
    <3> QED BY <3>2
  <2>3. CASE FsyncFails
    <3>1. UNCHANGED synced /\ failed \subseteq failed' /\ failed' \subseteq Messages
      BY <2>3 DEF FsyncFails, Inv, TypeOK
    <3>2. OnCard' = OnCard  BY <2>1, <3>1, DiskKept
    <3> QED BY <2>1, <3>1, <3>2 DEF R!Refuse
  <2> QED BY <1>4, <2>2, <2>3, FsyncOutcomes
<1>5. ASSUME NEW t \in Threads, WriteRadio(t) \/ WriteRasp(t) PROVE [R!Next]_(R!vars)
  <2>1. /\ UNCHANGED <<names, synced, failed>> /\ pc[t] \in {"radio", "rasp"}
        /\ (radio \cup rasp) \subseteq (radio \cup rasp)'
        /\ (radio \cup rasp)' \subseteq (radio \cup rasp) \cup {cur[t]}
    BY <1>5 DEF WriteRadio, WriteRasp, Move
  <2>2. R!Recorded(cur[t])
    <3>1. Recorded(cur[t])
      BY <2>1 DEF Inv, SentOK
    <3> QED BY <2>1, <3>1, RecordedOnCard
  <2>3. R!Transmit
    <3>1. OnCard' = OnCard
      BY <2>1, DiskKept
    <3> QED BY <2>1, <2>2, <3>1 DEF R!Transmit
  <2> QED BY <2>3
<1>6. CASE PowerLoss
  <2>1. PICK k \in synced[file_fd]..Len(log[file_fd]) :
           /\ log' = [log EXCEPT ![file_fd] = SubSeq(log[file_fd], 1, k)]
           /\ synced' = [synced EXCEPT ![file_fd] = k]
           /\ \/ names' = names
              \/ running = "on" /\ k = 0 /\ names' = names \ {file_fd}
    BY <1>6 DEF PowerLoss
  <2>2. UNCHANGED sinks /\ file_fd \in Files /\ synced[file_fd] \in Nat /\ Len(log[file_fd]) \in Nat
    BY <1>6, LogFacts DEF PowerLoss, Inv, TypeOK
  <2>3. \A f \in Files : f # file_fd => synced'[f] = synced[f]
    BY <2>1 DEF Inv, TypeOK
  <2>4. CASE names' = names /\ file_fd \in names
    <3>1. R!Record(file_fd) /\ file_fd \in DOMAIN OnCard
      BY <2>2, <2>3, <2>4, RecordStep DEF OnCard
    <3> QED BY <3>1
  <2>5. CASE names' = names /\ file_fd \notin names
    <3>1. Len(log[file_fd]) = 0
      BY <2>2, <2>5, EmptySeq DEF Inv, CardOK
    <3>2. k = synced[file_fd]
      BY <2>1, <2>2, <3>1
    <3>3. synced' = synced
      BY <2>1, <3>2 DEF Inv, TypeOK
    <3> QED BY <2>2, <2>5, <3>3, DiskKept DEF sinks
  <2>6. CASE k = 0 /\ running = "on" /\ names' = names \ {file_fd}
    <3>1. file_fd \in names /\ synced[file_fd] = 0
      BY <2>1, <2>2, <2>6 DEF Inv, CardOK
    <3>2. OnCard[file_fd] = <<>> /\ DOMAIN OnCard = names
      <4>1. OnCard[file_fd] = SubSeq(log[file_fd], 1, 0) /\ DOMAIN OnCard = names
        BY <3>1 DEF OnCard
      <4>2. SubSeq(log[file_fd], 1, 0) = <<>>
        BY SubSeqEmpty
      <4> QED BY <4>1, <4>2
    <3>3. ASSUME NEW f \in names \ {file_fd} PROVE OnCard'[f] = OnCard[f]
      <4>1. f \in names /\ f \in names' /\ f \in Files /\ synced'[f] = synced[f] /\ Kept(f)
        BY <2>3, <2>6 DEF Inv, TypeOK, CardKept
      <4> QED BY <4>1, DiskStep
    <3>4. OnCard' = [f \in names \ {file_fd} |-> OnCard[f]]
      <4>1. OnCard' = [f \in names \ {file_fd} |-> OnCard'[f]]
        BY <2>6 DEF OnCard
      <4> QED BY <3>3, <4>1
    <3>5. R!Forget(file_fd)
      BY <2>2, <3>2, <3>4 DEF R!Forget, sinks
    <3> QED BY <3>1, <3>2, <3>5
  <2> QED BY <2>1, <2>4, <2>5, <2>6
<1> QED BY <1>1, <1>2, <1>3, <1>4, <1>5, <1>6 DEF Next, send_telem

\* The two threads, the choice of the file and the card together implement the
\* recorder: whatever is interleaved and lost, the card is write-once and only
\* what it has for good, or has reported an error about, is sent.
THEOREM Refinement == Spec => RecorderSpec
<1>1. Init => R!Init
  <2> SUFFICES ASSUME Init PROVE R!Init
    OBVIOUS
  <2>1. OnCard = [f \in {} |-> <<>>]
    BY DEF Init, OnCard
  <2> QED BY <2>1 DEF Init, R!Init
<1>2. Inv /\ Inv' /\ [Next]_vars => [R!Next]_(R!vars)
  <2> SUFFICES ASSUME Inv, Inv', [Next]_vars PROVE [R!Next]_(R!vars)
    OBVIOUS
  <2>1. CASE Next
    <3>1. CardKept
      BY NextStep
    <3> QED BY <2>1, <3>1, RecorderStep
  <2>2. CASE UNCHANGED vars
    BY <2>2 DEF vars, card, sinks, OnCard, R!vars
  <2> QED BY <2>1, <2>2
<1> QED BY <1>1, <1>2, Invariance, PTL DEF Spec, RecorderSpec, R!Spec
=============================================================================
