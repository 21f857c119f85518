------------------------- MODULE SpectrumLinkProofs -------------------------
(***************************************************************************)
(* Proofs about SpectrumLink, for transmissions of any sizes, any number   *)
(* of rounds and of messages on their way, and any impairment of them.     *)
(***************************************************************************)
EXTENDS SpectrumLink, SequenceTheorems, TLAPS

\* A message that was sent at some time: only a header announces a size.
Sent == {m \in Messages : m.type = "header" => m.n \in Sizes[m.stream]}

Listeners == [state : {"IDLE", "ACCUM"}, wait : Nat, packets : Nat]
Pieces    == [packets : Nat, data : Seq(Messages)]

\* d consists of packets of stream s numbered from 0.
InOrder(d, s) == \A i \in 1..Len(d) : d[i].n = i - 1 /\ d[i].stream = s

SenderOK ==
    /\ round \in 1..(MaxRounds + 1) /\ stream \in Streams
    /\ size \in Counts("picture") \cup Counts("spectrum")
    /\ next = -1 \/ (next \in 0..(size - 1) /\ round <= MaxRounds)

ChannelOK ==
    /\ net \in Seq(Sent) /\ Len(net) <= Window
    /\ reliable \in BOOLEAN /\ impaired \in BOOLEAN /\ restarts \in 0..MaxRestarts

\* While a listener accumulates, it has the packets before the one it waits
\* for, and waits for one that was announced.
ListenersOK ==
    /\ listener \in [Streams -> Listeners]
    /\ data \in [Streams -> Seq(Messages)]
    /\ \A s \in Streams :
          /\ listener[s].packets \in Counts(s)
          /\ listener[s].wait <= listener[s].packets
          /\ listener[s].state = "ACCUM" =>
                /\ listener[s].wait < listener[s].packets
                /\ Len(data[s]) = listener[s].wait
                /\ InOrder(data[s], s)

SavedOK ==
    /\ saved \in [Streams -> Pieces]
    /\ \A s \in Streams :
          /\ saved[s].packets \in Counts(s)
          /\ Len(saved[s].data) = saved[s].packets
          /\ InOrder(saved[s].data, s)

FilesOK ==
    /\ whole \in [Streams -> Nat]
    /\ files \subseteq Nat /\ dangling = FALSE
    /\ whole["picture"] > 0 => whole["picture"] - 1 \in files

Inv == SenderOK /\ ChannelOK /\ ListenersOK /\ SavedOK /\ FilesOK

LEMMA CountsNat == \A s \in Streams : Counts(s) \subseteq Nat /\ 0 \in Counts(s)
BY LinkAssumption DEF Counts, Streams

LEMMA SentAreMessages == Sent \subseteq Messages
BY DEF Sent

LEMMA InvInit == Init => Inv
<1>. SUFFICES ASSUME Init PROVE Inv  OBVIOUS
<1>1. SenderOK  BY LinkAssumption, CountsNat DEF Init, SenderOK, Streams
<1>2. ChannelOK
  <2>1. net \in Seq(Sent) /\ Len(net) = 0  BY EmptySeq DEF Init
  <2>2. Len(net) <= Window /\ restarts \in 0..MaxRestarts
    BY <2>1, LinkAssumption DEF Init
  <2> QED BY <2>1, <2>2 DEF Init, ChannelOK
<1>3. ListenersOK
  <2>1. <<>> \in Seq(Messages)  BY EmptySeq
  <2>2. data \in [Streams -> Seq(Messages)]  BY <2>1 DEF Init
  <2>3. Idle \in Listeners  BY DEF Idle, Listener, Listeners
  <2>4. \A s \in Streams : listener[s] = Idle  BY DEF Init
  <2>5. listener \in [Streams -> Listeners]  BY <2>3 DEF Init
  <2> QED BY <2>2, <2>4, <2>5, CountsNat DEF ListenersOK, Idle, Listener
<1>4. SavedOK
  <2>1. <<>> \in Seq(Messages) /\ Len(<<>>) = 0  BY EmptySeq
  <2>2. [packets |-> 0, data |-> <<>>] \in Pieces  BY <2>1 DEF Pieces
  <2>3. saved \in [Streams -> Pieces]  BY <2>2 DEF Init
  <2>4. \A s \in Streams : saved[s].packets = 0 /\ saved[s].data = <<>>  BY DEF Init
  <2> QED BY <2>1, <2>3, <2>4, CountsNat DEF SavedOK, InOrder
<1>5. FilesOK  BY DEF Init, FilesOK, Streams
<1> QED BY <1>1, <1>2, <1>3, <1>4, <1>5 DEF Inv

\* Steps that leave mavlinkapp alone.
LEMMA ReceiverUnchanged ==
    ASSUME Inv, UNCHANGED receiver
    PROVE  ListenersOK' /\ SavedOK' /\ FilesOK'
BY DEF Inv, receiver, ListenersOK, SavedOK, FilesOK, InOrder

LEMMA SendHeaderStep ==
    ASSUME Inv, SendHeader
    PROVE  Inv'
<1>1. size' \in Sizes[stream] /\ size' \in Nat \ {0} /\ stream \in Streams
  BY LinkAssumption DEF SendHeader, Inv, SenderOK
<1>2. Header(stream, round, size') \in Sent
  BY <1>1, LinkAssumption DEF SendHeader, Inv, SenderOK, Header, Sent, Messages
<1>3. net' \in Seq(Sent) /\ Len(net') = Len(net) + 1
  BY <1>2, AppendProperties DEF SendHeader, Inv, ChannelOK
<1>4. Len(net) \in Nat  BY LenProperties DEF Inv, ChannelOK
<1>5. ChannelOK'  BY <1>3, <1>4, LinkAssumption DEF SendHeader, Inv, ChannelOK
<1>6. SenderOK'
  <2>1. size' \in Counts("picture") \cup Counts("spectrum")
    BY <1>1 DEF Counts, Streams
  <2>2. next' \in 0..(size' - 1) /\ round' <= MaxRounds
    <3>1. next' = 0 /\ round' = round /\ round <= MaxRounds
      BY LinkAssumption DEF SendHeader, Inv, SenderOK
    <3>2. ASSUME NEW k \in Nat \ {0} PROVE 0 \in 0..(k - 1)  OBVIOUS
    <3>3. 0 \in 0..(size' - 1)  BY <1>1, <3>2
    <3> QED BY <3>1, <3>3
  <2>3. round' \in 1..(MaxRounds + 1) /\ stream' \in Streams
    BY DEF SendHeader, Inv, SenderOK
  <2> QED BY <2>1, <2>2, <2>3 DEF SenderOK
<1> QED BY <1>5, <1>6, ReceiverUnchanged DEF Inv, SendHeader

LEMMA SendDataStep ==
    ASSUME Inv, SendData
    PROVE  Inv'
<1>1. next \in Nat /\ round \in 1..MaxRounds /\ stream \in Streams
  <2>1. size \in Nat  BY CountsNat DEF Inv, SenderOK, Streams
  <2> QED BY <2>1, LinkAssumption DEF SendData, Inv, SenderOK
<1>2. Data(stream, round, next) \in Sent  BY <1>1 DEF Data, Sent, Messages
<1>3. net' \in Seq(Sent) /\ Len(net') = Len(net) + 1
  BY <1>2, AppendProperties DEF SendData, Inv, ChannelOK
<1>4. Len(net) \in Nat  BY LenProperties DEF Inv, ChannelOK
<1>5. ChannelOK'  BY <1>3, <1>4, LinkAssumption DEF SendData, Inv, ChannelOK
<1>6. size \in Nat  BY CountsNat DEF Inv, SenderOK, Streams
<1>7. SenderOK'
  BY <1>1, <1>6, LinkAssumption DEF SendData, Inv, SenderOK, Streams
<1> QED BY <1>5, <1>7, ReceiverUnchanged DEF Inv, SendData

\* What the channel does to the messages keeps them messages that were sent.
LEMMA ImpairStep ==
    ASSUME Inv, NEW messages \in Seq(Sent), Len(messages) <= Window, Impair(messages)
    PROVE  Inv'
<1>1. SenderOK'  BY DEF Impair, Inv, sender, SenderOK
<1>2. ChannelOK'  BY DEF Impair, Inv, ChannelOK
<1> QED BY <1>1, <1>2, ReceiverUnchanged DEF Inv, Impair

LEMMA ChannelStep ==
    ASSUME Inv, Channel
    PROVE  Inv'
<1>0. /\ net \in Seq(Sent) /\ Len(net) \in Nat /\ Len(net) <= Window
      /\ Window \in Nat
  BY LenProperties, LinkAssumption DEF Inv, ChannelOK
<1>1. CASE Lose
  <2>1. Tail(net) \in Seq(Sent) /\ Len(Tail(net)) = Len(net) - 1
    BY <1>0, <1>1, HeadTailProperties DEF Lose
  <2>2. Len(Tail(net)) <= Window  BY <1>0, <2>1
  <2> QED BY <1>1, <2>1, <2>2, ImpairStep DEF Lose
<1>2. CASE Duplicate
  <2>1. Head(net) \in Sent  BY <1>0, <1>2, HeadTailProperties DEF Duplicate
  <2>2. <<Head(net)>> \in Seq(Sent) /\ Len(<<Head(net)>>) = 1  BY <2>1
  <2>3. /\ <<Head(net)>> \o net \in Seq(Sent)
        /\ Len(<<Head(net)>> \o net) = 1 + Len(net)
    BY <1>0, <2>2, ConcatProperties
  <2>4. Len(<<Head(net)>> \o net) <= Window  BY <1>0, <1>2, <2>3 DEF Duplicate
  <2> QED BY <1>2, <2>3, <2>4, ImpairStep DEF Duplicate
<1>3. CASE Overtake
  <2>1. \A i \in 1..Len(net) : net[i] \in Sent  BY <1>0, ElementOfSeq
  <2>2. net[1] \in Sent /\ net[2] \in Sent  BY <1>0, <1>3, <2>1 DEF Overtake
  <2>3. <<net[2], net[1]>> \in Seq(Sent) /\ Len(<<net[2], net[1]>>) = 2  BY <2>2
  <2>4. \A i \in 3..Len(net) : net[i] \in Sent  BY <1>0, <2>1
  <2>5. /\ SubSeq(net, 3, Len(net)) \in Seq(Sent)
        /\ Len(SubSeq(net, 3, Len(net))) = Len(net) - 2
    BY <1>0, <1>3, <2>4, SubSeqProperties DEF Overtake
  <2>6. /\ <<net[2], net[1]>> \o SubSeq(net, 3, Len(net)) \in Seq(Sent)
        /\ Len(<<net[2], net[1]>> \o SubSeq(net, 3, Len(net))) = 2 + (Len(net) - 2)
    BY <2>3, <2>5, ConcatProperties
  <2>7. Len(<<net[2], net[1]>> \o SubSeq(net, 3, Len(net))) <= Window
    BY <1>0, <2>6
  <2> QED BY <1>3, <2>6, <2>7, ImpairStep DEF Overtake
<1>4. CASE BecomeReliable
  <2>1. SenderOK'  BY <1>4 DEF BecomeReliable, Inv, sender, SenderOK
  <2>2. ChannelOK'  BY <1>4 DEF BecomeReliable, Inv, ChannelOK
  <2> QED BY <1>4, <2>1, <2>2, ReceiverUnchanged DEF Inv, BecomeReliable
<1> QED BY <1>1, <1>2, <1>3, <1>4 DEF Channel

\* A header makes the listener of its stream accumulate from packet 0 on.
LEMMA StartAccumStep ==
    ASSUME Inv, NEW m \in Sent, StartAccum(m.stream, m)
    PROVE  ListenersOK' /\ SavedOK' /\ FilesOK'
<1>. DEFINE s == m.stream
            l == [state |-> "ACCUM", wait |-> 0, packets |-> m.n]
<1>1. s \in Streams /\ m.n \in Sizes[s] /\ m.n \in Nat \ {0}
  BY LinkAssumption DEF StartAccum, Sent, Messages
<1>2. listener' = [listener EXCEPT ![s] = l]  BY DEF StartAccum, FirstIndex, Listener
<1>3. data' = [data EXCEPT ![s] = <<>>]  BY DEF StartAccum, OnHeader
<1>4. <<>> \in Seq(Messages) /\ Len(<<>>) = 0  BY EmptySeq
<1>5. data' \in [Streams -> Seq(Messages)]
  BY <1>1, <1>3, <1>4 DEF Inv, ListenersOK
<1>6. l \in Listeners  BY <1>1 DEF Listeners
<1>7. listener' \in [Streams -> Listeners]  BY <1>1, <1>2, <1>6 DEF Inv, ListenersOK
<1>8. ASSUME NEW t \in Streams
      PROVE  /\ listener'[t].packets \in Counts(t)
             /\ listener'[t].wait <= listener'[t].packets
             /\ listener'[t].state = "ACCUM" =>
                   /\ listener'[t].wait < listener'[t].packets
                   /\ Len(data'[t]) = listener'[t].wait
                   /\ InOrder(data'[t], t)
  <2>1. CASE t = s
    <3>1. listener'[t] = l /\ data'[t] = <<>>
      BY <1>2, <1>3, <2>1 DEF Inv, ListenersOK
    <3>2. InOrder(<<>>, t)  BY <1>4 DEF InOrder
    <3> QED BY <1>1, <1>4, <2>1, <3>1, <3>2 DEF Counts
  <2>2. CASE t # s
    <3>1. listener'[t] = listener[t] /\ data'[t] = data[t]
      BY <1>2, <1>3, <2>2 DEF Inv, ListenersOK
    <3> QED BY <3>1 DEF Inv, ListenersOK
  <2> QED BY <2>1, <2>2
<1>9. ListenersOK'  BY <1>5, <1>7, <1>8 DEF ListenersOK
<1>10. SavedOK' /\ FilesOK'
  BY DEF StartAccum, Inv, SavedOK, FilesOK, InOrder
<1> QED BY <1>9, <1>10

\* The packet the listener of its stream waits for.
LEMMA AcceptDataStep ==
    ASSUME Inv, NEW m \in Sent, listener[m.stream].state = "ACCUM",
           m.n = listener[m.stream].wait, accept_data(m.stream, m)
    PROVE  ListenersOK' /\ SavedOK' /\ FilesOK'
<1>. DEFINE s    == m.stream
            all  == Append(data[s], m)
            last == m.n = listener[s].packets - 1
            l    == [state |-> IF last THEN "IDLE" ELSE "ACCUM",
                     wait |-> m.n + 1, packets |-> listener[s].packets]
            p    == [packets |-> listener[s].packets, data |-> all]
<1>1. s \in Streams /\ m.n \in Nat /\ m \in Messages  BY DEF Sent, Messages
<1>2. /\ listener[s].packets \in Nat /\ listener[s].packets \in Counts(s)
      /\ m.n < listener[s].packets
      /\ data[s] \in Seq(Messages) /\ Len(data[s]) = m.n /\ InOrder(data[s], s)
  BY <1>1, CountsNat DEF Inv, ListenersOK, Listeners
<1>3. /\ all \in Seq(Messages) /\ Len(all) = m.n + 1
      /\ \A i \in 1..m.n : all[i] = data[s][i]
      /\ all[m.n + 1] = m
  BY <1>1, <1>2, AppendProperties
<1>4. InOrder(all, s)
  <2>1. ASSUME NEW i \in 1..Len(all) PROVE all[i].n = i - 1 /\ all[i].stream = s
    <3>1. CASE i = m.n + 1  BY <1>1, <1>3, <3>1
    <3>2. CASE i # m.n + 1
      <4>1. i \in 1..m.n  BY <1>1, <1>3, <3>2
      <4> QED BY <1>2, <1>3, <4>1 DEF InOrder
    <3> QED BY <3>1, <3>2
  <2> QED BY <2>1 DEF InOrder
<1>5. /\ data' = [data EXCEPT ![s] = all]
      /\ listener' = [listener EXCEPT ![s] = l]
      /\ saved' = [saved EXCEPT ![s] = IF last THEN p ELSE saved[s]]
      /\ whole' = [whole EXCEPT ![s] = IF last THEN whole[s] + 1 ELSE whole[s]]
  BY DEF accept_data, Listener
<1>6. data' \in [Streams -> Seq(Messages)]
  BY <1>1, <1>3, <1>5 DEF Inv, ListenersOK
<1>7. l \in Listeners  BY <1>1, <1>2 DEF Listeners
<1>8. listener' \in [Streams -> Listeners]
  BY <1>1, <1>5, <1>7 DEF Inv, ListenersOK
<1>9. ASSUME NEW t \in Streams
      PROVE  /\ listener'[t].packets \in Counts(t)
             /\ listener'[t].wait <= listener'[t].packets
             /\ listener'[t].state = "ACCUM" =>
                   /\ listener'[t].wait < listener'[t].packets
                   /\ Len(data'[t]) = listener'[t].wait
                   /\ InOrder(data'[t], t)
  <2>1. CASE t = s
    <3>1. listener'[t] = l /\ data'[t] = all
      BY <1>1, <1>5, <2>1 DEF Inv, ListenersOK
    <3>2. l.packets \in Counts(t) /\ l.wait <= l.packets
      BY <1>1, <1>2, <2>1
    <3>3. l.state = "ACCUM" => l.wait < l.packets  BY <1>1, <1>2
    <3>4. Len(all) = l.wait /\ InOrder(all, t)  BY <1>3, <1>4, <2>1
    <3> HIDE DEF l, all
    <3> QED BY <3>1, <3>2, <3>3, <3>4
  <2>2. CASE t # s
    <3>1. listener'[t] = listener[t] /\ data'[t] = data[t]
      BY <1>5, <2>2 DEF Inv, ListenersOK
    <3> QED BY <3>1 DEF Inv, ListenersOK
  <2> QED BY <2>1, <2>2
<1>10. ListenersOK'  BY <1>6, <1>8, <1>9 DEF ListenersOK
<1>11. SavedOK'
  <2>1. p \in Pieces  BY <1>2, <1>3 DEF Pieces
  <2>2. saved' \in [Streams -> Pieces]  BY <1>1, <1>5, <2>1 DEF Inv, SavedOK
  <2>3. ASSUME NEW t \in Streams
        PROVE  /\ saved'[t].packets \in Counts(t)
               /\ Len(saved'[t].data) = saved'[t].packets
               /\ InOrder(saved'[t].data, t)
    <3>1. CASE t = s /\ last
      <4>1. saved'[t] = p  BY <1>1, <1>5, <3>1 DEF Inv, SavedOK
      <4>2. Len(all) = listener[s].packets  BY <1>1, <1>2, <1>3, <3>1
      <4> QED BY <1>2, <1>4, <3>1, <4>1, <4>2
    <3>2. CASE ~(t = s /\ last)
      <4>1. saved'[t] = saved[t]  BY <1>1, <1>5, <3>2 DEF Inv, SavedOK
      <4> QED BY <4>1 DEF Inv, SavedOK
    <3> QED BY <3>1, <3>2
  <2> QED BY <2>2, <2>3 DEF SavedOK
<1>12. FilesOK'
  <2>1. whole' \in [Streams -> Nat]  BY <1>1, <1>5 DEF Inv, FilesOK
  <2>2. CASE last /\ s = "picture"
    <3>1. /\ files' = (files \ {whole[s] - 1}) \cup {whole[s]}
          /\ dangling' = (dangling \/ (whole[s] # 0 /\ whole[s] - 1 \notin files))
      BY <2>2 DEF accept_data, SavePicture, Identifier
    <3>2. whole'["picture"] = whole[s] + 1 /\ whole[s] \in Nat
      BY <1>1, <1>5, <2>2 DEF Inv, FilesOK
    <3>3. dangling' = FALSE
      <4>1. ~(whole[s] # 0 /\ whole[s] - 1 \notin files) /\ dangling = FALSE
        BY <2>2, <3>2 DEF Inv, FilesOK
      <4> QED BY <3>1, <4>1
    <3>4. files' \subseteq Nat  BY <3>1, <3>2 DEF Inv, FilesOK
    <3> QED BY <2>1, <3>1, <3>2, <3>3, <3>4 DEF FilesOK
  <2>3. CASE ~(last /\ s = "picture")
    <3>1. files' = files /\ dangling' = dangling  BY <2>3 DEF accept_data
    <3>2. whole'["picture"] = whole["picture"]
      BY <1>1, <1>5, <2>3 DEF Inv, FilesOK, Streams
    <3> QED BY <2>1, <3>1, <3>2 DEF Inv, FilesOK
  <2> QED BY <2>2, <2>3
<1> QED BY <1>10, <1>11, <1>12

\* A packet with a number that is too high ends the accumulation.
LEMMA GapStep ==
    ASSUME Inv, NEW s \in Streams,
           listener' = [listener EXCEPT ![s] =
                          Listener("IDLE", listener[s].wait, listener[s].packets)],
           UNCHANGED <<data, whole, saved, files, dangling>>
    PROVE  ListenersOK' /\ SavedOK' /\ FilesOK'
<1>. DEFINE l == Listener("IDLE", listener[s].wait, listener[s].packets)
<1>1. listener[s] \in Listeners  BY DEF Inv, ListenersOK
<1>2. l \in Listeners  BY <1>1 DEF Listeners, Listener
<1>3. listener' \in [Streams -> Listeners]  BY <1>2 DEF Inv, ListenersOK
<1>4. ASSUME NEW t \in Streams
      PROVE  /\ listener'[t].packets = listener[t].packets
             /\ listener'[t].wait = listener[t].wait
             /\ listener'[t].state = "ACCUM" => listener[t].state = "ACCUM"
  <2>1. CASE t = s
    <3>1. listener'[t] = l  BY <2>1 DEF Inv, ListenersOK
    <3> QED BY <2>1, <3>1 DEF Listener
  <2>2. CASE t # s  BY <2>2 DEF Inv, ListenersOK
  <2> QED BY <2>1, <2>2
<1>5. ListenersOK'  BY <1>3, <1>4 DEF Inv, ListenersOK, InOrder
<1>6. SavedOK' /\ FilesOK'  BY DEF Inv, SavedOK, FilesOK, InOrder
<1> QED BY <1>5, <1>6

LEMMA ReceiveStep ==
    ASSUME Inv, Receive
    PROVE  Inv'
<1>. DEFINE m == Head(net)
<1>1. /\ m \in Sent /\ net' \in Seq(Sent) /\ Len(net') = Len(net) - 1
      /\ Len(net) \in Nat /\ Len(net) <= Window /\ Window \in Nat
  BY HeadTailProperties, LenProperties, LinkAssumption DEF Receive, Inv, ChannelOK
<1>2. ChannelOK'  BY <1>1 DEF Receive, Inv, ChannelOK
<1>3. SenderOK'  BY DEF Receive, sender, Inv, SenderOK
<1>4. m.stream \in Streams  BY <1>1 DEF Sent, Messages
<1>5. ListenersOK' /\ SavedOK' /\ FilesOK'
  <2>1. CASE StartAccum(m.stream, m)  BY <1>1, <2>1, StartAccumStep
  <2>2. CASE Accum(m.stream, m)
    <3>1. CASE Expected(m.stream, m)
      BY <1>1, <2>2, <3>1, AcceptDataStep DEF Accum, Expected
    <3>2. CASE ~Expected(m.stream, m) /\ m.n > listener[m.stream].wait
      <4>1. /\ listener' = [listener EXCEPT ![m.stream] =
                   Listener("IDLE", listener[m.stream].wait, listener[m.stream].packets)]
            /\ UNCHANGED <<data, whole, saved, files, dangling>>
        BY <2>2, <3>2 DEF Accum
      <4> QED BY <1>4, <4>1, GapStep
    <3>3. CASE ~Expected(m.stream, m) /\ ~(m.n > listener[m.stream].wait)
      BY <2>2, <3>3, ReceiverUnchanged DEF Accum
    <3> QED BY <3>1, <3>2, <3>3
  <2>3. CASE Ignore(m.stream, m)  BY <2>3, ReceiverUnchanged DEF Ignore
  <2> QED BY <2>1, <2>2, <2>3 DEF Receive, accept_message
<1> QED BY <1>2, <1>3, <1>5 DEF Inv

LEMMA RestartStep ==
    ASSUME Inv, Restart
    PROVE  Inv'
<1>1. SenderOK'  BY DEF Restart, sender, Inv, SenderOK
<1>2. ChannelOK'  BY LinkAssumption DEF Restart, Inv, ChannelOK
<1>3. ListenersOK'
  <2>1. <<>> \in Seq(Messages)  BY EmptySeq
  <2>2. data' \in [Streams -> Seq(Messages)]  BY <2>1 DEF Restart
  <2>3. Idle \in Listeners  BY DEF Idle, Listener, Listeners
  <2>4. \A s \in Streams : listener'[s] = Idle  BY DEF Restart
  <2>5. listener' \in [Streams -> Listeners]  BY <2>3 DEF Restart
  <2> QED BY <2>2, <2>4, <2>5, CountsNat DEF ListenersOK, Idle, Listener
<1>4. SavedOK'  BY DEF Restart, Inv, SavedOK, InOrder
<1>5. FilesOK'  BY DEF Restart, Inv, FilesOK, Streams
<1> QED BY <1>1, <1>2, <1>3, <1>4, <1>5 DEF Inv

\* Every reachable state satisfies the inductive invariant, whatever is lost,
\* duplicated, reordered or restarted.
THEOREM Invariance == Spec => []Inv
<1>1. Inv /\ [Next]_vars => Inv'
  <2>. SUFFICES ASSUME Inv, [Next]_vars PROVE Inv'  OBVIOUS
  <2>1. CASE Send  BY <2>1, SendHeaderStep, SendDataStep DEF Send
  <2>2. CASE Receive  BY <2>2, ReceiveStep
  <2>3. CASE Channel  BY <2>3, ChannelStep
  <2>4. CASE Restart  BY <2>4, RestartStep
  <2>5. CASE UNCHANGED vars
    <3>1. SenderOK' /\ ChannelOK'
      BY <2>5 DEF vars, sender, Inv, SenderOK, ChannelOK
    <3> QED BY <2>5, <3>1, ReceiverUnchanged DEF vars, Inv
  <2> QED BY <2>1, <2>2, <2>3, <2>4, <2>5 DEF Next
<1> QED BY <1>1, InvInit, PTL DEF Spec

\* What the listeners hand to PictureSaver and SpectrumRedisSaver is complete
\* and in order, whatever radio and UDP do to the packets.
THEOREM SavedCompleteHolds == Spec => []SavedComplete
<1>1. Inv => SavedComplete  BY DEF Inv, SavedOK, SavedComplete, InOrder
<1> QED BY <1>1, Invariance, PTL

\* os.remove in PictureSaver.accept never fails for want of the file, and the
\* picture saved last is there.
THEOREM PictureFileHolds == Spec => []PictureFilePresent
<1>1. Inv => PictureFilePresent  BY DEF Inv, FilesOK, PictureFilePresent
<1> QED BY <1>1, Invariance, PTL

\* The sender, the channel and the listeners stay within their ranges: a
\* listener never waits for a packet that was not announced (accept_message).
THEOREM TypeCorrect == Spec => []TypeOK
<1>1. ASSUME Inv PROVE TypeOK
  <2>1. net \in Seq(Messages) /\ Len(net) <= Window
    <3>1. Seq(Sent) \subseteq Seq(Messages)  BY SentAreMessages
    <3> QED BY <1>1, <3>1 DEF Inv, ChannelOK
  <2>2. ASSUME NEW s \in Streams
        PROVE  /\ listener[s].packets \in Counts(s)
               /\ listener[s].wait \in 0..listener[s].packets
               /\ listener[s].state = "ACCUM" => listener[s].wait < listener[s].packets
               /\ saved[s].packets \in Counts(s) /\ saved[s].data \in Seq(Messages)
    <3>1. listener[s] \in Listeners /\ saved[s] \in Pieces
      BY <1>1 DEF Inv, ListenersOK, SavedOK
    <3>2. listener[s].wait \in 0..listener[s].packets
      BY <1>1, <3>1 DEF Inv, ListenersOK, Listeners
    <3> QED BY <1>1, <3>1, <3>2 DEF Inv, ListenersOK, SavedOK, Pieces
  <2>3. data \in [Streams -> Seq(Messages)]  BY <1>1 DEF Inv, ListenersOK
  <2> QED BY <1>1, <2>1, <2>2, <2>3 DEF Inv, SenderOK, ChannelOK, FilesOK, TypeOK
<1> QED BY <1>1, Invariance, PTL
-----------------------------------------------------------------------------
(* The unimpaired channel.  A cursor is a place in the sequence of messages: *)
(* the round, the stream, the number of packets and the number of the next   *)
(* message, -1 for the header.  Unless something impaired it the messages on *)
(* their way lead, one after the other, from the place the listeners have    *)
(* reached to the place the transmitter has reached.                         *)

Cursor(r, s, z, k) == [round |-> r, stream |-> s, size |-> z, next |-> k]
Cursors == [round : Nat, stream : Streams, size : Nat, next : Int]

\* The place after packet number c.next.
Past(c) ==
    IF c.next + 1 < c.size THEN Cursor(c.round, c.stream, c.size, c.next + 1)
    ELSE IF c.stream = "picture" THEN Cursor(c.round, "spectrum", c.size, -1)
    ELSE Cursor(c.round + 1, "picture", c.size, -1)

\* Message m leads from place c to place d.
Leads(c, m, d) ==
    \/ /\ c.next = -1 /\ d.size \in Nat \ {0}
       /\ m = Header(c.stream, c.round, d.size)
       /\ d = Cursor(c.round, c.stream, d.size, 0)
    \/ /\ c.next >= 0 /\ c.next < c.size
       /\ m = Data(c.stream, c.round, c.next)
       /\ d = Past(c)

SentTo == Cursor(round, stream, size, next)

\* How many pieces of stream s lie before place c.
Before(s, c) == IF s = "picture" /\ c.stream = "spectrum" THEN c.round ELSE c.round - 1

\* The listeners are at place c; of stream s they have counted off[s] pieces
\* less than were sent.
ReceivedTo(c, off) ==
    \A s \in Streams :
        /\ listener[s].state = IF s = c.stream /\ c.next >= 0 THEN "ACCUM" ELSE "IDLE"
        /\ s = c.stream /\ c.next >= 0 =>
              /\ listener[s].wait = c.next /\ listener[s].packets = c.size
              /\ PureOf(data[s], c.round)
        /\ whole[s] + off[s] = Before(s, c)

Route(cs, off) ==
    /\ cs \in [0..Len(net) -> Cursors]
    /\ \A i \in 1..Len(net) : Leads(cs[i - 1], net[i], cs[i])
    /\ ReceivedTo(cs[0], off) /\ cs[Len(net)] = SentTo

Shifts == [Streams -> Int]
NoShift == [s \in Streams |-> 0]

InStep(off) == \E cs : Route(cs, off)

\* What was saved last comes from one round, the one its number stands for.
Labelled(off) == \A s \in Streams : whole[s] > 0 => PureOf(saved[s].data, whole[s] + off[s])

\* The step counts nothing, or a piece of that kind.
Labels(off) ==
    \A s \in Streams :
        \/ whole'[s] = whole[s] /\ saved'[s] = saved[s]
        \/ whole'[s] = whole[s] + 1 /\ PureOf(saved'[s].data, whole'[s] + off[s])

Aligned == ~impaired => InStep(NoShift) /\ Labelled(NoShift)

LEMMA AlignedInit == Init => Aligned
<1> SUFFICES ASSUME Init PROVE Aligned
  OBVIOUS
<1>1. Len(net) = 0
  BY DEF Init
<1>2. SentTo \in Cursors /\ SentTo = Cursor(1, "picture", 0, -1)
  BY DEF Init, SentTo, Cursor, Cursors, Streams
<1>3. ReceivedTo(SentTo, NoShift)
  <2> SUFFICES ASSUME NEW s \in Streams
               PROVE  /\ listener[s].state = "IDLE" /\ whole[s] = 0
                      /\ Before(s, SentTo) = 0
    BY <1>2 DEF ReceivedTo, Cursor, NoShift
  <2> QED BY <1>2 DEF Init, Idle, Listener, Before, Cursor
<1>4. Route([i \in 0..0 |-> SentTo], NoShift)
  BY <1>1, <1>2, <1>3 DEF Route
<1>5. Labelled(NoShift)
  <2>1. \A s \in Streams : whole[s] = 0
    BY DEF Init
  <2> QED BY <2>1 DEF Labelled
<1> QED BY <1>4, <1>5 DEF Aligned, InStep

\* A message is sent: the route gets longer at its end.
LEMMA RouteExtended ==
    ASSUME Inv, NEW off, NEW m, NEW cs, Route(cs, off), net' = Append(net, m),
           SentTo' \in Cursors, Leads(SentTo, m, SentTo'),
           UNCHANGED <<listener, data, whole>>
    PROVE  InStep(off)'
<1> DEFINE n == Len(net)
<1>1. n \in Nat /\ net \in Seq(Sent)
  BY LenProperties DEF Inv, ChannelOK
<1>2. /\ Len(net') = n + 1 /\ net'[n + 1] = m
      /\ \A i \in 1..n : net'[i] = net[i]
  BY <1>1, AppendProperties
<1> HIDE DEF n
<1>3. /\ cs \in [0..n -> Cursors] /\ cs[n] = SentTo
      /\ \A i \in 1..n : Leads(cs[i - 1], net[i], cs[i])
      /\ ReceivedTo(cs[0], off)
  BY DEF Route, n
<1>d. PICK ds : ds = [i \in 0..(n + 1) |-> IF i = n + 1 THEN SentTo' ELSE cs[i]]
  OBVIOUS
<1>4. ds \in [0..(n + 1) -> Cursors]
  BY <1>1, <1>3, <1>d
<1>5. ds[n + 1] = SentTo' /\ \A i \in 0..n : ds[i] = cs[i]
  BY <1>1, <1>d
<1>6. ASSUME NEW i \in 1..(n + 1) PROVE Leads(ds[i - 1], net'[i], ds[i])
  <2>1. CASE i \in 1..n
    <3>1. i \in 0..n /\ i - 1 \in 0..n
      BY <2>1, <1>1
    <3> QED BY <3>1, <2>1, <1>2, <1>3, <1>5
  <2>2. CASE i = n + 1
    <3>1. i - 1 = n /\ n \in 0..n
      BY <2>2, <1>1
    <3> QED BY <3>1, <2>2, <1>2, <1>3, <1>5
  <2>3. i \in 1..n \/ i = n + 1
    BY <1>1
  <2> QED BY <2>1, <2>2, <2>3
<1>7. ReceivedTo(ds[0], off)'
  <2>1. ds[0] = cs[0]
    BY <1>1, <1>5
  <2> QED BY <2>1, <1>3 DEF ReceivedTo, PureOf
<1>8. Route(ds, off)'
  BY <1>2, <1>4, <1>5, <1>6, <1>7 DEF Route
<1> QED BY <1>8 DEF InStep

LEMMA SendInStep ==
    ASSUME Inv, NEW off, InStep(off), Send
    PROVE  InStep(off)' /\ UNCHANGED <<whole, saved>>
<1>1. PICK cs : Route(cs, off)
  BY DEF InStep
<1>2. /\ round \in Nat /\ stream \in Streams /\ size \in Nat /\ next \in Int
      /\ UNCHANGED <<listener, data, whole, saved>>
  <2>1. size \in Nat
    BY CountsNat DEF Inv, SenderOK, Streams
  <2> QED BY <2>1, LinkAssumption DEF Inv, SenderOK, Send, SendHeader, SendData, receiver
<1>3. CASE SendHeader
  <2>1. /\ next = -1 /\ next' = 0 /\ size' \in Nat \ {0}
        /\ net' = Append(net, Header(stream, round, size'))
        /\ round' = round /\ stream' = stream
    BY <1>2, <1>3, LinkAssumption DEF SendHeader
  <2>2. SentTo' \in Cursors /\ SentTo' = Cursor(round, stream, size', 0)
    BY <1>2, <2>1 DEF SentTo, Cursor, Cursors
  <2>3. Leads(SentTo, Header(stream, round, size'), SentTo')
    BY <2>1, <2>2 DEF Leads, SentTo, Cursor
  <2> QED BY <1>1, <1>2, <2>1, <2>2, <2>3, RouteExtended
<1>4. CASE SendData
  <2>1. /\ next >= 0 /\ next < size /\ size' = size
        /\ net' = Append(net, Data(stream, round, next))
    BY <1>2, <1>4 DEF SendData, Inv, SenderOK
  <2>2. SentTo' = Past(SentTo)
    <3>1. CASE next + 1 < size
      BY <3>1, <1>4, <2>1 DEF SendData, SentTo, Past, Cursor
    <3>2. CASE ~(next + 1 < size)
      BY <3>2, <1>2, <1>4, <2>1 DEF SendData, SentTo, Past, Cursor, Streams
    <3> QED BY <3>1, <3>2
  <2>3. SentTo' \in Cursors
    BY <1>2, <2>1, <2>2 DEF SentTo, Past, Cursor, Cursors, Streams
  <2>4. Leads(SentTo, Data(stream, round, next), SentTo')
    BY <2>1, <2>2 DEF Leads, SentTo, Cursor
  <2> QED BY <1>1, <1>2, <2>1, <2>3, <2>4, RouteExtended
<1> QED BY <1>3, <1>4 DEF Send

\* The listeners take the message that leads on from their place.
LEMMA HeaderTaken ==
    ASSUME Inv, NEW off, NEW c \in Cursors, NEW d \in Cursors, NEW m \in Sent,
           ReceivedTo(c, off),
           c.next = -1, m = Header(c.stream, c.round, d.size),
           d = Cursor(c.round, c.stream, d.size, 0), accept_message(m)
    PROVE  ReceivedTo(d, off)' /\ UNCHANGED <<whole, saved>>
<1> DEFINE s == c.stream
<1>1. /\ s \in Streams /\ m.stream = s /\ m.type = "header" /\ m.n = d.size
      /\ d.round = c.round /\ d.stream = s /\ d.next = 0
  BY DEF Cursors, Header, Cursor
<1>2. listener[s].state = "IDLE"
  BY <1>1 DEF ReceivedTo
<1>3. StartAccum(s, m)
  BY <1>1, <1>2 DEF accept_message, Accum, Ignore
<1>4. /\ listener' = [listener EXCEPT ![s] = [state |-> "ACCUM", wait |-> 0, packets |-> d.size]]
      /\ data' = [data EXCEPT ![s] = <<>>] /\ whole' = whole /\ saved' = saved
  BY <1>1, <1>3 DEF StartAccum, OnHeader, FirstIndex, Listener
<1>5. PureOf(<<>>, c.round)
  BY DEF PureOf
<1>6. ASSUME NEW t \in Streams
      PROVE  /\ listener'[t].state = IF t = s THEN "ACCUM" ELSE "IDLE"
             /\ t = s => /\ listener'[t].wait = 0 /\ listener'[t].packets = d.size
                         /\ PureOf(data'[t], c.round)
             /\ whole[t] + off[t] = Before(t, d)
  <2>1. Before(t, d) = Before(t, c)
    BY <1>1 DEF Before
  <2>2. CASE t = s
    BY <1>1, <1>4, <1>5, <2>1, <2>2 DEF ReceivedTo, Inv, ListenersOK
  <2>3. CASE t # s
    BY <1>1, <1>4, <2>1, <2>3 DEF ReceivedTo, Inv, ListenersOK
  <2> QED BY <2>2, <2>3
<1> QED BY <1>1, <1>4, <1>6 DEF ReceivedTo, PureOf, Before

LEMMA DataTaken ==
    ASSUME Inv, NEW off \in Shifts, NEW c \in Cursors, NEW m \in Sent, ReceivedTo(c, off),
           c.next >= 0, c.next < c.size, m = Data(c.stream, c.round, c.next),
           accept_message(m)
    PROVE  ReceivedTo(Past(c), off)' /\ Labels(off)
<1> DEFINE s == c.stream
           d == Past(c)
           all == Append(data[s], m)
           last == c.next + 1 = c.size
<1>1. /\ s \in Streams /\ m.stream = s /\ m.type = "data" /\ m.n = c.next /\ m.round = c.round
      /\ c.next \in Int /\ c.size \in Nat /\ c.round \in Nat
  BY DEF Cursors, Data
<1>2. /\ listener[s].state = "ACCUM" /\ listener[s].wait = c.next
      /\ listener[s].packets = c.size /\ PureOf(data[s], c.round)
      /\ whole[s] + off[s] = Before(s, c)
  BY <1>1 DEF ReceivedTo
<1>3. accept_data(s, m)
  BY <1>1, <1>2 DEF accept_message, StartAccum, Accum, Ignore, Expected
<1>4. last <=> m.n = listener[s].packets - 1
  BY <1>1, <1>2
<1>5. /\ data' = [data EXCEPT ![s] = all]
      /\ listener' = [listener EXCEPT ![s] =
             [state |-> IF last THEN "IDLE" ELSE "ACCUM", wait |-> c.next + 1,
              packets |-> listener[s].packets]]
      /\ whole' = [whole EXCEPT ![s] = IF last THEN whole[s] + 1 ELSE whole[s]]
      /\ saved' = [saved EXCEPT ![s] =
             IF last THEN [packets |-> listener[s].packets, data |-> all] ELSE saved[s]]
  BY <1>1, <1>3, <1>4 DEF accept_data, Listener
<1>6. PureOf(all, c.round)
  <2>1. data[s] \in Seq(Messages) /\ m \in Messages
    BY <1>1, SentAreMessages DEF Inv, ListenersOK
  <2>2. /\ Len(all) = Len(data[s]) + 1 /\ all[Len(data[s]) + 1] = m
        /\ \A i \in 1..Len(data[s]) : all[i] = data[s][i]
    BY <2>1, AppendProperties
  <2>3. Len(data[s]) \in Nat
    BY <2>1, LenProperties
  <2> HIDE DEF all
  <2>4. ASSUME NEW i \in 1..Len(all) PROVE all[i].round = c.round
    <3>1. CASE i \in 1..Len(data[s])
      BY <3>1, <2>2, <1>2 DEF PureOf
    <3>2. CASE i = Len(data[s]) + 1
      BY <3>2, <2>2, <1>1
    <3> QED BY <3>1, <3>2, <2>2, <2>3
  <2> QED BY <2>4 DEF PureOf
<1> HIDE DEF all
<1>7. /\ listener \in [Streams -> Listeners] /\ data \in [Streams -> Seq(Messages)]
      /\ whole \in [Streams -> Nat] /\ saved \in [Streams -> Pieces]
  BY DEF Inv, ListenersOK, SavedOK, FilesOK
<1>8. /\ d.stream = IF last THEN (IF s = "picture" THEN "spectrum" ELSE "picture") ELSE s
      /\ d.round = IF last /\ s = "spectrum" THEN c.round + 1 ELSE c.round
      /\ d.next = IF last THEN -1 ELSE c.next + 1
      /\ d.size = c.size
  BY <1>1 DEF Past, Cursor, Streams
<1> HIDE DEF d
<1>9. ASSUME NEW t \in Streams
      PROVE  /\ listener'[t].state = IF t = d.stream /\ d.next >= 0 THEN "ACCUM" ELSE "IDLE"
             /\ t = d.stream /\ d.next >= 0 =>
                   /\ listener'[t].wait = d.next /\ listener'[t].packets = d.size
                   /\ PureOf(data'[t], d.round)
             /\ whole'[t] + off[t] = Before(t, d)
             /\ \/ whole'[t] = whole[t] /\ saved'[t] = saved[t]
                \/ whole'[t] = whole[t] + 1 /\ PureOf(saved'[t].data, whole'[t] + off[t])
  <2>1. /\ listener[t].state = IF t = s THEN "ACCUM" ELSE "IDLE"
        /\ whole[t] + off[t] = Before(t, c) /\ whole[t] \in Nat /\ off[t] \in Int
    BY <1>1, <1>7 DEF ReceivedTo, Shifts
  <2>2. CASE t # s
    <3>1. /\ listener'[t] = listener[t] /\ whole'[t] = whole[t] /\ saved'[t] = saved[t]
      BY <1>1, <1>5, <1>7, <2>2
    <3>2. ~(t = d.stream /\ d.next >= 0)
      BY <1>8, <2>2
    <3>3. Before(t, d) = Before(t, c)
      BY <1>1, <1>8, <2>2 DEF Before, Streams
    <3> QED BY <3>1, <3>2, <3>3, <2>1, <2>2
  <2>3. CASE t = s /\ ~last
    <3>1. /\ listener'[t] = [state |-> "ACCUM", wait |-> c.next + 1, packets |-> c.size]
          /\ whole'[t] = whole[t] /\ saved'[t] = saved[t] /\ data'[t] = all
      BY <1>1, <1>2, <1>5, <1>7, <2>3
    <3>2. d.stream = s /\ d.next >= 0 /\ d.next = c.next + 1 /\ d.round = c.round
      BY <1>1, <1>8, <2>3
    <3>3. Before(t, d) = Before(t, c)
      BY <3>2 DEF Before
    <3> QED BY <3>1, <3>2, <3>3, <1>6, <1>8, <2>1, <2>3
  <2>4. CASE t = s /\ last
    <3>1. /\ listener'[t].state = "IDLE" /\ whole'[t] = whole[t] + 1 /\ saved'[t].data = all
      BY <1>1, <1>5, <1>7, <2>4
    <3>2. ~(d.next >= 0)
      BY <1>8, <2>4
    <3>3. Before(t, d) = c.round /\ Before(t, c) = c.round - 1
      BY <1>1, <1>8, <2>4 DEF Before, Streams
    <3>4. (whole[t] + 1) + off[t] = c.round
      BY <1>1, <2>1, <3>3
    <3> QED BY <3>1, <3>2, <3>3, <3>4, <1>6
  <2> QED BY <2>2, <2>3, <2>4
<1>10. ReceivedTo(d, off)'
  BY <1>9 DEF ReceivedTo, PureOf, Before
<1>11. Labels(off)
  BY <1>9 DEF Labels
<1> QED BY <1>10, <1>11 DEF d

LEMMA ReceiveInStep ==
    ASSUME Inv, NEW off \in Shifts, InStep(off), Receive
    PROVE  InStep(off)' /\ Labels(off)
<1>1. PICK cs : Route(cs, off)
  BY DEF InStep
<1> DEFINE n == Len(net)
           m == Head(net)
<1>2. /\ net \in Seq(Sent) /\ n \in Nat /\ n > 0
      /\ m \in Sent /\ net[1] = m
      /\ net' \in Seq(Sent) /\ Len(net') = n - 1 /\ \A i \in 1..(n - 1) : net'[i] = net[i + 1]
  <2>1. net \in Seq(Sent) /\ net # <<>> /\ net' = Tail(net)
    BY DEF Receive, Inv, ChannelOK
  <2> QED BY <2>1, HeadTailProperties, LenProperties, EmptySeq
<1>3. accept_message(m) /\ UNCHANGED <<round, stream, size, next>>
  BY DEF Receive, sender
<1> HIDE DEF n, m
<1>4. /\ cs \in [0..n -> Cursors] /\ cs[n] = SentTo
      /\ \A i \in 1..n : Leads(cs[i - 1], net[i], cs[i])
      /\ ReceivedTo(cs[0], off)
  BY <1>1 DEF Route, n
<1>5. cs[0] \in Cursors /\ cs[1] \in Cursors /\ Leads(cs[0], m, cs[1])
  <2>1. 1 \in 1..n /\ 0 \in 0..n /\ 1 \in 0..n /\ 1 - 1 = 0
    BY <1>2
  <2> QED BY <2>1, <1>2, <1>4
<1>6. ReceivedTo(cs[1], off)' /\ Labels(off)
  <2>1. CASE /\ cs[0].next = -1 /\ m = Header(cs[0].stream, cs[0].round, cs[1].size)
             /\ cs[1] = Cursor(cs[0].round, cs[0].stream, cs[1].size, 0)
    BY <2>1, <1>2, <1>3, <1>4, <1>5, HeaderTaken DEF Labels
  <2>2. CASE /\ cs[0].next >= 0 /\ cs[0].next < cs[0].size
             /\ m = Data(cs[0].stream, cs[0].round, cs[0].next)
             /\ cs[1] = Past(cs[0])
    <3>1. ReceivedTo(Past(cs[0]), off)' /\ Labels(off)
      BY <2>2, <1>2, <1>3, <1>4, <1>5, DataTaken
    <3> QED BY <3>1, <2>2
  <2> QED BY <2>1, <2>2, <1>5 DEF Leads
<1>d. PICK ds : ds = [i \in 0..(n - 1) |-> cs[i + 1]]
  OBVIOUS
<1>7. ds \in [0..(n - 1) -> Cursors]
  BY <1>2, <1>4, <1>d
<1>8. \A i \in 0..(n - 1) : ds[i] = cs[i + 1]
  BY <1>d
<1>9. ASSUME NEW i \in 1..(n - 1) PROVE Leads(ds[i - 1], net'[i], ds[i])
  <2>1. i - 1 \in 0..(n - 1) /\ i \in 0..(n - 1) /\ i + 1 \in 1..n
        /\ (i - 1) + 1 = i /\ (i + 1) - 1 = i
    <3>1. n \in Nat /\ i \in Int /\ 1 <= i /\ i <= n - 1
      BY <1>2
    <3> QED BY <3>1
  <2>2. Leads(cs[i], net[i + 1], cs[i + 1])
    BY <2>1, <1>4
  <2> QED BY <2>1, <2>2, <1>2, <1>8
<1>10. ds[0] = cs[1] /\ ds[n - 1] = cs[n]
  <2>1. 0 \in 0..(n - 1) /\ n - 1 \in 0..(n - 1) /\ 0 + 1 = 1 /\ (n - 1) + 1 = n
    BY <1>2
  <2> QED BY <2>1, <1>8
<1>11. SentTo' = SentTo
  BY <1>3 DEF SentTo
<1>12. Route(ds, off)'
  BY <1>2, <1>4, <1>6, <1>7, <1>9, <1>10, <1>11 DEF Route
<1> QED BY <1>6, <1>12 DEF InStep

\* Once in step and over a reliable channel, in step for good.
LEMMA InStepStep ==
    ASSUME Inv, NEW off \in Shifts, InStep(off), Send \/ Receive \/ BecomeReliable \/ UNCHANGED vars
    PROVE  InStep(off)' /\ Labels(off)
<1>1. CASE Send
  BY <1>1, SendInStep DEF Labels
<1>2. CASE Receive
  BY <1>2, ReceiveInStep
<1>3. CASE BecomeReliable \/ UNCHANGED vars
  <2>1. UNCHANGED <<round, stream, size, next, net, listener, data, whole, saved>>
    BY <1>3 DEF BecomeReliable, vars, sender, receiver
  <2>2. PICK cs : Route(cs, off)
    BY DEF InStep
  <2>3. Route(cs, off)'
    BY <2>1, <2>2 DEF Route, ReceivedTo, PureOf, SentTo
  <2> QED BY <2>1, <2>3 DEF InStep, Labels
<1> QED BY <1>1, <1>2, <1>3

LEMMA NoShiftIsShift == NoShift \in Shifts
BY DEF NoShift, Shifts

LEMMA AlignedStep == Inv /\ Aligned /\ [Next]_vars => Aligned'
<1> SUFFICES ASSUME Inv, Aligned, [Next]_vars, ~impaired'
             PROVE  InStep(NoShift)' /\ Labelled(NoShift)'
  BY DEF Aligned
<1>1. CASE Send \/ Receive \/ BecomeReliable \/ UNCHANGED vars
  <2>1. ~impaired
    BY <1>1 DEF Send, SendHeader, SendData, Receive, BecomeReliable, vars
  <2>2. InStep(NoShift)' /\ Labels(NoShift) /\ Labelled(NoShift)
    BY <1>1, <2>1, InStepStep, NoShiftIsShift DEF Aligned
  <2> QED BY <2>2 DEF Labels, Labelled, PureOf
<1>2. CASE Lose \/ Duplicate \/ Overtake \/ Restart
  BY <1>2 DEF Lose, Duplicate, Overtake, Impair, Restart
<1> QED BY <1>1, <1>2 DEF Next, Channel

\* In step, the two numbers differ by what the impairment left, and by one more
\* between a picture and its spectrum.
Apart(off) ==
    whole["picture"] - whole["spectrum"] - (off["spectrum"] - off["picture"]) \in {0, 1}

LEMMA InStepApart ==
    ASSUME Inv, NEW off \in Shifts, InStep(off)
    PROVE  Apart(off)
<1>1. PICK cs : Route(cs, off)
  BY DEF InStep
<1>2. ReceivedTo(cs[0], off) /\ cs[0].round \in Nat
  <2>1. 0 \in 0..Len(net)
    BY LenProperties DEF Inv, ChannelOK
  <2> QED BY <1>1, <2>1 DEF Route, Cursors
<1>3. /\ whole["picture"] + off["picture"] = Before("picture", cs[0])
      /\ whole["spectrum"] + off["spectrum"] = Before("spectrum", cs[0])
  BY <1>2 DEF ReceivedTo, Streams
<1>4. Before("picture", cs[0]) - Before("spectrum", cs[0]) \in {0, 1}
  BY <1>2 DEF Before
<1>5. Before("picture", cs[0]) \in Int /\ Before("spectrum", cs[0]) \in Int
  BY <1>2 DEF Before
<1>6. /\ whole["picture"] \in Nat /\ whole["spectrum"] \in Nat
      /\ off["picture"] \in Int /\ off["spectrum"] \in Int
  BY DEF Inv, FilesOK, Shifts, Streams
<1> QED BY <1>3, <1>4, <1>5, <1>6 DEF Apart

\* Two transmissions are mixed, or the picture with the number of the last
\* spectrum is that of another round, only if something was lost, duplicated,
\* overtaken or restarted (SpectrumAggregator, PictureSaver).
THEOREM MatchingHolds == Spec => []MatchingUnlessImpaired
<1>1. Inv /\ Aligned => MatchingUnlessImpaired
  <2> SUFFICES ASSUME Inv, Aligned, ~impaired
               PROVE  /\ \A s \in Streams : whole[s] > 0 => PureOf(saved[s].data, whole[s])
                      /\ whole["picture"] - whole["spectrum"] \in {0, 1}
    BY DEF MatchingUnlessImpaired
  <2>1. Apart(NoShift)
    BY InStepApart, NoShiftIsShift DEF Aligned
  <2>2. whole \in [Streams -> Nat]
    BY DEF Inv, FilesOK
  <2> QED BY <2>1, <2>2 DEF Aligned, Labelled, NoShift, Apart, Streams
<1> QED BY <1>1, Invariance, AlignedInit, AlignedStep, PTL DEF Spec

\* Nothing is on its way, the transmitter is between two transmissions and both
\* listeners wait for a header: whatever was lost before, they are in step.
Quiet == net = <<>> /\ next = -1 /\ \A s \in Streams : listener[s].state = "IDLE"

LEMMA QuietInStep ==
    ASSUME Inv, Quiet
    PROVE  \E off \in Shifts : InStep(off)
<1> DEFINE off == [s \in Streams |-> Before(s, SentTo) - whole[s]]
<1>1. /\ round \in Nat /\ stream \in Streams /\ size \in Nat /\ next = -1
      /\ whole \in [Streams -> Nat]
  <2>1. size \in Nat
    BY CountsNat DEF Inv, SenderOK, Streams
  <2> QED BY <2>1, LinkAssumption DEF Inv, SenderOK, FilesOK, Quiet
<1>2. SentTo \in Cursors /\ SentTo.next = -1 /\ SentTo.round = round
  BY <1>1 DEF SentTo, Cursor, Cursors
<1>3. off \in Shifts /\ \A s \in Streams : whole[s] + off[s] = Before(s, SentTo)
  BY <1>1, <1>2 DEF Before, Shifts
<1> HIDE DEF off
<1>4. ReceivedTo(SentTo, off)
  BY <1>2, <1>3 DEF ReceivedTo, Quiet
<1>5. Len(net) = 0
  BY DEF Quiet
<1>6. Route([i \in 0..0 |-> SentTo], off)
  BY <1>2, <1>4, <1>5 DEF Route
<1> QED BY <1>3, <1>6 DEF InStep

\* Over a reliable channel listeners that have come into step stay in step: from
\* then on every picture and spectrum that is counted comes from one round, the
\* one its number stands for, and the numbers the page compares drift no further
\* apart (SpectrumAggregator).
StaysInStep ==
    [][\A off \in Shifts :
          reliable /\ InStep(off) => InStep(off)' /\ Labels(off) /\ Apart(off)']_vars

\* For transmissions of any sizes and any shift that losses have left between the
\* numbers and the rounds, the shift is final: the safety half of Recovers
\* (SpectrumAggregator.accept_message).
THEOREM StaysInStepHolds == Spec => StaysInStep
<1>1. Inv /\ Inv' /\ [Next]_vars =>
        [\A off \in Shifts :
            reliable /\ InStep(off) => InStep(off)' /\ Labels(off) /\ Apart(off)']_vars
  <2> SUFFICES ASSUME Inv, Inv', Next, NEW off \in Shifts, reliable, InStep(off)
               PROVE  InStep(off)' /\ Labels(off) /\ Apart(off)'
    BY Zenon
  <2>1. Send \/ Receive
    BY DEF Next, Channel, Lose, Duplicate, Overtake, Impair, BecomeReliable, Restart
  <2>2. InStep(off)' /\ Labels(off)
    BY <2>1, InStepStep
  <2>3. Apart(off)'
    BY <2>2, InStepApart, PTL
  <2> QED BY <2>2, <2>3
<1> QED BY <1>1, Invariance, PTL DEF Spec, StaysInStep

\* Listeners that wait for a header while the transmitter is about to send one
\* are in step, however many messages were lost before and however the numbers
\* have drifted (SpectrumAggregator).
THEOREM QuietIsInStep == Spec => [](Quiet => \E off \in Shifts : InStep(off))
BY QuietInStep, Invariance, PTL
=============================================================================
