---------------------------- MODULE SpectrumLink ----------------------------
(***************************************************************************)
(* The transfer of spectra to the ground.  The transmitter sends a picture *)
(* and a row of intensities per round, each as a header followed by data   *)
(* packets numbered from 0; the packets travel over radio and UDP, where   *)
(* they are lost, duplicated and overtaken.  On the ground mavlinkapp      *)
(* hands every message to SpectrumAggregator (spectrum.py), whose two      *)
(* listeners put a picture and a spectrum together; PictureSaver keeps the *)
(* last picture in a file named after the number of pictures so far, and   *)
(* the web page shows the picture that has the number of the last spectrum.*)
(* mavlinkapp may be restarted; it then counts from 0 again.               *)
(*                                                                         *)
(* The channel is unreliable at first and reliable from some point on.     *)
(***************************************************************************)
EXTENDS Integers, Sequences

CONSTANTS
    Sizes,       \* the numbers of data packets a transmission may have
    MaxRounds,   \* bound of the model: rounds that are sent
    Window,      \* bound of the model: messages on their way
    MaxRestarts  \* bound of the model: restarts of mavlinkapp

Streams == {"picture", "spectrum"}

ASSUME LinkAssumption ==
    /\ Sizes \in [Streams -> SUBSET (Nat \ {0})]
    /\ MaxRounds \in Nat /\ Window \in Nat \ {0} /\ MaxRestarts \in Nat

VARIABLES
    round,      \* the round that is being sent
    stream,     \* which of its two transmissions
    size,       \* the number of its packets
    next,       \* the number of its next packet, -1 for the header
    net,        \* the messages on their way
    reliable,   \* the channel has become reliable
    impaired,   \* something was lost, duplicated, overtaken or restarted
    listener,   \* the two listeners: state, index waited for, packets expected
    data,       \* WHOLE_DATA of each: the packets accepted
    whole,      \* number_of_whole_packages of each
    saved,      \* what the acceptor of each was given last
    files,      \* the identifiers of the picture files on the disk
    dangling,   \* PictureSaver tried to remove a file that is not there
    restarts

sender == <<round, stream, size, next>>
receiver == <<listener, data, whole, saved, files, dangling>>
vars == <<sender, net, reliable, impaired, receiver, restarts>>

\* A header announces n packets, a data packet has number n.
Header(s, r, n) == [type |-> "header", stream |-> s, round |-> r, n |-> n]
Data(s, r, n)   == [type |-> "data", stream |-> s, round |-> r, n |-> n]

Listener(st, w, p) == [state |-> st, wait |-> w, packets |-> p]
Idle == Listener("IDLE", 0, 0)

-----------------------------------------------------------------------------
\* The transmitter, one message at a time: picture, then spectrum.
SendHeader ==
    /\ round <= MaxRounds /\ Len(net) < Window /\ next = -1
    /\ size' \in Sizes[stream]
    /\ net' = Append(net, Header(stream, round, size'))
    /\ next' = 0
    /\ UNCHANGED <<round, stream, reliable, impaired, receiver, restarts>>

SendData ==
    /\ Len(net) < Window /\ next >= 0
    /\ net' = Append(net, Data(stream, round, next))
    /\ IF next + 1 < size
       THEN next' = next + 1 /\ UNCHANGED <<round, stream>>
       ELSE /\ next' = -1
            /\ stream' = IF stream = "picture" THEN "spectrum" ELSE "picture"
            /\ round' = IF stream = "picture" THEN round ELSE round + 1
    /\ UNCHANGED <<size, reliable, impaired, receiver, restarts>>

Send == SendHeader \/ SendData

\* Radio and UDP, until they become reliable.
Impair(messages) ==
    /\ ~reliable
    /\ net' = messages
    /\ impaired' = TRUE
    /\ UNCHANGED <<sender, reliable, receiver, restarts>>

Lose == net # <<>> /\ Impair(Tail(net))
Duplicate == net # <<>> /\ Len(net) < Window /\ Impair(<<Head(net)>> \o net)
Overtake == Len(net) > 1 /\ Impair(<<net[2], net[1]>> \o SubSeq(net, 3, Len(net)))

BecomeReliable ==
    /\ ~reliable
    /\ reliable' = TRUE
    /\ UNCHANGED <<sender, net, impaired, receiver, restarts>>

-----------------------------------------------------------------------------
\* PictureSaver.accept: the file of the previous picture makes way; os.remove
\* raises if it is not there.
\* Mutant: the count, which is one ahead of the identifier.
Identifier_Count(s) == whole[s] + 1
Identifier(s) == whole[s]

SavePicture(id) ==
    /\ files' = (files \ {id - 1}) \cup {id}
    /\ dangling' = (dangling \/ (id # 0 /\ id - 1 \notin files))

\* accept_data of the listener of s: append, and save when it was the last.
accept_data(s, m) ==
    LET all  == Append(data[s], m)
        last == m.n = listener[s].packets - 1
    IN  /\ data' = [data EXCEPT ![s] = all]
        /\ listener' = [listener EXCEPT ![s] =
                Listener(IF last THEN "IDLE" ELSE "ACCUM", m.n + 1, @.packets)]
        /\ whole' = [whole EXCEPT ![s] = IF last THEN whole[s] + 1 ELSE whole[s]]
        /\ saved' = [saved EXCEPT ![s] =
                IF last THEN [packets |-> listener[s].packets, data |-> all]
                ELSE saved[s]]
        /\ IF last /\ s = "picture" THEN SavePicture(Identifier(s))
           ELSE UNCHANGED <<files, dangling>>

\* Mutants: data of an earlier transmission not cleared by a header, the index
\* not reset by it, a gap in the numbers not noticed.
OnHeader_KeepsData(s) == UNCHANGED data
OnHeader(s) == data' = [data EXCEPT ![s] = <<>>]

FirstIndex_Kept(s) == listener[s].wait
FirstIndex(s) == 0

Expected_Gaps(s, m) == m.n >= listener[s].wait
Expected(s, m) == m.n = listener[s].wait

\* accept_message; a message concerns one of the two listeners only.
\* A header in the state ACCUM and data in the state IDLE are ignored.
StartAccum(s, m) ==
    /\ listener[s].state = "IDLE" /\ m.type = "header"
    /\ OnHeader(s)
    /\ listener' = [listener EXCEPT ![s] =
                       Listener("ACCUM", FirstIndex(s), m.n)]
    /\ UNCHANGED <<whole, saved, files, dangling>>

Accum(s, m) ==
    /\ listener[s].state = "ACCUM" /\ m.type = "data"
    /\ IF Expected(s, m) THEN accept_data(s, m)
       ELSE IF m.n > listener[s].wait
            THEN /\ listener' = [listener EXCEPT ![s] =
                                   Listener("IDLE", @.wait, @.packets)]
                 /\ UNCHANGED <<data, whole, saved, files, dangling>>
            ELSE UNCHANGED receiver

Ignore(s, m) ==
    /\ listener[s].state = (IF m.type = "header" THEN "ACCUM" ELSE "IDLE")
    /\ UNCHANGED receiver

accept_message(m) ==
    StartAccum(m.stream, m) \/ Accum(m.stream, m) \/ Ignore(m.stream, m)

Receive ==
    /\ net # <<>>
    /\ net' = Tail(net)
    /\ accept_message(Head(net))
    /\ UNCHANGED <<sender, reliable, impaired, restarts>>

\* mavlinkapp is restarted: the listeners and their counts are new.
Restart ==
    /\ ~reliable /\ restarts < MaxRestarts
    /\ restarts' = restarts + 1
    /\ impaired' = TRUE
    /\ listener' = [s \in Streams |-> Idle]
    /\ data' = [s \in Streams |-> <<>>]
    /\ whole' = [s \in Streams |-> 0]
    /\ UNCHANGED <<sender, net, reliable, saved, files, dangling>>

Init ==
    /\ round = 1 /\ stream = "picture" /\ size = 0 /\ next = -1
    /\ net = <<>> /\ reliable = FALSE /\ impaired = FALSE
    /\ listener = [s \in Streams |-> Idle]
    /\ data = [s \in Streams |-> <<>>]
    /\ saved = [s \in Streams |-> [packets |-> 0, data |-> <<>>]]
    /\ whole = [s \in Streams |-> 0]
    /\ files = {} /\ dangling = FALSE /\ restarts = 0

Channel == Lose \/ Duplicate \/ Overtake \/ BecomeReliable

Next == Send \/ Receive \/ Channel \/ Restart

Spec == Init /\ [][Next]_vars

\* The transmitter and mavlinkapp keep running.
FairSpec == Spec /\ WF_vars(Send) /\ WF_vars(Receive)

-----------------------------------------------------------------------------
Messages == [type : {"header", "data"}, stream : Streams,
             round : 1..MaxRounds, n : Nat]
Counts(s) == Sizes[s] \cup {0}

TypeOK ==
    /\ round \in 1..(MaxRounds + 1) /\ stream \in Streams
    /\ size \in Counts("picture") \cup Counts("spectrum")
    /\ next = -1 \/ next \in 0..(size - 1)
    /\ net \in Seq(Messages) /\ Len(net) <= Window
    /\ reliable \in BOOLEAN /\ impaired \in BOOLEAN
    /\ \A s \in Streams :
          /\ listener[s].packets \in Counts(s)
          /\ listener[s].wait \in 0..listener[s].packets
          /\ listener[s].state = "ACCUM" => listener[s].wait < listener[s].packets
          /\ saved[s].packets \in Counts(s) /\ saved[s].data \in Seq(Messages)
    /\ data \in [Streams -> Seq(Messages)]
    /\ whole \in [Streams -> Nat]
    /\ files \subseteq Nat /\ dangling \in BOOLEAN
    /\ restarts \in 0..MaxRestarts

\* Whatever the channel does, what is saved is complete: as many packets as
\* the header announced, each number once and in order.
SavedComplete ==
    \A s \in Streams :
        LET d == saved[s].data
        IN  /\ Len(d) = saved[s].packets
            /\ \A i \in 1..Len(d) : d[i].n = i - 1 /\ d[i].stream = s

\* All packets of a sequence come from the transmission of round r.
PureOf(d, r) == \A i \in 1..Len(d) : d[i].round = r

\* Only over an unreliable channel can two transmissions be mixed, or can the
\* picture that has the number of the last spectrum be that of another round
\* (the two numbers are counted separately, by the two listeners).
MatchingUnlessImpaired ==
    ~impaired =>
        /\ \A s \in Streams : whole[s] > 0 => PureOf(saved[s].data, whole[s])
        /\ whole["picture"] - whole["spectrum"] \in {0, 1}

\* PictureSaver finds the file it removes, over restarts too, and the page
\* finds the picture that was saved last.
PictureFilePresent ==
    /\ ~dangling
    /\ whole["picture"] > 0 => whole["picture"] - 1 \in files

\* Losses do no lasting harm if transmissions are of one size: once the channel
\* is reliable and two more rounds are to come, the last picture and the last
\* spectrum arrive, free of packets of an earlier transmission.
EnoughRounds == reliable /\ round < MaxRounds - 1
Recovered ==
    \A s \in Streams : saved[s].packets > 0 /\ PureOf(saved[s].data, MaxRounds)
Recovers == EnoughRounds ~> Recovered
=============================================================================
