------------------------------- MODULE SoundHub -------------------------------
(***************************************************************************)
(* The sound hub: the forwarder thread takes sound datagrams from the can, *)
(* or a heartbeat after a second of silence, and sends each to every       *)
(* subscriber; the accepting thread appends to the same list without a     *)
(* lock.  A subscriber whose connection fails is removed from the list     *)
(* while it is iterated.  Subscribers are the requests of sound.py: they   *)
(* connect, read and go when the browser goes.                             *)
(***************************************************************************)
EXTENDS Integers, Sequences, SequencesExt

CONSTANTS
    Conns,   \* connections, each used once
    CAP      \* datagrams that fit into the buffers of a connection

ASSUME HubAssumption == CAP \in Nat \ {0}

VARIABLES
    subscribers,   \* the list
    it,            \* index of the list iterator, 0 between two datagrams
    peer,          \* the other end: "none", "up", "closed", "reset"
    accepted,      \* the connections accept() has returned
    unread,        \* datagrams a peer has not read yet
    present,       \* history: who was in the list when the datagram came,
    got,           \* who has got it,
    slid           \* who slid into the place of a subscriber removed since

forwarder == <<it, present, got, slid>>
vars == <<subscribers, forwarder, peer, accepted, unread>>

-----------------------------------------------------------------------------
(* The forwarder *)

NewRound ==
    /\ it = 0
    /\ it' = 1 /\ present' = ToSet(subscribers) /\ got' = {} /\ slid' = {}
    /\ UNCHANGED <<subscribers, peer, accepted, unread>>

Datagram == NewRound
\* Mutant: the socket has no timeout.
Timeout_Never == FALSE /\ NewRound
\* No datagram for a second: the byte '1' goes out.
Timeout == NewRound

Current == subscribers[it]
InRound == it \in DOMAIN subscribers

\* Mutant: the data is queued without a bound.
Room_Always(c) == TRUE
Room(c) == unread[c] < CAP

\* send() blocks while the buffers are full.  To a closed peer it succeeds
\* once more, the peer answers with a reset.
Send ==
    /\ InRound /\ peer[Current] # "reset"
    /\ \/ /\ peer[Current] = "up" /\ Room(Current)
          /\ unread' = [unread EXCEPT ![Current] = @ + 1]
          /\ UNCHANGED peer
       \/ /\ peer[Current] = "closed"
          /\ peer' = [peer EXCEPT ![Current] = "reset"]
          /\ UNCHANGED unread
    /\ got' = got \cup {Current}
    /\ it' = it + 1
    /\ UNCHANGED <<subscribers, present, slid, accepted>>

\* Mutant: the socket is closed but stays in the list.
Drop_Kept(list) == list
Drop(list) == RemoveAt(list, it)

\* ConnectionError: shutdown, close, remove; the iterator moves on all the same.
SendFails ==
    /\ InRound /\ peer[Current] = "reset"
    /\ subscribers' = Drop(subscribers)
    /\ slid' = slid \cup (IF it < Len(subscribers) THEN {subscribers[it + 1]} ELSE {})
    /\ it' = it + 1
    /\ UNCHANGED <<peer, accepted, unread, present, got>>

EndRound ==
    /\ it > Len(subscribers) /\ it > 0
    /\ it' = 0 /\ present' = {} /\ got' = {} /\ slid' = {}
    /\ UNCHANGED <<subscribers, peer, accepted, unread>>

-----------------------------------------------------------------------------
\* Mutant: new subscribers are put in front.
Subscribe_Front(c) == <<c>> \o subscribers
Subscribe(c) == Append(subscribers, c)

\* The accepting thread; the peer may be gone already.
Accept(c) ==
    /\ peer[c] # "none" /\ c \notin accepted
    /\ accepted' = accepted \cup {c}
    /\ subscribers' = Subscribe(c)
    /\ UNCHANGED <<forwarder, peer, unread>>

(* sound.py, one connection per request *)

Connect(c) ==
    /\ peer[c] = "none"
    /\ peer' = [peer EXCEPT ![c] = "up"]
    /\ UNCHANGED <<subscribers, forwarder, accepted, unread>>

\* recv() and yield: as fast as the browser takes it.
Read(c) ==
    /\ peer[c] = "up" /\ unread[c] > 0
    /\ unread' = [unread EXCEPT ![c] = @ - 1]
    /\ UNCHANGED <<subscribers, forwarder, peer, accepted>>

\* The generator is closed: shutdown and close, a reset if data was unread.
Leave(c) ==
    /\ peer[c] = "up"
    /\ peer' = [peer EXCEPT ![c] = IF unread[c] > 0 THEN "reset" ELSE "closed"]
    /\ unread' = [unread EXCEPT ![c] = 0]
    /\ UNCHANGED <<subscribers, forwarder, accepted>>

-----------------------------------------------------------------------------
Init ==
    /\ subscribers = <<>> /\ it = 0
    /\ peer = [c \in Conns |-> "none"]
    /\ accepted = {} /\ unread = [c \in Conns |-> 0]
    /\ present = {} /\ got = {} /\ slid = {}

Forwarder == Datagram \/ Timeout \/ Send \/ SendFails \/ EndRound
Next == Forwarder \/ \E c \in Conns : Accept(c) \/ Connect(c) \/ Read(c) \/ Leave(c)

\* The forwarder runs, its timeout comes, and a request that has not left
\* goes on reading.
Spec == Init /\ [][Next]_vars /\ WF_vars(Timeout)
             /\ WF_vars(Send \/ SendFails \/ EndRound)
             /\ \A c \in Conns : WF_vars(Read(c))

-----------------------------------------------------------------------------
TypeOK ==
    /\ subscribers \in Seq(Conns) /\ it \in 0..(Len(subscribers) + 2)
    /\ peer \in [Conns -> {"none", "up", "closed", "reset"}]
    /\ accepted \in SUBSET Conns /\ unread \in [Conns -> 0..CAP]
    /\ present \in SUBSET Conns /\ got \in SUBSET Conns /\ slid \in SUBSET Conns

\* Behind the iterator everyone who was there when the datagram came has got
\* it, except who stood right after a subscriber that was removed; ahead of it
\* nobody has: with removals and concurrent appends nobody is served twice,
\* and a datagram is missed only next to a broken connection (forwarder()).
MissedOnlyNextToRemoved ==
    it > 0 => \A k \in DOMAIN subscribers :
        IF k < it THEN subscribers[k] \in present => subscribers[k] \in got \cup slid
                  ELSE subscribers[k] \notin got

\* A subscriber that has left is removed in the end, even when no sound comes
\* any more, however many leave at once and hide each other from the loop.
GoneIsRemoved ==
    \A c \in Conns :
        (peer[c] \in {"closed", "reset"} /\ c \in ToSet(subscribers)) ~> c \notin ToSet(subscribers)
=============================================================================
