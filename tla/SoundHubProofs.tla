---------------------------- MODULE SoundHubProofs ----------------------------
(***************************************************************************)
(* Proofs about SoundHub, for any number of connections and any size of    *)
(* their buffers: who misses a datagram, and that none is sent twice.      *)
(***************************************************************************)
EXTENDS SoundHub, SequenceTheorems, TLAPS

-----------------------------------------------------------------------------
(* Removing one element of a list *)

Without(s, p, k) == IF k < p THEN s[k] ELSE s[k + 1]

LEMMA Removed ==
    ASSUME NEW S, NEW s \in Seq(S), NEW p \in 1..Len(s)
    PROVE  /\ RemoveAt(s, p) \in Seq(S) /\ Len(RemoveAt(s, p)) = Len(s) - 1
           /\ \A k \in 1..(Len(s) - 1) : RemoveAt(s, p)[k] = Without(s, p, k)
<1> DEFINE n == Len(s)
           f == SubSeq(s, 1, p - 1)
           b == SubSeq(s, p + 1, n)
<1>1. DOMAIN s = 1..n /\ n \in Nat /\ p \in Int /\ 1 <= p /\ p <= n
  BY LenProperties
<1>2. \A k \in 1..n : s[k] \in S
  BY <1>1, ElementOfSeq
<1>3. f \in Seq(S) /\ Len(f) = p - 1 /\ \A k \in 1..(p - 1) : f[k] = s[k]
  <2>1. \A k \in 1..(p - 1) : s[k] \in S
    BY <1>1, <1>2
  <2> QED BY <1>1, <2>1, SubSeqProperties
<1>4. /\ b \in Seq(S)
      /\ Len(b) = IF p + 1 <= n THEN n - (p + 1) + 1 ELSE 0
      /\ \A k \in 1..(n - (p + 1) + 1) : b[k] = s[(p + 1) + k - 1]
  <2>1. \A k \in (p + 1)..n : s[k] \in S
    BY <1>1, <1>2
  <2> QED BY <1>1, <2>1, SubSeqProperties
<1>5. RemoveAt(s, p) = f \o b
  BY DEF RemoveAt
<1> HIDE DEF n, f, b
<1>6. Len(b) = n - p /\ \A k \in 1..(n - p) : b[k] = s[p + k]
  <2>1. n - (p + 1) + 1 = n - p
    BY <1>1
  <2>2. \A k \in 1..(n - p) : (p + 1) + k - 1 = p + k
    BY <1>1
  <2>3. p + 1 <= n \/ p = n
    BY <1>1
  <2>4. p = n => n - p = 0
    BY <1>1
  <2> QED BY <1>4, <2>1, <2>2, <2>3, <2>4
<1>7. f \o b \in Seq(S) /\ Len(f \o b) = n - 1
  <2>1. f \o b \in Seq(S) /\ Len(f \o b) = Len(f) + Len(b)
    BY <1>3, <1>4, ConcatProperties
  <2>2. (p - 1) + (n - p) = n - 1
    BY <1>1
  <2> QED BY <2>1, <2>2, <1>3, <1>6
<1>8. ASSUME NEW k \in 1..(n - 1) PROVE (f \o b)[k] = Without(s, p, k)
  <2>1. k \in 1..(Len(f) + Len(b))
    BY <1>1, <1>3, <1>6
  <2>2. \A i \in 1..(Len(f) + Len(b)) :
           (f \o b)[i] = IF i <= Len(f) THEN f[i] ELSE b[i - Len(f)]
    BY <1>3, <1>4, ConcatProperties
  <2>3. CASE k < p
    <3>1. k <= Len(f) /\ k \in 1..(p - 1)
      BY <2>3, <1>1, <1>3
    <3> QED BY <3>1, <2>1, <2>2, <2>3, <1>3 DEF Without
  <2>4. CASE ~(k < p)
    <3>1. ~(k <= Len(f)) /\ k - Len(f) = k - (p - 1) /\ k - (p - 1) \in 1..(n - p)
      BY <2>4, <1>1, <1>3
    <3>2. (f \o b)[k] = s[p + (k - (p - 1))]
      BY <3>1, <2>1, <2>2, <1>6
    <3>3. p + (k - (p - 1)) = k + 1
      BY <1>1
    <3> QED BY <2>4, <3>2, <3>3 DEF Without
  <2> QED BY <2>3, <2>4
<1> QED BY <1>5, <1>7, <1>8 DEF n

-----------------------------------------------------------------------------
(* The inductive invariant *)

\* A connection is in the list at most once, and only after it was accepted;
\* so is everyone a datagram is owed to or was sent to.
Accounted ==
    /\ \A i, j \in DOMAIN subscribers : subscribers[i] = subscribers[j] => i = j
    /\ ToSet(subscribers) \subseteq accepted
    /\ present \subseteq accepted /\ got \subseteq accepted

IInv == TypeOK /\ Accounted /\ MissedOnlyNextToRemoved

LEMMA ListFacts ==
    ASSUME subscribers \in Seq(Conns)
    PROVE  /\ DOMAIN subscribers = 1..Len(subscribers) /\ Len(subscribers) \in Nat
           /\ \A k \in 1..Len(subscribers) :
                 subscribers[k] \in Conns /\ subscribers[k] \in ToSet(subscribers)
           /\ ToSet(subscribers) \subseteq Conns
<1>1. DOMAIN subscribers = 1..Len(subscribers) /\ Len(subscribers) \in Nat
  BY LenProperties
<1>2. \A k \in 1..Len(subscribers) : subscribers[k] \in Conns
  BY <1>1, ElementOfSeq
<1> QED BY <1>1, <1>2 DEF ToSet

LEMMA InitIInv == Init => IInv
<1> SUFFICES ASSUME Init PROVE IInv
  OBVIOUS
<1>1. <<>> \in Seq(Conns) /\ Len(<<>>) = 0 /\ DOMAIN <<>> = {} /\ ToSet(<<>>) = {}
  BY DEF ToSet
<1>2. 0 \in 0..CAP
  BY HubAssumption
<1> QED BY <1>1, <1>2 DEF Init, IInv, TypeOK, Accounted, MissedOnlyNextToRemoved

LEMMA NewRoundKeeps == IInv /\ NewRound => IInv'
<1> SUFFICES ASSUME IInv, NewRound PROVE IInv'
  OBVIOUS
<1>1. /\ subscribers \in Seq(Conns)
      /\ DOMAIN subscribers = 1..Len(subscribers) /\ Len(subscribers) \in Nat
      /\ ToSet(subscribers) \subseteq Conns /\ ToSet(subscribers) \subseteq accepted
  BY ListFacts DEF IInv, TypeOK, Accounted
<1>2. TypeOK'
  BY <1>1 DEF NewRound, IInv, TypeOK
<1>3. Accounted'
  BY <1>1 DEF NewRound, IInv, Accounted
<1>4. MissedOnlyNextToRemoved'
  BY <1>1 DEF NewRound, MissedOnlyNextToRemoved
<1> QED BY <1>2, <1>3, <1>4 DEF IInv

LEMMA SendKeeps == IInv /\ Send => IInv'
<1> SUFFICES ASSUME IInv, Send PROVE IInv'
  OBVIOUS
<1>1. /\ subscribers \in Seq(Conns) /\ Len(subscribers) \in Nat
      /\ DOMAIN subscribers = 1..Len(subscribers) /\ ToSet(subscribers) \subseteq accepted
      /\ \A k \in 1..Len(subscribers) :
            subscribers[k] \in Conns /\ subscribers[k] \in ToSet(subscribers)
  BY ListFacts DEF IInv, TypeOK, Accounted
<1>2. /\ it \in 1..Len(subscribers) /\ it' = it + 1 /\ got' = got \cup {subscribers[it]}
      /\ UNCHANGED <<subscribers, present, slid, accepted>>
  BY <1>1 DEF Send, InRound, Current
<1>3. peer' \in [Conns -> {"none", "up", "closed", "reset"}] /\ unread' \in [Conns -> 0..CAP]
  <2>1. Current \in Conns
    BY <1>1, <1>2 DEF Current
  <2>2. CASE /\ Room(Current) /\ UNCHANGED peer
             /\ unread' = [unread EXCEPT ![Current] = @ + 1]
    <3>1. unread[Current] + 1 \in 0..CAP
      BY <2>1, <2>2, HubAssumption DEF Room, IInv, TypeOK
    <3> QED BY <2>1, <2>2, <3>1 DEF IInv, TypeOK
  <2>3. CASE peer' = [peer EXCEPT ![Current] = "reset"] /\ UNCHANGED unread
    BY <2>1, <2>3 DEF IInv, TypeOK
  <2> QED BY <2>2, <2>3 DEF Send
<1>4. TypeOK'
  <2>1. it' \in 0..(Len(subscribers) + 2)
    BY <1>1, <1>2
  <2> QED BY <1>1, <1>2, <1>3, <2>1 DEF IInv, TypeOK
<1>5. Accounted'
  BY <1>1, <1>2 DEF IInv, Accounted
<1>6. ASSUME NEW k \in 1..Len(subscribers)
      PROVE  IF k < it + 1 THEN subscribers[k] \in present => subscribers[k] \in got' \cup slid
                           ELSE subscribers[k] \notin got'
  <2>1. it \in Nat /\ it > 0 /\ k \in Int
    BY <1>1, <1>2
  <2>2. IF k < it THEN subscribers[k] \in present => subscribers[k] \in got \cup slid
                  ELSE subscribers[k] \notin got
    BY <1>1, <2>1 DEF IInv, MissedOnlyNextToRemoved
  <2>3. k = it <=> subscribers[k] = subscribers[it]
    BY <1>1, <1>2 DEF IInv, Accounted
  <2>4. CASE k = it
    BY <2>1, <2>4, <1>2
  <2>5. CASE k < it
    BY <2>1, <2>2, <2>5, <1>2
  <2>6. CASE k > it
    <3>1. ~(k < it) /\ ~(k < it + 1) /\ k # it
      BY <2>1, <2>6
    <3> QED BY <3>1, <2>2, <2>3, <1>2
  <2> QED BY <2>1, <2>4, <2>5, <2>6
<1>7. MissedOnlyNextToRemoved'
  BY <1>1, <1>2, <1>6 DEF MissedOnlyNextToRemoved
<1> QED BY <1>4, <1>5, <1>7 DEF IInv

LEMMA SendFailsKeeps == IInv /\ SendFails => IInv'
<1> SUFFICES ASSUME IInv, SendFails PROVE IInv'
  OBVIOUS
<1> DEFINE n == Len(subscribers)
           r == RemoveAt(subscribers, it)
           old(k) == IF k < it THEN k ELSE k + 1
<1>1. /\ subscribers \in Seq(Conns) /\ n \in Nat
      /\ DOMAIN subscribers = 1..n /\ ToSet(subscribers) \subseteq accepted
      /\ \A k \in 1..n : subscribers[k] \in Conns /\ subscribers[k] \in ToSet(subscribers)
  BY ListFacts DEF IInv, TypeOK, Accounted
<1>2. /\ it \in 1..n /\ it' = it + 1 /\ subscribers' = r
      /\ slid' = slid \cup (IF it < n THEN {subscribers[it + 1]} ELSE {})
      /\ UNCHANGED <<peer, accepted, unread, present, got>>
  BY <1>1 DEF SendFails, InRound, Drop
<1>3. r \in Seq(Conns) /\ Len(r) = n - 1 /\ \A k \in 1..(n - 1) : r[k] = Without(subscribers, it, k)
  BY <1>1, <1>2, Removed
<1>4. DOMAIN r = 1..(n - 1)
  BY <1>3, LenProperties
<1>5. \A k \in 1..(n - 1) : r[k] = subscribers[old(k)] /\ old(k) \in 1..n
  BY <1>1, <1>2, <1>3 DEF Without
<1> HIDE DEF r, n
<1>6. ToSet(r) \subseteq ToSet(subscribers)
  BY <1>1, <1>4, <1>5 DEF ToSet
<1>7. TypeOK'
  <2>1. it' \in 0..(Len(r) + 2)
    BY <1>1, <1>2, <1>3
  <2>2. slid' \in SUBSET Conns
    <3>1. it < n => it + 1 \in 1..n
      BY <1>1, <1>2
    <3> QED BY <3>1, <1>1, <1>2 DEF IInv, TypeOK
  <2> QED BY <1>2, <1>3, <2>1, <2>2 DEF IInv, TypeOK
<1>8. Accounted'
  <2>1. ASSUME NEW i \in 1..(n - 1), NEW j \in 1..(n - 1), r[i] = r[j]
        PROVE  i = j
    <3>1. old(i) = old(j)
      <4>1. subscribers[old(i)] = subscribers[old(j)]
            /\ old(i) \in DOMAIN subscribers /\ old(j) \in DOMAIN subscribers
        BY <2>1, <1>1, <1>5
      <4> HIDE DEF old
      <4> QED BY <4>1 DEF IInv, Accounted
    <3> QED BY <3>1, <1>1, <1>2
  <2>2. ToSet(r) \subseteq accepted
    BY <1>1, <1>6
  <2> QED BY <1>2, <1>4, <2>1, <2>2 DEF IInv, Accounted
<1>9. ASSUME NEW k \in 1..(n - 1)
      PROVE  IF k < it + 1 THEN r[k] \in present => r[k] \in got \cup slid'
                           ELSE r[k] \notin got
  <2>1. it \in Nat /\ it > 0 /\ k \in Int /\ it <= n
    BY <1>1, <1>2
  <2>2. \A i \in 1..n :
           IF i < it THEN subscribers[i] \in present => subscribers[i] \in got \cup slid
                     ELSE subscribers[i] \notin got
    BY <1>1, <2>1 DEF IInv, MissedOnlyNextToRemoved
  <2>3. CASE k < it
    <3>1. r[k] = subscribers[k] /\ k \in 1..n /\ k < it + 1
      BY <2>1, <2>3, <1>1, <1>5
    <3> QED BY <3>1, <2>2, <2>3, <1>2
  <2>4. CASE k = it
    <3>1. r[k] = subscribers[it + 1] /\ it < n /\ k < it + 1
      BY <2>1, <2>4, <1>1, <1>5
    <3> QED BY <3>1, <1>2
  <2>5. CASE k > it
    <3>1. r[k] = subscribers[k + 1] /\ k + 1 \in 1..n /\ ~(k + 1 < it) /\ ~(k < it + 1)
      BY <2>1, <2>5, <1>1, <1>5
    <3> QED BY <3>1, <2>2
  <2> QED BY <2>1, <2>3, <2>4, <2>5
<1>10. MissedOnlyNextToRemoved'
  BY <1>2, <1>4, <1>9 DEF MissedOnlyNextToRemoved
<1> QED BY <1>7, <1>8, <1>10 DEF IInv

LEMMA AcceptKeeps ==
    ASSUME NEW c \in Conns, IInv, Accept(c)
    PROVE  IInv'
<1> DEFINE n == Len(subscribers)
           t == Append(subscribers, c)
<1>1. /\ subscribers \in Seq(Conns) /\ n \in Nat
      /\ DOMAIN subscribers = 1..n /\ ToSet(subscribers) \subseteq accepted
      /\ \A k \in 1..n : subscribers[k] \in Conns /\ subscribers[k] \in ToSet(subscribers)
  BY ListFacts DEF IInv, TypeOK, Accounted
<1>2. /\ c \notin accepted /\ accepted' = accepted \cup {c} /\ subscribers' = t
      /\ UNCHANGED <<it, present, got, slid, peer, unread>>
  BY DEF Accept, Subscribe, forwarder
<1>3. /\ t \in Seq(Conns) /\ Len(t) = n + 1 /\ t[n + 1] = c
      /\ \A k \in 1..n : t[k] = subscribers[k]
  BY <1>1, AppendProperties
<1>4. DOMAIN t = 1..(n + 1)
  BY <1>3, LenProperties
<1> HIDE DEF t, n
<1>5. \A k \in 1..(n + 1) : k \in 1..n \/ k = n + 1
  BY <1>1
<1>6. \A k \in 1..n : t[k] # c
  BY <1>1, <1>2, <1>3
<1>7. TypeOK'
  <2>1. it' \in 0..(Len(t) + 2)
    BY <1>1, <1>2, <1>3 DEF IInv, TypeOK, n
  <2> QED BY <1>2, <1>3, <2>1 DEF IInv, TypeOK
<1>8. Accounted'
  <2>1. ASSUME NEW i \in 1..(n + 1), NEW j \in 1..(n + 1), t[i] = t[j]
        PROVE  i = j
    <3>1. CASE i \in 1..n /\ j \in 1..n
      BY <2>1, <3>1, <1>1, <1>3 DEF IInv, Accounted
    <3>2. CASE i = n + 1 \/ j = n + 1
      BY <2>1, <3>2, <1>3, <1>5, <1>6
    <3> QED BY <3>1, <3>2, <1>5
  <2>2. ToSet(t) \subseteq accepted'
    BY <1>1, <1>2, <1>3, <1>4, <1>5 DEF ToSet
  <2> QED BY <1>2, <1>4, <2>1, <2>2 DEF IInv, Accounted
<1>9. ASSUME it > 0, NEW k \in 1..(n + 1)
      PROVE  IF k < it THEN t[k] \in present => t[k] \in got \cup slid
                       ELSE t[k] \notin got
  <2>1. CASE k \in 1..n
    BY <1>9, <2>1, <1>1, <1>3 DEF IInv, MissedOnlyNextToRemoved
  <2>2. CASE k = n + 1
    <3>1. c \notin present /\ c \notin got
      BY <1>2 DEF IInv, Accounted
    <3> QED BY <3>1, <2>2, <1>3
  <2> QED BY <2>1, <2>2, <1>5
<1>10. MissedOnlyNextToRemoved'
  BY <1>2, <1>4, <1>9 DEF MissedOnlyNextToRemoved
<1> QED BY <1>7, <1>8, <1>10 DEF IInv

\* The other end of a connection.
LEMMA PeerKeeps ==
    ASSUME NEW c \in Conns, IInv, Connect(c) \/ Read(c) \/ Leave(c)
    PROVE  IInv'
<1>1. UNCHANGED <<subscribers, it, present, got, slid, accepted>>
  BY DEF Connect, Read, Leave, forwarder
<1>2. peer' \in [Conns -> {"none", "up", "closed", "reset"}] /\ unread' \in [Conns -> 0..CAP]
  <2>1. CASE Connect(c)
    BY <2>1 DEF Connect, IInv, TypeOK
  <2>2. CASE Read(c)
    <3>1. unread[c] - 1 \in 0..CAP
      BY <2>2, HubAssumption DEF Read, IInv, TypeOK
    <3> QED BY <2>2, <3>1 DEF Read, IInv, TypeOK
  <2>3. CASE Leave(c)
    BY <2>3, HubAssumption DEF Leave, IInv, TypeOK
  <2> QED BY <2>1, <2>2, <2>3
<1> QED BY <1>1, <1>2 DEF IInv, TypeOK, Accounted, MissedOnlyNextToRemoved

LEMMA NextKeeps == IInv /\ [Next]_vars => IInv'
<1> SUFFICES ASSUME IInv, [Next]_vars PROVE IInv'
  OBVIOUS
<1>1. CASE Datagram \/ Timeout
  BY <1>1, NewRoundKeeps DEF Datagram, Timeout
<1>2. CASE Send
  BY <1>2, SendKeeps
<1>3. CASE SendFails
  BY <1>3, SendFailsKeeps
<1>4. CASE EndRound
  <2>1. 0 \in 0..(Len(subscribers) + 2) /\ Len(subscribers) \in Nat
    BY ListFacts DEF IInv, TypeOK
  <2> QED BY <1>4, <2>1 DEF EndRound, IInv, TypeOK, Accounted, MissedOnlyNextToRemoved
<1>5. ASSUME NEW c \in Conns, Accept(c) PROVE IInv'
  BY <1>5, AcceptKeeps
<1>6. ASSUME NEW c \in Conns, Connect(c) \/ Read(c) \/ Leave(c) PROVE IInv'
  BY <1>6, PeerKeeps
<1>7. CASE UNCHANGED vars
  BY <1>7 DEF vars, forwarder, IInv, TypeOK, Accounted, MissedOnlyNextToRemoved
<1> QED BY <1>1, <1>2, <1>3, <1>4, <1>5, <1>6, <1>7 DEF Next, Forwarder

-----------------------------------------------------------------------------
\* The inductive invariant, for any connections and both threads of the hub.
THEOREM Invariance == Spec => []IInv
BY InitIInv, NextKeeps, PTL DEF Spec

\* The iterator is at most two past the end of the list and no connection is
\* sent more than its buffers hold (forwarder(), send()).
THEOREM TypeCorrect == Spec => []TypeOK
<1>1. IInv => TypeOK
  BY DEF IInv
<1> QED BY <1>1, Invariance, PTL

\* However subscribers join and break while a datagram is handed out, it is
\* missed only next to one that is removed, and sent to nobody twice
\* (forwarder() and the accepting loop).
THEOREM MissedOnlyNextToRemovedHolds == Spec => []MissedOnlyNextToRemoved
<1>1. IInv => MissedOnlyNextToRemoved
  BY DEF IInv
<1> QED BY <1>1, Invariance, PTL

\* The list loses nobody whose connection stands, and a connection that was
\* removed never comes back to it, however the accepting thread appends while the
\* loop removes (the list is shared without a lock).
OnlyBrokenLeave ==
    [][\A c \in accepted :
          /\ c \in ToSet(subscribers) /\ c \notin ToSet(subscribers)' => peer[c] = "reset"
          /\ c \notin ToSet(subscribers) => c \notin ToSet(subscribers)'
          /\ c \in accepted']_vars

LEMMA AcceptAdds ==
    ASSUME NEW c \in Conns, IInv, Accept(c)
    PROVE  ToSet(subscribers') = ToSet(subscribers) \cup {c}
<1>1. subscribers \in Seq(Conns) /\ subscribers' = Append(subscribers, c)
  BY DEF IInv, TypeOK, Accept, Subscribe
<1>2. PICK s : s = subscribers
  OBVIOUS
<1>3. /\ s \in Seq(Conns) /\ Len(s) \in Nat /\ DOMAIN s = 1..Len(s)
      /\ Append(s, c) \in Seq(Conns) /\ DOMAIN Append(s, c) = 1..(Len(s) + 1)
      /\ \A k \in 1..Len(s) : Append(s, c)[k] = s[k]
      /\ Append(s, c)[Len(s) + 1] = c
  BY <1>1, <1>2, AppendProperties, LenProperties
<1>4. ToSet(Append(s, c)) = ToSet(s) \cup {c}
  <2>1. \A k \in 1..(Len(s) + 1) : k \in 1..Len(s) \/ k = Len(s) + 1
    BY <1>3
  <2>2. \A k \in 1..Len(s) : k \in 1..(Len(s) + 1)
    BY <1>3
  <2>3. Len(s) + 1 \in 1..(Len(s) + 1)
    BY <1>3
  <2> QED BY <1>3, <2>1, <2>2, <2>3 DEF ToSet
<1> QED BY <1>1, <1>2, <1>4

LEMMA SendFailsRemoves ==
    ASSUME IInv, SendFails
    PROVE  /\ peer[subscribers[it]] = "reset"
           /\ ToSet(subscribers') = ToSet(subscribers) \ {subscribers[it]}
<1>1. PICK s : s = subscribers
  OBVIOUS
<1>2. PICK p : p = it
  OBVIOUS
<1>3. /\ s \in Seq(Conns) /\ Len(s) \in Nat /\ DOMAIN s = 1..Len(s)
      /\ \A i, j \in DOMAIN s : s[i] = s[j] => i = j
  BY <1>1, LenProperties DEF IInv, TypeOK, Accounted
<1>4. p \in 1..Len(s) /\ subscribers' = RemoveAt(s, p) /\ peer[s[p]] = "reset"
  BY <1>1, <1>2, <1>3 DEF SendFails, InRound, Current, Drop
<1>5. PICK r : r = RemoveAt(s, p)
  OBVIOUS
<1>6. /\ r \in Seq(Conns) /\ Len(r) = Len(s) - 1 /\ DOMAIN r = 1..(Len(s) - 1)
      /\ \A k \in 1..(Len(s) - 1) : r[k] = Without(s, p, k)
  <2>1. /\ r \in Seq(Conns) /\ Len(r) = Len(s) - 1
        /\ \A k \in 1..(Len(s) - 1) : r[k] = Without(s, p, k)
    BY <1>3, <1>4, <1>5, Removed
  <2>2. DOMAIN r = 1..Len(r)
    BY <2>1, LenProperties
  <2> QED BY <2>1, <2>2
<1>7. ASSUME NEW k \in 1..(Len(s) - 1) PROVE r[k] \in ToSet(s) \ {s[p]}
  <2>1. PICK j : j = IF k < p THEN k ELSE k + 1
    OBVIOUS
  <2>2. j \in 1..Len(s) /\ j # p
    BY <2>1, <1>3, <1>4
  <2>3. r[k] = s[j]
    BY <2>1, <1>6 DEF Without
  <2> QED BY <2>2, <2>3, <1>3, <1>4 DEF ToSet
<1>8. ASSUME NEW j \in 1..Len(s), j # p PROVE s[j] \in ToSet(r)
  <2>1. PICK k : k = IF j < p THEN j ELSE j - 1
    OBVIOUS
  <2>2. k \in 1..(Len(s) - 1) /\ j = IF k < p THEN k ELSE k + 1
    BY <2>1, <1>3, <1>4, <1>8
  <2>3. r[k] = s[j]
    BY <2>2, <1>6 DEF Without
  <2> QED BY <2>2, <2>3, <1>6 DEF ToSet
<1>9. ToSet(r) = ToSet(s) \ {s[p]}
  BY <1>3, <1>6, <1>7, <1>8 DEF ToSet
<1> QED BY <1>1, <1>2, <1>4, <1>5, <1>9

\* For any number of subscribers only those whose connection was reset leave the
\* list, and for good: the safety half of GoneIsRemoved (forwarder()).
THEOREM OnlyBrokenLeaveHolds == Spec => OnlyBrokenLeave
<1>1. IInv /\ [Next]_vars =>
        [\A c \in accepted :
          /\ c \in ToSet(subscribers) /\ c \notin ToSet(subscribers)' => peer[c] = "reset"
          /\ c \notin ToSet(subscribers) => c \notin ToSet(subscribers)'
          /\ c \in accepted']_vars
  <2> SUFFICES ASSUME IInv, Next, NEW c \in accepted
               PROVE  /\ c \in ToSet(subscribers) /\ c \notin ToSet(subscribers') => peer[c] = "reset"
                      /\ c \notin ToSet(subscribers) => c \notin ToSet(subscribers')
                      /\ c \in accepted'
    BY Zenon
  <2>1. CASE NewRound \/ Send \/ EndRound
    BY <2>1 DEF NewRound, Send, EndRound
  <2>2. CASE SendFails
    <3>1. accepted' = accepted
      BY <2>2 DEF SendFails
    <3> QED BY <2>2, <3>1, SendFailsRemoves
  <2>3. ASSUME NEW d \in Conns, Accept(d)
        PROVE  /\ ToSet(subscribers) \subseteq ToSet(subscribers')
               /\ c \notin ToSet(subscribers) => c \notin ToSet(subscribers')
               /\ c \in accepted'
    <3>1. d \notin accepted /\ accepted' = accepted \cup {d}
      BY <2>3 DEF Accept
    <3> QED BY <2>3, <3>1, AcceptAdds
  <2>4. CASE \E d \in Conns : Connect(d) \/ Read(d) \/ Leave(d)
    BY <2>4 DEF Connect, Read, Leave
  <2> QED BY <2>1, <2>2, <2>3, <2>4 DEF Next, Forwarder, Datagram, Timeout
<1> QED BY <1>1, Invariance, PTL DEF Spec, OnlyBrokenLeave
=============================================================================
