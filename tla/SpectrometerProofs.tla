-------------------------- MODULE SpectrometerProofs --------------------------
(***************************************************************************)
(* Proofs about Spectrometer, for any clients and any pool of buffers:     *)
(* no buffer is lost, and no client is passed over or served twice.        *)
(***************************************************************************)
EXTENDS Spectrometer, SequenceTheorems, TLAPS

-----------------------------------------------------------------------------
(* The list of sessions: positions, erasing and prepending *)

Distinct(s) == \A i, j \in DOMAIN s : s[i] = s[j] => i = j

\* The elements of s from c on; Ahead is From(sessions, current).
From(s, c) == {s[i] : i \in {k \in DOMAIN s : \E j \in 1..k : s[j] = c}}

LEMMA FromAt ==
    ASSUME NEW S, NEW s \in Seq(S), Distinct(s), NEW p \in 1..Len(s)
    PROVE  From(s, s[p]) = {s[i] : i \in p..Len(s)}
<1>1. DOMAIN s = 1..Len(s) /\ Len(s) \in Nat
  BY LenProperties
<1>2. \A k \in DOMAIN s : (\E j \in 1..k : s[j] = s[p]) <=> k \in p..Len(s)
  <2> SUFFICES ASSUME NEW k \in DOMAIN s
               PROVE  (\E j \in 1..k : s[j] = s[p]) <=> k \in p..Len(s)
    OBVIOUS
  <2>1. ASSUME NEW j \in 1..k, s[j] = s[p] PROVE k \in p..Len(s)
    <3>1. j \in DOMAIN s /\ p \in DOMAIN s
      BY <1>1
    <3>2. j = p
      BY <2>1, <3>1 DEF Distinct
    <3> QED BY <3>2, <1>1
  <2>2. ASSUME k \in p..Len(s) PROVE \E j \in 1..k : s[j] = s[p]
    <3>1. p \in 1..k
      BY <2>2, <1>1
    <3> QED BY <3>1
  <2> QED BY <2>1, <2>2
<1>3. {k \in DOMAIN s : \E j \in 1..k : s[j] = s[p]} = p..Len(s)
  BY <1>1, <1>2
<1> QED BY <1>3 DEF From

\* One step along the list.
LEMMA FromNext ==
    ASSUME NEW S, NEW s \in Seq(S), Distinct(s), NEW p \in 1..Len(s)
    PROVE  /\ p < Len(s) => From(s, s[p + 1]) = From(s, s[p]) \ {s[p]}
           /\ p = Len(s) => From(s, s[p]) = {s[p]}
           /\ s[p] \in From(s, s[p])
<1>1. DOMAIN s = 1..Len(s) /\ Len(s) \in Nat
  BY LenProperties
<1>2. From(s, s[p]) = {s[i] : i \in p..Len(s)}
  BY FromAt
<1>3. ASSUME p < Len(s) PROVE From(s, s[p + 1]) = From(s, s[p]) \ {s[p]}
  <2>1. p + 1 \in 1..Len(s)
    BY <1>3, <1>1
  <2>2. From(s, s[p + 1]) = {s[i] : i \in (p + 1)..Len(s)}
    BY <2>1, FromAt
  <2>3. \A i \in p..Len(s) : s[i] = s[p] <=> i = p
    <3> TAKE i \in p..Len(s)
    <3>1. i \in DOMAIN s /\ p \in DOMAIN s
      BY <1>1
    <3> QED BY <3>1 DEF Distinct
  <2>4. (p + 1)..Len(s) = (p..Len(s)) \ {p}
    BY <1>1
  <2> QED BY <1>2, <2>2, <2>3, <2>4
<1>4. p \in p..Len(s)
  BY <1>1
<1>5. p = Len(s) => p..Len(s) = {p}
  BY <1>1
<1> QED BY <1>2, <1>3, <1>4, <1>5

\* Erasing one element.
LEMMA Erased ==
    ASSUME NEW S, NEW s \in Seq(S), Distinct(s), NEW p \in 1..Len(s)
    PROVE  LET r == RemoveAt(s, p)
           IN  /\ r \in Seq(S) /\ Distinct(r)
               /\ ToSet(r) = ToSet(s) \ {s[p]}
               /\ p < Len(s) => From(r, s[p + 1]) = From(s, s[p]) \ {s[p]}
<1> DEFINE r == RemoveAt(s, p)
           f == SubSeq(s, 1, p - 1)
           b == SubSeq(s, p + 1, Len(s))
           old(k) == IF k < p THEN k ELSE k + 1
<1>1. DOMAIN s = 1..Len(s) /\ Len(s) \in Nat
  BY LenProperties
<1>2. f \in Seq(S) /\ Len(f) = p - 1 /\ \A k \in 1..(p - 1) : f[k] = s[k]
  <2>1. \A k \in 1..(p - 1) : s[k] \in S
    BY <1>1, ElementOfSeq
  <2> QED BY <1>1, <2>1, SubSeqProperties
<1>3. b \in Seq(S) /\ Len(b) = Len(s) - p /\ \A k \in 1..(Len(s) - p) : b[k] = s[p + k]
  <2>1. \A k \in (p + 1)..Len(s) : s[k] \in S
    BY <1>1, ElementOfSeq
  <2>2. /\ b \in Seq(S)
        /\ Len(b) = IF p + 1 <= Len(s) THEN Len(s) - (p + 1) + 1 ELSE 0
        /\ \A k \in 1..(Len(s) - (p + 1) + 1) : b[k] = s[(p + 1) + k - 1]
    BY <1>1, <2>1, SubSeqProperties
  <2>3. \A k \in 1..(Len(s) - p) : (p + 1) + k - 1 = p + k
    BY <1>1
  <2>4. Len(s) - (p + 1) + 1 = Len(s) - p
    BY <1>1
  <2> HIDE DEF b
  <2>5. Len(b) = Len(s) - p
    <3>1. CASE p + 1 <= Len(s)
      BY <3>1, <2>2, <2>4
    <3>2. CASE p = Len(s)
      BY <3>2, <2>2, <1>1
    <3>3. p \in Int /\ Len(s) \in Int /\ p <= Len(s)
      BY <1>1
    <3>4. p + 1 <= Len(s) \/ p = Len(s)
      BY <3>3
    <3> QED BY <3>1, <3>2, <3>4
  <2> QED BY <2>2, <2>3, <2>4, <2>5
<1>r. r = f \o b
  BY DEF RemoveAt
<1>4. r \in Seq(S) /\ Len(r) = Len(s) - 1
  <2> HIDE DEF f, b, r
  <2>1. f \o b \in Seq(S) /\ Len(f \o b) = Len(f) + Len(b)
    BY <1>2, <1>3, ConcatProperties
  <2>2. (p - 1) + (Len(s) - p) = Len(s) - 1
    BY <1>1
  <2> QED BY <2>1, <2>2, <1>2, <1>3, <1>r
<1>5. DOMAIN r = 1..(Len(s) - 1)
  BY <1>4, LenProperties
<1>6. \A k \in 1..(Len(s) - 1) : r[k] = s[old(k)]
  <2> TAKE k \in 1..(Len(s) - 1)
  <2>1. r[k] = IF k <= Len(f) THEN f[k] ELSE b[k - Len(f)]
    <3> HIDE DEF f, b, r
    <3>1. k \in 1..(Len(f) + Len(b))
      BY <1>1, <1>2, <1>3
    <3>2. \A i \in 1..(Len(f) + Len(b)) :
             (f \o b)[i] = IF i <= Len(f) THEN f[i] ELSE b[i - Len(f)]
      BY <1>2, <1>3, ConcatProperties
    <3> QED BY <3>1, <3>2, <1>r
  <2>2. CASE k < p
    BY <2>1, <2>2, <1>1, <1>2
  <2>3. CASE k >= p
    <3>1. k - Len(f) = k - (p - 1) /\ k - (p - 1) \in 1..(Len(s) - p)
      BY <2>3, <1>1, <1>2
    <3>2. ~(k <= Len(f))
      BY <2>3, <1>1, <1>2
    <3>3. r[k] = s[p + (k - (p - 1))]
      BY <2>1, <3>1, <3>2, <1>3
    <3>4. p + (k - (p - 1)) = k + 1
      BY <1>1
    <3> QED BY <2>3, <3>3, <3>4, <1>1
  <2> QED BY <2>2, <2>3, <1>1
<1>7. \A k \in 1..(Len(s) - 1) : old(k) \in (1..Len(s)) \ {p}
  BY <1>1
<1>8. \A i \in (1..Len(s)) \ {p} : \E k \in 1..(Len(s) - 1) : old(k) = i
  <2> TAKE i \in (1..Len(s)) \ {p}
  <2>1. CASE i < p
    BY <2>1, <1>1
  <2>2. CASE i > p
    <3> WITNESS i - 1 \in 1..(Len(s) - 1)
    <3> QED BY <2>2, <1>1
  <2> QED BY <2>1, <2>2, <1>1
<1>9. Distinct(r)
  <2> SUFFICES ASSUME NEW i \in 1..(Len(s) - 1), NEW j \in 1..(Len(s) - 1), r[i] = r[j]
               PROVE  i = j
    BY <1>5 DEF Distinct
  <2>1. old(i) = old(j)
    <3>1. s[old(i)] = s[old(j)] /\ old(i) \in DOMAIN s /\ old(j) \in DOMAIN s
      BY <1>1, <1>6, <1>7
    <3> QED BY <3>1 DEF Distinct
  <2> QED BY <2>1, <1>1
<1>10. \A i \in 1..Len(s) : s[i] = s[p] <=> i = p
  BY <1>1 DEF Distinct
<1>11. ToSet(r) = ToSet(s) \ {s[p]}
  <2> HIDE DEF r, old
  <2>1. ToSet(r) = {s[i] : i \in (1..Len(s)) \ {p}}
    <3>1. ASSUME NEW x \in ToSet(r) PROVE x \in {s[i] : i \in (1..Len(s)) \ {p}}
      BY <1>5, <1>6, <1>7 DEF ToSet
    <3>2. ASSUME NEW i \in (1..Len(s)) \ {p} PROVE s[i] \in ToSet(r)
      BY <1>5, <1>6, <1>8 DEF ToSet
    <3> QED BY <3>1, <3>2
  <2> QED BY <2>1, <1>1, <1>10 DEF ToSet
<1>12. ASSUME p < Len(s) PROVE From(r, s[p + 1]) = From(s, s[p]) \ {s[p]}
  <2>1. p \in 1..(Len(s) - 1) /\ r[p] = s[p + 1] /\ Len(r) = Len(s) - 1
    BY <1>12, <1>1, <1>4, <1>6
  <2>2. From(r, r[p]) = {r[i] : i \in p..(Len(s) - 1)}
    <3> HIDE DEF r
    <3> QED BY <2>1, <1>4, <1>9, FromAt
  <2>3. \A i \in p..(Len(s) - 1) : r[i] = s[i + 1]
    BY <1>1, <1>6
  <2>4. {r[i] : i \in p..(Len(s) - 1)} = {s[i] : i \in (p + 1)..Len(s)}
    <3> HIDE DEF r
    <3>1. ASSUME NEW i \in p..(Len(s) - 1)
          PROVE  r[i] \in {s[j] : j \in (p + 1)..Len(s)}
      <4>1. i + 1 \in (p + 1)..Len(s)
        BY <1>1
      <4> QED BY <4>1, <2>3
    <3>2. ASSUME NEW i \in (p + 1)..Len(s)
          PROVE  s[i] \in {r[j] : j \in p..(Len(s) - 1)}
      <4>1. i - 1 \in p..(Len(s) - 1) /\ (i - 1) + 1 = i
        BY <1>1
      <4>2. r[i - 1] = s[i]
        BY <4>1, <2>3
      <4> QED BY <4>1, <4>2
    <3> QED BY <3>1, <3>2
  <2>5. p + 1 \in 1..Len(s)
    BY <1>12, <1>1
  <2>6. From(s, s[p + 1]) = {s[i] : i \in (p + 1)..Len(s)}
    BY <2>5, FromAt
  <2> QED BY <2>1, <2>2, <2>4, <2>6, <1>12, FromNext
<1> QED BY <1>4, <1>9, <1>11, <1>12

\* A new element in front changes nothing from c on.
LEMMA Prepended ==
    ASSUME NEW S, NEW s \in Seq(S), Distinct(s), NEW a \in S, a \notin ToSet(s)
    PROVE  LET t == <<a>> \o s
           IN  /\ t \in Seq(S) /\ Distinct(t)
               /\ ToSet(t) = ToSet(s) \cup {a}
               /\ \A c \in ToSet(s) : From(t, c) = From(s, c)
<1> DEFINE t == <<a>> \o s
<1>1. DOMAIN s = 1..Len(s) /\ Len(s) \in Nat
  BY LenProperties
<1>2. <<a>> \in Seq(S) /\ Len(<<a>>) = 1 /\ <<a>>[1] = a
  OBVIOUS
<1>3. t \in Seq(S) /\ Len(t) = Len(s) + 1
  BY <1>1, <1>2, ConcatProperties
<1>4. DOMAIN t = 1..(Len(s) + 1)
  BY <1>3, LenProperties
<1>5. t[1] = a /\ \A k \in 1..Len(s) : t[k + 1] = s[k]
  <2>1. \A k \in 1..(Len(s) + 1) : t[k] = IF k <= 1 THEN <<a>>[k] ELSE s[k - 1]
    BY <1>1, <1>2, ConcatProperties
  <2> QED BY <2>1, <1>1, <1>2
<1> HIDE DEF t
<1>6. \A k \in 1..Len(s) : k + 1 \in 1..(Len(s) + 1) /\ s[k] \in ToSet(s) /\ s[k] # a
  BY <1>1 DEF ToSet
<1>7. \A k \in 2..(Len(s) + 1) : k - 1 \in 1..Len(s) /\ t[k] = s[k - 1]
  <2> TAKE k \in 2..(Len(s) + 1)
  <2>1. k - 1 \in 1..Len(s) /\ (k - 1) + 1 = k
    BY <1>1
  <2> QED BY <2>1, <1>5
<1>8. Distinct(t)
  <2> SUFFICES ASSUME NEW i \in 1..(Len(s) + 1), NEW j \in 1..(Len(s) + 1), t[i] = t[j]
               PROVE  i = j
    BY <1>4 DEF Distinct
  <2>1. CASE i = 1 /\ j = 1
    BY <2>1
  <2>2. CASE i = 1 /\ j \in 2..(Len(s) + 1)
    BY <2>2, <1>5, <1>6, <1>7
  <2>3. CASE j = 1 /\ i \in 2..(Len(s) + 1)
    BY <2>3, <1>5, <1>6, <1>7
  <2>4. CASE i \in 2..(Len(s) + 1) /\ j \in 2..(Len(s) + 1)
    <3>1. s[i - 1] = s[j - 1] /\ i - 1 \in DOMAIN s /\ j - 1 \in DOMAIN s
      BY <2>4, <1>7, <1>1
    <3>2. i - 1 = j - 1
      BY <3>1 DEF Distinct
    <3> QED BY <3>2, <2>4, <1>1
  <2> QED BY <2>1, <2>2, <2>3, <2>4, <1>1
<1>9. ToSet(t) = ToSet(s) \cup {a}
  <2>1. ASSUME NEW k \in 1..(Len(s) + 1) PROVE t[k] \in ToSet(s) \cup {a}
    <3>1. k = 1 \/ k \in 2..(Len(s) + 1)
      BY <1>1
    <3> QED BY <3>1, <1>5, <1>6, <1>7
  <2>2. a \in ToSet(t)
    <3>1. 1 \in 1..(Len(s) + 1)
      BY <1>1
    <3> QED BY <3>1, <1>4, <1>5 DEF ToSet
  <2>3. ASSUME NEW k \in 1..Len(s) PROVE s[k] \in ToSet(t)
    BY <1>4, <1>5, <1>6 DEF ToSet
  <2> QED BY <2>1, <2>2, <2>3, <1>1, <1>4 DEF ToSet
<1>10. ASSUME NEW c \in ToSet(s) PROVE From(t, c) = From(s, c)
  <2>1. PICK p \in 1..Len(s) : s[p] = c
    BY <1>1 DEF ToSet
  <2>2. p + 1 \in 1..Len(t) /\ t[p + 1] = c
    BY <2>1, <1>1, <1>3, <1>5
  <2>3. From(t, c) = {t[i] : i \in (p + 1)..(Len(s) + 1)}
    BY <2>2, <1>3, <1>8, FromAt
  <2>4. From(s, c) = {s[i] : i \in p..Len(s)}
    BY <2>1, FromAt
  <2>5. \A i \in p..Len(s) : i + 1 \in (p + 1)..(Len(s) + 1) /\ t[i + 1] = s[i]
    BY <1>1, <1>5
  <2>6. \A i \in (p + 1)..(Len(s) + 1) : i - 1 \in p..Len(s) /\ t[i] = s[i - 1]
    BY <1>1, <1>7
  <2> QED BY <2>3, <2>4, <2>5, <2>6
<1> QED BY <1>3, <1>8, <1>9, <1>10 DEF t
-----------------------------------------------------------------------------
(* The inductive invariant *)

\* Until the camera streams nothing is written; a write is of a message.
Sent ==
    /\ write # "idle" => message # None
    /\ camera = "started" => queued = Buffers \ {message}
    /\ pc \in {"start", "open", "stream"} =>
          message = None /\ write = "idle" /\ camera # "started"

\* A client has one session at most, and a write is aborted by stop() only.
Listed ==
    /\ Distinct(sessions)
    /\ accept \in Clients => accept \notin ToSet(sessions)
    /\ write = "aborted" => ~listening

\* EachClientOnce, with the sessions ahead as an operator of the list.
Once ==
    listening /\ message # None =>
        /\ write # "idle" /\ current \in ToSet(sessions)
        /\ From(sessions, current) = due \ got /\ got \subseteq due
        /\ due \subseteq ToSet(sessions)

IInv == TypeOK /\ Sent /\ Listed /\ Once

LEMMA OnceIsEachClientOnce == Once <=> EachClientOnce
BY DEF Once, EachClientOnce, Ahead, From

\* The place of a listed session, and what follows it.
LEMMA Position ==
    ASSUME NEW c \in ToSet(sessions), sessions \in Seq(Clients)
    PROVE  /\ Pos(c) \in 1..Len(sessions) /\ sessions[Pos(c)] = c
           /\ After(c) = None <=> Pos(c) = Len(sessions)
           /\ Pos(c) < Len(sessions) => After(c) = sessions[Pos(c) + 1]
           /\ After(c) \in ToSet(sessions) \cup {None}
           /\ ToSet(sessions) \subseteq Clients
<1>1. DOMAIN sessions = 1..Len(sessions) /\ Len(sessions) \in Nat
  BY LenProperties
<1>2. Pos(c) \in 1..Len(sessions) /\ sessions[Pos(c)] = c
  <2>1. \E k \in DOMAIN sessions : sessions[k] = c
    BY DEF ToSet
  <2> QED BY <2>1, <1>1 DEF Pos
<1>3. \A k \in 1..Len(sessions) : sessions[k] \in Clients /\ sessions[k] \in ToSet(sessions)
  BY <1>1, ElementOfSeq DEF ToSet
<1>4. ToSet(sessions) \subseteq Clients
  BY <1>1, <1>3 DEF ToSet
<1>5. CASE Pos(c) < Len(sessions)
  <2>1. Pos(c) + 1 \in 1..Len(sessions) /\ Pos(c) # Len(sessions)
    BY <1>5, <1>2, <1>1
  <2>2. After(c) = sessions[Pos(c) + 1]
    BY <1>5 DEF After
  <2> QED BY <2>1, <2>2, <1>2, <1>3, <1>4, SpectrometerAssumption
<1>6. CASE ~(Pos(c) < Len(sessions))
  <2>1. Pos(c) = Len(sessions)
    BY <1>6, <1>2, <1>1
  <2>2. After(c) = None
    BY <1>6 DEF After
  <2> QED BY <2>1, <2>2, <1>2, <1>4, <1>6
<1> QED BY <1>5, <1>6

\* What a step of the chain leaves behind.
LEMMA ChainStep ==
    ASSUME NEW next \in Clients \cup {None}, NEW b \in Buffers, NEW q \in SUBSET Buffers,
           Chain(next, b, q), camera = "started" => q = Buffers \ {b}
    PROVE  /\ message' \in Buffers \cup {None} /\ current' \in Clients \cup {None}
           /\ write' \in {"idle", "pending", "error"} /\ queued' \in SUBSET Buffers
           /\ write' # "idle" => message' # None
           /\ camera = "started" => queued' = Buffers \ {message'}
           /\ message' # None => next # None /\ current' = next /\ write' # "idle"
<1>1. CASE next = None
  <2>1. message' = None /\ current' = None /\ write' = "idle" /\ queued' = Requeue(q, b)
    BY <1>1 DEF Chain
  <2> QED BY <2>1, SpectrometerAssumption DEF Requeue
<1>2. CASE next # None
  <2>1. /\ message' = b /\ current' = next /\ queued' = q
        /\ write' = IF next \in sockets THEN "pending" ELSE "error"
    BY <1>2 DEF Chain
  <2> QED BY <2>1, <1>2, SpectrometerAssumption
<1> QED BY <1>1, <1>2
-----------------------------------------------------------------------------
(* Preservation, handlers first *)

LEMMA OnFrameKeeps == IInv /\ OnFrame => IInv'
<1> SUFFICES ASSUME IInv, OnFrame PROVE IInv'
  OBVIOUS
<1> USE SpectrometerAssumption
<1>0. /\ UNCHANGED <<pc, sessions, sockets, up, listening, accept, camera>>
      /\ camera = "started" /\ read' = "waiting"
  BY DEF OnFrame, net
<1>1. PICK b \in queued :
         \/ message # None /\ queued' = Requeue(queued \ {b}, b) /\ UNCHANGED msg
         \/ /\ message = None /\ Chain(First, b, queued \ {b})
            /\ due' = ToSet(sessions) /\ got' = {}
  BY DEF OnFrame
<1>2. b \in Buffers /\ sessions \in Seq(Clients)
  BY DEF IInv, TypeOK
<1>3. CASE message # None /\ queued' = Requeue(queued \ {b}, b) /\ UNCHANGED msg
  <2>1. queued' = queued
    BY <1>0, <1>3 DEF Requeue
  <2> QED BY <1>0, <1>3, <2>1 DEF IInv, TypeOK, Sent, Listed, Once, msg
<1>4. CASE /\ message = None /\ Chain(First, b, queued \ {b})
           /\ due' = ToSet(sessions) /\ got' = {}
  <2>1. queued = Buffers /\ pc \notin {"start", "open", "stream"}
    BY <1>0, <1>4 DEF IInv, Sent
  <2>2. DOMAIN sessions = 1..Len(sessions) /\ Len(sessions) \in Nat
    BY <1>2, LenProperties
  <2>3. ToSet(sessions) \subseteq Clients
    BY <1>2, <2>2, ElementOfSeq DEF ToSet
  <2>4. CASE sessions = <<>>
    <3>1. First = None
      BY <2>4 DEF First
    <3>2. message' = None /\ write' = "idle" /\ current' = None /\ queued' = Buffers
      BY <3>1, <1>0, <1>4, <2>1 DEF Chain, Requeue
    <3> QED BY <3>2, <1>0, <1>4, <2>1, <2>3 DEF IInv, TypeOK, Sent, Listed, Once
  <2>5. CASE sessions # <<>>
    <3>1. 1 \in 1..Len(sessions) /\ First = sessions[1] /\ First \in Clients
      BY <2>5, <1>2, <2>2 DEF First
    <3>2. /\ message' = b /\ current' = First /\ queued' = queued \ {b}
          /\ write' = IF First \in sockets THEN "pending" ELSE "error"
      BY <3>1, <1>4 DEF Chain
    <3>3. From(sessions, sessions[1]) = {sessions[i] : i \in 1..Len(sessions)}
      BY <3>1, <1>2, FromAt DEF IInv, Listed
    <3>4. From(sessions, First) = ToSet(sessions) /\ First \in ToSet(sessions)
      BY <3>1, <3>3, <2>2 DEF ToSet
    <3>5. TypeOK'
      BY <3>1, <3>2, <1>0, <1>2, <1>4, <2>3 DEF IInv, TypeOK
    <3>6. Sent'
      BY <3>2, <1>0, <1>2, <2>1 DEF Sent
    <3>7. Listed' /\ Once'
      BY <3>2, <3>4, <1>0, <1>4 DEF IInv, Listed, Once
    <3> QED BY <3>5, <3>6, <3>7 DEF IInv
  <2> QED BY <2>4, <2>5
<1> QED BY <1>1, <1>3, <1>4

LEMMA WrittenOkKeeps == IInv /\ WrittenOk => IInv'
<1> SUFFICES ASSUME IInv, WrittenOk PROVE IInv'
  OBVIOUS
<1> USE SpectrometerAssumption
<1>0. /\ UNCHANGED <<pc, sessions, sockets, up, listening, accept, camera, read, due>>
      /\ current \in ToSet(sessions) /\ got' = got \cup {current}
      /\ write = "ok" /\ Chain(After(current), message, queued)
  BY DEF WrittenOk, net
<1>1. sessions \in Seq(Clients) /\ message \in Buffers /\ queued \in SUBSET Buffers
  BY <1>0 DEF IInv, TypeOK, Sent
<1>2. /\ Pos(current) \in 1..Len(sessions) /\ sessions[Pos(current)] = current
      /\ After(current) = None <=> Pos(current) = Len(sessions)
      /\ Pos(current) < Len(sessions) => After(current) = sessions[Pos(current) + 1]
      /\ After(current) \in ToSet(sessions) \cup {None} /\ ToSet(sessions) \subseteq Clients
  BY <1>0, <1>1, Position
<1>3. /\ message' \in Buffers \cup {None} /\ current' \in Clients \cup {None}
      /\ write' \in {"idle", "pending", "error"} /\ queued' \in SUBSET Buffers
      /\ write' # "idle" => message' # None
      /\ camera = "started" => queued' = Buffers \ {message'}
      /\ message' # None => After(current) # None /\ current' = After(current) /\ write' # "idle"
  BY <1>0, <1>1, <1>2, ChainStep DEF IInv, Sent
<1>4. pc \notin {"start", "open", "stream"}
  BY <1>0 DEF IInv, Sent
<1>5. TypeOK' /\ Sent' /\ Listed'
  BY <1>0, <1>1, <1>2, <1>3, <1>4 DEF IInv, TypeOK, Sent, Listed
<1>6. ASSUME listening, message' # None
      PROVE  /\ write' # "idle" /\ current' \in ToSet(sessions)
             /\ From(sessions, current') = due \ got' /\ got' \subseteq due
             /\ due \subseteq ToSet(sessions)
  <2>1. current' = After(current) /\ After(current) \in ToSet(sessions) /\ write' # "idle"
    BY <1>6, <1>2, <1>3
  <2>2. Pos(current) < Len(sessions)
    BY <1>1, <1>2, <1>3, <1>6, LenProperties
  <2>3. From(sessions, sessions[Pos(current) + 1]) = From(sessions, current) \ {current}
    BY <2>2, <1>1, <1>2, FromNext DEF IInv, Listed
  <2>4. current \in From(sessions, current)
    BY <1>1, <1>2, FromNext DEF IInv, Listed
  <2>5. /\ From(sessions, current) = due \ got /\ got \subseteq due
        /\ due \subseteq ToSet(sessions)
    BY <1>6, <1>1 DEF IInv, Once
  <2> QED BY <2>1, <2>2, <2>3, <2>4, <2>5, <1>2, <1>0
<1>7. Once'
  BY <1>0, <1>6 DEF Once
<1> QED BY <1>5, <1>7 DEF IInv

LEMMA WrittenErrorKeeps == IInv /\ WrittenError => IInv'
<1> SUFFICES ASSUME IInv, WrittenError PROVE IInv'
  OBVIOUS
<1> USE SpectrometerAssumption
<1> DEFINE r == RemoveAt(sessions, Pos(current))
<1>0. /\ UNCHANGED <<pc, up, listening, accept, got, camera, read>>
      /\ sessions' = r /\ sockets' = sockets \ {current} /\ due' = due \ {current}
      /\ current \in ToSet(sessions)
      /\ write = "error" /\ Chain(After(current), message, queued)
  BY DEF WrittenError
<1>1. sessions \in Seq(Clients) /\ message \in Buffers /\ queued \in SUBSET Buffers
  BY <1>0 DEF IInv, TypeOK, Sent
<1>2. /\ Pos(current) \in 1..Len(sessions) /\ sessions[Pos(current)] = current
      /\ After(current) = None <=> Pos(current) = Len(sessions)
      /\ Pos(current) < Len(sessions) => After(current) = sessions[Pos(current) + 1]
      /\ After(current) \in ToSet(sessions) \cup {None} /\ ToSet(sessions) \subseteq Clients
  BY <1>0, <1>1, Position
<1>3. /\ message' \in Buffers \cup {None} /\ current' \in Clients \cup {None}
      /\ write' \in {"idle", "pending", "error"} /\ queued' \in SUBSET Buffers
      /\ write' # "idle" => message' # None
      /\ camera = "started" => queued' = Buffers \ {message'}
      /\ message' # None => After(current) # None /\ current' = After(current) /\ write' # "idle"
  BY <1>0, <1>1, <1>2, ChainStep DEF IInv, Sent
<1>4. pc \notin {"start", "open", "stream"}
  BY <1>0 DEF IInv, Sent
<1>5. /\ r \in Seq(Clients) /\ Distinct(r)
      /\ ToSet(r) = ToSet(sessions) \ {current}
      /\ Pos(current) < Len(sessions) =>
            From(r, sessions[Pos(current) + 1]) = From(sessions, current) \ {current}
  <2> DEFINE p == Pos(current)
  <2>1. Distinct(sessions) /\ p \in 1..Len(sessions) /\ sessions[p] = current
    BY <1>2 DEF IInv, Listed
  <2> HIDE DEF p
  <2>2. /\ RemoveAt(sessions, p) \in Seq(Clients) /\ Distinct(RemoveAt(sessions, p))
        /\ ToSet(RemoveAt(sessions, p)) = ToSet(sessions) \ {sessions[p]}
        /\ p < Len(sessions) => From(RemoveAt(sessions, p), sessions[p + 1])
                                  = From(sessions, sessions[p]) \ {sessions[p]}
    BY <1>1, <2>1, Erased
  <2> QED BY <2>1, <2>2 DEF p
<1> HIDE DEF r
<1>6. TypeOK' /\ Sent' /\ Listed'
  BY <1>0, <1>1, <1>2, <1>3, <1>4, <1>5 DEF IInv, TypeOK, Sent, Listed
<1>7. ASSUME listening, message' # None
      PROVE  /\ write' # "idle" /\ current' \in ToSet(r)
             /\ From(r, current') = due' \ got /\ got \subseteq due'
             /\ due' \subseteq ToSet(r)
  <2>1. current' = After(current) /\ After(current) \in ToSet(sessions) /\ write' # "idle"
    BY <1>7, <1>2, <1>3
  <2>2. Pos(current) < Len(sessions)
    BY <1>1, <1>2, <1>3, <1>7, LenProperties
  <2>3. /\ From(r, current') = From(sessions, current) \ {current}
        /\ From(sessions, sessions[Pos(current) + 1]) = From(sessions, current) \ {current}
    BY <2>1, <2>2, <1>1, <1>2, <1>5, FromNext DEF IInv, Listed
  <2>4. current \in From(sessions, current)
    BY <1>1, <1>2, FromNext DEF IInv, Listed
  <2>5. current' # current
    <3>1. Pos(current) + 1 \in 1..Len(sessions)
      BY <2>2, <1>1, <1>2, LenProperties
    <3>2. current' \in From(sessions, current')
      BY <3>1, <2>1, <2>2, <1>1, <1>2, FromNext DEF IInv, Listed
    <3> QED BY <3>2, <2>1, <2>2, <2>3, <1>2
  <2>6. /\ From(sessions, current) = due \ got /\ got \subseteq due
        /\ due \subseteq ToSet(sessions)
    BY <1>7, <1>1 DEF IInv, Once
  <2> QED BY <2>1, <2>3, <2>4, <2>5, <2>6, <1>5, <1>0
<1>8. Once'
  BY <1>0, <1>7 DEF Once
<1> QED BY <1>6, <1>8 DEF IInv
LEMMA WrittenAbortedKeeps == IInv /\ WrittenAborted => IInv'
<1> SUFFICES ASSUME IInv, WrittenAborted PROVE IInv'
  OBVIOUS
<1> USE SpectrometerAssumption
<1>1. ~listening' /\ pc \notin {"start", "open", "stream"}
  BY DEF IInv, Sent, Listed, WrittenAborted
<1>2. sessions' = <<>> /\ sessions' \in Seq(Clients) /\ Distinct(sessions') /\ ToSet(sessions') = {}
  BY DEF WrittenAborted, Distinct, ToSet
<1>3. TypeOK'
  BY <1>2 DEF IInv, TypeOK, WrittenAborted, cam
<1>4. Sent' /\ Listed' /\ Once'
  BY <1>1, <1>2 DEF IInv, Sent, Listed, Once, WrittenAborted, cam
<1> QED BY <1>3, <1>4 DEF IInv

\* A terminated program keeps its last state.
LEMMA TerminateKeeps == IInv /\ Terminate => IInv'
BY DEF IInv, TypeOK, Sent, Listed, Once, Terminate, net, msg, cam

LEMMA WrittenDanglingKeeps == IInv /\ WrittenDangling => IInv'
<1> SUFFICES ASSUME IInv, WrittenDangling PROVE IInv'
  OBVIOUS
<1> USE SpectrometerAssumption
<1>1. /\ write \in {"ok", "error"} /\ current \notin ToSet(sessions)
      /\ message \in Buffers /\ queued \in SUBSET Buffers
      /\ pc \notin {"start", "open", "stream"}
  BY DEF IInv, TypeOK, Sent, WrittenDangling
<1>2. ~listening
  BY <1>1 DEF IInv, Once
<1>3. CASE Terminate
  BY <1>3, TerminateKeeps
<1>4. CASE Chain(None, message, queued) /\ UNCHANGED <<pc, net, due, got, camera, read>>
  <2>1. /\ message' = None /\ current' = None /\ write' = "idle"
        /\ queued' = Requeue(queued, message)
    BY <1>4 DEF Chain
  <2>2. camera = "started" => queued' = Buffers
    BY <2>1, <1>1 DEF IInv, Sent, Requeue
  <2>3. queued' \in SUBSET Buffers
    BY <2>1, <1>1 DEF Requeue
  <2> QED BY <1>1, <1>2, <1>4, <2>1, <2>2, <2>3 DEF IInv, TypeOK, Sent, Listed, Once, net
<1> QED BY <1>3, <1>4 DEF WrittenDangling

LEMMA OnAcceptedKeeps == IInv /\ OnAccepted => IInv'
<1> SUFFICES ASSUME IInv, OnAccepted PROVE IInv'
  OBVIOUS
<1> USE SpectrometerAssumption
<1>1. CASE Terminate
  BY <1>1, TerminateKeeps
<1>2. CASE /\ sessions' = <<accept>> \o sessions
           /\ sockets' = sockets \cup {accept}
           /\ accept' = IF listening THEN "waiting" ELSE "failed"
           /\ UNCHANGED <<pc, up, listening, msg, cam>>
  <2>1. /\ sessions \in Seq(Clients) /\ accept \in Clients /\ Distinct(sessions)
        /\ accept \notin ToSet(sessions) /\ accept' \notin Clients
        /\ accept' \in {"waiting", "failed"}
    BY <1>2 DEF IInv, TypeOK, Listed, OnAccepted
  <2>2. /\ sessions' \in Seq(Clients) /\ Distinct(sessions')
        /\ ToSet(sessions') = ToSet(sessions) \cup {accept}
        /\ \A c \in ToSet(sessions) : From(sessions', c) = From(sessions, c)
    BY <1>2, <2>1, Prepended
  <2>3. UNCHANGED <<pc, up, listening, message, current, write, due, got, camera, queued, read>>
    BY <1>2 DEF msg, cam
  <2>4. TypeOK' /\ Sent' /\ Listed'
    BY <1>2, <2>1, <2>2, <2>3 DEF IInv, TypeOK, Sent, Listed
  <2>5. Once'
    BY <2>2, <2>3 DEF IInv, Once
  <2> QED BY <2>4, <2>5 DEF IInv
<1> QED BY <1>1, <1>2 DEF OnAccepted

LEMMA StopServerKeeps == IInv /\ StopServer => IInv'
<1> SUFFICES ASSUME IInv, StopServer PROVE IInv'
  OBVIOUS
<1> USE SpectrometerAssumption
<1>1. /\ pc \notin {"start", "open", "stream"} /\ pc' \in {"~Camera", "spin"}
      /\ listening' = FALSE /\ sockets' = {}
      /\ accept' = IF accept = "waiting" THEN "aborted" ELSE accept
      /\ write' = IF write = "pending" THEN "aborted" ELSE write
      /\ UNCHANGED <<up, message, current, due, got, camera, queued, read>>
  BY DEF StopServer, Goto, cam
<1>2. /\ sessions' \in Seq(Clients) /\ Distinct(sessions')
      /\ ToSet(sessions') \subseteq ToSet(sessions)
  <2>1. <<>> \in Seq(Clients) /\ Distinct(<<>>) /\ ToSet(<<>>) = {}
    BY DEF Distinct, ToSet
  <2>2. sessions' = <<>> \/ sessions' = sessions
    BY DEF StopServer, ListAfterStop
  <2> QED BY <2>1, <2>2 DEF IInv, TypeOK, Listed
<1>3. TypeOK'
  BY <1>1, <1>2 DEF IInv, TypeOK
<1>4. Sent' /\ Once'
  BY <1>1 DEF IInv, Sent, Once
<1>5. Listed'
  BY <1>1, <1>2 DEF IInv, Listed
<1> QED BY <1>3, <1>4, <1>5 DEF IInv

LEMMA ConnectKeeps ==
    ASSUME NEW c \in Clients, IInv, Connect(c)
    PROVE  IInv'
<1> USE SpectrometerAssumption
<1>1. /\ c \notin ToSet(sessions) /\ accept' \in {c, "failed"} /\ up' \in SUBSET Clients
      /\ UNCHANGED <<pc, sessions, sockets, listening, message, current, write, due, got,
                     camera, queued, read>>
  BY DEF Connect, IInv, TypeOK, msg, cam
<1> QED BY <1>1 DEF IInv, TypeOK, Sent, Listed, Once

-----------------------------------------------------------------------------
(* The theorems *)

LEMMA InitIInv == Init => IInv
<1> SUFFICES ASSUME Init PROVE IInv
  OBVIOUS
<1>1. <<>> \in Seq(Clients) /\ Distinct(<<>>)
  BY DEF Distinct
<1> QED BY <1>1, SpectrometerAssumption DEF Init, IInv, TypeOK, Sent, Listed, Once

LEMMA NextKeeps == IInv /\ [Next]_vars => IInv'
<1> SUFFICES ASSUME IInv, [Next]_vars PROVE IInv'
  OBVIOUS
<1> USE SpectrometerAssumption
<1>1. CASE OnFrame
  BY <1>1, OnFrameKeeps
<1>2. CASE OnWritten
  BY <1>2, WrittenOkKeeps, WrittenErrorKeeps, WrittenAbortedKeeps, WrittenDanglingKeeps
     DEF OnWritten
<1>3. CASE OnReadError
  <2>1. CASE Terminate
    BY <2>1, TerminateKeeps
  <2>2. CASE ~Terminate
    BY <1>3, <2>2 DEF IInv, TypeOK, Sent, Listed, Once, OnReadError, net, msg
  <2> QED BY <2>1, <2>2
<1>4. CASE OnReadAborted
  BY <1>4 DEF IInv, TypeOK, Sent, Listed, Once, OnReadAborted, net, msg
<1>5. CASE OnAccepted
  BY <1>5, OnAcceptedKeeps
<1>6. CASE OnAcceptFailed \/ OnAcceptAborted
  BY <1>6 DEF IInv, TypeOK, Sent, Listed, Once, OnAcceptFailed, OnAcceptAborted, msg, cam
<1>7. ASSUME NEW c \in Clients, Connect(c) PROVE IInv'
  BY <1>7, ConnectKeeps
<1>8. ASSUME NEW c \in Clients, Disconnect(c) PROVE IInv'
  BY <1>8 DEF IInv, TypeOK, Sent, Listed, Once, Disconnect, msg, cam
<1>9. CASE WriteCompletes
  BY <1>9 DEF IInv, TypeOK, Sent, Listed, Once, WriteCompletes, net, cam
<1>10. CASE ReadCompletes
  BY <1>10 DEF IInv, TypeOK, Sent, Listed, Once, ReadCompletes, net, msg
<1>11. CASE StartServer
  BY <1>11 DEF IInv, TypeOK, Sent, Listed, Once, StartServer, Goto, msg, cam
<1>12. CASE OpenCamera
  BY <1>12 DEF IInv, TypeOK, Sent, Listed, Once, OpenCamera, Goto, net, msg
<1>13. CASE StartCamera
  BY <1>13 DEF IInv, TypeOK, Sent, Listed, Once, StartCamera, Goto, net, msg, cam
<1>14. CASE Signal
  BY <1>14 DEF IInv, TypeOK, Sent, Listed, Once, Signal, Goto, net, msg, cam
<1>15. CASE CloseCamera
  <2>1. CASE Terminate
    BY <2>1, TerminateKeeps
  <2>2. CASE ~Terminate
    BY <1>15, <2>2 DEF IInv, TypeOK, Sent, Listed, Once, CloseCamera, CameraTo, Cancelled, Goto, net, msg, cam
  <2> QED BY <2>1, <2>2
<1>16. CASE StopServer
  BY <1>16, StopServerKeeps
<1>17. CASE Spin
  BY <1>17 DEF IInv, TypeOK, Sent, Listed, Once, Spin, Goto, net, msg, cam
<1>18. CASE RequeueFails
  BY <1>18, TerminateKeeps DEF RequeueFails
<1>19. CASE UNCHANGED vars
  BY <1>19 DEF IInv, TypeOK, Sent, Listed, Once, vars, net, msg, cam
<1> QED
  BY <1>1, <1>2, <1>3, <1>4, <1>5, <1>6, <1>7, <1>8, <1>9, <1>10, <1>11, <1>12, <1>13,
     <1>14, <1>15, <1>16, <1>17, <1>18, <1>19 DEF Next, Handlers, Environment, Main

\* The inductive invariant, for any clients and buffers, up to the end of main.
THEOREM Invariance == Spec => []IInv
<1>1. Init => IInv
  BY InitIInv
<1>2. IInv /\ [Next]_vars => IInv'
  BY NextKeeps
<1> QED BY <1>1, <1>2, PTL DEF Spec

\* The state of the server and the camera is well formed: sessions are
\* clients, a frame under way is a buffer of the camera (Server.hpp, Camera.cpp).
THEOREM TypeCorrect == Spec => []TypeOK
<1>1. IInv => TypeOK
  BY DEF IInv
<1> QED BY <1>1, Invariance, PTL

\* No buffer is lost or sent while the driver fills it, for any number of
\* buffers and clients (OnFrame, ~TheFrame, _do_chain_ws).
THEOREM NoBufferLost == Spec => []BuffersAccounted
<1>1. IInv => BuffersAccounted
  BY DEF IInv, Sent, BuffersAccounted
<1> QED BY <1>1, Invariance, PTL

\* No client is passed over or served twice, for any number of clients
\* coming and going (_do_chain_ws and the handlers that change _sessions).
THEOREM NobodyPassedOver == Spec => []EachClientOnce
<1>1. IInv => EachClientOnce
  BY OnceIsEachClientOnce DEF IInv
<1> QED BY <1>1, Invariance, PTL

\* While the server listens, an answer to a write takes exactly one client from
\* those ahead, until none is left, and nothing else changes the message or adds
\* to those ahead of it, clients that connect in the meantime included: a message
\* takes as many writes as there were sessions when it was taken, and is given up
\* only when all of them had their turn (_do_chain_ws).
ChainAdvances ==
    [][listening /\ listening' /\ message # None =>
          /\ OnWritten => /\ current \in Ahead
                          /\ message' = None => Ahead = {current}
                          /\ message' # None => message' = message /\ Ahead' = Ahead \ {current}
          /\ OnWritten \/ (message' = message /\ Ahead' = Ahead)]_vars

LEMMA AheadIsDue == IInv /\ listening /\ message # None => Ahead = due \ got
BY OnceIsEachClientOnce DEF IInv, EachClientOnce

LEMMA WrittenAdvances ==
    ASSUME IInv, IInv', OnWritten, listening, listening', message # None
    PROVE  /\ current \in Ahead
           /\ message' = None => Ahead = {current}
           /\ message' # None => message' = message /\ Ahead' = Ahead \ {current}
<1> USE SpectrometerAssumption
<1>1. WrittenOk \/ WrittenError
  <2>1. current \in ToSet(sessions)
    BY DEF IInv, Once
  <2>2. write # "aborted"
    BY DEF IInv, Listed
  <2> QED BY <2>1, <2>2 DEF OnWritten, WrittenAborted, WrittenDangling
<1>2. /\ sessions \in Seq(Clients) /\ Distinct(sessions) /\ current \in ToSet(sessions)
      /\ Chain(After(current), message, queued)
  BY <1>1 DEF WrittenOk, WrittenError, IInv, TypeOK, Listed
<1>3. /\ Pos(current) \in 1..Len(sessions) /\ sessions[Pos(current)] = current
      /\ After(current) = None <=> Pos(current) = Len(sessions)
      /\ After(current) \in ToSet(sessions) \cup {None}
  BY <1>2, Position
<1>4. /\ current \in From(sessions, current)
      /\ Pos(current) = Len(sessions) => From(sessions, current) = {current}
  <2> DEFINE p == Pos(current)
  <2>1. p \in 1..Len(sessions) /\ sessions[p] = current
    BY <1>3
  <2> HIDE DEF p
  <2>2. /\ p = Len(sessions) => From(sessions, sessions[p]) = {sessions[p]}
        /\ sessions[p] \in From(sessions, sessions[p])
    BY <1>2, <2>1, FromNext
  <2> QED BY <2>1, <2>2 DEF p
<1>5. From(sessions, current) = Ahead /\ Ahead = due \ got
  BY AheadIsDue DEF Ahead, From
<1>6. ASSUME message' = None PROVE Ahead = {current}
  <2>1. After(current) = None
    BY <1>2, <1>6 DEF Chain
  <2> QED BY <2>1, <1>3, <1>4, <1>5
<1>7. ASSUME message' # None PROVE message' = message /\ Ahead' = Ahead \ {current}
  <2>1. message' = message
    BY <1>2, <1>7 DEF Chain
  <2>2. (IInv /\ listening /\ message # None)'
    BY <1>7
  <2>3. (Ahead = due \ got)'
    BY <2>2, AheadIsDue, PTL
  <2>4. due' \ got' = (due \ got) \ {current}
    BY <1>1 DEF WrittenOk, WrittenError
  <2> QED BY <2>1, <2>3, <2>4, <1>5
<1> QED BY <1>4, <1>5, <1>6, <1>7

LEMMA MessageKept ==
    ASSUME Next, ~OnWritten, message # None
    PROVE  UNCHANGED <<message, due, got>>
<1>1. CASE OnFrame
  BY <1>1 DEF OnFrame, msg
<1>2. CASE RequeueFails \/ OnReadError \/ OnReadAborted \/ OnAccepted \/ OnAcceptFailed
           \/ OnAcceptAborted
  BY <1>2 DEF RequeueFails, OnReadError, OnReadAborted, OnAccepted, OnAcceptFailed, OnAcceptAborted,
              Terminate, msg
<1>3. CASE Environment
  BY <1>3 DEF Environment, Connect, Disconnect, WriteCompletes, ReadCompletes, msg
<1>4. CASE Main
  BY <1>4 DEF Main, StartServer, OpenCamera, StartCamera, Signal, CloseCamera, StopServer,
              Spin, Terminate, msg
<1> QED BY <1>1, <1>2, <1>3, <1>4 DEF Next, Handlers

\* For any number of clients, coming and going, the chain of writes advances: the
\* safety half of MessageFinishes (_do_chain_ws).
THEOREM ChainAdvancesHolds == Spec => ChainAdvances
<1>1. IInv /\ IInv' /\ [Next]_vars =>
        [listening /\ listening' /\ message # None =>
          /\ OnWritten => /\ current \in Ahead
                          /\ message' = None => Ahead = {current}
                          /\ message' # None => message' = message /\ Ahead' = Ahead \ {current}
          /\ OnWritten \/ (message' = message /\ Ahead' = Ahead)]_vars
  <2> SUFFICES ASSUME IInv, IInv', Next, listening, listening', message # None
               PROVE  /\ OnWritten => /\ current \in Ahead
                                      /\ message' = None => Ahead = {current}
                                      /\ message' # None =>
                                            message' = message /\ Ahead' = Ahead \ {current}
                      /\ OnWritten \/ (message' = message /\ Ahead' = Ahead)
    BY Zenon
  <2>1. CASE OnWritten
    BY <2>1, WrittenAdvances
  <2>2. CASE ~OnWritten
    <3>1. UNCHANGED <<message, due, got>>
      BY <2>2, MessageKept
    <3>2. Ahead = due \ got
      BY AheadIsDue
    <3>3. (IInv /\ listening /\ message # None)'
      BY <3>1
    <3>4. (Ahead = due \ got)'
      BY <3>3, AheadIsDue, PTL
    <3> QED BY <2>2, <3>1, <3>2, <3>4
  <2> QED BY <2>1, <2>2
<1> QED BY <1>1, Invariance, PTL DEF Spec, ChainAdvances
=============================================================================
