------------------------------ MODULE ChartPage ------------------------------
(***************************************************************************)
(* The readers of the telemetry sets: the routes of data.py and the page's *)
(* mcc_charts.js.  The page asks periodically for all samples since the    *)
(* last one it has (latestUpdateTime) and does not wait for the answer     *)
(* before it asks again; answers may be late, overtake each other or fail. *)
(* A route queries the set once per dataset (three times for the           *)
(* accelerometer), while mavlinkapp writes to it.                          *)
(***************************************************************************)
EXTENDS TelemetryStore, Sequences, SequencesExt

CONSTANTS
    N,         \* datasets of the chart: 1, or 3 for acc and gyro
    MaxPolls   \* bound on the polls of the page

ASSUME PageAssumption ==
    /\ N \in Nat \ {0} /\ MaxPolls \in Nat
    /\ Messages \subseteq Nat   \* redis orders members of equal score

VARIABLES
    chart,       \* the points of each dataset, oldest first
    latest,      \* latestUpdateTime of the page
    polls,       \* the polls, in the order they were sent
    limit,       \* history: the newest viewlimit applied to the chart
    overlapped   \* history: a poll was sent before the last was answered

page == <<chart, latest, polls, limit, overlapped>>
vars == <<clock, store, page>>

Point == [m : Messages, ts : Time]
Poll == [st : {"sent", "serving", "done"}, latest : Time \cup {-1},
         time : Time, datas : Seq(Seq(Point))]

Later(a, b) == IF a > b THEN a ELSE b
Viewlimit(time) == time - SCOPE

\* redis orders members of equal score by the member.
Precedes(a, b) == a.ts < b.ts \/ (a.ts = b.ts /\ a.m < b.m)
Sorted(s) == \A i, j \in DOMAIN s : i < j => Precedes(s[i], s[j])
InOrder(S) == CHOOSE s \in [1..Cardinality(S) -> S] : Sorted(s)

Members(scores) == {[m |-> m, ts |-> zset[m]] : m \in {k \in Messages : zset[k] \in scores}}

\* Mutant: the lower end of the range is left out, to avoid repeated points.
zrangebyscore_Exclusive(from, to) == InOrder(Members({t \in 0..to : t > from}))
\* The members with scores from..to (both included), in the order of redis.
zrangebyscore(from, to) == InOrder(Members({t \in 0..to : t >= from}))

-----------------------------------------------------------------------------
\* updatePlot sends the request.
Send ==
    /\ Len(polls) < MaxPolls
    /\ polls' = Append(polls, [st |-> "sent", latest |-> latest, time |-> 0, datas |-> <<>>])
    /\ overlapped' = (overlapped \/ \E i \in DOMAIN polls : polls[i].st # "done")
    /\ UNCHANGED <<clock, store, chart, latest, limit>>

\* _get_*_data: time = now().
Begin(i) ==
    /\ polls[i].st = "sent"
    /\ polls' = [polls EXCEPT ![i].st = "serving", ![i].time = clock]
    /\ UNCHANGED <<clock, store, chart, latest, limit, overlapped>>

\* _get_data_abstract, for one dataset after the other.
Query(i) ==
    /\ polls[i].st = "serving" /\ Len(polls[i].datas) < N
    /\ LET from == Later(polls[i].latest, Viewlimit(polls[i].time))
       IN  polls' = [polls EXCEPT ![i].datas = Append(@, zrangebyscore(from, polls[i].time))]
    /\ UNCHANGED <<clock, store, chart, latest, limit, overlapped>>

\* Mutants: the time of the request is answered instead of that of the last
\* sample; the page keeps its own; an empty answer moves it to the view limit.
Latest_Now(p) == p.time
Latest_Kept(p) == p.latest
Latest_Limit(p) == IF p.datas[1] = <<>> THEN Viewlimit(p.time) ELSE Last(p.datas[1]).ts
\* latestUpdateTime of the answer.
Latest(p) == IF p.datas[1] = <<>> THEN p.latest ELSE Last(p.datas[1]).ts

\* Points are shifted out while the first one is below the limit.
Trim(points, vl) ==
    LET kept == {k \in 1..(Len(points) + 1) : \A j \in 1..(k - 1) : points[j].ts < vl}
    IN  SubSeq(points, CHOOSE k \in kept : \A j \in kept : j <= k, Len(points))

Done == [st |-> "done", latest |-> -1, time |-> 0, datas |-> <<>>]

\* The callback of getJSON: push, shift, take over latestUpdateTime.
Answer(i) ==
    /\ polls[i].st = "serving" /\ Len(polls[i].datas) = N
    /\ LET p == polls[i]
       IN  /\ chart' = [d \in 1..N |-> Trim(chart[d] \o p.datas[d], Viewlimit(p.time))]
           /\ latest' = Latest(p)
           /\ limit' = Later(limit, Viewlimit(p.time))
    /\ polls' = [polls EXCEPT ![i] = Done]
    /\ UNCHANGED <<clock, store, overlapped>>

\* The request is lost, or its answer, which is the same to the page: the
\* callback is not called.
Fail(i) ==
    /\ polls[i].st = "sent"
    /\ polls' = [polls EXCEPT ![i] = Done]
    /\ UNCHANGED <<clock, store, chart, latest, limit, overlapped>>

-----------------------------------------------------------------------------
Init ==
    /\ StoreInit
    /\ chart = [d \in 1..N |-> <<>>]
    /\ latest = -1 /\ limit = -SCOPE
    /\ polls = <<>> /\ overlapped = FALSE

Page == Send \/ \E i \in DOMAIN polls : Begin(i) \/ Query(i) \/ Answer(i) \/ Fail(i)
Next == (StoreNext /\ UNCHANGED page) \/ Page

Spec == Init /\ [][Next]_vars

-----------------------------------------------------------------------------
TypeOK ==
    /\ StoreTypeOK
    /\ chart \in [1..N -> Seq(Point)]
    /\ latest \in Time \cup {-1} /\ limit \in -SCOPE..MaxTime
    /\ polls \in Seq(Poll) /\ overlapped \in BOOLEAN

\* Every stored sample older than latestUpdateTime and not yet out of view is
\* on the chart, in each dataset, although the page will never ask for it
\* again: not two samples of one millisecond, a write between two queries of
\* one answer, an answer that is lost or overtaken makes a sample disappear.
NothingMissed ==
    \A m \in Messages, d \in 1..N :
        zset[m] >= 0 /\ zset[m] \in limit..(latest - 1)
            => [m |-> m, ts |-> zset[m]] \in ToSet(chart[d])

\* As long as polls do not overlap the line of the first dataset is drawn in
\* the order of time.  (With overlapping polls, and in the second and third
\* dataset, points are repeated after newer ones.)
OrderedUnlessOverlapping ==
    ~overlapped => \A k \in DOMAIN chart[1] : \A j \in 1..k : chart[1][j].ts <= chart[1][k].ts
=============================================================================
