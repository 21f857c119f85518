---------------------------- MODULE TelemetryStore ----------------------------
(***************************************************************************)
(* update_zset of mavlinkapp: a decoded telemetry message becomes a member *)
(* of a redis sorted set, its score the time of reception; members older   *)
(* than PBACK are then removed, in a transaction of their own.  One set is *)
(* modelled: the main loop handles one message at a time and each kind of  *)
(* message has its own set.                                                *)
(*                                                                         *)
(* The member is the message alone, so a message equal to an earlier one   *)
(* moves the member of that one.  mavlinkapp may be restarted at any       *)
(* point; redis keeps the set.                                             *)
(***************************************************************************)
EXTENDS Integers

CONSTANTS
    Messages,   \* the contents a message may have
    PBACK,      \* MAV_PLOT_DATA_PBACK, how long samples are kept
    SCOPE,      \* *_PLOT_SCOPE_MS, how far back the pages look
    MaxTime     \* bound on the clock

ASSUME StoreAssumption ==
    /\ PBACK \in Nat /\ SCOPE \in Nat /\ SCOPE < PBACK
    /\ MaxTime \in Nat /\ Messages # {}

VARIABLES
    clock,     \* time.time(), one clock for mavlinkapp and the web server
    zset,      \* the score of each member, Absent for the others
    writer,    \* the next step of update_zset
    sample,    \* the message being stored and its timestamp
    written    \* history: when each message was last stored

store == <<zset, writer, sample, written>>

Absent == -1
Time == 0..MaxTime
Sample == [m : Messages, ts : Time]
NoSample == [m |-> CHOOSE m \in Messages : TRUE, ts |-> 0]   \* between two calls

-----------------------------------------------------------------------------
Tick == clock < MaxTime /\ clock' = clock + 1 /\ UNCHANGED store

\* main() has received m: take the timestamp.
Receive(m) ==
    /\ writer = "receive"
    /\ writer' = "add"
    /\ sample' = [m |-> m, ts |-> clock]
    /\ UNCHANGED <<clock, zset, written>>

\* zadd, executed by itself.
Add ==
    /\ writer = "add"
    /\ writer' = "expire"
    /\ zset' = [zset EXCEPT ![sample.m] = sample.ts]
    /\ written' = [written EXCEPT ![sample.m] = sample.ts]
    /\ UNCHANGED <<clock, sample>>

\* Mutant: seconds are taken from a timestamp in milliseconds.
Deadline_Seconds == sample.ts - PBACK \div 1000
Deadline == sample.ts - PBACK

\* zremrangebyscore(0, deadline), both ends included.
Expire ==
    /\ writer = "expire"
    /\ writer' = "receive"
    /\ sample' = NoSample
    /\ zset' = [m \in Messages |-> IF zset[m] \in 0..Deadline THEN Absent ELSE zset[m]]
    /\ UNCHANGED <<clock, written>>

\* mavlinkapp is started again.
Restart ==
    /\ writer # "receive"
    /\ writer' = "receive" /\ sample' = NoSample
    /\ UNCHANGED <<clock, zset, written>>

StoreInit ==
    /\ clock = 0
    /\ zset = [m \in Messages |-> Absent]
    /\ writer = "receive" /\ sample = NoSample
    /\ written = [m \in Messages |-> Absent]

StoreNext == Tick \/ (\E m \in Messages : Receive(m)) \/ Add \/ Expire \/ Restart

StoreSpec == StoreInit /\ [][StoreNext]_<<clock, store>>

-----------------------------------------------------------------------------
StoreTypeOK ==
    /\ clock \in Time
    /\ zset \in [Messages -> Time \cup {Absent}]
    /\ writer \in {"receive", "add", "expire"}
    /\ sample \in Sample
    /\ written \in [Messages -> Time \cup {Absent}]

\* A sample the pages may still have to show is in the set, at the time it was
\* last received: no expiry, delayed or left over by a restart, removes what a
\* query can ask for (update_zset, PBACK > SCOPE).
VisibleKept ==
    \A m \in Messages :
        written[m] # Absent /\ written[m] >= clock - SCOPE => zset[m] = written[m]
=============================================================================
