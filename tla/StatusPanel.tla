----------------------------- MODULE StatusPanel -----------------------------
(***************************************************************************)
(* The mission status on the overview page: mcc_status.js asks the route   *)
(* status() of data.py for the newest member of the status set.            *)
(*                                                                         *)
(* The first request sets the timer to updateModel of mcc_gl.js, which     *)
(* asks the same route once more, takes the answer for an attitude and     *)
(* raises on data[0], and polls the attitude from then on: none of it      *)
(* touches the status on the page, so it is left out here.                 *)
(***************************************************************************)
EXTENDS TelemetryStore

CONSTANT NoState   \* the text of the page before the first answer

VARIABLES
    shown,     \* the text of #status-div
    timer,     \* the function the timer calls next
    request    \* a status request is on its way

panel == <<shown, timer, request>>
vars == <<clock, store, panel>>

\* zrange(-1, -1): the member with the highest score (of equal ones, any).
Newest(m) == zset[m] # Absent /\ \A k \in Messages : zset[k] <= zset[m]

\* updateStatus: request, and the next timer.
UpdateStatus ==
    /\ timer = "updateStatus"
    /\ request' = TRUE
    /\ timer' = "updateModel"
    /\ UNCHANGED <<clock, store, shown>>

\* The fields of an answer: a GRANUM_STATUS as update_zset stored it.
AnswerFields == {"mavpackettype", "time_boot_ms", "state"}

\* The callback looks up data.status in statusToText.  Where the answer has no
\* such field it finds undefined, and text(undefined) changes nothing.
Text(m) == IF "status" \in AnswerFields THEN m ELSE shown

\* The callback is called; with an empty set status() raises and it is not.
StatusAnswer ==
    /\ request
    /\ request' = FALSE
    /\ \/ \E m \in Messages : Newest(m) /\ shown' = Text(m)
       \/ (\A m \in Messages : ~Newest(m)) /\ UNCHANGED shown
    /\ UNCHANGED <<clock, store, timer>>

Init == StoreInit /\ shown = NoState /\ timer = "updateStatus" /\ request = FALSE
Next == (StoreNext /\ UNCHANGED panel) \/ UpdateStatus \/ StatusAnswer
Spec == Init /\ [][Next]_vars /\ WF_vars(UpdateStatus) /\ WF_vars(StatusAnswer)

\* What the configuration says of STATUS_DATA_UPDATE_PERIOD_MS, that it is the
\* period of refreshing the status: a status that stays the newest one is in
\* the end what the page shows.
StatusRefreshed ==
    \A m \in Messages : <>[](Newest(m) /\ \A k \in Messages \ {m} : ~Newest(k)) => <>[](shown = m)
=============================================================================
