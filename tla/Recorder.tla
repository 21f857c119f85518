------------------------------ MODULE Recorder ------------------------------
(***************************************************************************)
(* What the telemetry of the flight computer promises about its SD card,   *)
(* without threads, buffers or the order of system calls: a file is only   *)
(* ever lengthened, a flight starts a file of its own, and a message       *)
(* leaves the CanSat only if the card has it for good or has reported an   *)
(* error that concerns it.                                                 *)
(***************************************************************************)
EXTENDS Sequences, SequencesExt

CONSTANTS Files, Messages

VARIABLES
    disk,      \* for each file on the card what no loss of power takes away
    refused,   \* the messages an error of the card concerns
    sent       \* the messages that left the CanSat

vars == <<disk, refused, sent>>

Recorded(m) == m \in refused \/ \E f \in DOMAIN disk : m \in ToSet(disk[f])

Init == disk = [f \in {} |-> <<>>] /\ refused = {} /\ sent = {}

\* A flight begins: a name that is not on the card.
Open(f) ==
    /\ f \notin DOMAIN disk
    /\ disk' = [g \in DOMAIN disk \cup {f} |-> IF g = f THEN <<>> ELSE disk[g]]
    /\ UNCHANGED <<refused, sent>>

\* More of file f is safe.
Record(f) ==
    /\ DOMAIN disk' = DOMAIN disk
    /\ disk'[f] \in Seq(Messages) /\ IsPrefix(disk[f], disk'[f])
    /\ disk' = [disk EXCEPT ![f] = disk'[f]]
    /\ UNCHANGED <<refused, sent>>

\* Power is lost before anything was safe in f; the card forgets the name.
Forget(f) ==
    /\ disk[f] = <<>>
    /\ disk' = [g \in DOMAIN disk \ {f} |-> disk[g]]
    /\ UNCHANGED <<refused, sent>>

\* The card reports an error, when a message is written or when it is synced.
Refuse ==
    /\ refused \subseteq refused' /\ refused' \subseteq Messages
    /\ UNCHANGED <<disk, sent>>

Transmit ==
    /\ sent \subseteq sent' /\ \A m \in sent' \ sent : Recorded(m)
    /\ UNCHANGED <<disk, refused>>

Next ==
    \/ Refuse \/ Transmit
    \/ \E f \in Files : Open(f)
    \/ \E f \in DOMAIN disk : Record(f) \/ Forget(f)

Spec == Init /\ [][Next]_vars
=============================================================================
