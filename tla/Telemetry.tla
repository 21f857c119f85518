------------------------------ MODULE Telemetry ------------------------------
(***************************************************************************)
(* The telemetry of the flight computer: send_telem of common.c, called by *)
(* the main loop and by the Madgwick thread without a lock, the choice of  *)
(* the log file at the start of granum_main.c and the sending part of      *)
(* madgwick_thread.c.  send_telem writes a message to the file on the SD   *)
(* card, syncs the file, and only then hands the message to the radio and  *)
(* to the Raspberry Pi; none of the results is looked at, so a message is  *)
(* sent also when its write or its sync has failed.  Power may be lost at  *)
(* any point: what was not synced may then be missing from the card, and   *)
(* the next start looks for an unused file name.                           *)
(***************************************************************************)
EXTENDS Integers, Sequences

CONSTANTS
    MaxFiles,      \* names GR_0.bin, GR_1.bin, ... that are tried   (10000)
    TickerPeriod,  \* samples between two messages of the IMU            (5)
    MaxMsgs,       \* bound of the model: messages altogether
    MaxBoots       \* bound of the model: starts of the board

ASSUME BoundAssumption ==
    /\ MaxFiles \in Nat \ {0} /\ TickerPeriod \in Nat \ {0}
    /\ MaxMsgs \in Nat /\ MaxBoots \in Nat \ {0}

Threads == {"main", "madgwick"}
Files   == 0..(MaxFiles - 1)

VARIABLES
    boot,      \* number of this start
    running,   \* "off", "on", or "exit" when main has returned
    file_fd,   \* the file that is open
    names,     \* the files whose directory entry is on the card
    log,       \* the contents of each file
    synced,    \* how many messages of it survive a loss of power
    radio,     \* the messages handed to the radio
    rasp,      \* the messages handed to the Raspberry Pi
    failed,    \* the messages hit by an error of write() or fsync()
    pc,        \* where in send_telem a thread is, "idle" outside
    cur,       \* the message it is sending
    todo,      \* the kinds of messages it still has to send this time round
    count,     \* the messages it has begun to send since the start
    ticker,    \* samples since the last message of the IMU
    total      \* the messages sent so far, for the bound

card == <<names, log, synced>>
sinks == <<radio, rasp, failed>>
threads == <<pc, cur, todo, count, ticker>>
vars == <<boot, running, file_fd, card, sinks, threads, total>>

Kinds == {"luminosity", "pressure", "sonar", "gps", "status", "imu", "quaternion"}

\* A message, identified by who sent it when.
Msg(t, k, n) == [boot |-> boot, thread |-> t, kind |-> k, n |-> n]

NoMsg == [boot |-> 0, thread |-> "main", kind |-> "status", n |-> 0]

\* The messages of file f that a loss of power cannot take away.
Durable(f) == {log[f][i] : i \in 1..synced[f]}

\* Those that it may take away.
Unsafe(f) == {log[f][i] : i \in (synced[f] + 1)..Len(log[f])}

-----------------------------------------------------------------------------
\* The file main opens: the first name for which stat() reports ENOENT.  For
\* a name not on the card it may report another error; the name is skipped.
\* Mutant: the first name, whether or not it is on the card.
FreshFile_First(f) == f = 0
FreshFile(f) == f \notin names

\* main opens the radio and the file and starts the Madgwick thread.
Start ==
    /\ running = "off"
    /\ \E f \in Files :
          /\ FreshFile(f)
          /\ file_fd' = f
          /\ names' = names \cup {f}
          /\ log' = [log EXCEPT ![f] = <<>>]
          /\ synced' = [synced EXCEPT ![f] = 0]
    /\ running' = "on"
    /\ UNCHANGED <<boot, sinks, threads, total>>

\* main returns 1: the radio or the file cannot be opened, or stat() has no
\* ENOENT for any of the names.
StartFails ==
    /\ running = "off"
    /\ running' = "exit"
    /\ UNCHANGED <<boot, file_fd, card, sinks, threads, total>>

\* One iteration of the main loop: the GPS message is sent when a sentence
\* with a fix has arrived, the status message every tenth time.
Iteration ==
    /\ running = "on"
    /\ pc["main"] = "idle" /\ todo["main"] = <<>>
    /\ \E gps \in {<<>>, <<"gps">>}, st \in {<<>>, <<"status">>} :
          todo' = [todo EXCEPT !["main"] =
                      <<"luminosity", "pressure", "sonar">> \o gps \o st]
    /\ UNCHANGED <<boot, running, file_fd, card, sinks, pc, cur, count, ticker,
                   total>>

\* Mutant: one sample too late.
SampleDue_Late(n) == n > TickerPeriod
SampleDue(n) == n = TickerPeriod

\* The timer wakes the Madgwick thread and both sensors answer; when one does
\* not, the thread goes back to sleep and nothing changes.
Sample ==
    /\ running = "on"
    /\ pc["madgwick"] = "idle" /\ todo["madgwick"] = <<>>
    /\ IF SampleDue(ticker + 1)
       THEN /\ ticker' = 0
            /\ todo' = [todo EXCEPT !["madgwick"] = <<"imu", "quaternion">>]
       ELSE ticker' = ticker + 1 /\ UNCHANGED todo
    /\ UNCHANGED <<boot, running, file_fd, card, sinks, pc, cur, count, total>>

-----------------------------------------------------------------------------
\* Mutant: one buffer for both threads.
Fill_Shared(t, m) == [u \in Threads |-> m]
Fill(t, m) == [cur EXCEPT ![t] = m]

\* send_telem, called by thread t with its next message.
Call(t) ==
    /\ running = "on"
    /\ pc[t] = "idle" /\ todo[t] # <<>> /\ total < MaxMsgs
    /\ total' = total + 1
    /\ count' = [count EXCEPT ![t] = count[t] + 1]
    /\ cur' = Fill(t, Msg(t, Head(todo[t]), count[t] + 1))
    /\ todo' = [todo EXCEPT ![t] = Tail(todo[t])]
    /\ pc' = [pc EXCEPT ![t] = "write"]
    /\ UNCHANGED <<boot, running, file_fd, card, sinks, ticker>>

Move(t, from, to) ==
    /\ running = "on"
    /\ pc[t] = from
    /\ pc' = [pc EXCEPT ![t] = to]
    /\ UNCHANGED <<boot, running, file_fd, names, cur, todo, count, ticker,
                   total>>

\* Mutant: the radio before the card.
AfterWrite_Radio == "radio"
AfterWrite == "fsync"

WriteFile(t) ==
    /\ Move(t, "write", AfterWrite)
    /\ \/ /\ log' = [log EXCEPT ![file_fd] = Append(log[file_fd], cur[t])]
          /\ UNCHANGED failed
       \/ failed' = failed \cup {cur[t]} /\ UNCHANGED log
    /\ UNCHANGED <<synced, radio, rasp>>

\* A sync makes everything durable that is in the file, the other thread's
\* messages included, or it reports an error.  The error concerns all that was
\* not durable: some of it may be gone, and no later sync reports that again.
Fsync(t) ==
    /\ Move(t, "fsync", "radio")
    /\ \/ /\ synced' = [synced EXCEPT ![file_fd] = Len(log[file_fd])]
          /\ UNCHANGED <<log, failed>>
       \/ /\ failed' = failed \cup Unsafe(file_fd)
          /\ \E k \in synced[file_fd]..Len(log[file_fd]) :
                log' = [log EXCEPT ![file_fd] = SubSeq(log[file_fd], 1, k)]
          /\ UNCHANGED synced
    /\ UNCHANGED <<radio, rasp>>

\* Both ports are opened O_NONBLOCK: a message that finds no room is dropped.
WriteRadio(t) ==
    /\ Move(t, "radio", "rasp")
    /\ radio' \in {radio, radio \cup {cur[t]}}
    /\ UNCHANGED <<log, synced, rasp, failed>>

WriteRasp(t) ==
    /\ Move(t, "rasp", "idle")
    /\ rasp' \in {rasp, rasp \cup {cur[t]}}
    /\ UNCHANGED <<log, synced, radio, failed>>

send_telem(t) == \/ Call(t) \/ WriteFile(t) \/ Fsync(t)
                 \/ WriteRadio(t) \/ WriteRasp(t)

-----------------------------------------------------------------------------
\* Power is lost.  Of the open file a part survives that holds at least what
\* was synced, perhaps not even its name; the threads start over.
PowerLoss ==
    /\ boot < MaxBoots
    /\ boot' = boot + 1
    /\ running' = "off"
    /\ \E k \in synced[file_fd]..Len(log[file_fd]) :
          /\ log' = [log EXCEPT ![file_fd] = SubSeq(log[file_fd], 1, k)]
          /\ synced' = [synced EXCEPT ![file_fd] = k]
          /\ \/ names' = names
             \/ running = "on" /\ k = 0 /\ names' = names \ {file_fd}
    /\ pc' = [t \in Threads |-> "idle"]
    /\ cur' = [t \in Threads |-> NoMsg]
    /\ todo' = [t \in Threads |-> <<>>]
    /\ count' = [t \in Threads |-> 0]
    /\ ticker' = 0
    /\ UNCHANGED <<file_fd, sinks, total>>

Init ==
    /\ boot = 1 /\ running = "off" /\ file_fd = 0
    /\ names = {}
    /\ log = [f \in Files |-> <<>>] /\ synced = [f \in Files |-> 0]
    /\ radio = {} /\ rasp = {} /\ failed = {}
    /\ pc = [t \in Threads |-> "idle"]
    /\ cur = [t \in Threads |-> NoMsg]
    /\ todo = [t \in Threads |-> <<>>]
    /\ count = [t \in Threads |-> 0]
    /\ ticker = 0 /\ total = 0

Next ==
    \/ Start \/ StartFails \/ Iteration \/ Sample \/ PowerLoss
    \/ \E t \in Threads : send_telem(t)

Spec == Init /\ [][Next]_vars
-----------------------------------------------------------------------------
Locations == {"idle", "write", "fsync", "radio", "rasp"}

Messages == [boot : 0..MaxBoots, thread : Threads, kind : Kinds, n : 0..MaxMsgs]

TypeOK ==
    /\ boot \in 1..MaxBoots /\ running \in {"off", "on", "exit"}
    /\ file_fd \in Files /\ names \subseteq Files
    /\ log \in [Files -> Seq(Messages)]
    /\ synced \in [Files -> Nat] /\ \A f \in Files : synced[f] <= Len(log[f])
    /\ radio \subseteq Messages /\ rasp \subseteq Messages /\ failed \subseteq Messages
    /\ pc \in [Threads -> Locations] /\ cur \in [Threads -> Messages]
    /\ todo \in [Threads -> Seq(Kinds)] /\ count \in [Threads -> 0..MaxMsgs]
    /\ ticker \in 0..(TickerPeriod - 1)
    /\ total \in 0..MaxMsgs

\* What the ground or the Raspberry Pi has received is on the card, where no
\* loss of power takes it away, unless its write failed or a sync did while it
\* was not durable yet, errors that send_telem ignores; however the two threads
\* interleave in send_telem and whenever power is lost.
LoggedBeforeSent ==
    radio \cup rasp \subseteq failed \cup UNION {Durable(f) : f \in names}

\* A start never touches the log of an earlier flight: what is durable stays
\* at its place in its file.
Kept(f) ==
    /\ synced[f] <= synced'[f]
    /\ \A i \in 1..synced[f] : log'[f][i] = log[f][i]
NoOverwrite == [][\A f \in Files : Kept(f)]_vars

\* A file holds the messages of one start only, and those of each thread in
\* the order in which the thread sent them, none twice.
LogOrder ==
    \A f \in Files : \A i, j \in 1..Len(log[f]) :
        /\ log[f][i].boot = log[f][j].boot
        /\ i < j /\ log[f][i].thread = log[f][j].thread => log[f][i].n < log[f][j].n

\* The recorder that this implements: its disk is what is synced of the files
\* on the card.
OnCard == [f \in names |-> SubSeq(log[f], 1, synced[f])]
R == INSTANCE Recorder WITH disk <- OnCard, refused <- failed, sent <- radio \cup rasp

\* Whatever the interleaving of the threads and whenever power is lost: the card
\* is write-once, and nothing leaves the CanSat that the card has not got for
\* good, unless a write or a sync of it has failed before (send_telem and the
\* start of main).
RecorderSpec == R!Spec
=============================================================================
