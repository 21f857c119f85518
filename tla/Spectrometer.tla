----------------------------- MODULE Spectrometer -----------------------------
(***************************************************************************)
(* The research spectrometer server: Camera (frames in a pool of mapped    *)
(* driver buffers), Server (one message at a time, written to the sessions *)
(* one after the other) and main, which builds both and tears them down.   *)
(*                                                                         *)
(* main runs ONE io thread, so a handler is one step, and a dispatch made  *)
(* by a handler to the other object's strand runs inside that step.  What  *)
(* main posts (start, stop, close) is waited for and is one step of main.  *)
(* A completed operation waits as "ok", "error", "ready" or a client until *)
(* its handler runs; a close cancels only operations not yet complete.     *)
(***************************************************************************)
EXTENDS Integers, Sequences, SequencesExt

CONSTANTS
    Clients,   \* clients that may connect
    Buffers,   \* the frame buffers of the camera (4)
    None

ASSUME SpectrometerAssumption ==
    /\ None \notin Clients \cup Buffers
    /\ Buffers # {}
    /\ Clients \cap {"idle", "waiting", "aborted", "failed"} = {}

VARIABLES
    pc,         \* where main is
    sessions,   \* _sessions, front first
    sockets,    \* the clients whose session socket is open
    up,         \* the clients whose own end is connected
    listening,  \* the acceptor is open: stop() has not been called
    accept,     \* the async_accept: a state, or the client accepted
    message,    \* the buffer of the frame in _current_message, or None
    current,    \* the iterator of the write in progress, or None
    write,      \* the async_write
    camera,     \* "closed", "open" (device) or "started"
    queued,     \* buffers handed to the driver
    read,       \* the async_read_some of the camera
    due, got    \* history: who must get the message, who got it

net == <<sessions, sockets, up, listening, accept>>
msg == <<message, current, write, due, got>>
cam == <<camera, queued, read>>
vars == <<pc, net, msg, cam>>

\* The io thread executes handlers.
Running == pc \notin {"done", "terminated"}

\* An exception leaves a handler or a destructor: std::terminate.
Terminate == pc' = "terminated" /\ UNCHANGED <<net, msg, cam>>

-----------------------------------------------------------------------------
(* Frames and messages *)

\* Mutant: the buffer of a finished frame is forgotten.
Requeue_Leak(q, b) == q
\* ~TheFrame gives its buffer back to the driver (_enqueue_buffer_ws).  Once
\* the camera is gone its buffers are too, and the weak pointer locks nothing.
Requeue(q, b) == IF camera = "started" THEN q \cup {b} ELSE q

\* The place of c in the list; the session that follows it, None for end().
Pos(c) == CHOOSE k \in DOMAIN sessions : sessions[k] = c
After(c) == IF Pos(c) < Len(sessions) THEN sessions[Pos(c) + 1] ELSE None

First == IF sessions = <<>> THEN None ELSE Head(sessions)

\* _do_chain_ws(next) for the frame in buffer b; q is the driver's queue.
Chain(next, b, q) ==
    \/ /\ next = None
       /\ message' = None /\ current' = None /\ write' = "idle"
       /\ queued' = Requeue(q, b)
    \/ /\ next # None
       /\ message' = b /\ current' = next /\ queued' = q
       /\ write' = IF next \in sockets THEN "pending" ELSE "error"

\* A frame is ready: dequeue its buffer, send_message, read on.
OnFrame ==
    /\ Running /\ read = "ready" /\ camera = "started"
    /\ \E b \in queued :
          \/ /\ message # None       \* not ready for it: the frame is dropped
             /\ queued' = Requeue(queued \ {b}, b)
             /\ UNCHANGED msg
          \/ /\ message = None
             /\ Chain(First, b, queued \ {b})
             /\ due' = ToSet(sessions) /\ got' = {}
    /\ read' = "waiting"
    /\ UNCHANGED <<pc, net, camera>>

\* The written message was taken over by the client's socket.
WrittenOk ==
    /\ write = "ok" /\ current \in ToSet(sessions)
    /\ Chain(After(current), message, queued)
    /\ got' = got \cup {current}
    /\ UNCHANGED <<pc, net, due, camera, read>>

\* Mutants: the client after the failed one is passed over; the chain ends
\* at a failed client with the message still set.
WrittenError_SkipsNext ==
    /\ write = "error" /\ current \in ToSet(sessions)
    /\ LET n == After(current)
       IN  Chain(IF n = None THEN None ELSE After(n), message, queued)
    /\ sessions' = RemoveAt(sessions, Pos(current))
    /\ sockets' = sockets \ {current}
    /\ due' = due \ {current}
    /\ UNCHANGED <<pc, up, listening, accept, got, camera, read>>
WrittenError_Stops ==
    /\ write = "error" /\ current \in ToSet(sessions)
    /\ write' = "idle" /\ current' = None
    /\ sessions' = RemoveAt(sessions, Pos(current))
    /\ sockets' = sockets \ {current}
    /\ due' = due \ {current}
    /\ UNCHANGED <<pc, up, listening, accept, message, got, cam>>
\* The write failed: the client is closed and erased, the next one is served.
WrittenError ==
    /\ write = "error" /\ current \in ToSet(sessions)
    /\ Chain(After(current), message, queued)
    /\ sessions' = RemoveAt(sessions, Pos(current))
    /\ sockets' = sockets \ {current}
    /\ due' = due \ {current}
    /\ UNCHANGED <<pc, up, listening, accept, got, camera, read>>

\* The socket was closed under the write: only the list is cleared.
WrittenAborted ==
    /\ write = "aborted"
    /\ sessions' = <<>> /\ sockets' = {}
    /\ write' = "idle" /\ current' = None
    /\ UNCHANGED <<pc, up, listening, accept, message, due, got, cam>>

\* stop() cleared the list before this handler ran and the iterator points
\* to a freed node: a crash, or the stale link still leads to end().
WrittenDangling ==
    /\ write \in {"ok", "error"} /\ current \notin ToSet(sessions)
    /\ \/ Terminate
       \/ /\ Chain(None, message, queued)
          /\ UNCHANGED <<pc, net, due, got, camera, read>>

\* The driver refuses the buffer of a frame that ends, because the frame is
\* dropped or the chain is: the exception leaves the destructor ~TheFrame.
RequeueFails ==
    /\ Running /\ camera = "started"
    /\ \/ read = "ready" /\ queued # {} /\ (message # None \/ sessions = <<>>)
       \/ write \in {"ok", "error"} /\ current \in ToSet(sessions) /\ After(current) = None
    /\ Terminate

OnWritten == Running /\ (WrittenOk \/ WrittenError \/ WrittenAborted \/ WrittenDangling)

-----------------------------------------------------------------------------
(* The camera *)

\* What the cancel() in Camera::stop and close() make of the read: one that is
\* not complete is aborted.
Cancelled == IF read = "waiting" THEN "aborted" ELSE read

\* Camera::stop or close leaves the device in state s; streaming off takes
\* all buffers from the driver.
CameraTo(s) ==
    /\ camera' = s
    /\ queued' = {}
    /\ read' = Cancelled

\* The read failed, or dequeuing did (it always does on a closed device):
\* stop().  If streaming cannot be switched off its exception escapes.
OnReadError ==
    /\ Running /\ read \in {"ready", "error"}
    /\ \/ /\ camera' = IF camera = "started" THEN "open" ELSE camera
          /\ queued' = {}
          /\ read' = "idle"
          /\ UNCHANGED <<pc, net, msg>>
       \/ camera = "started" /\ Terminate

OnReadAborted ==
    /\ Running /\ read = "aborted"
    /\ read' = "idle"
    /\ UNCHANGED <<pc, net, msg, camera, queued>>

-----------------------------------------------------------------------------
(* Accepting *)

\* A client was accepted: its session goes to the front and the next accept
\* starts.  Asking a connection that is already gone for its address throws.
OnAccepted ==
    /\ Running /\ accept \in Clients
    /\ \/ /\ sessions' = <<accept>> \o sessions
          /\ sockets' = sockets \cup {accept}
          /\ accept' = IF listening THEN "waiting" ELSE "failed"
          /\ UNCHANGED <<pc, up, listening, msg, cam>>
       \/ accept \notin up /\ Terminate

\* An error is logged and the accept repeated; a closed acceptor fails again.
OnAcceptFailed ==
    /\ Running /\ accept = "failed"
    /\ accept' = IF listening THEN "waiting" ELSE "failed"
    /\ UNCHANGED <<pc, sessions, sockets, up, listening, msg, cam>>

\* Mutant: the error code is not looked at and a session is made.
OnAcceptAborted_Unchecked ==
    /\ Running /\ accept = "aborted"
    /\ sessions' = <<accept>> \o sessions
    /\ accept' = "idle"
    /\ UNCHANGED <<pc, sockets, up, listening, msg, cam>>
OnAcceptAborted ==
    /\ Running /\ accept = "aborted"
    /\ accept' = "idle"
    /\ UNCHANGED <<pc, sessions, sockets, up, listening, msg, cam>>

-----------------------------------------------------------------------------
(* The environment: clients, driver, network *)

\* A client with no session left connects; the accept may fail instead.
Connect(c) ==
    /\ Running /\ accept = "waiting" /\ c \notin up /\ c \notin ToSet(sessions)
    /\ \/ accept' = c /\ up' = up \cup {c}
       \/ accept' = "failed" /\ UNCHANGED up
    /\ UNCHANGED <<pc, sessions, sockets, listening, msg, cam>>

Disconnect(c) ==
    /\ Running /\ c \in up
    /\ up' = up \ {c}
    /\ UNCHANGED <<pc, sessions, sockets, listening, accept, msg, cam>>

\* The whole message went out, or the connection turned out to be lost.
WriteCompletes ==
    /\ Running /\ write = "pending"
    /\ \/ write' = "ok"
       \/ current \notin up /\ write' = "error"
    /\ UNCHANGED <<pc, net, message, current, due, got, cam>>

ReadCompletes ==
    /\ Running /\ read = "waiting"
    /\ \/ queued # {} /\ read' = "ready"
       \/ read' = "error"
    /\ UNCHANGED <<pc, net, msg, camera, queued>>

-----------------------------------------------------------------------------
(* main *)

Goto(from, to) == pc = from /\ pc' = to

\* server.start(); any failure of the set-up leads to the destructors.
StartServer ==
    /\ \/ Goto("start", "open") /\ listening' = TRUE /\ accept' = "waiting"
       \/ Goto("start", "~Camera") /\ UNCHANGED <<listening, accept>>
    /\ UNCHANGED <<sessions, sockets, up, msg, cam>>

\* cam.open() and cam.set_fmt(); a later ioctl may fail with the device open.
OpenCamera ==
    /\ \/ Goto("open", "stream") /\ camera' = "open"
       \/ Goto("open", "~Camera") /\ camera' \in {"closed", "open"}
    /\ UNCHANGED <<net, msg, queued, read>>

\* cam.start(): all buffers to the driver, streaming on, the first read.
StartCamera ==
    /\ \/ Goto("stream", "run") /\ camera' = "started" /\ queued' = Buffers /\ read' = "waiting"
       \/ Goto("stream", "~Camera") /\ UNCHANGED cam
    /\ UNCHANGED <<net, msg>>

Signal == Goto("run", "close") /\ UNCHANGED <<net, msg, cam>>

\* cam.close(), and again in ~Camera, where an exception is fatal.  The read is
\* cancelled before streaming is switched off, which may fail.
CloseCamera ==
    \/ /\ Goto("close", "stop") \/ Goto("~Camera", "~Server")
       /\ CameraTo("closed")
       /\ UNCHANGED <<net, msg>>
    \/ /\ camera = "started" /\ Goto("close", "~Camera")
       /\ read' = Cancelled
       /\ UNCHANGED <<net, msg, camera, queued>>
    \/ camera = "started" /\ pc = "~Camera" /\ Terminate

\* What stop() leaves in the list.  The comment asks for the opposite case.
ListAfterStop == IF message # None THEN <<>> ELSE sessions

\* Server::stop: no more accepts, all sockets closed.
StopServer ==
    /\ Goto("stop", "~Camera") \/ Goto("~Server", "spin")
    /\ listening' = FALSE
    /\ accept' = IF accept = "waiting" THEN "aborted" ELSE accept
    /\ sockets' = {}
    /\ write' = IF write = "pending" THEN "aborted" ELSE write
    /\ sessions' = ListAfterStop
    /\ UNCHANGED <<up, message, current, due, got, cam>>

\* ~Server asks its strand over and over whether the last session is gone.
Spin == sessions = <<>> /\ Goto("spin", "done") /\ UNCHANGED <<net, msg, cam>>

-----------------------------------------------------------------------------
Init ==
    /\ pc = "start"
    /\ sessions = <<>> /\ sockets = {} /\ up = {}
    /\ listening = FALSE /\ accept = "idle"
    /\ message = None /\ current = None /\ write = "idle"
    /\ camera = "closed" /\ queued = {} /\ read = "idle"
    /\ due = {} /\ got = {}

Handlers == OnFrame \/ OnWritten \/ RequeueFails \/ OnReadError \/ OnReadAborted
            \/ OnAccepted \/ OnAcceptFailed \/ OnAcceptAborted
Environment == (\E c \in Clients : Connect(c) \/ Disconnect(c))
               \/ WriteCompletes \/ ReadCompletes
Main == StartServer \/ OpenCamera \/ StartCamera \/ Signal
        \/ CloseCamera \/ StopServer \/ Spin

Next == Handlers \/ Environment \/ Main

Spec == Init /\ [][Next]_vars

\* The io thread runs what is ready, main goes on, and a client takes the
\* bytes written to it or is found lost.
FairSpec == Spec /\ WF_vars(OnFrame \/ OnReadError) /\ WF_vars(OnWritten)
                 /\ WF_vars(WriteCompletes) /\ WF_vars(CloseCamera \/ StopServer \/ Spin)

-----------------------------------------------------------------------------
(* Properties *)

TypeOK ==
    /\ pc \in {"start", "open", "stream", "run", "close", "stop", "~Camera",
               "~Server", "spin", "done", "terminated"}
    /\ sessions \in Seq(Clients)
    /\ sockets \in SUBSET Clients /\ up \in SUBSET Clients /\ listening \in BOOLEAN
    /\ accept \in Clients \cup {"idle", "waiting", "aborted", "failed"}
    /\ message \in Buffers \cup {None} /\ current \in Clients \cup {None}
    /\ write \in {"idle", "pending", "ok", "error", "aborted"}
    /\ camera \in {"closed", "open", "started"} /\ queued \in SUBSET Buffers
    /\ read \in {"idle", "waiting", "ready", "error", "aborted"}
    /\ due \in SUBSET Clients /\ got \in SUBSET Clients

\* While the camera streams, every buffer is with the driver or under the
\* message being written, and never both: whatever the clients do, frames are
\* dropped and not leaked, and no buffer is filled while it is being sent
\* (OnFrame, ~TheFrame, the ends of the chain).
BuffersAccounted ==
    camera = "started" => queued = Buffers \ {message}

\* Until stop(), a message is set only while a write to a listed session is
\* under way, and of the clients that were connected when it was taken each
\* one still listed has got it or is still ahead in the chain, not both;
\* nobody else is ahead: no client is passed over, served twice or starts in
\* the middle, however clients come and go meanwhile (_do_chain_ws).
Ahead == {sessions[i] : i \in {k \in DOMAIN sessions :
             \E j \in 1..k : sessions[j] = current}}
EachClientOnce ==
    listening /\ message # None =>
        /\ write # "idle" /\ current \in ToSet(sessions)
        /\ Ahead = due \ got /\ got \subseteq due
        /\ due \subseteq ToSet(sessions)

\* A message taken for sending is finished (the server takes frames again),
\* or the program is on its way down: a client lost in the middle of the
\* chain never leaves the server busy for ever.
MessageFinishes == message # None ~> (message = None \/ ~listening \/ ~Running)

\* What the comment in Server::stop says: when no message is being sent, stop
\* removes the sessions itself, so that the destructor need not wait for them.
IdleStopClears == [][StopServer /\ message = None => sessions' = <<>>]_vars
=============================================================================
