# Granum CanSat: a TLA+ model of the flight software and its ground station

This directory is a verification development kept beside the Granum CanSat
2017–2018 repository. It holds TLA+ modules translated from the source, TLC
configurations that check them on small instances, and TLAPS proofs that carry
the main safety properties to every value of the constants.

* `tlc -workers 2 -config MCFlight.cfg MCFlight` runs one of the checks;
  `PROJECT.json` lists them all with the properties they check, the source
  lines behind every definition, and for each property a mutation of the code
  that it detects.
* `tlapm FlightProofs.tla` checks the proofs of one module.

## 1. The system

A CanSat is dropped from a rocket. On board, an STM32 under NuttX (the
*omnibus* board) runs the mission; a Raspberry Pi has the spectrometer, the
sound and a relay; an STM8 drives a servo. On the ground a radio bridge feeds
MAVLink messages to a set of Python processes, redis and a web page.

| Part | State | Operations | Interacts with |
|---|---|---|---|
| **Main loop** `granum_main.c` | mission phase, timers, last sensor values, descent counter, status counter | boot; one iteration: timers, light, barometer, legs, descent, sonar and cut, GPS, status | pyrotechnics (boardctl), sensors (read), telemetry |
| **GPS reader** `_parseGPS` | buffer and caret, kept between calls | read a byte; complete or give up a sentence | blocking serial port |
| **Telemetry** `common.c`, `madgwick_thread.c`, start of `granum_main.c` | log file, radio, serial port to the Pi; ticker of the IMU thread | choose a file; `send_telem` in two threads | SD card, radio, Pi |
| **Attitude filter** `MadgwickAHRS.c` | quaternion | update | IMU thread |
| **Spectrum aggregator** `mavlinkapp/spectrum.py` | two listeners (state, index waited for, data, count), picture files | accept a message, save | UDP, disk, redis, web page |
| **Telemetry store and charts** `mavlinkapp/__main__.py`, `webapp/blueprints/data.py`, `mcc_charts.js` | redis sorted sets; the page's points and last update time | add and expire; query; poll | redis, HTTP |
| **Other panels** `mcc_status.js`, `mcc_map.js`, `mcc_gl.js`, `mcc_spectrum.js` | what the page shows | poll | HTTP |
| **Sound hub** `soundhub/__main__.py` | list of subscribers | forward, subscribe, drop | UDP, TCP, two threads |
| **Servo** `stm8s_it.c`, `servo.py` | two-byte buffer, byte expected | I2C events; set position | I2C |
| **Relays and radio bridge** `mav_relay.py`, `mav_defrag.py`, `drainbow_gcs_nrf` | none, or a parser | forward | radio, UDP |
| **Spectrometer server** (research) `Server.hpp`, `Camera.cpp`, `main.cpp` | sessions, current message, frame buffers | accept, send, dequeue, stop, destructors | boost::asio strands, V4L2, TCP |
| **Spectrometer client** (research) | decoder state | decode, show | TCP |

What is hard in it:

* *Failure without a trace.* The results of `read`, `write`, `fsync` and
  `ioctl` are ignored on board: a failed read leaves the old value (or an
  uninitialised one), so the mission runs on stale or absurd data; a message
  whose write or sync failed is sent all the same.
* *Resets.* The phase is only in RAM; charges stay spent.
* *Timeouts in truncated seconds, read once per iteration*, beside blocking
  reads of the GPS port and a computed `usleep`.
* *Two threads in `send_telem` without a lock, and losses of power* between a
  write and its sync.
* *Shared structures under concurrency*: the sound hub's list is iterated by
  one thread while the other appends to it; the server's list of sessions
  changes under a chain of asynchronous writes that holds an iterator into it;
  a web page polls a set while it is written and expired.
* *Shutdown* of objects that asynchronous handlers still refer to.
* *Loss, duplication and reordering* between the Pi and the ground, under a
  protocol that ignores headers while it accumulates, with two counters that
  the page takes for one.

Correctness, per part: the charges fire once, in order, never on the ground,
and the legs within the timeout (main loop); the buffer is not overrun and a
sentence is what was received (GPS); what was sent is logged, unless the card
reported an error about it, and no log is overwritten (telemetry); what is saved is complete, and the listeners recover
(spectrum); a sample in view is neither expired nor missed by the chart (store
and page); a subscriber that is there gets each datagram once and one that has
gone is removed (sound hub); the servo never stands where no whole transfer
sent it (servo); no frame buffer is lost, no client is passed over, and the
server stops (spectrometer server).

The list of hazards with their lines is in `PROJECT.json`.

## 2. Modules and the code

### Mission and Flight

`Mission` is the abstract promise: phases of `gr_state_t` one at a time, the
charge of a phase fires exactly when the phase is left, a reset starts over
with the charges spent. `Flight` is the main thread: `pc` names the next `if`
of the loop, and one action is one `if` with the sensor read before it.

| Action | Code |
|---|---|
| `Boot`, `BootFail` | lines 131–304 up to the loop; `return 1` without radio or file |
| `LoadTimer`, `ChuteTimer` | 306–315 |
| `ReadTsl`, `ReadBaro`, `CheckLegs`, `CheckDescent` | 317–365 |
| `ReadSonar`, `Cut` | 368–397; the `usleep` lies between them |
| `Gps`, `Status` | 399–442 |
| `Reboot` | a reset of the board: RAM is lost, `spent` is not |

Abstractions. Time is in ticks, and `Sec` truncates as `tv_sec` does. A
pressure is the height where it prevails, or `ZeroPressure`, what
`bmp280_result` holds until a read succeeds; `Alt` is then the difference of
heights, or −∞, +∞ or NaN with the comparisons IEEE gives them. Sensors return
any value of a small set or fail and leave the old one. `luminosity` and
`distance` start with any value, as they are not initialised. The delay of the
cut is what the code computes; where its conversion to `useconds_t` is
undefined both saturated outcomes are possible.

### GpsReader

`_parseGPS`, a byte per step. `heard` and `clean` are history variables: what
arrived since the `$`, and whether no read failed meanwhile. `top` is the
highest index touched. The receiver (external) sends anything, and fails, until
it settles.

### Telemetry

`send_telem` of both threads, with a step per system call, so that each thread
may be between the other's write and sync. `Start` chooses any unused name: the
code takes the first for which `stat` says ENOENT, and skips a name for which
it says anything else. `PowerLoss` (external) keeps at least what was synced of
the open file, and may lose its name if nothing was. A message is the record of
who sent it when. That the main loop runs at a higher priority is not used:
every interleaving is allowed. A `write` is all or nothing. An `fsync` makes
all that is in the file durable, or it fails: then the end of what was not
durable may be lost, whichever thread wrote it, and since an error is reported
once per open file, a later sync by the other thread may succeed without it. So
a failed sync puts all that was not durable (`Unsafe`) into `failed`, where a
failed `write` puts its own message, and `LoggedBeforeSent` excepts exactly
those: `send_telem` looks at neither result and sends them.

`Recorder` is the abstract promise, without threads, buffers or the order of
system calls: a file only grows, a flight starts a file of its own, and a
message leaves the CanSat only if the card has it for good or has reported an
error that concerns it. `Telemetry` maps to it with `disk` the synced beginning
of each file that has a name (`OnCard`), `refused` the messages in `failed`, and
`sent` what was handed to the radio or to the Pi; writing to the file is then a
stutter, a successful `fsync` the step that records and a failing `write` or
`fsync` one that refuses.

### SpectrumLink

`SpectrumAggregator.accept_message` with its two listeners, `PictureSaver` and
a restart of `mavlinkapp`. A picture or a spectrum is a sequence of packets
that remember their round. The transmitter is modelled on
`MavSender.send_picture` of `spectro/live_stream.py`, which sends the header as
a `DATA_TRANSMISSION_HANDSHAKE`; the program that sends `PICTURE_HEADER` and
`INTENSITY_HEADER`, which the ground expects, is not in the repository, and is
assumed to number its packets the same way. Cutting the data to the announced
size only removes the padding of the last packet and is left out.
The channel (external) loses, repeats and swaps messages until it becomes
reliable.

### TelemetryStore, ChartPage and StatusPanel

`TelemetryStore` is one sorted set and `update_zset`: `Receive` takes the
timestamp, `Add` and `Expire` are the two redis transactions, `Restart` may
come between any two of them. As in the code the member is the message alone:
an equal message moves the member of the earlier one, although the comment in
`update_zset` (line 33) wants a timestamp in the message to keep them apart; so
the set holds the last reception of each content, and `VisibleKept` is stated
for that. One clock serves both processes (they run on one machine) and does
not step back.

`ChartPage` and `StatusPanel` extend the store with its readers. A poll of a
chart goes through `Send` (the page), `Begin` and `Query` once per dataset (the
route), `Answer` (the page's callback) or `Fail`; polls are a sequence and may
be in any of these states together, as the page sends without waiting. `Trim`
is the loop of `shift`. In `StatusPanel` the timer of `updateStatus` names the
function it calls next, and the callback reads the field `status` of an answer
whose fields are those of a stored `GRANUM_STATUS` (`AnswerFields`). The timer's
`updateModel` asks the status route once more, as if for an attitude, raises on
the answer and then polls the attitude; as it never touches the text of the
status, it is left out.

### ServoLink

`set_servo` sends a pulse width as two bytes after the address; one action per
event of the bus, each with what `I2C_IRQHandler` does at it. `Stop` may cut
the transfer after any byte and `Reset` restarts the STM8. `target` is a
history variable: the last width that was transferred whole. The handler is
assumed to see each event on its own: it takes microseconds, a byte on the
100 kHz bus takes ninety.

### SoundHub

`it` is the index of Python's list iterator, which `SendFails` does not correct
when it removes an element: the neighbour slides into its place and is passed
over. `NewRound` (a datagram, or the timeout) to `EndRound` is one pass of the
`for`; `Accept` is the other thread, atomic under the interpreter lock. The
connections (`sound.py` at the other end) are closed, or reset if data was
unread; to a closed one `send` succeeds once more. `present`, `got` and `slid`
are history variables of one pass.

### Spectrometer

`Server`, `Camera` and `main`. `main` creates one io thread, so handlers do not
overlap, and a dispatch from a handler of one strand to the other runs inside
it: one handler is one step (`OnFrame` is the read handler of the camera with
`send_message` and the first step of the chain). An asynchronous operation is a
variable (`accept`, `write`, `read`): waiting, complete with a result that its
handler has not seen yet, or aborted; closing aborts only what is not complete.
`main` waits for what it posts, so `StartServer`, `StopServer`, `CloseCamera`
are single steps, once in `main` and again in the destructors. Where the code's
behaviour is undefined or throws out of a handler the model chooses:
`WrittenDangling` (the iterator points to a node that `stop` has freed) crashes
or goes on to the end of the list; `remote_endpoint()` of a client that is gone,
a driver that refuses the buffer of a frame that ends (`RequeueFails`: the
exception leaves a destructor) and a failing `STREAMOFF` end in `terminated`.
Only the `STREAMOFF` of `cam.close()` is caught by `main`, which goes on to the
destructors; the pending read has been cancelled by then.

## 3. Runs

| Run | Shows | Bounds |
|---|---|---|
| `flight_safety` | type and eight safety properties, and that `Flight` implements `Mission` | half-second ticks, delays and timeouts of one second, three heights around the thresholds, one reset anywhere |
| `flight_liveness` | the legs' timeout fires, the landing is reported, the mission completes | ticks of a second, one reset anywhere, a horizon that lets every timer run out |
| `gps_reader` | no overrun, sentences framed and intact, resynchronisation | buffer of 5, 2 reads per call, sentences of 4: the longest that fits, and longer than a call |
| `telemetry` | logged before sent, order, and that `Telemetry` implements `Recorder` | 2 names, 3 messages, 2 starts, an IMU message every second sample |
| `spectrum_link` | saved data complete, pairs match unless the channel impaired something, files present | pictures of 2 or 3 packets, 3 rounds, 2 messages under way, 1 restart |
| `spectrum_recovery` | the listeners recover | pictures of 2 packets, 4 rounds |
| `chart_page` | what is in view is kept, nothing is missed, the line is in order unless polls overlap | 2 messages, 2 datasets, 2 polls, a clock of 4 instants, retention one longer than the view |
| `status_panel` (violation) | no status is ever shown | 2 statuses |
| `servo_link` | pulse in range, never torn | the constants of the code; angles at and beyond both ends |
| `sound_hub` | who misses a datagram, who is removed | 4 connections, buffers of 1 datagram |
| `spectrometer` | buffers, the chain, each message ends | 3 clients that may come back, 2 buffers |
| `spectrometer_stop` (violation) | `stop()` keeps the sessions of an idle server | 2 clients, 2 buffers |

The bounds are the least at which each guard is taken both ways, each counter
reaches its limit, and two actors are inside the same operation; the mutants in
`PROJECT.json` confirm that each property can fail at them. Constants that are
large in the code (300 s, 256 bytes, 10000 files) are small here; the proofs
hold for all values. The bounds of the models (`Horizon`, `MaxReboots`,
`MaxMsgs`, `MaxBoots`, `MaxRounds`, `Window`, `MaxRestarts`, `MaxTime`, `MaxPolls`) are named in the
modules; they stop actions or the clock and are used for nothing else. Deadlock is not checked where a model ends
at such a bound or the program may really stop (`main` returns).

### Fairness

* `Flight`: weak fairness of `Boot` and of the loop. The loop waits for its own
  sleeps and for bytes of the GPS receiver only; `LegsTimeoutFires` and
  `LandingReported` need no more. With a receiver that is silent the code has no
  timeout, and neither would hold. `MissionCompletes` also assumes that the
  flight happens: that sooner or later the sensors answer in daylight, low, and
  near the ground (strong fairness, since they may fail any number of times).
* `GpsReader`: weak fairness of the calls and reads.
* `SpectrumLink`: the transmitter and `mavlinkapp` keep running. No fairness of
  the channel: the property starts when it has become reliable.
* `Spectrometer`: the io thread runs a handler that is ready, `main` goes on
  once it has begun to shut down, and a write to a client completes: the client
  takes the bytes or its connection is found lost. Nothing makes a client
  connect or a signal come. The code has no timeout for a client that keeps its
  connection and reads nothing; `MessageFinishes` would not hold with it.
* `SoundHub`: the forwarder goes on, its timeout comes (`settimeout(1)`), and a
  request that has not left goes on reading. No sound has to arrive.
* `StatusPanel`: due timers fire and requests are answered; the run refutes the
  property in spite of it.

### What the runs say about the code

* The order and uniqueness of the charges rest on one place,
  `_translate_state`, and hold for every sensor history and reset.
* With the first read of the barometer failed, the altitude is NaN and nothing
  deploys until a read succeeds; from then on it is −∞ and both altitude
  thresholds are met at once. `BlindNeverDeploys` is the first half; the second
  is why the property does not say more.
* The legs come out up to one second and one iteration after the 30 seconds.
* `Recovers` holds for pictures of equal size. With changing sizes a listener
  left waiting for packet *n* ignores every picture of at most *n* packets, and
  after any loss a saved picture may be put together from two transmissions, of
  complete length; `MatchingUnlessImpaired` says that this takes an impairment.
* The order of a chart rests on polls that do not overlap; with overlapping
  ones points are repeated, but none is missed. In the second and third dataset
  points may be repeated without overlap, since the three queries see different
  sets and share the time stamp of the first.
* A sound subscriber misses a datagram only if it stands right after one that
  is removed, or in the place it left; the heartbeat of the timeout clears the
  list even when several break at once and hide each other.
* `stop()` of the spectrometer server tests the wrong way round
  (`Server.hpp:133`): with a message under way it clears the list the chain
  still points into; with none it leaves the sessions, and `~Server` waits for
  ever for an empty list. Run `spectrometer_stop` shows the second.
* The page never shows a status, although `configs/base.py:75` gives the period
  of refreshing it, for two reasons: `mcc_status.js:7` reads `data.status` where
  the answer has `state`, and `mcc_status.js:14` sets the timer to `updateModel`,
  so that the status is asked for once. In run `status_panel` a status is stored
  and stays the newest, and the page goes on showing the text it was loaded with
  ("No-state"). With only one of the two corrected the property is still
  violated; with both it holds.
* What the ground has received may be missing on the card if a write or a sync
  failed, since `send_telem` looks at neither result (`common.c:13-14`).

## 4. Proofs

All proofs are by an inductive invariant, `Inv` or `IInv`: `Init` implies it, a
lemma per action shows that the action preserves it, and `THEOREM Invariance`
(`StoreInvariance` for the store) puts these together. They start from the
named assumptions of the modules, which mostly say that constants have their
type. Those that say more: `SizeAssumption` (a buffer of more than two bytes),
`CountAssumption` (the two periods fit a `uint8_t`), `FloatAssumption` (the
special values are no integers), `ServoAssumption` (pulse widths fit 16 bits),
`HubAssumption` (a connection has room for one datagram),
`SpectrometerAssumption` (clients, buffers and the tags of an operation are
different things, and there is a buffer), `StoreAssumption` (the view is
shorter than the retention time, as in `configs/base.py`), `PageAssumption` (messages
are numbers, which stands for the order redis gives to members of equal score).

* **FlightProofs.** The properties are not inductive alone. `Inv` adds to the
  types that each charge's shots match the phase, that `spent` has what was
  shot since the reset and is closed under the mission order, that in phases
  after READY the load delay has passed, how `current_time`, `clock` and
  `chute_open_time` relate at each `pc`, that the counters are below their
  limits whenever they are tested, and that a zero pressure means a phase no
  later than FREE_FALL. From it: `TypeCorrect`, `PyroOrderHolds`,
  `FiredOnceHolds`, `SafeOnGroundHolds`, `LegsDeadlineHolds`,
  `DescentCounterHolds`, `BlindNeverDeploysHolds`, `StatusTruthfulHolds`,
  `NeverBackHolds`, and `Refinement` (every step is a step of `Mission` or a
  stutter).
* **GpsReaderProofs.** `Collecting`: the caret is as long as what was heard, and
  the buffer agrees with it if no read failed. From it `TypeCorrect`,
  `InBoundsHolds`, `FramedHolds`, `IntactHolds`. `StaysInStepHolds` is the
  safety half of `Resynchronises`: once the receiver has settled and the caret
  stands where the receiver is in its sentence, this remains so and every
  sentence returned is the receiver's. The liveness, that the reader gets there,
  is left to TLC.
* **TelemetryProofs.** A thread past its sync has its message recorded for good,
  one before it has it in the open file, or else the card has reported an error
  about it, which a failed sync does for all that it takes (`SentOK`); the open file has a name and
  holds only this start's messages, older than what its threads are about to
  write (`CardOK`, `EntriesOK`, `NumbersOK`). `CardKept` is the action-level
  half: no step shortens or changes what is durable. From them `TypeCorrect`,
  `LoggedBeforeSentHolds`, `LogOrderHolds`, `NoOverwriteHolds` (no step changes
  what is durable), and `Refinement`: every step is a step of `Recorder` or a
  stutter. `DiskStep` is the half about the card, a case per action that touches
  it; `RecordedOnCard` reads `SentOK` as what `Recorder` asks of a message
  before it is sent.
* **SpectrumLinkProofs.** An accumulating listener has exactly the packets below
  the number it waits for, in order, and waits for one that was announced
  (`ListenersOK`); the messages under way are messages that were sent
  (`ChannelOK`). From it `TypeCorrect`, `SavedCompleteHolds` and
  `PictureFileHolds`. `MatchingHolds` needs more, since it speaks of what was
  sent and not only of what arrived: a *cursor* is a place in the transmitter's
  sequence of messages, a *route* gives a cursor for each gap between the
  messages under way, each message leading from one cursor to the next, from
  the place the listeners have reached to the place the transmitter has reached.
  `Aligned` says that there is a route unless something was impaired. Sending
  lengthens the route at its end, receiving shortens it at its beginning.
  Routes carry a *shift* per stream, by how many pieces the listener has counted
  less than were sent; without impairment it is 0. `StaysInStepHolds` is about
  what comes after an impairment: over a reliable channel listeners that have a
  route with any shift keep it, every piece counted from then on comes from the
  one round its number stands for, and the two numbers stay as far apart as the
  losses have left them, give or take the picture whose spectrum is on its way.
  `QuietIsInStep` says when there is such a route: if nothing is on its way and
  everybody is at a header, whatever was lost before.
* **ChartPageProofs.** About the store, whatever its readers do: a member
  carries the time its message was last received, or is gone, and no timestamp
  lies ahead of the clock (`Scores`); so no expiry, not even one that a restart
  interrupted, removes what is in view (`VisibleKeptHolds`). `PageOnlyReads`:
  under its readers the store still satisfies `StoreSpec`. About the page: no
  sample will be written below `NextScore`; what is older than the last update
  and in view is on the chart (`Covered`), and each dataset of an answer under
  way has all of the range that the page will take for known once it has the
  answer (`Complete`), also if the last update it asked with is no longer the
  page's; unless polls overlap, one at most is under way and goes on from where
  the chart ends (`OneAtATime`). From them `TypeCorrect`, `NothingMissedHolds`,
  `OrderedHolds`, and `GoesForwardHolds` (the last update never goes back unless
  polls overlap). They need that the answer of redis exists: `Sortable` shows
  that a finite set of samples has an ordered sequence, by looking at a smallest
  subset that would have none (`MinimalSubset`) instead of an induction.
* **ServoLinkProofs.** `InStep`: while a transfer runs the handler expects the
  byte the master sends next, and before the second byte it holds the first one
  of the same transfer; between transfers nothing is known of it. From it `PulseInRange` and `UntornHolds`; `QuotientBound` is the arithmetic of
  `set_servo`, which divides after it has multiplied.
* **SoundHubProofs.** `Accounted`: a connection is in the list at most once and
  only after it was accepted. A removal shifts the rest of the list under the
  iterator; `Removed` says where each element goes. From both `TypeCorrect` and
  `MissedOnlyNextToRemovedHolds`. `OnlyBrokenLeaveHolds` is the safety half of
  `GoneIsRemoved`: the list loses only connections that were reset, and none of
  them comes back.
* **SpectrometerProofs.** `Sent`: a write is of a message, and while the camera
  streams every buffer but the message's is queued; `Listed`: a client has one
  session at most; `Once`: the iterator is in the list, and the sessions from it
  on are those that are due the message and have not got it. `FromNext`, `Erased` and `Prepended` say what a step
  of the iterator, an erased and a new session do to the part of the list ahead.
  From it `TypeCorrect`, `NoBufferLost`, `NobodyPassedOver`, and
  `ChainAdvancesHolds`, the safety half of `MessageFinishes`: each answer to a
  write takes one client from the set of those ahead, nothing adds to it, and
  the message is given up only with the last one.

Every safety property that a run checks, and both refinements, have a theorem.
Only model-checked is what is temporal under fairness, which is out of the
prover's reach: `LegsTimeoutFires`, `LandingReported`, `MissionCompletes`,
`Resynchronises`, `Recovers`, `GoneIsRemoved`, `MessageFinishes`, and the two
properties of the violation runs, `StatusRefreshed` and `IdleStopClears`. For
`Resynchronises`, `Recovers`, `GoneIsRemoved` and `MessageFinishes` the theorems
named above show that what is reached is not lost again, or that each step gets
nearer to it; that it is reached needs the fairness.

## 5. Not modelled

* The attitude filter: floating-point arithmetic without control.
* What minmea makes of a complete NMEA sentence; the contents and encoding of
  MAVLink messages; the bytes of a spectrometer message.
* The relays and the radio bridge: each is one loop that sends on what it has
  received. Their effect is the channel of `SpectrumLink`.
* The map, attitude and spectrum panels: the map polls as a chart does and only
  appends to its track; the other two show the newest answer and keep nothing.
* The sound scripts of the Raspberry Pi and the humidity sensor: one thread,
  one loop of input and output, no state between two passes.
* The spectrometer client: its decoder waits until a whole message is readable
  and starts again otherwise, in one thread of netty; the rest is display.
* Offline analysis, tests and generators of traffic, and all vendored or
  generated code (NuttX, the STM libraries, MAVLink, JavaScript libraries),
  which is nearly all of the repository's volume.

## 6. Plan

Done, in this order: Mission, Flight, GpsReader, Telemetry, SpectrumLink;
TelemetryStore with ChartPage and StatusPanel, Spectrometer, ServoLink,
SoundHub; their proofs.

Then the order of `ChartPage` for a page with one poll at a time; what becomes
of the numbers of pictures and spectra after an impairment; `Recorder`.

What could follow:

1. How many messages must be lost for the numbers of pictures and spectra to
   drift by a given amount: the shift of `SpectrumLinkProofs` says what remains,
   not what it took.
2. The client's decoder over every segmentation of the stream.
