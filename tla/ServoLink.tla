------------------------------ MODULE ServoLink ------------------------------
(***************************************************************************)
(* The servo of the spectrometer: set_servo of servo.py maps an            *)
(* angle to a pulse width and writes it as two bytes over I2C; the         *)
(* interrupt handler of the STM8 puts the bytes together and loads the     *)
(* compare register of its timer.  A transfer may be cut after any byte    *)
(* and the STM8 may be reset at any time; the handler is fast enough to    *)
(* see each bus event on its own (100 kHz bus, no other interrupt).        *)
(***************************************************************************)
EXTENDS Integers

CONSTANTS
    Angles,           \* the arguments of set_servo
    InMax,            \* 180 degrees (in_min is 0)
    OutMin, OutMax,   \* 1600 and 5000 ticks
    Centre            \* the pulse after a reset, 4000

ASSUME ServoAssumption ==
    /\ Angles \subseteq Int
    /\ InMax \in Nat \ {0}
    /\ OutMin \in Nat /\ OutMax \in Nat /\ OutMin <= OutMax /\ OutMax < 65536
    /\ Centre \in OutMin..OutMax

VARIABLES
    bus,       \* what the master sends next, "idle" between transfers
    signal,    \* the pulse width it is sending
    state,     \* state of the handler, "STATE_1BITE" or "STATE_2BITE"
    buffer,    \* Slave_Buffer_Rx
    compare,   \* the timer's compare register
    target     \* history: the pulse of the last transfer that was whole

vars == <<bus, signal, state, buffer, compare, target>>

Byte == 0..255

\* Mutant: angles beyond the range are not clamped.
map_NoClamp(x) == (x * (OutMax - OutMin)) \div InMax + OutMin
\* map() of servo.py.
map(x) == IF x > InMax THEN OutMax
          ELSE IF x < 0 THEN OutMin
          ELSE (x * (OutMax - OutMin)) \div InMax + OutMin

\* Mutant: the handler does not start over at a new transfer.
AddressMatched_KeepsState == UNCHANGED state
\* I2C_EVENT_SLAVE_RECEIVER_ADDRESS_MATCHED
AddressMatched == state' = "STATE_1BITE"

\* I2C_EVENT_SLAVE_BYTE_RECEIVED: the STM8 is big-endian.
ByteReceived(b) ==
    \/ /\ state = "STATE_1BITE"
       /\ buffer' = <<b, buffer[2]>>
       /\ state' = "STATE_2BITE"
       /\ UNCHANGED compare
    \/ /\ state = "STATE_2BITE"
       /\ buffer' = <<buffer[1], b>>
       /\ compare' = buffer[1] * 256 + b
       /\ state' = "STATE_1BITE"

-----------------------------------------------------------------------------
\* set_servo(a): the transfer starts with the address.
Start(a) ==
    /\ bus = "idle"
    /\ bus' = "high" /\ signal' = map(a)
    /\ AddressMatched
    /\ UNCHANGED <<buffer, compare, target>>

High ==
    /\ bus = "high" /\ bus' = "low"
    /\ ByteReceived((signal \div 256) % 256)
    /\ UNCHANGED <<signal, target>>

Low ==
    /\ bus = "low" /\ bus' = "stop"
    /\ ByteReceived(signal % 256)
    /\ target' = signal
    /\ UNCHANGED signal

\* The stop condition, after the last byte or too early (an error on the bus):
\* the handler clears flags only.
Stop ==
    /\ bus # "idle" /\ bus' = "idle"
    /\ UNCHANGED <<signal, state, buffer, compare, target>>

\* The STM8 starts anew and is not addressed any more.
Reset ==
    /\ bus' = "idle"
    /\ state' = "STATE_1BITE" /\ buffer' = <<0, 0>>
    /\ compare' = Centre /\ target' = Centre
    /\ UNCHANGED signal

Init ==
    /\ bus = "idle" /\ signal = OutMin
    /\ state = "STATE_1BITE" /\ buffer = <<0, 0>>
    /\ compare = Centre /\ target = Centre

Next == (\E a \in Angles : Start(a)) \/ High \/ Low \/ Stop \/ Reset
Spec == Init /\ [][Next]_vars

-----------------------------------------------------------------------------
\* The pulse the servo gets is always inside its range, although the timer is
\* loaded with two raw bytes off the bus (the rest states the types).
TypeOK ==
    /\ bus \in {"idle", "high", "low", "stop"}
    /\ signal \in OutMin..OutMax
    /\ state \in {"STATE_1BITE", "STATE_2BITE"}
    /\ buffer \in Byte \X Byte
    /\ compare \in OutMin..OutMax /\ target \in OutMin..OutMax

\* The servo stands where one whole transfer sent it, the last one since the
\* reset: never at a position put together from the bytes of two transfers,
\* wherever transfers are cut (I2C_IRQHandler).
Untorn == compare = target
=============================================================================
