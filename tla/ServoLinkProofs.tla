--------------------------- MODULE ServoLinkProofs ---------------------------
(***************************************************************************)
(* Proofs about ServoLink, for every set of angles and every range that    *)
(* fits into two bytes.                                                    *)
(***************************************************************************)
EXTENDS ServoLink, TLAPS

\* The handler is in step with the master while a transfer runs, and holds the
\* high byte of the very transfer whose low byte comes next.  Between two
\* transfers nothing is known of it: a cut leaves it waiting for either byte.
InStep ==
    /\ bus = "high" => state = "STATE_1BITE"
    /\ bus = "low" => state = "STATE_2BITE" /\ buffer[1] = signal \div 256

IInv == TypeOK /\ InStep /\ Untorn

\* The quotient of a part of a range.
LEMMA QuotientBound ==
    ASSUME NEW x \in Nat, NEW d \in Nat, NEW n \in Nat \ {0}, x <= n
    PROVE  (x * d) \div n \in 0..d
<1> DEFINE q == (x * d) \div n
<1>1. x * d \in Nat /\ x * d <= n * d
  BY SMT
<1>2. q \in Int /\ n * q <= x * d /\ x * d < n * (q + 1)
  <2> HIDE DEF q
  <2> SUFFICES ASSUME NEW p \in Nat, p = x * d
               PROVE  p \div n \in Int /\ n * (p \div n) <= p /\ p < n * ((p \div n) + 1)
    BY <1>1 DEF q
  <2> QED BY SMT
<1> HIDE DEF q
<1>3. q <= d
  <2> SUFFICES ASSUME q >= d + 1 PROVE FALSE
    BY <1>2, SMT
  <2>1. n * q >= n * (d + 1)
    BY <1>2, SMT
  <2> QED BY <2>1, <1>1, <1>2, SMT
<1>4. q >= 0
  <2> SUFFICES ASSUME q + 1 <= 0 PROVE FALSE
    BY <1>2, SMT
  <2>1. n * (q + 1) <= 0
    BY <1>2, SMT
  <2> QED BY <2>1, <1>1, <1>2, SMT
<1> QED BY <1>2, <1>3, <1>4 DEF q

\* Whatever the angle, map() stays in the range of the servo.
LEMMA MapInRange ==
    ASSUME NEW x \in Int
    PROVE  map(x) \in OutMin..OutMax
<1>1. CASE x > InMax
  BY <1>1, ServoAssumption DEF map
<1>2. CASE x < 0
  BY <1>2, ServoAssumption DEF map
<1>3. CASE x \in 0..InMax
  <2>1. (x * (OutMax - OutMin)) \div InMax \in 0..(OutMax - OutMin)
    BY <1>3, QuotientBound, ServoAssumption
  <2> QED BY <1>3, <2>1, ServoAssumption DEF map
<1> QED BY <1>1, <1>2, <1>3, ServoAssumption

\* The two bytes of a pulse width make it up again.
LEMMA BytesOf ==
    ASSUME NEW s \in OutMin..OutMax
    PROVE  /\ s \div 256 \in Byte /\ (s \div 256) % 256 = s \div 256
           /\ s % 256 \in Byte
           /\ (s \div 256) * 256 + (s % 256) = s
<1>1. s \in Nat /\ s < 65536
  BY ServoAssumption
<1>2. s \div 256 \in Byte
  BY <1>1 DEF Byte
<1>3. s % 256 \in Byte
  BY <1>1 DEF Byte
<1>4. (s \div 256) * 256 + (s % 256) = s
  BY <1>1, <1>2, <1>3, SMT DEF Byte
<1>5. ASSUME NEW h \in Byte PROVE h % 256 = h
  BY <1>5 DEF Byte
<1> QED BY <1>2, <1>3, <1>4, <1>5

LEMMA InitIInv == Init => IInv
BY ServoAssumption DEF Init, IInv, TypeOK, InStep, Untorn, Byte

LEMMA NextIInv == IInv /\ [Next]_vars => IInv'
<1> SUFFICES ASSUME IInv, [Next]_vars PROVE IInv'
  OBVIOUS
<1> USE DEF IInv, TypeOK, InStep, Untorn
<1>1. ASSUME NEW a \in Angles, Start(a) PROVE IInv'
  <2>1. map(a) \in OutMin..OutMax
    BY MapInRange, ServoAssumption
  <2> QED BY <1>1, <2>1 DEF Start, AddressMatched
<1>2. CASE High
  BY <1>2, BytesOf DEF High, ByteReceived, Byte
<1>3. CASE Low
  <2>1. /\ buffer' = <<buffer[1], signal % 256>> /\ state' = "STATE_1BITE"
        /\ compare' = buffer[1] * 256 + (signal % 256) /\ buffer[1] = signal \div 256
    BY <1>3 DEF Low, ByteReceived
  <2>2. compare' = signal
    BY <2>1, BytesOf
  <2>3. buffer' \in Byte \X Byte
    BY <2>1, BytesOf
  <2> QED BY <1>3, <2>1, <2>2, <2>3 DEF Low
<1>4. CASE Stop
  BY <1>4 DEF Stop
<1>5. CASE Reset
  BY <1>5, ServoAssumption DEF Reset, Byte
<1>6. CASE UNCHANGED vars
  BY <1>6 DEF vars
<1> QED BY <1>1, <1>2, <1>3, <1>4, <1>5, <1>6 DEF Next

\* The inductive invariant, over any number of transfers, cuts and resets.
THEOREM Invariance == Spec => []IInv
BY InitIInv, NextIInv, PTL DEF Spec

\* Whatever angle is asked for and wherever transfers are cut or the STM8 is
\* reset, the pulse of the servo is in its range.
THEOREM PulseInRange == Spec => []TypeOK
<1>1. IInv => TypeOK
  BY DEF IInv
<1> QED BY Invariance, <1>1, PTL

\* The servo never stands at a position made of bytes of two transfers.
THEOREM UntornHolds == Spec => []Untorn
<1>1. IInv => Untorn
  BY DEF IInv
<1> QED BY Invariance, <1>1, PTL
=============================================================================
