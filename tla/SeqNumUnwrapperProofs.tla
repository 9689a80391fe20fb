----------------------- MODULE SeqNumUnwrapperProofs ------------------------
(***************************************************************************)
(* The unwrappers follow the sender, for every modulus.                    *)
(***************************************************************************)
EXTENDS SeqNumUnwrapper, TLAPS

\* What the unwrapper has and what the sender sent differ by whole circles.
RemainderInv ==
  last_value_ # None =>
    /\ last_value_ = number % M
    /\ \E q \in Int : last_unwrapped_ = q * M + last_value_

IInv == TypeOK /\ RemainderInv /\ ExactInStep /\ UnwrappersAgree
-----------------------------------------------------------------------------
LEMMA Remainders ==
  ASSUME NEW n \in Int
  PROVE  n % M \in Values /\ \E q \in Int : n = q * M + (n % M)
<1>1. n % M \in Values
  BY ModulusAssumption DEF Values
<1>2. n = (n \div M) * M + (n % M) /\ n \div M \in Int
  BY ModulusAssumption
<1> QED
  BY <1>1, <1>2

LEMMA RemainderUnique ==
  ASSUME NEW q \in Int, NEW v \in Values
  PROVE  (q * M + v) % M = v
BY ModulusAssumption DEF Values

LEMMA HalfOfModulus ==
  /\ M \div 2 \in Nat
  /\ M % 2 = 0 => M = 2 * (M \div 2)
  /\ M % 2 # 0 => M = 2 * (M \div 2) + 1
BY ModulusAssumption

\* The remainders of two numbers that are less than M / 2 apart tell how far
\* the numbers are apart and in which direction.
LEMMA ShortWay ==
  ASSUME NEW x \in Int, NEW y \in Int, 2 * (y - x) < M, 2 * (x - y) < M
  PROVE  forward_diff(x % M, y % M) - (IF ahead_or_at(y % M, x % M) THEN 0 ELSE M) = y - x
<1> DEFINE v == x % M  w == y % M
<1>1. PICK p \in Int : x = p * M + v
  BY Remainders
<1>2. PICK q \in Int : y = q * M + w
  BY Remainders
<1>3. v \in Values /\ w \in Values
  BY Remainders
<1> HIDE DEF v, w
<1>4. y - x = (q - p) * M + (w - v)
  BY <1>1, <1>2, <1>3, ModulusAssumption DEF Values
<1>5. q - p \in {-1, 0, 1}
  <2>1. ASSUME q - p >= 2 PROVE FALSE
    <3>1. (q - p) * M >= 2 * M
      BY <2>1, ModulusAssumption
    <3> QED
      BY <3>1, <1>3, <1>4, ModulusAssumption DEF Values
  <2>2. ASSUME q - p <= -2 PROVE FALSE
    <3>1. (q - p) * M <= (-2) * M
      BY <2>2, ModulusAssumption
    <3> QED
      BY <3>1, <1>3, <1>4, ModulusAssumption DEF Values
  <2> QED
    BY <2>1, <2>2
<1>6. y - x \in {w - v, w - v + M, w - v - M}
  BY <1>4, <1>5, <1>3, ModulusAssumption DEF Values
<1>7. forward_diff(v, w) - (IF ahead_or_at(w, v) THEN 0 ELSE M) = y - x
  BY <1>3, <1>6, HalfOfModulus, ModulusAssumption
  DEF Values, forward_diff, reverse_diff, min_diff, Smaller, ahead_or_at
<1> QED
  BY <1>7 DEF v, w

\* What unwrap() adds: a way from one value to the other, and a short one.
LEMMA StepOfUnwrap ==
  ASSUME NEW v \in Values, NEW w \in Values
  PROVE  LET d == forward_diff(v, w) - (IF ahead_or_at(w, v) THEN 0 ELSE M)
         IN  d \in {w - v, w - v + M, w - v - M} /\ 2 * d <= M /\ -(2 * d) <= M
BY HalfOfModulus, ModulusAssumption
   DEF Values, forward_diff, reverse_diff, min_diff, Smaller, ahead_or_at

\* The tie-break of the C function and of ahead_or_at() are the same.
LEMMA SameTieBreak ==
  ASSUME M % 2 = 0, NEW v \in Values, NEW w \in Values
  PROVE  NotBehind(v, w) <=> ahead_or_at(w, v)
BY HalfOfModulus, ModulusAssumption
   DEF Values, forward_diff, reverse_diff, min_diff, Smaller, ahead_or_at, NotBehind

LEMMA InitIInv == InitUnwrapper => IInv
BY NoneAssumption, BoundsAssumption
   DEF InitUnwrapper, IInv, TypeOK, RemainderInv, ExactInStep, UnwrappersAgree, Numbers

LEMMA UnwrapIInv ==
  ASSUME IInv, NEW n \in Numbers, Unwrap(n)
  PROVE  IInv'
<1> DEFINE w == n % M
           d == forward_diff(last_value_, w) - (IF ahead_or_at(w, last_value_) THEN 0 ELSE M)
<1>1. n \in Int /\ w \in Values
  BY Remainders, BoundsAssumption DEF Numbers
<1>2. TypeOK /\ RemainderInv /\ ExactInStep /\ UnwrappersAgree
  BY DEF IInv
<1>3. /\ last_unwrapped_' = unwrap(w) /\ last_value_' = w
      /\ last_unwrapped' = c_unwrap(w) /\ last_value' = w
      /\ number' = n
      /\ base' = IF last_value_ = None THEN n - w ELSE base
      /\ in_step' = (in_step /\ (last_value_ # None => 2 * Distance(number, n) < M))
  BY DEF Unwrap
<1>4. w # None
  BY <1>1, NoneAssumption
<1>5. CASE last_value_ = None
  <2>1. last_unwrapped_' = w
    BY <1>3, <1>5 DEF unwrap, UnwrapAdjusted
  <2>2. M % 2 = 0 => last_unwrapped' = w
    BY <1>2, <1>3, <1>5 DEF c_unwrap, UnwrappersAgree
  <2>3. last_unwrapped' \in Int
    <3>1. last_value = None => c_unwrap(w) = w
      BY DEF c_unwrap
    <3>2. last_value # None => c_unwrap(w) \in Int
      BY <1>1, <1>2, ModulusAssumption DEF c_unwrap, TypeOK, forward_diff, Values
    <3> QED
      BY <3>1, <3>2, <1>1, <1>3 DEF Values
  <2>4. TypeOK'
    <3> HIDE DEF w
    <3> QED
      BY <1>1, <1>2, <1>3, <1>5, <2>1, <2>3 DEF TypeOK, Values
  <2>5. RemainderInv'
    <3>1. last_unwrapped_' = 0 * M + last_value_' /\ 0 \in Int
      BY <2>1, <1>3, <1>1, ModulusAssumption DEF Values
    <3> QED
      BY <3>1, <1>3 DEF RemainderInv
  <2>6. ExactInStep'
    <3>1. number' = n /\ base' = n - w
      BY <1>3, <1>5
    <3> HIDE DEF w, d
    <3>2. n = (n - w) + w
      BY <1>1 DEF Values
    <3> QED
      BY <2>1, <3>1, <3>2 DEF ExactInStep
  <2>7. UnwrappersAgree'
    BY <2>1, <2>2, <1>3 DEF UnwrappersAgree
  <2> QED
    BY <2>4, <2>5, <2>6, <2>7 DEF IInv
<1>6. CASE last_value_ # None
  <2>1. last_value_ \in Values /\ last_value_ = number % M /\ number \in Int
    BY <1>2, <1>6, BoundsAssumption DEF TypeOK, RemainderInv, Numbers
  <2>2. d \in Int /\ d \in {w - last_value_, w - last_value_ + M, w - last_value_ - M}
    <3> HIDE DEF w
    <3> QED
      BY <1>1, <2>1, StepOfUnwrap, ModulusAssumption DEF Values
  <2>3. last_unwrapped_' = last_unwrapped_ + d
    <3>1. forward_diff(last_value_, w) \in Int /\ last_unwrapped_ \in Int
      BY <1>1, <1>2, <2>1, ModulusAssumption DEF TypeOK, forward_diff, Values
    <3>2. last_unwrapped_' = last_unwrapped_ + forward_diff(last_value_, w)
                               - (IF ahead_or_at(w, last_value_) THEN 0 ELSE M)
      BY <1>3, <1>6 DEF unwrap, UnwrapAdjusted
    <3> HIDE DEF w
    <3> QED
      BY <3>1, <3>2, ModulusAssumption
  <2>4. M % 2 = 0 => last_unwrapped' = last_unwrapped_'
    <3>1. SUFFICES ASSUME M % 2 = 0 PROVE c_unwrap(w) = unwrap(w)
      BY <1>3
    <3>2. last_value = last_value_ /\ last_unwrapped = last_unwrapped_
      BY <3>1, <1>2 DEF UnwrappersAgree
    <3>3. NotBehind(last_value_, w) <=> ahead_or_at(w, last_value_)
      BY <3>1, <1>1, <2>1, SameTieBreak
    <3> HIDE DEF w
    <3> QED
      BY <3>2, <3>3, <1>6 DEF c_unwrap, unwrap, UnwrapAdjusted
  <2>5. last_unwrapped' \in Int
    <3>1. last_value = None => c_unwrap(w) = w
      BY DEF c_unwrap
    <3>2. last_value # None => c_unwrap(w) \in Int
      BY <1>1, <1>2, ModulusAssumption DEF c_unwrap, TypeOK, forward_diff, Values
    <3> QED
      BY <3>1, <3>2, <1>1, <1>3 DEF Values
  <2>6. TypeOK'
    <3> HIDE DEF w, d
    <3> QED
      BY <1>1, <1>2, <1>3, <1>6, <2>2, <2>3, <2>5 DEF TypeOK, Values
  <2>7. RemainderInv'
    <3>1. PICK q \in Int : last_unwrapped_ = q * M + last_value_
      BY <1>2, <1>6 DEF RemainderInv
    <3>2. \E r \in Int : last_unwrapped_' = r * M + w
      <4> HIDE DEF w, d
      <4>1. last_unwrapped_' \in {q * M + w, (q + 1) * M + w, (q - 1) * M + w}
        BY <3>1, <2>1, <2>2, <2>3, <1>1, ModulusAssumption DEF Values
      <4> QED
        BY <4>1
    <3> QED
      BY <3>2, <1>3 DEF RemainderInv
  <2>8. ExactInStep'
    <3>1. SUFFICES ASSUME in_step' PROVE n = base + last_unwrapped_ + d
      <4>1. base \in Int /\ last_unwrapped_ \in Int
        BY <1>2 DEF TypeOK
      <4> HIDE DEF w, d
      <4> QED
        BY <1>3, <1>6, <2>2, <2>3, <4>1 DEF ExactInStep
    <3>2. in_step /\ 2 * Distance(number, n) < M
      BY <3>1, <1>3, <1>6
    <3>3. number = base + last_unwrapped_
      BY <3>2, <1>2, <1>6 DEF ExactInStep
    <3>4. 2 * (n - number) < M /\ 2 * (number - n) < M
      BY <3>2, <1>1, <2>1, ModulusAssumption DEF Distance
    <3>5. d = n - number
      BY <3>4, <2>1, <1>1, ShortWay
    <3>6. base \in Int /\ last_unwrapped_ \in Int
      BY <1>2 DEF TypeOK
    <3> HIDE DEF w, d
    <3> QED
      BY <3>3, <3>5, <3>6, <1>1, <2>1
  <2>9. UnwrappersAgree'
    BY <2>4, <1>3 DEF UnwrappersAgree
  <2> QED
    BY <2>6, <2>7, <2>8, <2>9 DEF IInv
<1> QED
  BY <1>5, <1>6

LEMMA StepIInv == IInv /\ [NextUnwrapper]_unwrapperVars => IInv'
<1>1. ASSUME IInv, NEW n \in Numbers, Unwrap(n) PROVE IInv'
  BY <1>1, UnwrapIInv
<1>2. ASSUME IInv, UNCHANGED unwrapperVars PROVE IInv'
  BY <1>2 DEF IInv, TypeOK, RemainderInv, ExactInStep, UnwrappersAgree,
              unwrapperVars, cppVars, cVars, history
<1> QED
  BY <1>1, <1>2 DEF NextUnwrapper

LEMMA AlwaysIInv == UnwrapperSpec => []IInv
BY InitIInv, StepIInv, PTL DEF UnwrapperSpec
-----------------------------------------------------------------------------
\* Every variable keeps its type, for every modulus.
THEOREM TypeCorrect == UnwrapperSpec => []TypeOK
BY AlwaysIInv, PTL DEF IInv

\* The unwrapped number always has the remainder that arrived last.
THEOREM RemainderKept == UnwrapperSpec => []KeepsRemainder
<1>1. IInv => KeepsRemainder
  BY RemainderUnique, NoneAssumption DEF IInv, TypeOK, RemainderInv, KeepsRemainder
<1> QED
  BY <1>1, AlwaysIInv, PTL

\* An unwrapper whose sender moves by less than half the circle at a time has
\* the sender's numbers, for every modulus and every order of arrival.
THEOREM UnwrapsTheSender == UnwrapperSpec => []FollowsSender
BY AlwaysIInv, RemainderKept, PTL DEF IInv, FollowsSender

\* The C++ class and the C functions unwrap alike for every even modulus.
THEOREM CAndCppAgree == UnwrapperSpec => []UnwrappersAgree
BY AlwaysIInv, PTL DEF IInv

\* No value moves the unwrapped number by more than half the circle.
THEOREM NoLongStep == UnwrapperSpec => ShortestStep
<1> DEFINE Short == last_value_ # None => 2 * Distance(last_unwrapped_, last_unwrapped_') <= M
<1>1. ASSUME IInv, NEW n \in Numbers, Unwrap(n) PROVE Short
  <2> DEFINE w == n % M
             d == forward_diff(last_value_, w) - (IF ahead_or_at(w, last_value_) THEN 0 ELSE M)
  <2>1. SUFFICES ASSUME last_value_ # None
                 PROVE  2 * Distance(last_unwrapped_, last_unwrapped_') <= M
    OBVIOUS
  <2>2. w \in Values /\ last_value_ \in Values /\ last_unwrapped_ \in Int
    BY <1>1, <2>1, Remainders, BoundsAssumption DEF IInv, TypeOK, Numbers
  <2>3. 2 * d <= M /\ -(2 * d) <= M /\ d \in Int
    <3> HIDE DEF w
    <3> QED
      BY <2>2, StepOfUnwrap, ModulusAssumption DEF Values
  <2>4. last_unwrapped_' = last_unwrapped_ + d
    <3>1. forward_diff(last_value_, w) \in Int
      BY <2>2, ModulusAssumption DEF forward_diff, Values
    <3>2. last_unwrapped_' = last_unwrapped_ + forward_diff(last_value_, w)
                               - (IF ahead_or_at(w, last_value_) THEN 0 ELSE M)
      BY <1>1, <2>1 DEF Unwrap, unwrap, UnwrapAdjusted
    <3> HIDE DEF w
    <3> QED
      BY <3>1, <3>2, <2>2, ModulusAssumption
  <2> HIDE DEF w, d
  <2> QED
    BY <2>2, <2>3, <2>4, ModulusAssumption DEF Distance
<1>2. IInv /\ [NextUnwrapper]_unwrapperVars => [Short]_unwrapperVars
  BY <1>1 DEF NextUnwrapper
<1>3. UnwrapperSpec => [][Short]_unwrapperVars
  <2> HIDE DEF Short
  <2> QED
    BY <1>2, AlwaysIInv, PTL DEF UnwrapperSpec
<1> QED
  BY <1>3 DEF ShortestStep
=============================================================================
