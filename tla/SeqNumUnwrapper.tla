-------------------------- MODULE SeqNumUnwrapper ---------------------------
(***************************************************************************)
(* The two unwrappers of sequence numbers: the class SeqNumUnwrapper<T, M> *)
(* of include/utils_cc/number.h and seq_num_unwrapper_u8, _u12, _u16 and   *)
(* _u32 of source/c_number.c.  Both get the same values: the numbers of a  *)
(* sender, of which only the remainder mod M arrives, in an order and with *)
(* gaps that the network chooses.                                          *)
(***************************************************************************)
EXTENDS SeqNum

CONSTANTS None,       \* the value of an unwrapper that has seen none:
                      \* a null last_value_, INT64_MIN in C
          MaxNumber,  \* bound: the sender's numbers
          MaxDrift    \* bound: how far the unwrapped numbers may get

ASSUME NoneAssumption == None \notin Values
ASSUME BoundsAssumption == MaxNumber \in Nat /\ MaxDrift \in Nat

VARIABLES
  last_value_, last_unwrapped_,   \* SeqNumUnwrapper
  last_value, last_unwrapped,     \* seq_num_unwrapper_t
  number,   \* history: the sender's number that arrived last
  base,     \* history: what the first number and its remainder differ by
  in_step   \* history: no two successive numbers were M / 2 apart or more

cppVars == <<last_value_, last_unwrapped_>>
cVars == <<last_value, last_unwrapped>>
history == <<number, base, in_step>>
unwrapperVars == <<cppVars, cVars, history>>

Numbers == 0 .. MaxNumber
Distance(x, y) == IF x <= y THEN y - x ELSE x - y

TypeOK ==
  /\ last_value_ \in Values \cup {None}
  /\ last_unwrapped_ \in Int
  /\ last_value \in Values \cup {None}
  /\ last_unwrapped \in Int
  /\ number \in Numbers
  /\ base \in Int
  /\ in_step \in BOOLEAN

InitUnwrapper ==
  /\ last_value_ = None /\ last_unwrapped_ = 0
  /\ last_value = None /\ last_unwrapped = 0
  /\ number = 0 /\ base = 0 /\ in_step = TRUE
-----------------------------------------------------------------------------
\* SeqNumUnwrapper::unwrap: the new last_unwrapped_, where a step back has
\* kBackwardAdjustment taken off again.
UnwrapAdjusted(value, kBackwardAdjustment) ==
  IF last_value_ = None THEN value
  ELSE last_unwrapped_ + forward_diff(last_value_, value)
         - IF ahead_or_at(value, last_value_) THEN 0 ELSE kBackwardAdjustment

\* Mutant of unwrap: the adjustment is the largest value in place of the number
\* of values.
UnwrapShort(value) == UnwrapAdjusted(value, M - 1)

unwrap(value) == UnwrapAdjusted(value, M)

\* Mutant of c_unwrap: not_behind without the rule for the largest distance.
CUnwrapWithoutTieBreak(value) ==
  IF last_value = None THEN value
  ELSE last_unwrapped + forward_diff(last_value, value)
         - IF forward_diff(last_value, value) <= M \div 2 THEN 0 ELSE M

NotBehind(from, to) ==
  IF min_diff(from, to) = M \div 2
  THEN from < to
  ELSE forward_diff(from, to) <= M \div 2

\* seq_num_unwrapper_u*: the new last_unwrapped.
c_unwrap(value) ==
  IF last_value = None THEN value
  ELSE last_unwrapped + forward_diff(last_value, value)
         - IF NotBehind(last_value, value) THEN 0 ELSE M

\* Number n arrives as its remainder.
Unwrap(n) ==
  LET value == n % M
  IN  /\ Distance(0, unwrap(value)) <= MaxDrift
      /\ last_unwrapped_' = unwrap(value)
      /\ last_value_' = value
      /\ last_unwrapped' = c_unwrap(value)
      /\ last_value' = value
      /\ number' = n
      /\ base' = IF last_value_ = None THEN n - value ELSE base
      /\ in_step' = (in_step /\ (last_value_ # None => 2 * Distance(number, n) < M))

NextUnwrapper == \E n \in Numbers : Unwrap(n)

UnwrapperSpec == InitUnwrapper /\ [][NextUnwrapper]_unwrapperVars
-----------------------------------------------------------------------------
\* As long as no two successive numbers are M / 2 or more apart, whatever is
\* lost or reordered in between, the unwrapped numbers are the sender's, up
\* to what the first one had wrapped before anything was seen of it.
ExactInStep == in_step /\ last_value_ # None => number = base + last_unwrapped_

\* Nothing that arrives makes the unwrapped number lose its remainder.
KeepsRemainder == last_value_ # None => last_unwrapped_ % M = last_value_

\* The unwrapped number is the sender's, and after a jump that is too long
\* still one that has the same remainder.
FollowsSender == ExactInStep /\ KeepsRemainder

\* C++ and C unwrap alike, for even M: where they have to break a tie, too.
UnwrappersAgree ==
  M % 2 = 0 => last_unwrapped = last_unwrapped_ /\ last_value = last_value_

\* One value never moves the unwrapped number by more than half the circle.
ShortestStep ==
  [][last_value_ # None => 2 * Distance(last_unwrapped_, last_unwrapped_') <= M]_unwrapperVars
=============================================================================
