------------------------------- MODULE SeqNum -------------------------------
(***************************************************************************)
(* The arithmetic on wrapping numbers of include/utils_cc/number.h, and    *)
(* the macros of include/utils_c/number.h.  Numbers wrap at M; the         *)
(* overloads for M == 0 wrap where their unsigned type does, which has W   *)
(* values.  Intermediate results of unsigned arithmetic are taken mod W.   *)
(***************************************************************************)
EXTENDS Integers

CONSTANTS M,  \* the number of values of a sequence number
          W   \* the number of values of an unsigned type, at least M

ASSUME ModulusAssumption == M \in Nat \ {0} /\ W \in Nat /\ M <= W
ASSUME WidthAssumption == W % 2 = 0  \* a power of two

Values == 0 .. M - 1
Words == 0 .. W - 1
Smaller(x, y) == IF x <= y THEN x ELSE y

\* Mutant of add: b is not reduced first.
AddUnreduced(a, b) == IF a + b >= M THEN (a + b - M) % W ELSE a + b

add(a, b) ==
  LET t == M - (b % M)
      res == (a - t) % W
  IN  IF t > a THEN (res + M) % W ELSE res

subtract(a, b) ==
  LET sub == b % M IN IF a < sub THEN M - (sub - a) ELSE a - sub

forward_diff(a, b) == IF a <= b THEN b - a ELSE M - (a - b)
reverse_diff(a, b) == IF b <= a THEN a - b ELSE M - (b - a)

min_diff(a, b) == Smaller(forward_diff(a, b), reverse_diff(a, b))

\* Mutant of ahead_or_at: no rule for numbers on opposite sides.
AheadWithoutTieBreak(a, b) == forward_diff(b, a) <= M \div 2

ahead_or_at(a, b) ==
  IF M % 2 = 0 /\ min_diff(a, b) = M \div 2
  THEN b < a
  ELSE forward_diff(b, a) <= M \div 2

\* AscendingSeqNumComp is ahead_of, DescendingSeqNumComp its converse.
ahead_of(a, b) == a # b /\ ahead_or_at(a, b)

(* The overloads for M == 0.  The operands of a type narrower than int are  *)
(* promoted, so that their difference may be negative.                     *)
width_forward_diff(a, b) == (b - a) % W
width_reverse_diff(a, b) == (a - b) % W

width_min_diff(a, b) == Smaller(width_forward_diff(a, b), width_reverse_diff(a, b))

\* Mutant of width_ahead_or_at: the largest distance is off by one.
WidthAheadShort(a, b, promoted) == width_forward_diff(b, a) < (W - 1) \div 2

width_ahead_or_at(a, b, promoted) ==
  LET maxDist == (W - 1) \div 2 + 1
  IN  IF (IF promoted THEN a - b ELSE (a - b) % W) = maxDist
      THEN b < a
      ELSE width_forward_diff(b, a) < maxDist

(* The macros of utils_c/number.h.  The typed ones, here for a type of W    *)
(* values, compute in the next wider signed type and cast the result.      *)
MIN(a, b) == IF a < b THEN a ELSE b
NUM_FORWARD_DIFF(a, b, m) == IF a <= b THEN b - a ELSE m - (a - b)
NUM_REVERSE_DIFF(a, b, m) == IF b <= a THEN a - b ELSE m - (b - a)
NUM_MIN_DIFF(a, b, m) == MIN(NUM_FORWARD_DIFF(a, b, m), NUM_REVERSE_DIFF(a, b, m))
NUM_FORWARD_DIFF_U(a, b) == NUM_FORWARD_DIFF(a, b, W) % W
NUM_REVERSE_DIFF_U(a, b) == NUM_REVERSE_DIFF(a, b, W) % W
NUM_MIN_DIFF_U(a, b) == NUM_MIN_DIFF(a, b, W) % W
=============================================================================
