----------------------------- MODULE SeqNumLaws -----------------------------
(***************************************************************************)
(* What the functions of SeqNum have to satisfy, for three numbers and a   *)
(* word that are drawn again and again.                                    *)
(***************************************************************************)
EXTENDS SeqNum

VARIABLES a, b, c, word

vars == <<a, b, c, word>>

Init == a \in Values /\ b = 0 /\ c = 0 /\ word = 0

Draw ==
  /\ b' \in Values /\ c' \in Values /\ word' \in Words
  /\ UNCHANGED a

Spec == Init /\ [][Draw]_vars
-----------------------------------------------------------------------------
\* Adding and subtracting any word stay below M, the differences are what is to
\* be added to get from one number to the other, and min_diff is a distance on
\* the circle of M values: it is one of the two ways, and the way over a third
\* number is not shorter.
DifferencesMeasure ==
  /\ add(a, word) = (a + word) % M
  /\ subtract(a, word) = (a - word) % M
  /\ add(a, forward_diff(a, b)) = b
  /\ subtract(a, reverse_diff(a, b)) = b
  /\ min_diff(a, b) \in {forward_diff(a, b), reverse_diff(a, b)}
  /\ 2 * min_diff(a, b) <= M
  /\ min_diff(a, b) = min_diff(b, a)
  /\ min_diff(a, c) <= min_diff(a, b) + min_diff(b, c)

\* Of two different numbers one is ahead, and not the other, even if they are
\* as far from each other as M allows.
OneIsAhead == a # b => (ahead_of(a, b) <=> ~ahead_of(b, a))

\* The comparators are transitive on numbers that lie within floor(M / 2)
\* consecutive values, wherever these wrap: number.h warns of larger intervals.
TransitiveInWindow ==
  (\E first \in Values : \A x \in {a, b, c} : forward_diff(first, x) < M \div 2)
    => (ahead_of(a, b) /\ ahead_of(b, c) => ahead_of(a, c))

\* So the comparators can sort numbers.
SortsInWindow == OneIsAhead /\ TransitiveInWindow

\* The overloads for M == 0 and the macros of the C library are the others for
\* the M at which their type wraps, though they are written, promote and cast
\* differently.
Wrapping == INSTANCE SeqNum WITH M <- W

WidthIsModulus ==
  \A x, y \in Words :
    /\ width_forward_diff(x, y) = Wrapping!forward_diff(x, y)
    /\ width_reverse_diff(x, y) = Wrapping!reverse_diff(x, y)
    /\ NUM_FORWARD_DIFF_U(x, y) = width_forward_diff(x, y)
    /\ NUM_REVERSE_DIFF_U(x, y) = width_reverse_diff(x, y)
    /\ NUM_MIN_DIFF_U(x, y) = width_min_diff(x, y)
    /\ \A promoted \in BOOLEAN :
         width_ahead_or_at(x, y, promoted) <=> Wrapping!ahead_or_at(x, y)
=============================================================================
