------------------------- MODULE PureFunctionsProofs -------------------------
(***************************************************************************)
(* What the functions without state compute: the order on wrapping         *)
(* numbers, for every modulus; the sums of messages, for every size of a   *)
(* byte and every length; and that qsort sorts, for every length.  What a  *)
(* loop or a recursion of the code does is proved by induction on its      *)
(* steps, in the form of sets of numbers that hold 0 and, with a number,   *)
(* the next one.                                                           *)
(***************************************************************************)
EXTENDS PureFunctions, FiniteSetTheorems, TLAPS

(* The numbers.                                                            *)

Drawn == a \in Values /\ b \in Values /\ c \in Values /\ word \in Words

LEMMA AlwaysDrawn == Spec => []Drawn
<1>1. Init => Drawn
  BY ModulusAssumption DEF Init, Drawn, Values, Words
<1>2. Drawn /\ [Draw]_vars => Drawn'
  BY DEF Drawn, Draw, vars
<1> QED
  BY <1>1, <1>2, PTL DEF Spec

\* The numbers are drawn as SeqNumLaws draws them.
THEOREM NumbersAreDrawn == FunctionsSpec => Spec
<1>1. InitFunctions => Init
  BY DEF InitFunctions
<1>2. [DrawNumbers \/ DrawBlock]_<<vars, blocks>> => [Draw]_vars
  BY DEF DrawNumbers, DrawBlock, vars
<1> QED
  BY <1>1, <1>2, PTL DEF FunctionsSpec, Spec

LEMMA HalfOfModulus ==
  /\ M \div 2 \in Nat
  /\ M % 2 = 0 => M = 2 * (M \div 2)
  /\ M % 2 # 0 => M = 2 * (M \div 2) + 1
BY ModulusAssumption

\* ahead_of is total and antisymmetric for every M, even or odd, the largest
\* distance included.
LEMMA AheadIsTotal == Drawn => OneIsAhead
BY HalfOfModulus, ModulusAssumption
DEF Drawn, Values, OneIsAhead, ahead_of, ahead_or_at, min_diff, Smaller,
    forward_diff, reverse_diff

\* The comparators of number.h sort numbers within floor(M / 2) values.
THEOREM ComparatorsSort == FunctionsSpec => []SortsInWindow
<1>1. Drawn => TransitiveInWindow
  BY HalfOfModulus, ModulusAssumption
  DEF Drawn, Values, TransitiveInWindow, ahead_of, ahead_or_at, min_diff, Smaller,
      forward_diff, reverse_diff
<1>2. Drawn => SortsInWindow
  BY <1>1, AheadIsTotal DEF SortsInWindow
<1> QED
  BY <1>2, AlwaysDrawn, NumbersAreDrawn, PTL
-----------------------------------------------------------------------------
(* Adding and subtracting.                                                 *)

LEMMA Remainder ==
  ASSUME NEW N \in Nat \ {0}, NEW n \in Int
  PROVE  n % N \in 0 .. N - 1 /\ \E q \in Int : n = q * N + (n % N)
<1>1. n % N \in 0 .. N - 1
  OBVIOUS
<1>2. n = (n \div N) * N + (n % N) /\ n \div N \in Int
  OBVIOUS
<1> QED
  BY <1>1, <1>2

LEMMA RemainderUnique ==
  ASSUME NEW N \in Nat \ {0}, NEW q \in Int, NEW r \in 0 .. N - 1
  PROVE  (q * N + r) % N = r
OBVIOUS

\* A number that differs from r by whole circles.
LEMMA WholeCircles ==
  ASSUME NEW N \in Nat \ {0}, NEW n \in Int, NEW q \in Int, NEW r \in 0 .. N - 1,
         n = q * N + r
  PROVE  n % N = r
BY RemainderUnique

\* The remainder of a number at most one circle outside the values.
LEMMA NearRemainder ==
  ASSUME NEW N \in Nat \ {0}, NEW n \in (-N) .. (2 * N - 1)
  PROVE  n % N = IF n < 0 THEN n + N ELSE IF n < N THEN n ELSE n - N
<1>1. CASE n < 0
  <2>1. n = (-1) * N + (n + N) /\ n + N \in 0 .. N - 1
    BY <1>1
  <2> QED
    BY <2>1, <1>1, WholeCircles
<1>2. CASE n >= 0 /\ n < N
  <2>1. n = 0 * N + n /\ n \in 0 .. N - 1
    BY <1>2
  <2> QED
    BY <2>1, <1>2, WholeCircles
<1>3. CASE n >= N
  <2>1. n = 1 * N + (n - N) /\ n - N \in 0 .. N - 1
    BY <1>3
  <2> QED
    BY <2>1, <1>3, WholeCircles
<1> QED
  BY <1>1, <1>2, <1>3

\* The remainder of a difference of values.
LEMMA RemainderOfDifference ==
  ASSUME NEW N \in Nat \ {0}, NEW x \in 0 .. N - 1, NEW y \in 0 .. N - 1
  PROVE  (y - x) % N = IF x <= y THEN y - x ELSE N - (x - y)
<1> DEFINE n == y - x
<1>1. n \in (-N) .. (2 * N - 1) /\ n < N /\ (n < 0 <=> ~(x <= y)) /\ n + N = N - (x - y)
  OBVIOUS
<1> HIDE DEF n
<1>2. n % N = IF n < 0 THEN n + N ELSE IF n < N THEN n ELSE n - N
  BY <1>1, NearRemainder
<1>3. n % N = IF x <= y THEN n ELSE N - (x - y)
  BY <1>1, <1>2
<1> QED
  BY <1>3 DEF n

\* Only the remainder of what is added or subtracted counts.
LEMMA RemainderOfSum ==
  ASSUME NEW x \in Values, NEW y \in Int
  PROVE  /\ (x + y) % M = (x + (y % M)) % M
         /\ (x - y) % M = (x - (y % M)) % M
<1> DEFINE r == y % M
           s == (x + r) % M
           d == (x - r) % M
<1>1. PICK q \in Int : y = q * M + r
  BY Remainder, ModulusAssumption
<1>2. r \in 0 .. M - 1
  BY Remainder, ModulusAssumption
<1>3. x + r \in Int /\ x - r \in Int /\ M \in Nat \ {0}
  BY <1>2, ModulusAssumption DEF Values
<1> HIDE DEF r
<1>4. PICK p \in Int : x + r = p * M + s
  BY <1>3, Remainder
<1>5. PICK o \in Int : x - r = o * M + d
  BY <1>3, Remainder
<1>6. s \in 0 .. M - 1 /\ d \in 0 .. M - 1
  BY <1>3, Remainder
<1> HIDE DEF s, d
<1>7. x + y = (p + q) * M + s /\ p + q \in Int
  BY <1>1, <1>2, <1>3, <1>4, <1>6 DEF Values
<1>8. x - y = (o - q) * M + d /\ o - q \in Int
  BY <1>1, <1>2, <1>3, <1>5, <1>6 DEF Values
<1>9. x + y \in Int /\ x - y \in Int
  BY DEF Values
<1>10. (x + y) % M = s
  BY <1>3, <1>6, <1>7, <1>9, WholeCircles
<1>11. (x - y) % M = d
  BY <1>3, <1>6, <1>8, <1>9, WholeCircles
<1> QED
  BY <1>10, <1>11 DEF r, s, d

\* add() goes round at M, although its subtraction goes round at the width of
\* the type.
LEMMA AddIsSum ==
  ASSUME NEW x \in Values, NEW y \in Words
  PROVE  add(x, y) = (x + y) % M /\ subtract(x, y) = (x - y) % M
<1> DEFINE r == y % M
<1>1. r \in 0 .. M - 1
  BY Remainder, ModulusAssumption DEF Words
<1>2. (x + y) % M = (x + r) % M /\ (x - y) % M = (x - r) % M
  BY RemainderOfSum DEF Words
<1>3. add(x, y) = IF M - r > x THEN (((x - (M - r)) % W) + M) % W ELSE (x - (M - r)) % W
  BY DEF add
<1>4. subtract(x, y) = IF x < r THEN M - (r - x) ELSE x - r
  BY DEF subtract
<1> HIDE DEF r
<1> DEFINE up == x + r
           down == x - r
           low == x - (M - r)
<1>5. M \in Nat \ {0} /\ W \in Nat \ {0} /\ M <= W /\ x \in 0 .. M - 1
  BY ModulusAssumption DEF Values
<1>6. /\ up \in (-M) .. (2 * M - 1)
      /\ down \in (-M) .. (2 * M - 1)
      /\ low \in (-W) .. (2 * W - 1)
  BY <1>1, <1>5
<1> HIDE DEF up, down, low
<1>7. up % M = IF up < 0 THEN up + M ELSE IF up < M THEN up ELSE up - M
  BY <1>5, <1>6, NearRemainder
<1>8. down % M = IF down < 0 THEN down + M ELSE IF down < M THEN down ELSE down - M
  BY <1>5, <1>6, NearRemainder
<1>9. low % W = IF low < 0 THEN low + W ELSE IF low < W THEN low ELSE low - W
  BY <1>5, <1>6, NearRemainder
<1>10. subtract(x, y) = (x - y) % M
  BY <1>1, <1>2, <1>4, <1>5, <1>8 DEF down
<1>11. CASE M - r > x
  <2>1. low % W = low + W /\ low + W + M = up + W
    BY <1>1, <1>5, <1>9, <1>11 DEF low, up
  <2>2. up \in 0 .. M - 1 /\ up + W \in (-W) .. (2 * W - 1)
    BY <1>1, <1>5, <1>6, <1>11 DEF up
  <2>3. (up + W) % W = up
    <3> DEFINE n == up + W
    <3>1. n \in (-W) .. (2 * W - 1) /\ n >= W /\ n - W = up
      BY <1>5, <2>2
    <3> HIDE DEF n
    <3>2. n % W = IF n < 0 THEN n + W ELSE IF n < W THEN n ELSE n - W
      BY <1>5, <3>1, NearRemainder
    <3>3. n % W = up
      BY <1>5, <3>1, <3>2
    <3> QED
      BY <3>3 DEF n
  <2>4. add(x, y) = ((low % W) + M) % W
    BY <1>3, <1>11 DEF low
  <2>5. add(x, y) = up
    BY <2>1, <2>3, <2>4
  <2>6. up % M = up
    BY <1>5, <1>7, <2>2
  <2> QED
    BY <1>2, <1>10, <2>5, <2>6 DEF up
<1>12. CASE M - r <= x
  <2>1. low \in 0 .. W - 1 /\ low = up - M /\ up >= M
    BY <1>1, <1>5, <1>12 DEF low, up
  <2>2. low % W = low
    BY <1>5, <1>9, <2>1
  <2>3. add(x, y) = low % W
    BY <1>1, <1>3, <1>5, <1>12 DEF low
  <2>4. up % M = low
    BY <1>5, <1>6, <1>7, <2>1
  <2> QED
    BY <1>2, <1>10, <2>2, <2>3, <2>4 DEF up
<1> QED
  BY <1>1, <1>5, <1>11, <1>12

\* The differences are what is to be added, and min_diff is a distance, for
\* every modulus and width.
THEOREM SumsAndDifferences == FunctionsSpec => []DifferencesMeasure
<1>1. ASSUME Drawn PROVE DifferencesMeasure
  <2>1. forward_diff(a, b) \in Values /\ reverse_diff(a, b) \in Values
    BY <1>1, ModulusAssumption DEF Drawn, Values, forward_diff, reverse_diff
  <2>2. forward_diff(a, b) \in Words /\ reverse_diff(a, b) \in Words
    BY <2>1, ModulusAssumption DEF Values, Words
  <2>3. (a + forward_diff(a, b)) % M = b
    BY <1>1, NearRemainder, ModulusAssumption DEF Drawn, Values, forward_diff
  <2>4. (a - reverse_diff(a, b)) % M = b
    BY <1>1, NearRemainder, ModulusAssumption DEF Drawn, Values, reverse_diff
  <2>5. /\ add(a, word) = (a + word) % M /\ subtract(a, word) = (a - word) % M
        /\ add(a, forward_diff(a, b)) = b
        /\ subtract(a, reverse_diff(a, b)) = b
    BY <1>1, <2>2, <2>3, <2>4, AddIsSum DEF Drawn
  <2>6. /\ min_diff(a, b) \in {forward_diff(a, b), reverse_diff(a, b)}
        /\ 2 * min_diff(a, b) <= M
        /\ min_diff(a, b) = min_diff(b, a)
        /\ min_diff(a, c) <= min_diff(a, b) + min_diff(b, c)
    BY <1>1, ModulusAssumption
    DEF Drawn, Values, min_diff, Smaller, forward_diff, reverse_diff
  <2> QED
    BY <2>5, <2>6 DEF DifferencesMeasure
<1> QED
  BY <1>1, AlwaysDrawn, NumbersAreDrawn, PTL

\* The overloads without a modulus and the C macros are the functions for the
\* modulus at which the type wraps, for every width.
THEOREM WidthsAgree == FunctionsSpec => []WidthIsModulus
<1>1. WidthIsModulus
  <2> SUFFICES ASSUME NEW x \in Words, NEW y \in Words
               PROVE  /\ width_forward_diff(x, y) = Wrapping!forward_diff(x, y)
                      /\ width_reverse_diff(x, y) = Wrapping!reverse_diff(x, y)
                      /\ NUM_FORWARD_DIFF_U(x, y) = width_forward_diff(x, y)
                      /\ NUM_REVERSE_DIFF_U(x, y) = width_reverse_diff(x, y)
                      /\ NUM_MIN_DIFF_U(x, y) = width_min_diff(x, y)
                      /\ \A promoted \in BOOLEAN :
                           width_ahead_or_at(x, y, promoted) <=> Wrapping!ahead_or_at(x, y)
    BY DEF WidthIsModulus
  <2>1. W \in Nat \ {0}
    BY ModulusAssumption
  <2>2. /\ (y - x) % W = IF x <= y THEN y - x ELSE W - (x - y)
        /\ (x - y) % W = IF y <= x THEN x - y ELSE W - (y - x)
    BY <2>1, RemainderOfDifference DEF Words
  <2>3. \A n \in Words : n % W = n
    BY <2>1, NearRemainder DEF Words
  <2>4. /\ width_forward_diff(x, y) = Wrapping!forward_diff(x, y)
        /\ width_reverse_diff(x, y) = Wrapping!reverse_diff(x, y)
    BY <2>2 DEF width_forward_diff, width_reverse_diff, Wrapping!forward_diff,
                Wrapping!reverse_diff
  <2>5. /\ NUM_FORWARD_DIFF(x, y, W) = width_forward_diff(x, y)
        /\ NUM_REVERSE_DIFF(x, y, W) = width_reverse_diff(x, y)
        /\ NUM_MIN_DIFF(x, y, W) = width_min_diff(x, y)
    BY <2>1, <2>2 DEF Words, NUM_FORWARD_DIFF, NUM_REVERSE_DIFF, NUM_MIN_DIFF, MIN,
         width_forward_diff, width_reverse_diff, width_min_diff, Smaller
  <2>6. /\ width_forward_diff(x, y) \in Words
        /\ width_reverse_diff(x, y) \in Words
        /\ width_min_diff(x, y) \in Words
    BY <2>1, <2>2 DEF Words, width_forward_diff, width_reverse_diff, width_min_diff, Smaller
  <2>7. ASSUME NEW promoted \in BOOLEAN
        PROVE  width_ahead_or_at(x, y, promoted) <=> Wrapping!ahead_or_at(x, y)
    <3> DEFINE half == W \div 2
    <3>1. half \in Nat /\ W = 2 * half /\ W % 2 = 0 /\ (W - 1) \div 2 + 1 = half
      BY ModulusAssumption, WidthAssumption
    <3> HIDE DEF half
    <3>2. width_forward_diff(y, x) = IF y <= x THEN x - y ELSE W - (y - x)
      BY <2>2 DEF width_forward_diff
    <3>3. width_ahead_or_at(x, y, promoted) <=>
            IF (IF promoted THEN x - y ELSE (x - y) % W) = half
            THEN y < x ELSE width_forward_diff(y, x) < half
      BY <3>1 DEF width_ahead_or_at
    <3>4. Wrapping!ahead_or_at(x, y) <=>
            IF Wrapping!min_diff(x, y) = half
            THEN y < x ELSE Wrapping!forward_diff(y, x) <= half
      BY <3>1 DEF Wrapping!ahead_or_at, half
    <3>5. Wrapping!min_diff(x, y) = half <=> x - y = half \/ y - x = half
      BY <2>1, <3>1 DEF Words, Wrapping!min_diff, Wrapping!Smaller, Wrapping!forward_diff,
           Wrapping!reverse_diff
    <3> QED
      BY <2>1, <2>2, <3>1, <3>2, <3>3, <3>4, <3>5 DEF Words, Wrapping!forward_diff
  <2> QED
    BY <2>3, <2>4, <2>5, <2>6, <2>7
    DEF NUM_FORWARD_DIFF_U, NUM_REVERSE_DIFF_U, NUM_MIN_DIFF_U
<1> QED
  BY <1>1, PTL
-----------------------------------------------------------------------------
(* Loops and induction.                                                    *)

LEMMA SetInduction ==
  ASSUME NEW T, 0 \in T, \A n \in Nat : n \in T => n + 1 \in T
  PROVE  Nat \subseteq T
<1>1. IsWellFoundedOn(OpToRel(<, Nat), Nat)
  BY NatLessThanWellFounded
<1>2. SUFFICES ASSUME Nat \ T # {} PROVE FALSE
  OBVIOUS
<1> DEFINE R == OpToRel(<, Nat)
           U == Nat \ T
<1>3. U \subseteq Nat /\ U # {} /\ IsWellFoundedOn(R, Nat)
  BY <1>1, <1>2
<1>4. \A x, y \in Nat : x < y => <<x, y>> \in R
  BY DEF OpToRel
<1> HIDE DEF R, U
<1>5. PICK x \in U : \A y \in U : ~(<<y, x>> \in R)
  BY <1>3, WFMin
<1>6. x \in Nat /\ x # 0 /\ x \notin T
  BY <1>5 DEF U
<1>7. x - 1 \in Nat /\ x - 1 < x /\ x = (x - 1) + 1
  BY <1>6
<1>8. x - 1 \notin U
  BY <1>4, <1>5, <1>6, <1>7
<1> QED
  BY <1>6, <1>7, <1>8 DEF U

LEMMA RangeInduction ==
  ASSUME NEW T, NEW first \in Int, NEW last \in Int, first \in T,
         \A k \in first + 1 .. last : k - 1 \in T => k \in T
  PROVE  first .. last \subseteq T
<1> DEFINE U == {n \in Nat : first + n <= last => first + n \in T}
<1>1. 0 \in U
  OBVIOUS
<1>2. ASSUME NEW n \in Nat, n \in U PROVE n + 1 \in U
  <2>1. SUFFICES ASSUME first + (n + 1) <= last PROVE first + (n + 1) \in T
    OBVIOUS
  <2> DEFINE k == first + (n + 1)
  <2>2. k \in first + 1 .. last /\ k - 1 = first + n /\ first + n <= last
    BY <2>1
  <2>3. k - 1 \in T
    BY <1>2, <2>2
  <2> QED
    BY <2>2, <2>3
<1> HIDE DEF U
<1>3. Nat \subseteq U
  BY <1>1, <1>2, SetInduction
<1>4. ASSUME NEW k \in first .. last PROVE k \in T
  <2>1. k - first \in U /\ first + (k - first) = k /\ k <= last
    BY <1>3
  <2> QED
    BY <2>1 DEF U
<1> QED
  BY <1>4

Loops(S, first, last, start, step) ==
  {g \in [first .. last -> S] :
     g[first] = start /\ \A k \in first + 1 .. last : g[k] = step[<<g[k - 1], k>>]}

LEMMA LoopExists ==
  ASSUME NEW S, NEW first \in Int, NEW last \in Int, first <= last, NEW start \in S,
         NEW step \in [S \X (first + 1 .. last) -> S]
  PROVE  Loops(S, first, last, start, step) # {}
<1> DEFINE Good(n) == \E g \in [first .. first + n -> S] :
             /\ g[first] = start
             /\ \A k \in first + 1 .. first + n : g[k] = step[<<g[k - 1], k>>]
           T == {n \in Nat : first + n <= last => Good(n)}
<1>1. 0 \in T
  <2> DEFINE g == [k \in first .. first + 0 |-> start]
  <2>1. g \in [first .. first + 0 -> S] /\ g[first] = start
    OBVIOUS
  <2>2. first + 1 .. first + 0 = {}
    OBVIOUS
  <2>3. Good(0)
    BY <2>1, <2>2
  <2> QED
    BY <2>3
<1>2. ASSUME NEW n \in Nat, n \in T PROVE n + 1 \in T
  <2>1. SUFFICES ASSUME first + (n + 1) <= last PROVE Good(n + 1)
    OBVIOUS
  <2>2. PICK g \in [first .. first + n -> S] :
             /\ g[first] = start
             /\ \A k \in first + 1 .. first + n : g[k] = step[<<g[k - 1], k>>]
    BY <1>2, <2>1
  <2> DEFINE new == first + (n + 1)
             h == [k \in first .. new |->
                     IF k = new THEN step[<<g[k - 1], k>>] ELSE g[k]]
  <2>3. new \in first + 1 .. last /\ new - 1 \in first .. first + n
    BY <2>1
  <2>4. step[<<g[new - 1], new>>] \in S
    BY <2>2, <2>3
  <2>5. \A k \in first .. new : k # new => k \in first .. first + n
    OBVIOUS
  <2>6. h \in [first .. new -> S]
    BY <2>2, <2>4, <2>5
  <2>7. \A k \in first .. first + n : k # new /\ k \in first .. new /\ h[k] = g[k]
    OBVIOUS
  <2>8. h[first] = start
    BY <2>2, <2>7
  <2>9. h[new] = step[<<h[new - 1], new>>]
    BY <2>3, <2>7
  <2>10. ASSUME NEW k \in first + 1 .. new PROVE h[k] = step[<<h[k - 1], k>>]
    <3>1. CASE k = new
      BY <3>1, <2>9
    <3>2. CASE k # new
      <4>1. k \in first + 1 .. first + n /\ k \in first .. first + n /\ k - 1 \in first .. first + n
        BY <3>2
      <4> HIDE DEF h
      <4> QED
        BY <4>1, <2>2, <2>7
    <3> QED
      BY <3>1, <3>2
  <2> HIDE DEF h
  <2> QED
    BY <2>6, <2>8, <2>10
<1> HIDE DEF T
<1>3. Nat \subseteq T
  BY <1>1, <1>2, SetInduction
<1> USE DEF T
<1>4. last - first \in T /\ first + (last - first) = last
  <2>1. last - first \in Nat /\ first + (last - first) = last
    OBVIOUS
  <2> HIDE DEF T
  <2> QED
    BY <1>3, <2>1
<1>5. Good(last - first)
  BY <1>4
<1> QED
  BY <1>4, <1>5 DEF Loops
-----------------------------------------------------------------------------
(* The loops of the checksum.                                              *)

LEMMA OnesIsPositive == Ones \in Nat /\ Ones >= 3 /\ B * B = Ones + 1 /\ B \in Nat /\ B >= 2
<1>1. B \in Nat /\ B >= 2
  BY ByteAssumption
<1>2. B * B \in Nat /\ B * B >= 4
  BY <1>1
<1> QED
  BY <1>1, <1>2 DEF Ones

AddsUp(sum, n, checksum, words) ==
  /\ sum \in [0 .. n -> Nat] /\ sum[0] = checksum
  /\ \A k \in 1 .. n : sum[k] = Added(sum[k - 1], words[k])

LEMMA SummedLoop ==
  ASSUME NEW n \in Nat, NEW words \in [1 .. n -> Nat], NEW checksum \in Nat
  PROVE  AddsUp(Summed(checksum, words), n, checksum, words)
<1>0. 0 \in Int /\ n \in Int /\ 0 <= n /\ 1 .. n = 0 + 1 .. n
  OBVIOUS
<1>1. Len(words) = n
  OBVIOUS
<1> DEFINE step == [p \in Nat \X (1 .. n) |-> Added(p[1], words[p[2]])]
<1>2. Ones \in Nat /\ Ones > 0
  BY OnesIsPositive
<1>3. \A x, y \in Nat : Added(x, y) \in Nat
  BY <1>2 DEF Added
<1>4. step \in [Nat \X (1 .. n) -> Nat]
  <2>1. \A p \in Nat \X (1 .. n) : p[1] \in Nat /\ words[p[2]] \in Nat
    OBVIOUS
  <2> QED
    BY <1>3, <2>1
<1>5. \A x \in Nat, k \in 1 .. n : step[<<x, k>>] = Added(x, words[k])
  OBVIOUS
<1> HIDE DEF step
<1>6. PICK g \in [0 .. n -> Nat] :
         g[0] = checksum /\ \A k \in 1 .. n : g[k] = step[<<g[k - 1], k>>]
  <2>1. step \in [Nat \X (0 + 1 .. n) -> Nat]
    BY <1>0, <1>4
  <2>2. Loops(Nat, 0, n, checksum, step) # {}
    BY <1>0, <2>1, LoopExists
  <2> QED
    BY <1>0, <2>2 DEF Loops
<1>7. \A k \in 0 .. n : k # 0 => k \in 1 .. n /\ k - 1 \in 0 .. n
  OBVIOUS
<1>11. ASSUME NEW k \in 1 .. n PROVE g[k] = Added(g[k - 1], words[k])
  <2>1. g[k - 1] \in Nat
    BY <1>6
  <2> QED
    BY <1>5, <1>6, <2>1
<1> DEFINE Eqn(f) == f = [k \in 0 .. Len(words) |->
                           IF k = 0 THEN checksum ELSE Added(f[k - 1], words[k])]
           sum == Summed(checksum, words)
<1>8. Eqn(g)
  <2>1. g[0] = checksum /\ \A k \in 0 .. n : k # 0 => g[k] = Added(g[k - 1], words[k])
    BY <1>6, <1>7, <1>11
  <2> QED
    BY <1>1, <1>6, <2>1
<1>9. Eqn(sum)
  <2>1. sum = CHOOSE f : Eqn(f)
    BY DEF Summed
  <2> QED
    BY <1>8, <2>1
<1> HIDE DEF sum
<1>10. /\ sum = [k \in 0 .. n |-> sum[k]]
       /\ sum[0] = checksum
       /\ \A k \in 1 .. n : sum[k] = Added(sum[k - 1], words[k])
  BY <1>1, <1>9
<1> DEFINE T == {k \in 0 .. n : sum[k] = g[k]}
<1>12. 0 \in T
  BY <1>6, <1>10
<1>13. ASSUME NEW k \in 1 .. n, k - 1 \in T PROVE k \in T
  <2>1. k \in 1 .. n /\ k \in 0 .. n
    OBVIOUS
  <2>2. sum[k - 1] = g[k - 1]
    BY <1>13
  <2> QED
    BY <1>10, <1>11, <2>1, <2>2
<1>14. 0 .. n \subseteq T
  <2> HIDE DEF T
  <2> QED
    BY <1>0, <1>12, <1>13, RangeInduction
<1>15. sum \in [0 .. n -> Nat]
  BY <1>6, <1>10, <1>14
<1> QED
  BY <1>10, <1>15 DEF sum, AddsUp

\* The same of the amounts of the bytes.
LEMMA AmountsLoop ==
  ASSUME NEW n \in Nat, NEW data \in [1 .. n -> Byte]
  PROVE  /\ Amounts(data) \in [0 .. n -> Nat]
         /\ Amounts(data)[0] = 0
         /\ \A k \in 1 .. n :
              Amounts(data)[k] = Amounts(data)[k - 1] + data[k] * Weight(data, k)
<1>1. 0 \in Int /\ n \in Int /\ 0 <= n /\ 1 .. n = 0 + 1 .. n /\ Len(data) = n
  OBVIOUS
<1> DEFINE part == [k \in 1 .. n |-> data[k] * Weight(data, k)]
           step == [p \in Nat \X (1 .. n) |-> p[1] + part[p[2]]]
<1>2. part \in [1 .. n -> Nat]
  <2>1. ASSUME NEW k \in 1 .. n PROVE data[k] * Weight(data, k) \in Nat
    <3>1. data[k] \in Nat /\ B \in Nat
      BY OnesIsPositive DEF Byte
    <3> HIDE DEF part
    <3>2. Weight(data, k) \in Nat
      BY <3>1 DEF Weight
    <3> QED
      BY <3>1, <3>2
  <2> QED
    BY <2>1
<1>3. \A k \in 1 .. n : part[k] = data[k] * Weight(data, k)
  OBVIOUS
<1> HIDE DEF part
<1>4. step \in [Nat \X (1 .. n) -> Nat]
  BY <1>2
<1>5. \A x \in Nat, k \in 1 .. n : step[<<x, k>>] = x + part[k]
  OBVIOUS
<1> HIDE DEF step
<1>6. PICK g \in [0 .. n -> Nat] : g[0] = 0 /\ \A k \in 1 .. n : g[k] = step[<<g[k - 1], k>>]
  <2>1. step \in [Nat \X (0 + 1 .. n) -> Nat]
    BY <1>1, <1>4
  <2>2. Loops(Nat, 0, n, 0, step) # {}
    BY <1>1, <2>1, LoopExists
  <2> QED
    BY <1>1, <2>2 DEF Loops
<1>7. \A k \in 0 .. n : k # 0 => k \in 1 .. n /\ k - 1 \in 0 .. n
  OBVIOUS
<1>8. ASSUME NEW k \in 1 .. n PROVE g[k] = g[k - 1] + part[k]
  <2>1. g[k - 1] \in Nat
    BY <1>6
  <2> QED
    BY <1>5, <1>6, <2>1
<1> DEFINE Eqn(f) == f = [k \in 0 .. Len(data) |->
                           IF k = 0 THEN 0 ELSE f[k - 1] + data[k] * Weight(data, k)]
           amount == Amounts(data)
<1>9. Eqn(g)
  <2>1. g[0] = 0 /\ \A k \in 0 .. n : k # 0 => g[k] = g[k - 1] + data[k] * Weight(data, k)
    BY <1>3, <1>6, <1>7, <1>8
  <2> QED
    BY <1>1, <1>6, <2>1
<1>10. Eqn(amount)
  <2>1. amount = CHOOSE f : Eqn(f)
    BY DEF Amounts
  <2> QED
    BY <1>9, <2>1
<1> HIDE DEF amount
<1>11. /\ amount = [k \in 0 .. n |-> amount[k]]
       /\ amount[0] = 0
       /\ \A k \in 1 .. n : amount[k] = amount[k - 1] + data[k] * Weight(data, k)
  BY <1>1, <1>10
<1> DEFINE T == {k \in 0 .. n : amount[k] = g[k]}
<1>12. 0 \in T
  BY <1>6, <1>11
<1>13. ASSUME NEW k \in 0 + 1 .. n, k - 1 \in T PROVE k \in T
  <2>1. k \in 1 .. n /\ k \in 0 .. n
    OBVIOUS
  <2>2. amount[k - 1] = g[k - 1]
    BY <1>13
  <2> QED
    BY <1>3, <1>8, <1>11, <2>1, <2>2
<1>14. 0 .. n \subseteq T
  <2> HIDE DEF T
  <2> QED
    BY <1>1, <1>12, <1>13, RangeInduction
<1>15. amount \in [0 .. n -> Nat]
  BY <1>6, <1>11, <1>14
<1> QED
  BY <1>11, <1>15 DEF amount
-----------------------------------------------------------------------------
(* Multiples of Ones.                                                      *)

Multiple(t) == \E q \in Int : t = q * Ones

LEMMA MultiplesAdd ==
  ASSUME NEW s \in Int, NEW t \in Int, Multiple(s), Multiple(t)
  PROVE  Multiple(s + t) /\ Multiple(s - t)
<1>1. PICK p \in Int : s = p * Ones
  BY DEF Multiple
<1>2. PICK q \in Int : t = q * Ones
  BY DEF Multiple
<1>3. s + t = (p + q) * Ones /\ s - t = (p - q) * Ones /\ p + q \in Int /\ p - q \in Int
  BY <1>1, <1>2, OnesIsPositive
<1> QED
  BY <1>3 DEF Multiple

LEMMA SmallestMultiples == Multiple(0) /\ Multiple(Ones)
<1>1. 0 = 0 * Ones /\ Ones = 1 * Ones
  BY OnesIsPositive
<1> QED
  BY <1>1 DEF Multiple

LEMMA NoMultipleBelow ==
  ASSUME NEW t \in Int, Multiple(t), -Ones < t, t < Ones
  PROVE  t = 0
<1>1. PICK q \in Int : t = q * Ones
  BY DEF Multiple
<1>2. q >= 1 => t >= Ones
  BY <1>1, OnesIsPositive
<1>3. q <= -1 => t <= -Ones
  BY <1>1, OnesIsPositive
<1>4. q = 0
  BY <1>2, <1>3, OnesIsPositive
<1> QED
  BY <1>1, <1>4, OnesIsPositive

LEMMA MultipleIsRemainderless ==
  ASSUME NEW t \in Nat
  PROVE  Multiple(t) <=> t % Ones = 0
<1>1. Ones \in Nat \ {0}
  BY OnesIsPositive
<1>2. t % Ones \in 0 .. Ones - 1 /\ t = (t \div Ones) * Ones + (t % Ones) /\ t \div Ones \in Int
  BY <1>1
<1>3. ASSUME t % Ones = 0 PROVE Multiple(t)
  <2>1. t = (t \div Ones) * Ones
    BY <1>1, <1>2, <1>3
  <2> QED
    BY <1>2, <2>1 DEF Multiple
<1>4. ASSUME Multiple(t) PROVE t % Ones = 0
  <2> DEFINE r == t % Ones
             p == t \div Ones
  <2>1. r \in 0 .. Ones - 1 /\ t = p * Ones + r /\ p \in Int
    BY <1>2
  <2> HIDE DEF r, p
  <2>2. p * Ones \in Int /\ t - p * Ones = r /\ r \in Int /\ -Ones < r /\ r < Ones
    BY <1>1, <2>1
  <2>3. Multiple(p * Ones)
    BY <2>1 DEF Multiple
  <2>4. Multiple(t - p * Ones)
    BY <1>4, <2>2, <2>3, MultiplesAdd
  <2>5. r = 0
    BY <2>2, <2>4, NoMultipleBelow
  <2> QED
    BY <2>5 DEF r
<1> QED
  BY <1>3, <1>4
-----------------------------------------------------------------------------
(* The words of a block and what its bytes amount to.                      *)

\* The number of bytes in the first k words.
Bytes(n, k) == IF k = 0 THEN 0 ELSE 2 * k - (n % 2)

LEMMA HalfOfLength ==
  ASSUME NEW n \in Nat
  PROVE  /\ (n + 1) \div 2 \in Nat /\ n % 2 \in {0, 1}
         /\ 2 * ((n + 1) \div 2) = n + (n % 2)
<1>1. n % 2 \in {0, 1} /\ n = 2 * (n \div 2) + (n % 2) /\ n \div 2 \in Nat
  OBVIOUS
<1>2. (n + 1) \div 2 = (n \div 2) + (n % 2)
  OBVIOUS
<1> QED
  BY <1>1, <1>2

LEMMA BytesOfWords ==
  ASSUME NEW n \in Nat
  PROVE  /\ Bytes(n, 0) = 0
         /\ Bytes(n, (n + 1) \div 2) = n
         /\ \A k \in 1 .. (n + 1) \div 2 :
              LET last == 2 * k - (n % 2)
              IN  /\ last \in 1 .. n /\ Bytes(n, k) = last
                  /\ last = 1 => Bytes(n, k - 1) = 0
                  /\ last # 1 => last - 1 \in 1 .. n /\ Bytes(n, k - 1) = last - 2
                  /\ last # 1 => (n - last) % 2 = 0 /\ (n - (last - 1)) % 2 = 1
<1> DEFINE m == (n + 1) \div 2
           odd == n % 2
<1>1. m \in Nat /\ odd \in {0, 1} /\ 2 * m = n + odd
  BY HalfOfLength
<1> HIDE DEF m, odd
<1>2. Bytes(n, m) = n
  BY <1>1 DEF Bytes, odd
<1>3. ASSUME NEW k \in 1 .. m
      PROVE  LET last == 2 * k - odd
             IN  /\ last \in 1 .. n /\ Bytes(n, k) = last
                 /\ last = 1 => Bytes(n, k - 1) = 0
                 /\ last # 1 => last - 1 \in 1 .. n /\ Bytes(n, k - 1) = last - 2
                 /\ last # 1 => (n - last) % 2 = 0 /\ (n - (last - 1)) % 2 = 1
  <2> DEFINE last == 2 * k - odd
  <2>1. last \in 1 .. n
    BY <1>1
  <2>2. Bytes(n, k) = last
    BY <1>1 DEF Bytes, odd
  <2>3. last = 1 => Bytes(n, k - 1) = 0
    BY <1>1 DEF Bytes
  <2>4. last # 1 => last - 1 \in 1 .. n /\ Bytes(n, k - 1) = last - 2
    <3>1. k = 1 => last = 1 \/ last = 2
      BY <1>1
    <3>2. k # 1 => Bytes(n, k - 1) = 2 * (k - 1) - odd
      BY DEF Bytes, odd
    <3>3. k = 1 => Bytes(n, k - 1) = 0
      BY DEF Bytes
    <3> QED
      BY <1>1, <2>1, <3>1, <3>2, <3>3
  <2>5. (n - last) % 2 = 0 /\ (n - (last - 1)) % 2 = 1
    <3>1. n - last = 2 * (m - k) /\ n - (last - 1) = 2 * (m - k) + 1 /\ m - k \in Nat
      BY <1>1
    <3> QED
      BY <3>1
  <2> QED
    BY <2>1, <2>2, <2>3, <2>4, <2>5
<1> QED
  BY <1>2, <1>3 DEF Bytes, m, odd

LEMMA WordsAreAmounts ==
  ASSUME NEW n \in Nat, NEW data \in [1 .. n -> Byte]
  PROVE  /\ WordsOf(data) \in [1 .. (n + 1) \div 2 -> 0 .. Ones]
         /\ \A k \in 1 .. (n + 1) \div 2 :
              /\ Bytes(n, k) \in 0 .. n /\ Bytes(n, k - 1) \in 0 .. n
              /\ Amounts(data)[Bytes(n, k)] =
                   Amounts(data)[Bytes(n, k - 1)] + WordsOf(data)[k]
<1>1. Len(data) = n
  OBVIOUS
<1> DEFINE m == (n + 1) \div 2
           last(k) == 2 * k - (n % 2)
           word1(k) == IF last(k) = 1 THEN data[1] ELSE data[last(k) - 1] + B * data[last(k)]
           amount == Amounts(data)
<1>2. WordsOf(data) = [k \in 1 .. m |-> word1(k)]
  BY <1>1 DEF WordsOf
<1>3. /\ amount \in [0 .. n -> Nat] /\ amount[0] = 0
      /\ \A k \in 1 .. n : amount[k] = amount[k - 1] + data[k] * Weight(data, k)
  BY AmountsLoop
<1>4. B \in Nat /\ B >= 2 /\ Ones = B * B - 1
  BY OnesIsPositive
<1>5. \A i \in 1 .. n : data[i] \in 0 .. B - 1
  BY DEF Byte
<1> HIDE DEF amount
<1>6. ASSUME NEW k \in 1 .. m
      PROVE  /\ word1(k) \in 0 .. Ones
             /\ Bytes(n, k) \in 0 .. n /\ Bytes(n, k - 1) \in 0 .. n
             /\ amount[Bytes(n, k)] = amount[Bytes(n, k - 1)] + word1(k)
  <2> DEFINE l == last(k)
  <2>1. /\ l \in 1 .. n /\ Bytes(n, k) = l
        /\ l = 1 => Bytes(n, k - 1) = 0
        /\ l # 1 => l - 1 \in 1 .. n /\ Bytes(n, k - 1) = l - 2
        /\ l # 1 => (n - l) % 2 = 0 /\ (n - (l - 1)) % 2 = 1
    BY BytesOfWords
  <2>2. word1(k) = IF l = 1 THEN data[1] ELSE data[l - 1] + B * data[l]
    OBVIOUS
  <2> HIDE DEF l, word1
  <2>3. CASE l = 1
    <3>1. Weight(data, 1) = 1 /\ data[1] \in 0 .. B - 1
      BY <1>5, <2>1, <2>3 DEF Weight
    <3>2. B - 1 <= Ones
      BY <1>4
    <3>3. amount[1] = data[1]
      BY <1>3, <2>1, <2>3, <3>1
    <3>4. word1(k) = data[1] /\ data[1] \in 0 .. Ones
      BY <2>2, <2>3, <3>1, <3>2, <1>4
    <3> QED
      BY <1>3, <2>1, <2>3, <3>1, <3>3, <3>4
  <2>4. CASE l # 1
    <3> DEFINE low == data[l - 1]
               high == data[l]
    <3>1. low \in 0 .. B - 1 /\ high \in 0 .. B - 1
      BY <1>5, <2>1, <2>4
    <3>2. Weight(data, l) = B /\ Weight(data, l - 1) = 1
      BY <1>1, <2>1, <2>4 DEF Weight
    <3>3. amount[l] = amount[l - 1] + high * B /\ amount[l - 1] = amount[l - 2] + low
      BY <1>3, <2>1, <2>4, <3>1, <3>2
    <3>4. amount[l - 2] \in Nat /\ l - 2 \in 0 .. n
      BY <1>3, <2>1, <2>4
    <3>5. word1(k) = low + B * high
      BY <2>2, <2>4
    <3> HIDE DEF low, high
    <3>6. B * high \in Nat /\ B * high <= B * (B - 1) /\ B * (B - 1) = B * B - B /\ high * B = B * high
      BY <1>4, <3>1
    <3>7. low + B * high \in 0 .. Ones
      BY <1>4, <3>1, <3>6
    <3>8. amount[l] = amount[l - 2] + (low + B * high)
      BY <3>1, <3>3, <3>4, <3>6
    <3> QED
      BY <2>1, <2>4, <3>4, <3>5, <3>7, <3>8
  <2> QED
    BY <2>3, <2>4
<1> HIDE DEF word1
<1> QED
  BY <1>2, <1>6 DEF amount
-----------------------------------------------------------------------------
(* The sum of a block.                                                     *)

Sums == 0 .. Ones

LEMMA AddedKeepsSum ==
  ASSUME NEW sum \in Sums, NEW w \in Sums
  PROVE  /\ Added(sum, w) \in Sums
         /\ Added(sum, w) = 0 <=> sum = 0 /\ w = 0
         /\ Multiple(sum + w - Added(sum, w))
<1>1. Ones \in Nat /\ Ones >= 3
  BY OnesIsPositive
<1>2. CASE sum + w > Ones
  <2>1. Added(sum, w) = sum + w - Ones
    BY <1>2 DEF Added
  <2>2. sum + w - Added(sum, w) = Ones /\ Added(sum, w) \in Sums /\ Added(sum, w) # 0
    BY <1>1, <1>2, <2>1 DEF Sums
  <2>3. ~(sum = 0 /\ w = 0)
    BY <1>1, <1>2
  <2> QED
    BY <2>2, <2>3, SmallestMultiples
<1>3. CASE ~(sum + w > Ones)
  <2>1. Added(sum, w) = sum + w
    BY <1>3 DEF Added
  <2>2. sum + w - Added(sum, w) = 0 /\ Added(sum, w) \in Sums
    BY <1>1, <1>3, <2>1 DEF Sums
  <2>3. sum + w = 0 <=> sum = 0 /\ w = 0
    BY DEF Sums
  <2> QED
    BY <2>1, <2>2, <2>3, SmallestMultiples
<1> QED
  BY <1>2, <1>3

\* gen_oc_checksum adds up what the bytes amount to, modulo Ones; only nothing
\* gives zero.
THEOREM SumOfBlock ==
  ASSUME NEW n \in Nat, NEW data \in [1 .. n -> Byte], NEW checksum \in Sums
  PROVE  /\ Amount(data) \in Nat
         /\ gen_oc_checksum(checksum, data) \in Sums
         /\ gen_oc_checksum(checksum, data) = 0 <=> checksum = 0 /\ Amount(data) = 0
         /\ Multiple(checksum + Amount(data) - gen_oc_checksum(checksum, data))
<1> DEFINE m == (n + 1) \div 2
           words == WordsOf(data)
           sum == Summed(checksum, words)
           amount == Amounts(data)
           Up(k) == amount[Bytes(n, k)]
<1>1. m \in Nat /\ Ones \in Nat /\ Ones >= 3 /\ checksum \in Nat
  BY HalfOfLength, OnesIsPositive DEF Sums
<1>2. /\ words \in [1 .. m -> Sums]
      /\ \A k \in 1 .. m : /\ Bytes(n, k) \in 0 .. n /\ Bytes(n, k - 1) \in 0 .. n
                           /\ Up(k) = Up(k - 1) + words[k]
  BY WordsAreAmounts DEF Sums
<1>3. amount \in [0 .. n -> Nat] /\ amount[0] = 0
  BY AmountsLoop
<1>4. Bytes(n, 0) = 0 /\ Bytes(n, m) = n /\ Len(data) = n
  BY BytesOfWords
<1>5. gen_oc_checksum(checksum, data) = Summed(checksum, words)[Len(words)] % (Ones + 1)
  BY DEF gen_oc_checksum
<1> HIDE DEF m, words, amount
<1>6. Len(words) = m /\ words \in [1 .. m -> Nat]
  <2>1. \A k \in 1 .. m : words[k] \in Nat
    BY <1>1, <1>2 DEF Sums
  <2> QED
    BY <1>1, <1>2, <2>1
<1>7. /\ sum \in [0 .. m -> Nat] /\ sum[0] = checksum
      /\ \A k \in 1 .. m : sum[k] = Added(sum[k - 1], words[k])
  <2>1. m \in Nat /\ words \in [1 .. m -> Nat] /\ checksum \in Nat
    BY <1>1, <1>6
  <2>2. AddsUp(Summed(checksum, words), m, checksum, words)
    BY <2>1, SummedLoop
  <2> QED
    BY <2>2 DEF AddsUp
<1> HIDE DEF sum
<1> DEFINE Good(k) == /\ sum[k] \in Sums /\ Up(k) \in Nat
                      /\ sum[k] = 0 <=> checksum = 0 /\ Up(k) = 0
                      /\ Multiple(checksum + Up(k) - sum[k])
           T == {k \in 0 .. m : Good(k)}
<1>8. 0 \in T
  <2>1. sum[0] = checksum /\ Up(0) = 0 /\ checksum + 0 - checksum = 0
    BY <1>1, <1>3, <1>4, <1>7
  <2> QED
    BY <1>1, <2>1, SmallestMultiples
<1>9. ASSUME NEW k \in 0 + 1 .. m, k - 1 \in T PROVE k \in T
  <2> DEFINE s == sum[k - 1]
             t == sum[k]
             w == words[k]
             u == Up(k - 1)
             v == Up(k)
  <2>1. k \in 1 .. m /\ k \in 0 .. m
    BY <1>1
  <2>2. /\ s \in Sums /\ u \in Nat
        /\ s = 0 <=> checksum = 0 /\ u = 0
        /\ Multiple(checksum + u - s)
    BY <1>9
  <2>3. t = Added(s, w) /\ w \in Sums /\ v = u + w
    BY <1>2, <1>7, <2>1
  <2> HIDE DEF s, t, w, u, v
  <2>4. t \in Sums /\ (t = 0 <=> s = 0 /\ w = 0) /\ Multiple(s + w - t)
    BY <2>2, <2>3, AddedKeepsSum
  <2>5. s \in Nat /\ t \in Nat /\ w \in Nat
    BY <1>1, <2>2, <2>3, <2>4 DEF Sums
  <2>6. Multiple((checksum + u - s) + (s + w - t))
    BY <1>1, <2>2, <2>4, <2>5, MultiplesAdd
  <2>7. (checksum + u - s) + (s + w - t) = checksum + v - t
    BY <1>1, <2>2, <2>3, <2>5
  <2>8. t = 0 <=> checksum = 0 /\ v = 0
    BY <2>2, <2>3, <2>4, <2>5
  <2>9. v \in Nat
    BY <2>2, <2>3, <2>5
  <2>10. Good(k)
    BY <2>4, <2>6, <2>7, <2>8, <2>9 DEF t, v
  <2> QED
    BY <2>1, <2>10
<1>10. 0 .. m \subseteq T
  <2> HIDE DEF T
  <2> QED
    BY <1>1, <1>8, <1>9, RangeInduction
<1>11. Good(m)
  BY <1>1, <1>10
<1>12. Up(m) = Amount(data)
  BY <1>4 DEF Amount, amount
<1>13. sum[m] % (Ones + 1) = sum[m]
  <2>1. \A x \in 0 .. Ones : x % (Ones + 1) = x
    BY <1>1
  <2> QED
    BY <1>11, <2>1 DEF Sums
<1>14. gen_oc_checksum(checksum, data) = sum[m]
  BY <1>5, <1>6, <1>13 DEF sum
<1> QED
  BY <1>11, <1>12, <1>14

\* What becomes of the amount of a block when one of its bytes is changed.
LEMMA AmountOfDamaged ==
  ASSUME NEW n \in Nat, NEW data \in [1 .. n -> Byte], NEW i \in 1 .. n, NEW x \in Byte
  PROVE  Amount([data EXCEPT ![i] = x]) = Amount(data) + (x - data[i]) * Weight(data, i)
<1> DEFINE other == [data EXCEPT ![i] = x]
           extra == (x - data[i]) * Weight(data, i)
           old == Amounts(data)
           new == Amounts(other)
<1>1. other \in [1 .. n -> Byte] /\ other[i] = x /\ \A k \in 1 .. n : k # i => other[k] = data[k]
  OBVIOUS
<1> HIDE DEF other
<1>2. Len(data) = n /\ Len(other) = n
  BY <1>1
<1>3. \A k \in 1 .. n : Weight(other, k) = Weight(data, k)
  BY <1>2 DEF Weight
<1>4. /\ old \in [0 .. n -> Nat] /\ old[0] = 0
      /\ \A k \in 1 .. n : old[k] = old[k - 1] + data[k] * Weight(data, k)
  BY AmountsLoop
<1>5. /\ new \in [0 .. n -> Nat] /\ new[0] = 0
      /\ \A k \in 1 .. n : new[k] = new[k - 1] + other[k] * Weight(data, k)
  <2>1. /\ new \in [0 .. n -> Nat] /\ new[0] = 0
        /\ \A k \in 1 .. n : new[k] = new[k - 1] + other[k] * Weight(other, k)
    BY <1>1, AmountsLoop
  <2> QED
    BY <1>3, <2>1
<1>6. \A k \in 1 .. n : Weight(data, k) \in Int /\ data[k] \in Int /\ other[k] \in Int
  BY <1>1, OnesIsPositive DEF Weight, Byte
<1>7. extra \in Int /\ x * Weight(data, i) = data[i] * Weight(data, i) + extra
  <2>1. x \in Int /\ data[i] \in Int /\ Weight(data, i) \in Int
    BY <1>1, <1>6
  <2> QED
    BY <2>1
<1> HIDE DEF old, new, extra
<1> DEFINE T == {k \in 0 .. n : new[k] = old[k] + IF k < i THEN 0 ELSE extra}
<1>8. 0 \in T
  BY <1>4, <1>5
<1>9. ASSUME NEW k \in 0 + 1 .. n, k - 1 \in T PROVE k \in T
  <2>1. k \in 1 .. n /\ k \in 0 .. n /\ k - 1 \in 0 .. n
    OBVIOUS
  <2>2. new[k - 1] = old[k - 1] + IF k - 1 < i THEN 0 ELSE extra
    BY <1>9
  <2>3. /\ new[k] = new[k - 1] + other[k] * Weight(data, k)
        /\ old[k] = old[k - 1] + data[k] * Weight(data, k)
    BY <1>4, <1>5, <2>1
  <2>4. new[k - 1] \in Int /\ old[k - 1] \in Int
    BY <1>4, <1>5, <2>1
  <2>5. CASE k = i
    <3> DEFINE before == data[i] * Weight(data, i)
    <3>1. before \in Int
      BY <1>6
    <3>2. other[k] * Weight(data, k) = before + extra
      BY <1>1, <1>7, <2>5
    <3>3. old[k] = old[k - 1] + before
      BY <2>3, <2>5
    <3> HIDE DEF before
    <3>4. new[k] = old[k] + extra
      BY <1>7, <2>2, <2>3, <2>4, <2>5, <3>1, <3>2, <3>3
    <3> QED
      BY <2>1, <2>5, <3>4
  <2>6. CASE k # i
    <3> DEFINE part == data[k] * Weight(data, k)
    <3>1. part \in Int
      BY <1>6, <2>1
    <3>2. new[k] = new[k - 1] + part /\ old[k] = old[k - 1] + part
      BY <1>1, <2>1, <2>3, <2>6
    <3> HIDE DEF part
    <3>3. new[k] = old[k] + IF k - 1 < i THEN 0 ELSE extra
      BY <1>7, <2>2, <2>4, <3>1, <3>2
    <3> QED
      BY <2>1, <2>6, <3>3
  <2> QED
    BY <2>5, <2>6
<1>10. 0 .. n \subseteq T
  <2> HIDE DEF T
  <2> QED
    BY <1>8, <1>9, RangeInduction
<1>11. new[n] = old[n] + extra
  BY <1>10
<1> QED
  BY <1>2, <1>11 DEF Amount, old, new, extra, other
-----------------------------------------------------------------------------
(* The messages.                                                           *)

BlocksDrawn == block1 \in Blocks /\ block2 \in Blocks

LEMMA AlwaysBlocks == FunctionsSpec => []BlocksDrawn
<1>1. <<>> \in Blocks
  <2>1. <<>> = [i \in 1 .. 0 |-> 0] /\ 1 .. 0 = {}
    OBVIOUS
  <2>2. <<>> \in [1 .. 0 -> Byte]
    BY <2>1
  <2> QED
    BY <2>2, MaxLenAssumption DEF Blocks
<1>2. InitFunctions => BlocksDrawn
  BY <1>1 DEF InitFunctions, BlocksDrawn
<1>3. BlocksDrawn /\ [DrawNumbers \/ DrawBlock]_<<vars, blocks>> => BlocksDrawn'
  BY DEF BlocksDrawn, DrawNumbers, DrawBlock, blocks
<1> QED
  BY <1>2, <1>3, PTL DEF FunctionsSpec

\* What a receiver computes from two blocks that came with the checksum sent.
LEMMA SumOfTwoBlocks ==
  ASSUME NEW m \in Nat, NEW first \in [1 .. m -> Byte],
         NEW n \in Nat, NEW second \in [1 .. n -> Byte], NEW checksum \in Sums
  PROVE  LET both == gen_oc_checksum(gen_oc_checksum(checksum, first), second)
         IN  /\ both \in Sums
             /\ both = 0 <=> checksum = 0 /\ Amount(first) = 0 /\ Amount(second) = 0
             /\ Multiple(checksum + Amount(first) + Amount(second) - both)
<1> DEFINE one == gen_oc_checksum(checksum, first)
           both == gen_oc_checksum(one, second)
           x == Amount(first)
           y == Amount(second)
<1>1. x \in Nat /\ one \in Sums /\ (one = 0 <=> checksum = 0 /\ x = 0)
      /\ Multiple(checksum + x - one)
  BY SumOfBlock
<1> HIDE DEF one
<1>2. y \in Nat /\ both \in Sums /\ (both = 0 <=> one = 0 /\ y = 0) /\ Multiple(one + y - both)
  BY <1>1, SumOfBlock
<1> HIDE DEF both, x, y
<1>3. checksum \in Int /\ one \in Int /\ both \in Int
  BY <1>1, <1>2, OnesIsPositive DEF Sums
<1>4. Multiple((checksum + x - one) + (one + y - both))
  BY <1>1, <1>2, <1>3, MultiplesAdd
<1>5. (checksum + x - one) + (one + y - both) = checksum + x + y - both
  BY <1>1, <1>2, <1>3
<1> QED
  BY <1>1, <1>2, <1>4, <1>5 DEF both, one, x, y

LEMMA SumSent ==
  ASSUME BlocksDrawn
  PROVE  /\ Amount(block1) \in Nat /\ Amount(block2) \in Nat /\ Sent \in Sums
         /\ Sent = Ones <=> Amount(block1) = 0 /\ Amount(block2) = 0
         /\ Multiple(Sent + Amount(block1) + Amount(block2))
<1>1. PICK m \in Nat : block1 \in [1 .. m -> Byte]
  BY DEF BlocksDrawn, Blocks
<1>2. PICK n \in Nat : block2 \in [1 .. n -> Byte]
  BY DEF BlocksDrawn, Blocks
<1> DEFINE x == Amount(block1)
           y == Amount(block2)
           sum == gen_oc_checksum(gen_oc_checksum(0, block1), block2)
<1>3. Ones \in Nat /\ Ones >= 3 /\ 0 \in Sums
  BY OnesIsPositive DEF Sums
<1>4. x \in Nat /\ y \in Nat
  BY <1>1, <1>2, <1>3, SumOfBlock
<1>5. sum \in Sums /\ (sum = 0 <=> x = 0 /\ y = 0) /\ Multiple(0 + x + y - sum)
  <2>1. sum \in Sums /\ (sum = 0 <=> 0 = 0 /\ x = 0 /\ y = 0) /\ Multiple(0 + x + y - sum)
    BY <1>1, <1>2, <1>3, SumOfTwoBlocks
  <2> QED
    BY <2>1
<1>6. Sent = Ones - (sum % (Ones + 1))
  BY DEF Sent, finalize_oc_checksum
<1> HIDE DEF x, y, sum
<1>7. sum % (Ones + 1) = sum
  <2>1. \A k \in 0 .. Ones : k % (Ones + 1) = k
    BY <1>3
  <2> QED
    BY <1>5, <2>1 DEF Sums
<1>8. sum \in Int /\ Sent = Ones - sum /\ Sent \in Sums /\ (Sent = Ones <=> sum = 0)
  BY <1>3, <1>5, <1>6, <1>7 DEF Sums
<1>9. Multiple(Ones + (0 + x + y - sum))
  BY <1>3, <1>4, <1>5, <1>8, SmallestMultiples, MultiplesAdd
<1>10. Ones + (0 + x + y - sum) = Sent + x + y
  BY <1>3, <1>4, <1>8
<1> QED
  BY <1>4, <1>5, <1>8, <1>9, <1>10 DEF x, y

\* The sums of whole messages, in either order.
LEMMA WholeMessageAccepted ==
  ASSUME BlocksDrawn
  PROVE  /\ verify_oc_checksum(ReceivedBoth(block1, block2))
         /\ verify_oc_checksum(ReceivedBoth(block2, block1))
<1>1. PICK m \in Nat : block1 \in [1 .. m -> Byte]
  BY DEF BlocksDrawn, Blocks
<1>2. PICK n \in Nat : block2 \in [1 .. n -> Byte]
  BY DEF BlocksDrawn, Blocks
<1> DEFINE x == Amount(block1)
           y == Amount(block2)
           r == ReceivedBoth(block1, block2)
           s == ReceivedBoth(block2, block1)
           sent == Sent
<1>3. /\ x \in Nat /\ y \in Nat /\ sent \in Sums /\ (sent = Ones <=> x = 0 /\ y = 0)
      /\ Multiple(sent + x + y)
  BY SumSent
<1> HIDE DEF sent
<1>4. r \in Sums /\ (r = 0 <=> sent = 0 /\ x = 0 /\ y = 0) /\ Multiple(sent + x + y - r)
  BY <1>1, <1>2, <1>3, SumOfTwoBlocks DEF ReceivedBoth, Received, sent
<1>5. s \in Sums /\ (s = 0 <=> sent = 0 /\ y = 0 /\ x = 0) /\ Multiple(sent + y + x - s)
  BY <1>1, <1>2, <1>3, SumOfTwoBlocks DEF ReceivedBoth, Received, sent
<1> HIDE DEF x, y, r, s
<1>6. Ones \in Nat /\ Ones >= 3 /\ sent \in Int
  BY <1>3, OnesIsPositive DEF Sums
<1>7. ASSUME NEW t \in Sums, t = 0 => sent = 0 /\ x = 0 /\ y = 0, Multiple(sent + x + y - t)
      PROVE  t = Ones
  <2>1. t \in Int /\ t # 0 /\ t <= Ones /\ t >= 0
    BY <1>3, <1>6, <1>7 DEF Sums
  <2>2. Multiple((sent + x + y) - (sent + x + y - t))
    BY <1>3, <1>6, <1>7, <2>1, MultiplesAdd
  <2>3. (sent + x + y) - (sent + x + y - t) = t
    BY <1>3, <1>6, <2>1
  <2>4. ~(t < Ones)
    BY <1>6, <2>1, <2>2, <2>3, NoMultipleBelow
  <2> QED
    BY <1>6, <2>1, <2>4
<1>8. r = Ones
  BY <1>4, <1>7
<1>9. s = Ones
  <2>1. sent + y + x - s = sent + x + y - s
    BY <1>3, <1>5, <1>6, OnesIsPositive DEF Sums
  <2> QED
    BY <1>5, <1>7, <2>1
<1> QED
  BY <1>8, <1>9 DEF verify_oc_checksum, r, s

LEMMA DamageRejected ==
  ASSUME BlocksDrawn, NEW i \in DOMAIN block1, NEW z \in Byte \ {block1[i]}
  PROVE  ~verify_oc_checksum(ReceivedBoth([block1 EXCEPT ![i] = z], block2))
<1>1. PICK m \in Nat : block1 \in [1 .. m -> Byte]
  BY DEF BlocksDrawn, Blocks
<1>2. PICK n \in Nat : block2 \in [1 .. n -> Byte]
  BY DEF BlocksDrawn, Blocks
<1> DEFINE x == Amount(block1)
           y == Amount(block2)
           damaged == [block1 EXCEPT ![i] = z]
           x2 == Amount(damaged)
           sent == Sent
           r == ReceivedBoth(damaged, block2)
           extra == (z - block1[i]) * Weight(block1, i)
<1>3. x \in Nat /\ y \in Nat /\ sent \in Sums /\ Multiple(sent + x + y)
  BY SumSent
<1>4. i \in 1 .. m /\ z \in Byte /\ z # block1[i] /\ block1[i] \in Byte
  BY <1>1
<1>5. x2 = x + extra
  BY <1>1, <1>4, AmountOfDamaged
<1>6. damaged \in [1 .. m -> Byte]
  BY <1>1, <1>4
<1> HIDE DEF sent, damaged
<1>7. r \in Sums /\ Multiple(sent + x2 + y - r)
  BY <1>2, <1>3, <1>6, SumOfTwoBlocks DEF ReceivedBoth, Received, sent
<1>8. extra \in Int /\ extra # 0 /\ -Ones < extra /\ extra < Ones
  <2> DEFINE d == z - block1[i]
             w == Weight(block1, i)
  <2>1. B \in Nat /\ B >= 2 /\ Ones = B * B - 1 /\ w \in {1, B}
    BY OnesIsPositive DEF Weight
  <2>2. d \in Int /\ d # 0 /\ d <= B - 1 /\ -d <= B - 1
    BY <1>4, <2>1 DEF Byte
  <2> HIDE DEF d, w
  <2>3. B * (B - 1) = B * B - B /\ B <= B * B /\ B - 1 < B * B - 1
    BY <2>1
  <2>4. CASE w = 1
    <3>1. d * w = d
      BY <2>2, <2>4
    <3>2. d * w \in Int /\ d * w # 0 /\ -Ones < d * w /\ d * w < Ones
      BY <2>1, <2>2, <2>3, <3>1
    <3> QED
      BY <3>2 DEF d, w
  <2>5. CASE w = B
    <3>1. d * B <= (B - 1) * B /\ (-d) * B <= (B - 1) * B
      BY <2>1, <2>2
    <3>2. d * B # 0
      BY <2>1, <2>2
    <3>3. (-d) * B = -(d * B) /\ (B - 1) * B = B * B - B /\ d * B \in Int /\ B * B \in Int
      BY <2>1, <2>2
    <3>4. -Ones < d * B /\ d * B < Ones
      BY <2>1, <3>1, <3>3
    <3> QED
      BY <2>5, <3>2, <3>3, <3>4 DEF d, w
  <2> QED
    BY <2>1, <2>4, <2>5
<1> HIDE DEF x, y, x2, r, extra
<1>9. Ones \in Nat /\ Ones >= 3 /\ sent \in Int
  BY <1>3, OnesIsPositive DEF Sums
<1>10. r # Ones
  <2>1. SUFFICES ASSUME r = Ones PROVE FALSE
    OBVIOUS
  <2>2. Multiple(sent + x2 + y - Ones)
    BY <1>7, <2>1
  <2>3. x2 \in Int
    BY <1>3, <1>5, <1>8
  <2>4. Multiple((sent + x2 + y - Ones) - (sent + x + y))
    BY <1>3, <1>9, <2>2, <2>3, MultiplesAdd
  <2>5. (sent + x2 + y - Ones) - (sent + x + y) = extra - Ones
    BY <1>3, <1>5, <1>8, <1>9, <2>3
  <2>6. Multiple((extra - Ones) + Ones)
    BY <1>8, <1>9, <2>4, <2>5, SmallestMultiples, MultiplesAdd
  <2>7. (extra - Ones) + Ones = extra
    BY <1>8, <1>9
  <2> QED
    BY <1>8, <1>9, <2>6, <2>7, NoMultipleBelow
<1> QED
  BY <1>10 DEF verify_oc_checksum, r, damaged

\* A receiver accepts whole messages, in either order, and no message with a
\* damaged byte: gen_oc_checksum, for every size of a byte and every length.
THEOREM AcceptsWhole == FunctionsSpec => []AcceptsWhatWasSent
<1>1. BlocksDrawn => AcceptsWhatWasSent
  BY WholeMessageAccepted, DamageRejected DEF AcceptsWhatWasSent
<1> QED
  BY <1>1, AlwaysBlocks, PTL

\* Exactly which lost blocks a receiver does not miss.
THEOREM MissesLostBlocks == FunctionsSpec => []DetectsLoss
<1>1. ASSUME BlocksDrawn PROVE DetectsLoss
  <2>1. PICK m \in Nat : block1 \in [1 .. m -> Byte]
    BY <1>1 DEF BlocksDrawn, Blocks
  <2> DEFINE x == Amount(block1)
             y == Amount(block2)
             r == Received(block1)
             sent == Sent
  <2>2. /\ x \in Nat /\ y \in Nat /\ sent \in Sums /\ (sent = Ones <=> x = 0 /\ y = 0)
        /\ Multiple(sent + x + y)
    BY <1>1, SumSent
  <2>3. r \in Sums /\ (r = 0 <=> sent = 0 /\ x = 0) /\ Multiple(sent + x - r)
    BY <2>1, <2>2, SumOfBlock DEF Received
  <2>4. Multiple(y) <=> y % Ones = 0
    BY <2>2, MultipleIsRemainderless
  <2>5. DetectsLoss <=> (r = Ones <=> y % Ones = 0 /\ (y = 0 \/ x > 0))
    BY DEF DetectsLoss, verify_oc_checksum
  <2> HIDE DEF x, y, r, sent
  <2>6. /\ Ones \in Nat /\ Ones >= 3
        /\ sent \in Int /\ 0 <= sent /\ sent <= Ones /\ r \in Int /\ 0 <= r /\ r <= Ones
    BY <2>2, <2>3, OnesIsPositive DEF Sums
  <2>7. Multiple(y + r)
    <3>1. Multiple((sent + x + y) - (sent + x - r))
      BY <2>2, <2>3, <2>6, MultiplesAdd
    <3>2. (sent + x + y) - (sent + x - r) = y + r
      BY <2>2, <2>6
    <3> QED
      BY <3>1, <3>2
  <2>8. Multiple(y) => r = 0 \/ r = Ones
    <3>1. SUFFICES ASSUME Multiple(y), r < Ones PROVE r = 0
      BY <2>6
    <3>2. Multiple((y + r) - y) /\ (y + r) - y = r
      BY <2>2, <2>6, <2>7, <3>1, MultiplesAdd
    <3> QED
      BY <2>6, <3>1, <3>2, NoMultipleBelow
  <2>9. ASSUME r = Ones PROVE Multiple(y)
    <3>1. Multiple((y + r) - Ones)
      BY <2>2, <2>6, <2>7, SmallestMultiples, MultiplesAdd
    <3>2. (y + r) - Ones = y
      BY <2>2, <2>6, <2>9
    <3> QED
      BY <3>1, <3>2
  \* Nothing but the lost block amounts to something: what was sent is zero.
  <2>10. ASSUME Multiple(y), x = 0, y # 0 PROVE sent = 0
    <3>1. Multiple((sent + x + y) - y) /\ (sent + x + y) - y = sent
      BY <2>2, <2>6, <2>10, MultiplesAdd
    <3>2. sent # Ones
      BY <2>2, <2>10
    <3> QED
      BY <2>6, <3>1, <3>2, NoMultipleBelow
  <2>11. ASSUME r = Ones, x = 0 PROVE y = 0
    BY <2>3, <2>6, <2>9, <2>10, <2>11
  <2>12. ASSUME Multiple(y), y = 0 \/ x > 0 PROVE r = Ones
    <3>1. SUFFICES ASSUME r = 0 PROVE FALSE
      BY <2>8, <2>12
    <3>2. sent = 0 /\ x = 0 /\ y = 0
      BY <2>2, <2>3, <2>12, <3>1
    <3> QED
      BY <2>2, <2>6, <3>2
  <2> QED
    BY <2>2, <2>4, <2>5, <2>9, <2>11, <2>12
<1> QED
  BY <1>1, AlwaysBlocks, PTL
-----------------------------------------------------------------------------
(* Rearranging an array.                                                   *)

\* w is v with the values at l .. r rearranged: p says where a value comes from,
\* q where one goes.
Permutes(p, q, n, l, r) ==
  /\ p \in [1 .. n -> 1 .. n] /\ q \in [1 .. n -> 1 .. n]
  /\ \A i \in 1 .. n : q[p[i]] = i /\ p[q[i]] = i /\ (i \notin l .. r => p[i] = i)

Rearranged(w, v, n, l, r) ==
  \E p, q \in [1 .. n -> 1 .. n] :
    Permutes(p, q, n, l, r) /\ \A i \in 1 .. n : w[i] = v[p[i]]

LEMMA PermutesInside ==
  ASSUME NEW n \in Nat, NEW l \in Int, NEW r \in Int, NEW p, NEW q, Permutes(p, q, n, l, r),
         NEW i \in 1 .. n, i \in l .. r
  PROVE  p[i] \in 1 .. n /\ p[i] \in l .. r
<1>1. p[i] \in 1 .. n /\ q[p[i]] = i
  BY DEF Permutes
<1>2. ASSUME p[i] \notin l .. r PROVE FALSE
  <2> DEFINE j == p[i]
  <2>1. j \in 1 .. n /\ q[j] = i /\ j \notin l .. r
    BY <1>1, <1>2
  <2> HIDE DEF j
  <2>2. p[j] = j /\ q[p[j]] = j
    BY <2>1 DEF Permutes
  <2> QED
    BY <2>1, <2>2
<1> QED
  BY <1>1, <1>2

LEMMA RearrangedSame ==
  ASSUME NEW n \in Nat, NEW v, NEW l \in Int, NEW r \in Int
  PROVE  Rearranged(v, v, n, l, r)
<1> DEFINE p == [i \in 1 .. n |-> i]
<1>1. p \in [1 .. n -> 1 .. n] /\ \A i \in 1 .. n : p[i] = i
  OBVIOUS
<1> HIDE DEF p
<1>2. Permutes(p, p, n, l, r)
  BY <1>1 DEF Permutes
<1> QED
  BY <1>1, <1>2 DEF Rearranged

LEMMA RearrangedWider ==
  ASSUME NEW n \in Nat, NEW w, NEW v, NEW l \in Int, NEW r \in Int, Rearranged(w, v, n, l, r),
         NEW l2 \in Int, NEW r2 \in Int, l2 <= l, r <= r2
  PROVE  Rearranged(w, v, n, l2, r2)
<1>1. PICK p, q \in [1 .. n -> 1 .. n] :
        Permutes(p, q, n, l, r) /\ \A i \in 1 .. n : w[i] = v[p[i]]
  BY DEF Rearranged
<1>2. \A i : i \notin l2 .. r2 => i \notin l .. r
  OBVIOUS
<1>3. Permutes(p, q, n, l2, r2)
  BY <1>1, <1>2 DEF Permutes
<1> QED
  BY <1>1, <1>3 DEF Rearranged

LEMMA RearrangedTwice ==
  ASSUME NEW n \in Nat, NEW w, NEW v, NEW u, NEW l \in Int, NEW r \in Int,
         Rearranged(w, v, n, l, r), Rearranged(v, u, n, l, r)
  PROVE  Rearranged(w, u, n, l, r)
<1>1. PICK p, q \in [1 .. n -> 1 .. n] :
        Permutes(p, q, n, l, r) /\ \A i \in 1 .. n : w[i] = v[p[i]]
  BY DEF Rearranged
<1>2. PICK s, t \in [1 .. n -> 1 .. n] :
        Permutes(s, t, n, l, r) /\ \A i \in 1 .. n : v[i] = u[s[i]]
  BY DEF Rearranged
<1> DEFINE to == [i \in 1 .. n |-> s[p[i]]]
           back == [i \in 1 .. n |-> q[t[i]]]
<1>3. to \in [1 .. n -> 1 .. n] /\ back \in [1 .. n -> 1 .. n]
  OBVIOUS
<1>4. \A i \in 1 .. n : to[i] = s[p[i]] /\ back[i] = q[t[i]]
  OBVIOUS
<1> HIDE DEF to, back
<1>5. ASSUME NEW i \in 1 .. n PROVE back[to[i]] = i /\ to[back[i]] = i
  <2>1. t[s[p[i]]] = p[i] /\ p[q[t[i]]] = t[i]
    BY <1>1, <1>2 DEF Permutes
  <2>2. back[to[i]] = q[t[s[p[i]]]] /\ to[back[i]] = s[p[q[t[i]]]]
    BY <1>3, <1>4
  <2> QED
    BY <1>1, <1>2, <2>1, <2>2 DEF Permutes
<1>6. ASSUME NEW i \in 1 .. n, i \notin l .. r PROVE to[i] = i
  <2>1. p[i] = i
    BY <1>1, <1>6 DEF Permutes
  <2>2. s[i] = i
    BY <1>2, <1>6 DEF Permutes
  <2> QED
    BY <1>4, <2>1, <2>2
<1>7. Permutes(to, back, n, l, r)
  BY <1>3, <1>5, <1>6 DEF Permutes
<1>8. ASSUME NEW i \in 1 .. n PROVE w[i] = u[to[i]]
  <2>1. p[i] \in 1 .. n /\ w[i] = v[p[i]] /\ to[i] = s[p[i]]
    BY <1>1, <1>4
  <2> QED
    BY <1>2, <2>1
<1> QED
  BY <1>3, <1>7, <1>8 DEF Rearranged

LEMMA SwappedValues ==
  ASSUME NEW n \in Nat, NEW X, NEW v \in [1 .. n -> X], NEW i \in 1 .. n, NEW j \in 1 .. n
  PROVE  /\ Swapped(v, i, j) \in [1 .. n -> X]
         /\ Swapped(v, i, j)[i] = v[j] /\ Swapped(v, i, j)[j] = v[i]
         /\ \A k \in 1 .. n : k # i /\ k # j => Swapped(v, i, j)[k] = v[k]
BY DEF Swapped

LEMMA SwappedRearranges ==
  ASSUME NEW n \in Nat, NEW X, NEW v \in [1 .. n -> X], NEW l \in Int, NEW r \in Int,
         NEW i \in 1 .. n, NEW j \in 1 .. n, i \in l .. r, j \in l .. r
  PROVE  Rearranged(Swapped(v, i, j), v, n, l, r)
<1> DEFINE w == Swapped(v, i, j)
           p == [k \in 1 .. n |-> IF k = i THEN j ELSE IF k = j THEN i ELSE k]
<1>1. /\ w \in [1 .. n -> X] /\ w[i] = v[j] /\ w[j] = v[i]
      /\ \A k \in 1 .. n : k # i /\ k # j => w[k] = v[k]
  BY DEF Swapped
<1>2. /\ p \in [1 .. n -> 1 .. n] /\ p[i] = j /\ p[j] = i
      /\ \A k \in 1 .. n : k # i /\ k # j => p[k] = k
  OBVIOUS
<1> HIDE DEF w, p
<1>3. Permutes(p, p, n, l, r)
  BY <1>2 DEF Permutes
<1>4. \A k \in 1 .. n : w[k] = v[p[k]]
  BY <1>1, <1>2
<1> QED
  BY <1>2, <1>3, <1>4 DEF Rearranged, w

\* After the loop has looked at left + 1 .. k.
Gathered(found, v, n, X, left, right, k) ==
  /\ found \in [v : [1 .. n -> X], last : left .. k]
  /\ Rearranged(found.v, v, n, left + 1, right)
  /\ \A j \in left + 1 .. found.last : found.v[j] < v[left]
  /\ \A j \in found.last + 1 .. k : found.v[j] >= v[left]

LEMMA FirstIsKept ==
  ASSUME NEW n \in Nat, NEW w, NEW v, NEW l \in Int, NEW r \in Int, Rearranged(w, v, n, l, r),
         NEW i \in 1 .. n, i \notin l .. r
  PROVE  w[i] = v[i]
<1>1. PICK p, q \in [1 .. n -> 1 .. n] :
        Permutes(p, q, n, l, r) /\ \A k \in 1 .. n : w[k] = v[p[k]]
  BY DEF Rearranged
<1>2. p[i] = i
  BY <1>1 DEF Permutes
<1> QED
  BY <1>1, <1>2

LEMMA GatherStep ==
  ASSUME NEW n \in Nat, NEW X \in SUBSET Int, NEW v \in [1 .. n -> X],
         NEW left \in 1 .. n, NEW right \in 1 .. n, NEW k \in left + 1 .. right,
         NEW found, Gathered(found, v, n, X, left, right, k - 1)
  PROVE  Gathered(Gather(found, left, k), v, n, X, left, right, k)
<1> DEFINE w == found.v
           last == found.last
           next == last + 1
           x == Swapped(w, k, next)
<1>1. /\ found \in [v : [1 .. n -> X], last : left .. k - 1]
      /\ w \in [1 .. n -> X] /\ last \in left .. k - 1
      /\ Rearranged(w, v, n, left + 1, right)
      /\ \A j \in left + 1 .. last : w[j] < v[left]
      /\ \A j \in next .. k - 1 : w[j] >= v[left]
  BY DEF Gathered
<1>2. Gather(found, left, k) =
        IF w[k] < w[left] THEN [v |-> IF k # next THEN x ELSE w, last |-> next] ELSE found
  BY DEF Gather
<1>3. k \in 1 .. n /\ k \in left + 1 .. right /\ left \in 1 .. n
  OBVIOUS
<1> HIDE DEF w, last
<1>4. next \in left + 1 .. k /\ next \in left + 1 .. right /\ next \in 1 .. n
  BY <1>1
<1>5. w[left] = v[left]
  <2>1. left + 1 \in Int /\ right \in Int /\ left \notin left + 1 .. right
    OBVIOUS
  <2> QED
    BY <1>1, <2>1, FirstIsKept
<1>6. \A j \in 1 .. n : w[j] \in Int /\ v[j] \in Int
  BY <1>1
<1>7. /\ x \in [1 .. n -> X] /\ Rearranged(x, w, n, left + 1, right)
      /\ x[k] = w[next] /\ x[next] = w[k]
      /\ \A j \in 1 .. n : j # k /\ j # next => x[j] = w[j]
  <2> DEFINE l == left + 1
  <2>1. /\ l \in Int /\ right \in Int /\ k \in l .. right /\ k \in 1 .. n
        /\ next \in l .. right /\ next \in 1 .. n
    BY <1>3, <1>4
  <2> HIDE DEF next, l
  <2>2. Rearranged(x, w, n, l, right)
    BY <1>1, <2>1, SwappedRearranges
  <2>3. /\ x \in [1 .. n -> X] /\ x[k] = w[next] /\ x[next] = w[k]
        /\ \A j \in 1 .. n : j # k /\ j # next => x[j] = w[j]
    BY <1>1, <2>1 DEF Swapped
  <2> QED
    BY <2>2, <2>3 DEF l
<1> HIDE DEF x
<1>8. Rearranged(x, v, n, left + 1, right)
  <2>1. left + 1 \in Int /\ right \in Int
    OBVIOUS
  <2> QED
    BY <1>1, <1>7, <2>1, RearrangedTwice
<1>9. CASE ~(w[k] < w[left])
  <2>1. Gather(found, left, k) = found
    BY <1>2, <1>9
  <2>2. w[k] >= v[left]
    BY <1>3, <1>5, <1>6, <1>9
  <2>3. \A j \in next .. k : w[j] >= v[left]
    <3>1. \A j \in next .. k : j = k \/ j \in next .. k - 1
      BY <1>4
    <3> QED
      BY <1>1, <2>2, <3>1
  <2>4. found \in [v : [1 .. n -> X], last : left .. k]
    BY <1>1
  <2> QED
    BY <1>1, <2>1, <2>3, <2>4 DEF Gathered, w, last
<1>10. CASE w[k] < w[left]
  <2> DEFINE y == IF k # next THEN x ELSE w
  <2>1. Gather(found, left, k) = [v |-> y, last |-> next]
    BY <1>2, <1>10
  <2>2. y \in [1 .. n -> X] /\ Rearranged(y, v, n, left + 1, right)
    BY <1>1, <1>7, <1>8
  <2>3. y[next] = w[k]
    BY <1>7
  <2>4. \A j \in 1 .. n : j # k /\ j # next => y[j] = w[j]
    BY <1>7
  <2>5. k # next => y[k] = w[next]
    BY <1>7
  <2> HIDE DEF y
  <2>6. ASSUME NEW j \in left + 1 .. next PROVE y[j] < v[left]
    <3>1. CASE j = next
      BY <1>5, <1>10, <2>3, <3>1
    <3>2. CASE j # next
      <4>1. j \in left + 1 .. last /\ j \in 1 .. n /\ j # k
        BY <1>1, <1>4, <3>2
      <4> QED
        BY <1>1, <2>4, <3>2, <4>1
    <3> QED
      BY <3>1, <3>2
  <2>7. ASSUME NEW j \in next + 1 .. k PROVE y[j] >= v[left]
    <3>1. CASE j = k
      <4>1. next \in next .. k - 1 /\ k # next
        BY <1>4, <3>1
      <4> QED
        BY <1>1, <2>5, <3>1, <4>1
    <3>2. CASE j # k
      <4>1. j \in next .. k - 1 /\ j \in 1 .. n /\ j # next
        BY <1>4, <3>2
      <4> QED
        BY <1>1, <2>4, <3>2, <4>1
    <3> QED
      BY <3>1, <3>2
  <2>8. next \in left .. k
    BY <1>4
  <2> DEFINE after == [v |-> y, last |-> next]
  <2>9. after \in [v : [1 .. n -> X], last : left .. k] /\ after.v = y /\ after.last = next
    BY <2>2, <2>8
  <2> HIDE DEF after
  <2>10. Gathered(after, v, n, X, left, right, k)
    BY <2>2, <2>6, <2>7, <2>9 DEF Gathered
  <2> QED
    BY <2>1, <2>10 DEF after
<1> QED
  BY <1>9, <1>10

LEMMA GatherAll ==
  ASSUME NEW n \in Nat, NEW X \in SUBSET Int, NEW v \in [1 .. n -> X],
         NEW left \in 1 .. n, NEW right \in 1 .. n, left < right, NEW found,
         found[left] = [v |-> v, last |-> left],
         \A k \in left + 1 .. right :
           Gathered(found[k - 1], v, n, X, left, right, k - 1) =>
             found[k] = Gather(found[k - 1], left, k)
  PROVE  \A k \in left .. right : Gathered(found[k], v, n, X, left, right, k)
<1> DEFINE T == {k \in left .. right : Gathered(found[k], v, n, X, left, right, k)}
           start == [v |-> v, last |-> left]
<1>1. left \in T
  <2>1. start \in [v : [1 .. n -> X], last : left .. left] /\ start.v = v /\ start.last = left
    OBVIOUS
  <2>2. left + 1 .. left = {} /\ left + 1 \in Int /\ right \in Int
    OBVIOUS
  <2>3. Rearranged(v, v, n, left + 1, right)
    BY <2>2, RearrangedSame
  <2> HIDE DEF start
  <2>4. Gathered(start, v, n, X, left, right, left)
    BY <2>1, <2>2, <2>3 DEF Gathered
  <2> QED
    BY <2>4 DEF start
<1>2. ASSUME NEW k \in left + 1 .. right, k - 1 \in T PROVE k \in T
  <2>1. Gathered(found[k - 1], v, n, X, left, right, k - 1)
    BY <1>2
  <2>2. Gathered(Gather(found[k - 1], left, k), v, n, X, left, right, k)
    BY <2>1, GatherStep
  <2>3. k \in left .. right
    OBVIOUS
  <2> QED
    BY <2>1, <2>2, <2>3
<1> HIDE DEF T
<1>3. left .. right \subseteq T
  <2>1. left \in Int /\ right \in Int
    OBVIOUS
  <2> QED
    BY <1>1, <1>2, <2>1, RangeInduction
<1> QED
  BY <1>3 DEF T

LEMMA SmallersGather ==
  ASSUME NEW n \in Nat, NEW X \in SUBSET Int, NEW v \in [1 .. n -> X],
         NEW left \in 1 .. n, NEW right \in 1 .. n, left < right
  PROVE  Gathered(Smallers(v, left, right), v, n, X, left, right, right)
<1> DEFINE S == [v : [1 .. n -> X], last : left .. right]
           start == [v |-> v, last |-> left]
           Next1(f, k) == IF Gather(f, left, k) \in S THEN Gather(f, left, k) ELSE f
           step == [p \in S \X (left + 1 .. right) |-> Next1(p[1], p[2])]
           Eqn(f) == f = [k \in left .. right |->
                           IF k = left THEN start ELSE Gather(f[k - 1], left, k)]
           f1 == CHOOSE f : Eqn(f)
<1>1. start \in S /\ left \in Int /\ right \in Int /\ left <= right
  OBVIOUS
<1>2. step \in [S \X (left + 1 .. right) -> S]
  <2> HIDE DEF S
  <2>1. \A p \in S \X (left + 1 .. right) : Next1(p[1], p[2]) \in S
    OBVIOUS
  <2> HIDE DEF Next1
  <2> QED
    BY <2>1
<1>3. \A f \in S, k \in left + 1 .. right : step[<<f, k>>] = Next1(f, k)
  <2> HIDE DEF Next1, S
  <2> QED
    OBVIOUS
<1> HIDE DEF step, S, start
<1>4. PICK g \in [left .. right -> S] :
        g[left] = start /\ \A k \in left + 1 .. right : g[k] = step[<<g[k - 1], k>>]
  <2>1. Loops(S, left, right, start, step) # {}
    BY <1>1, <1>2, LoopExists
  <2> QED
    BY <2>1 DEF Loops
<1>5. ASSUME NEW k \in left + 1 .. right,
             Gathered(g[k - 1], v, n, X, left, right, k - 1)
      PROVE  g[k] = Gather(g[k - 1], left, k)
  <2> DEFINE after == Gather(g[k - 1], left, k)
  <2>1. Gathered(after, v, n, X, left, right, k)
    BY <1>5, GatherStep
  <2>2. after \in S
    <3>1. after \in [v : [1 .. n -> X], last : left .. k]
      BY <2>1 DEF Gathered
    <3> HIDE DEF after
    <3>2. \A j \in left .. k : j \in left .. right
      OBVIOUS
    <3> QED
      BY <3>1, <3>2 DEF S
  <2>3. g[k - 1] \in S
    BY <1>4
  <2> QED
    BY <1>3, <1>4, <2>2, <2>3
<1>6. \A k \in left .. right : Gathered(g[k], v, n, X, left, right, k)
  <2>1. g[left] = [v |-> v, last |-> left]
    BY <1>4 DEF start
  <2> QED
    BY <1>5, <2>1, GatherAll
<1>7. Eqn(g)
  <2>1. ASSUME NEW k \in left .. right, k # left PROVE g[k] = Gather(g[k - 1], left, k)
    <3>1. k \in left + 1 .. right /\ k - 1 \in left .. right
      BY <2>1
    <3> QED
      BY <1>5, <1>6, <3>1
  <2> QED
    BY <1>4, <2>1
<1>8. Eqn(f1)
  <2> HIDE DEF Eqn
  <2> QED
    BY <1>7
<1>9. Smallers(v, left, right) = f1[right]
  BY DEF Smallers, start
<1> HIDE DEF f1
<1>10. /\ f1[left] = [v |-> v, last |-> left]
       /\ \A k \in left + 1 .. right : f1[k] = Gather(f1[k - 1], left, k)
  <2>1. \A k \in left + 1 .. right : k # left /\ k \in left .. right
    OBVIOUS
  <2> QED
    BY <1>1, <1>8, <2>1 DEF start
<1>11. \A k \in left .. right : Gathered(f1[k], v, n, X, left, right, k)
  BY <1>10, GatherAll
<1> QED
  BY <1>9, <1>11

\* What Partition leaves: the pivot at last, the smaller ones before it.
Partitioned(found, v, n, X, left, right) ==
  /\ found \in [v : [1 .. n -> X], last : left .. right]
  /\ Rearranged(found.v, v, n, left, right)
  /\ \A j \in left .. found.last - 1 : found.v[j] < found.v[found.last]
  /\ \A j \in found.last + 1 .. right : found.v[j] >= found.v[found.last]

LEMMA PartitionSplits ==
  ASSUME NEW n \in Nat, NEW X \in SUBSET Int, NEW v \in [1 .. n -> X],
         NEW left \in 1 .. n, NEW right \in 1 .. n, left < right
  PROVE  Partitioned(Partition(v, left, right), v, n, X, left, right)
<1> DEFINE found == Smallers(v, left, right)
           w == found.v
           last == found.last
           x == Swapped(w, left, last)
           after == Partition(v, left, right)
<1>1. Gathered(found, v, n, X, left, right, right)
  BY SmallersGather
<1>2. after = [found EXCEPT !.v = x]
  BY DEF Partition
<1> HIDE DEF found
<1>3. /\ found \in [v : [1 .. n -> X], last : left .. right]
      /\ w \in [1 .. n -> X] /\ last \in left .. right
      /\ Rearranged(w, v, n, left + 1, right)
      /\ \A j \in left + 1 .. last : w[j] < v[left]
      /\ \A j \in last + 1 .. right : w[j] >= v[left]
  BY <1>1 DEF Gathered
<1> HIDE DEF x, after
<1>4. after.v = x /\ after.last = last
  BY <1>2, <1>3
<1>5. last \in 1 .. n /\ left \in left .. right /\ left \in Int /\ right \in Int
  BY <1>3
<1>6. w[left] = v[left]
  <2>1. left + 1 \in Int /\ right \in Int /\ left \notin left + 1 .. right
    OBVIOUS
  <2> QED
    BY <1>3, <2>1, FirstIsKept
<1> HIDE DEF w, last
<1>7. /\ x \in [1 .. n -> X] /\ x[left] = w[last] /\ x[last] = w[left]
      /\ \A j \in 1 .. n : j # left /\ j # last => x[j] = w[j]
  BY <1>3, <1>5 DEF x, Swapped
<1>8. Rearranged(x, v, n, left, right)
  <2>1. Rearranged(x, w, n, left, right)
    BY <1>3, <1>5, SwappedRearranges DEF x
  <2>2. Rearranged(w, v, n, left, right)
    <3>1. left + 1 \in Int /\ left <= left + 1 /\ right <= right
      OBVIOUS
    <3> QED
      BY <1>3, <1>5, <3>1, RearrangedWider
  <2> QED
    BY <1>5, <2>1, <2>2, RearrangedTwice
<1>9. ASSUME NEW j \in left .. last - 1 PROVE x[j] < x[last]
  <2>1. CASE j = left
    <3>1. last \in left + 1 .. last
      BY <1>3, <2>1
    <3> QED
      BY <1>3, <1>6, <1>7, <2>1, <3>1
  <2>2. CASE j # left
    <3>1. j \in left + 1 .. last /\ j \in 1 .. n /\ j # last
      BY <1>3, <1>5, <2>2
    <3> QED
      BY <1>3, <1>6, <1>7, <2>2, <3>1
  <2> QED
    BY <2>1, <2>2
<1>10. ASSUME NEW j \in last + 1 .. right PROVE x[j] >= x[last]
  <2>1. j \in 1 .. n /\ j # last /\ j # left
    BY <1>3, <1>5
  <2> QED
    BY <1>3, <1>6, <1>7, <2>1
<1>11. after \in [v : [1 .. n -> X], last : left .. right]
  <2>1. after = [v |-> x, last |-> last]
    BY <1>2, <1>3 DEF last
  <2> QED
    BY <1>3, <1>7, <2>1
<1> QED
  BY <1>4, <1>8, <1>9, <1>10, <1>11 DEF Partitioned, after
-----------------------------------------------------------------------------
(* The recursion.                                                          *)

PartsOf(n, X) == [1 .. n -> X] \X (1 .. n + 1) \X (0 .. n)
Size(part) == part[3] - part[2]

\* The parts before and behind the pivot; the latter is sorted in what sorting
\* the former has left, w.
PartBefore(part) ==
  LET found == Partition(part[1], part[2], part[3])
  IN  <<found.v, part[2], found.last - 1>>
PartBehind(part, w) ==
  LET found == Partition(part[1], part[2], part[3])
  IN  <<w, found.last + 1, part[3]>>

SortedPart(f, part) ==
  IF part[2] >= part[3] THEN part[1] ELSE f[PartBehind(part, f[PartBefore(part)])]

\* The partition splits a part of the array into what is smaller than its first
\* element, that element and the rest, and changes nothing outside; both sides
\* are inside the array and shorter, so that the recursion of qsort ends.
THEOREM PartsShrink ==
  ASSUME NEW n \in Nat, NEW X \in SUBSET Int, NEW part \in PartsOf(n, X), part[2] < part[3]
  PROVE  /\ part[2] \in 1 .. n /\ part[3] \in 1 .. n /\ Size(part) \in Nat
         /\ Partitioned(Partition(part[1], part[2], part[3]), part[1], n, X, part[2], part[3])
         /\ PartBefore(part) \in PartsOf(n, X) /\ Size(PartBefore(part)) < Size(part)
         /\ \A w \in [1 .. n -> X] :
              PartBehind(part, w) \in PartsOf(n, X) /\ Size(PartBehind(part, w)) < Size(part)
<1> DEFINE v == part[1]
           l == part[2]
           r == part[3]
           found == Partition(v, l, r)
           m == found.last
<1>1. v \in [1 .. n -> X] /\ l \in 1 .. n /\ r \in 1 .. n /\ l < r
  BY DEF PartsOf
<1>2. PartBefore(part) = <<found.v, l, m - 1>> /\ \A w : PartBehind(part, w) = <<w, m + 1, r>>
  BY DEF PartBefore, PartBehind
<1>3. Size(part) = r - l
  BY DEF Size
<1> HIDE DEF v, l, r
<1>4. Partitioned(found, v, n, X, l, r)
  BY <1>1, PartitionSplits
<1> HIDE DEF found
<1>5. found.v \in [1 .. n -> X] /\ m \in l .. r
  BY <1>4 DEF Partitioned
<1> HIDE DEF m
<1>6. l \in 1 .. n + 1 /\ m - 1 \in 0 .. n /\ m + 1 \in 1 .. n + 1 /\ r \in 0 .. n
      /\ (m - 1) - l < r - l /\ r - (m + 1) < r - l /\ r - l \in Nat
  BY <1>1, <1>5
<1>7. <<found.v, l, m - 1>> \in PartsOf(n, X) /\ Size(<<found.v, l, m - 1>>) < r - l
  BY <1>5, <1>6 DEF PartsOf, Size
<1>8. ASSUME NEW w \in [1 .. n -> X]
      PROVE  <<w, m + 1, r>> \in PartsOf(n, X) /\ Size(<<w, m + 1, r>>) < r - l
  BY <1>6 DEF PartsOf, Size
<1> QED
  BY <1>1, <1>2, <1>3, <1>4, <1>6, <1>7, <1>8 DEF v, l, r, found

\* There is such a function: for the parts below any size, hence for all.
LEMMA SortedExists ==
  ASSUME NEW n \in Nat, NEW X \in SUBSET Int
  PROVE  \E f \in [PartsOf(n, X) -> [1 .. n -> X]] :
           \A part \in PartsOf(n, X) : f[part] = SortedPart(f, part)
<1> DEFINE P == PartsOf(n, X)
           A == [1 .. n -> X]
           Below(f, k) == \A part \in P : Size(part) < k => f[part] = SortedPart(f, part)
           T == {k \in Nat : \E f \in [P -> A] : Below(f, k)}
<1>1. \A part \in P : part[1] \in A /\ part[2] \in Int /\ part[3] \in Int
  BY DEF PartsOf
<1>2. \A part \in P : Size(part) \in Int /\ (Size(part) < 0 => part[2] >= part[3])
  BY <1>1 DEF Size
<1>3. ASSUME NEW f \in [P -> A], NEW part \in P PROVE SortedPart(f, part) \in A
  <2>1. CASE part[2] >= part[3]
    BY <1>1, <2>1 DEF SortedPart
  <2>2. CASE part[2] < part[3]
    <3>1. PartBefore(part) \in P /\ \A w \in A : PartBehind(part, w) \in P
      BY <2>2, PartsShrink
    <3>2. f[PartBefore(part)] \in A
      BY <3>1
    <3>3. f[PartBehind(part, f[PartBefore(part)])] \in A
      BY <3>1, <3>2
    <3>4. ~(part[2] >= part[3])
      BY <1>1, <2>2
    <3> QED
      BY <3>3, <3>4 DEF SortedPart
  <2> QED
    BY <1>1, <2>1, <2>2
<1>4. 0 \in T
  <2> DEFINE f == [part \in P |-> part[1]]
  <2>1. f \in [P -> A]
    BY <1>1
  <2>2. \A part \in P : f[part] = part[1]
    OBVIOUS
  <2> HIDE DEF f
  <2>3. Below(f, 0)
    BY <1>2, <2>2 DEF SortedPart
  <2> QED
    BY <2>1, <2>3
<1>5. ASSUME NEW k \in Nat, k \in T PROVE k + 1 \in T
  <2>1. PICK f \in [P -> A] : Below(f, k)
    BY <1>5
  <2> DEFINE g == [part \in P |-> IF Size(part) < k THEN f[part] ELSE SortedPart(f, part)]
  <2>2. g \in [P -> A]
    BY <1>3
  <2>3. \A part \in P : g[part] = IF Size(part) < k THEN f[part] ELSE SortedPart(f, part)
    OBVIOUS
  <2> HIDE DEF g
  <2>4. \A part \in P : g[part] = SortedPart(f, part)
    BY <2>1, <2>3
  <2>5. \A part \in P : Size(part) < k => g[part] = f[part]
    BY <2>3
  <2>6. ASSUME NEW part \in P, Size(part) < k + 1 PROVE SortedPart(g, part) = SortedPart(f, part)
    <3>1. CASE part[2] >= part[3]
      BY <3>1 DEF SortedPart
    <3>2. CASE part[2] < part[3]
      <4> DEFINE before == PartBefore(part)
                 w == f[before]
                 behind == PartBehind(part, w)
      <4>1. before \in P /\ Size(before) < Size(part)
        BY <3>2, PartsShrink
      <4>2. Size(before) < k
        BY <1>2, <2>6, <4>1
      <4>3. g[before] = w /\ w \in A
        BY <2>5, <4>1, <4>2
      <4>4. behind \in P /\ Size(behind) < Size(part)
        BY <3>2, <4>3, PartsShrink
      <4>5. Size(behind) < k
        BY <1>2, <2>6, <4>4
      <4>6. g[behind] = f[behind]
        BY <2>5, <4>4, <4>5
      <4>7. ~(part[2] >= part[3])
        BY <1>1, <3>2
      <4> QED
        BY <4>3, <4>6, <4>7 DEF SortedPart
    <3> QED
      BY <1>1, <3>1, <3>2
  <2>7. Below(g, k + 1)
    BY <2>4, <2>6
  <2> QED
    BY <2>2, <2>7
<1>6. Nat \subseteq T
  <2> HIDE DEF T
  <2> QED
    BY <1>4, <1>5, SetInduction
<1>7. PICK f \in [P -> A] : Below(f, n + 1)
  <2>1. n + 1 \in T
    <3> HIDE DEF T
    <3> QED
      BY <1>6
  <2> QED
    BY <2>1
<1>8. \A part \in P : Size(part) < n + 1
  BY DEF PartsOf, Size
<1> QED
  BY <1>7, <1>8

Ascending(v, l, r) == \A i, j \in l .. r : i < j => v[i] <= v[j]

SortsPart(w, part, n, X) ==
  /\ w \in [1 .. n -> X]
  /\ Rearranged(w, part[1], n, part[2], part[3])
  /\ Ascending(w, part[2], part[3])

\* If the parts on both sides of the pivot are sorted, so is the whole.
LEMMA SortedStep ==
  ASSUME NEW n \in Nat, NEW X \in SUBSET Int, NEW part \in PartsOf(n, X), part[2] < part[3],
         NEW w, SortsPart(w, PartBefore(part), n, X),
         NEW y, SortsPart(y, PartBehind(part, w), n, X)
  PROVE  SortsPart(y, part, n, X)
<1> DEFINE v == part[1]
           l == part[2]
           r == part[3]
           found == Partition(v, l, r)
           u == found.v
           m == found.last
<1>1. l \in 1 .. n /\ r \in 1 .. n /\ l < r /\ Partitioned(found, v, n, X, l, r)
  BY PartsShrink
<1>2. PartBefore(part) = <<u, l, m - 1>> /\ PartBehind(part, w) = <<w, m + 1, r>>
  BY DEF PartBefore, PartBehind
<1>3. /\ w \in [1 .. n -> X] /\ Rearranged(w, u, n, l, m - 1) /\ Ascending(w, l, m - 1)
      /\ y \in [1 .. n -> X] /\ Rearranged(y, w, n, m + 1, r) /\ Ascending(y, m + 1, r)
  BY <1>2 DEF SortsPart
<1>4. v \in [1 .. n -> X]
  BY DEF PartsOf
<1> HIDE DEF v, l, r, found
<1>5. /\ u \in [1 .. n -> X] /\ m \in l .. r /\ Rearranged(u, v, n, l, r)
      /\ \A j \in l .. m - 1 : u[j] < u[m]
      /\ \A j \in m + 1 .. r : u[j] >= u[m]
  BY <1>1 DEF Partitioned
<1> HIDE DEF u, m
<1>6. /\ m \in 1 .. n /\ l \in Int /\ r \in Int /\ m - 1 \in Int /\ m + 1 \in Int
      /\ m - 1 <= r /\ l <= m + 1 /\ l <= l /\ r <= r
      /\ \A j \in l .. r : j \in 1 .. n
  BY <1>1, <1>5
<1>7. Rearranged(y, v, n, l, r)
  <2>1. Rearranged(w, u, n, l, r)
    BY <1>3, <1>6, RearrangedWider
  <2>2. Rearranged(y, w, n, l, r)
    BY <1>3, <1>6, RearrangedWider
  <2>3. Rearranged(w, v, n, l, r)
    BY <1>5, <1>6, <2>1, RearrangedTwice
  <2> QED
    BY <1>6, <2>2, <2>3, RearrangedTwice
<1>8. PICK p, q \in [1 .. n -> 1 .. n] :
        Permutes(p, q, n, l, m - 1) /\ \A i \in 1 .. n : w[i] = u[p[i]]
  BY <1>3 DEF Rearranged
<1>9. PICK s, t \in [1 .. n -> 1 .. n] :
        Permutes(s, t, n, m + 1, r) /\ \A i \in 1 .. n : y[i] = w[s[i]]
  BY <1>3 DEF Rearranged
<1>10. \A j \in 1 .. n : u[j] \in Int /\ w[j] \in Int /\ y[j] \in Int
  BY <1>3, <1>5
<1>11. ASSUME NEW j \in l .. m - 1 PROVE y[j] = w[j] /\ y[j] < u[m]
  <2>1. j \in 1 .. n /\ j \notin m + 1 .. r
    BY <1>1, <1>5
  <2>2. y[j] = w[j]
    BY <1>9, <2>1 DEF Permutes
  <2>3. p[j] \in l .. m - 1
    BY <1>6, <1>8, <2>1, PermutesInside
  <2> QED
    BY <1>5, <1>8, <2>1, <2>2, <2>3
<1>12. y[m] = u[m]
  <2>1. m \notin l .. m - 1 /\ m \notin m + 1 .. r
    BY <1>6
  <2>2. s[m] = m /\ p[m] = m
    BY <1>6, <1>8, <1>9, <2>1 DEF Permutes
  <2> QED
    BY <1>6, <1>8, <1>9, <2>2
<1>13. ASSUME NEW j \in m + 1 .. r PROVE y[j] >= u[m]
  <2>1. j \in 1 .. n
    BY <1>1, <1>5
  <2> DEFINE k == s[j]
  <2>2. k \in 1 .. n /\ k \in m + 1 .. r
    BY <1>6, <1>9, <2>1, PermutesInside
  <2>3. y[j] = w[k]
    BY <1>9, <2>1
  <2> HIDE DEF k
  <2>4. k \notin l .. m - 1
    BY <1>6, <2>2
  <2>5. p[k] = k
    BY <1>8, <2>2, <2>4 DEF Permutes
  <2> QED
    BY <1>5, <1>8, <2>2, <2>3, <2>5
<1>14. ASSUME NEW i \in l .. r, NEW j \in l .. r, i < j PROVE y[i] <= y[j]
  <2>1. i \in 1 .. n /\ j \in 1 .. n /\ y[i] \in Int /\ y[j] \in Int /\ u[m] \in Int
    BY <1>6, <1>10
  <2>2. CASE j < m
    <3>1. i \in l .. m - 1 /\ j \in l .. m - 1
      BY <1>6, <1>14, <2>2
    <3>2. w[i] <= w[j]
      BY <1>3, <1>14, <3>1 DEF Ascending
    <3> QED
      BY <1>11, <3>1, <3>2
  <2>3. CASE i > m
    <3>1. i \in m + 1 .. r /\ j \in m + 1 .. r
      BY <1>6, <1>14, <2>3
    <3> QED
      BY <1>3, <1>14, <3>1 DEF Ascending
  <2>4. CASE i <= m /\ j >= m
    <3>1. y[i] = u[m] \/ y[i] < u[m]
      <4>1. CASE i = m
        BY <1>12, <4>1
      <4>2. CASE i # m
        <5>1. i \in l .. m - 1
          BY <1>6, <2>4, <4>2
        <5> QED
          BY <1>11, <5>1
      <4> QED
        BY <4>1, <4>2
    <3>2. y[j] = u[m] \/ y[j] >= u[m]
      <4>1. CASE j = m
        BY <1>12, <4>1
      <4>2. CASE j # m
        <5>1. j \in m + 1 .. r
          BY <1>6, <2>4, <4>2
        <5> QED
          BY <1>13, <5>1
      <4> QED
        BY <4>1, <4>2
    <3>3. \A g, h, k \in Int : (g = k \/ g < k) /\ (h = k \/ h >= k) => g <= h
      OBVIOUS
    <3> QED
      BY <2>1, <3>1, <3>2, <3>3
  <2> QED
    BY <1>6, <1>14, <2>2, <2>3, <2>4
<1>15. Ascending(y, l, r)
  BY <1>14 DEF Ascending
<1> QED
  BY <1>3, <1>7, <1>15 DEF SortsPart, v, l, r

\* Whatever satisfies the equation of the recursion sorts every part.
LEMMA SortsEveryPart ==
  ASSUME NEW n \in Nat, NEW X \in SUBSET Int, NEW f,
         \A part \in PartsOf(n, X) : f[part] = SortedPart(f, part)
  PROVE  \A part \in PartsOf(n, X) : SortsPart(f[part], part, n, X)
<1> DEFINE P == PartsOf(n, X)
           T == {k \in Nat : \A part \in P : Size(part) < k => SortsPart(f[part], part, n, X)}
<1>1. ASSUME NEW part \in P, part[2] >= part[3] PROVE SortsPart(f[part], part, n, X)
  <2>1. f[part] = part[1]
    BY <1>1 DEF SortedPart
  <2>2. part[1] \in [1 .. n -> X] /\ part[2] \in Int /\ part[3] \in Int
    BY DEF PartsOf
  <2>3. Ascending(part[1], part[2], part[3])
    BY <1>1, <2>2 DEF Ascending
  <2> QED
    BY <2>1, <2>2, <2>3, RearrangedSame DEF SortsPart
<1>2. \A part \in P : /\ Size(part) \in Int /\ part[2] \in Int /\ part[3] \in Int
                      /\ Size(part) < 0 => part[2] >= part[3]
                      /\ Size(part) < n + 1
  BY DEF PartsOf, Size
<1>3. 0 \in T
  BY <1>1, <1>2
<1>4. ASSUME NEW k \in Nat, k \in T PROVE k + 1 \in T
  <2>1. ASSUME NEW part \in P, Size(part) < k + 1, part[2] < part[3]
        PROVE  SortsPart(f[part], part, n, X)
    <3> DEFINE before == PartBefore(part)
               w == f[before]
               behind == PartBehind(part, w)
    <3>1. before \in P /\ Size(before) < Size(part)
      BY <2>1, PartsShrink
    <3>2. SortsPart(w, before, n, X)
      BY <1>2, <1>4, <2>1, <3>1
    <3>3. w \in [1 .. n -> X]
      BY <3>2 DEF SortsPart
    <3>4. behind \in P /\ Size(behind) < Size(part)
      BY <2>1, <3>3, PartsShrink
    <3>5. SortsPart(f[behind], behind, n, X)
      BY <1>2, <1>4, <2>1, <3>4
    <3>6. f[part] = f[behind]
      <4>1. ~(part[2] >= part[3])
        BY <1>2, <2>1
      <4> QED
        BY <4>1 DEF SortedPart
    <3> HIDE DEF before, behind, w
    <3>7. SortsPart(f[behind], part, n, X)
      BY <2>1, <3>2, <3>5, SortedStep DEF before, behind
    <3> QED
      BY <3>6, <3>7
  <2>2. \A part \in P : Size(part) < k + 1 => SortsPart(f[part], part, n, X)
    BY <1>1, <1>2, <2>1
  <2> QED
    BY <2>2
<1>5. Nat \subseteq T
  <2> HIDE DEF T
  <2> QED
    BY <1>3, <1>4, SetInduction
<1>6. n + 1 \in T
  <2> HIDE DEF T
  <2> QED
    BY <1>5
<1> QED
  BY <1>2, <1>6
-----------------------------------------------------------------------------
(* qsort.                                                                  *)

LEMMA QSortSorts ==
  ASSUME NEW n \in Nat, NEW v \in [1 .. n -> Byte]
  PROVE  SortsPart(qsort(v, 1, n), <<v, 1, n>>, n, {v[i] : i \in DOMAIN v})
<1> DEFINE X == {v[i] : i \in DOMAIN v}
           P == PartsOf(n, X)
           Eqn(f) == f = [part \in P |-> SortedPart(f, part)]
           sorted == CHOOSE f : Eqn(f)
<1>1. Len(v) = n /\ DOMAIN v = 1 .. n
  OBVIOUS
<1>2. X \in SUBSET Int /\ v \in [1 .. n -> X]
  BY OnesIsPositive DEF Byte
<1>3. Parts(v) = P
  BY <1>1 DEF Parts, Arrays, PartsOf
<1> HIDE DEF X
<1>4. PICK g \in [P -> [1 .. n -> X]] : \A part \in P : g[part] = SortedPart(g, part)
  BY <1>2, SortedExists
<1>5. Eqn(g)
  <2> HIDE DEF P
  <2> QED
    BY <1>4
<1>6. Eqn(sorted)
  <2> HIDE DEF Eqn
  <2> QED
    BY <1>5
<1>7. qsort(v, 1, n) = sorted[<<v, 1, n>>]
  BY <1>3 DEF qsort, SortedPart, PartBefore, PartBehind
<1> HIDE DEF sorted
<1>8. \A part \in P : sorted[part] = SortedPart(sorted, part)
  <2> HIDE DEF P
  <2> QED
    BY <1>6
<1>9. \A part \in P : SortsPart(sorted[part], part, n, X)
  BY <1>2, <1>8, SortsEveryPart
<1>10. <<v, 1, n>> \in P
  BY <1>2 DEF PartsOf
<1> QED
  BY <1>7, <1>9, <1>10 DEF X

\* Rearranging changes no count.
Count(v, n, x) == Cardinality({i \in 1 .. n : v[i] = x})

LEMMA RearrangedCounts ==
  ASSUME NEW n \in Nat, NEW w, NEW v, NEW l \in Int, NEW r \in Int, Rearranged(w, v, n, l, r),
         NEW x
  PROVE  Count(w, n, x) = Count(v, n, x)
<1> DEFINE S == {i \in 1 .. n : w[i] = x}
           T == {i \in 1 .. n : v[i] = x}
<1>1. PICK p, q \in [1 .. n -> 1 .. n] :
        Permutes(p, q, n, l, r) /\ \A i \in 1 .. n : w[i] = v[p[i]]
  BY DEF Rearranged
<1>2. \A i \in 1 .. n : q[p[i]] = i /\ p[q[i]] = i
  BY <1>1 DEF Permutes
<1> DEFINE f == [i \in S |-> p[i]]
<1>3. f \in [S -> T] /\ DOMAIN f = S /\ \A i \in S : f[i] = p[i]
  BY <1>1
<1>4. \A i, j \in S : f[i] = f[j] => i = j
  BY <1>2, <1>3
<1>5. \A j \in T : q[j] \in S /\ f[q[j]] = j
  BY <1>1, <1>2, <1>3
<1>6. IsFiniteSet(S)
  <2>1. IsFiniteSet(1 .. n) /\ S \subseteq 1 .. n
    BY FS_Interval
  <2> QED
    BY <2>1, FS_Subset
<1> HIDE DEF f, S, T
<1>7. f \in Injection(S, T) /\ f \in Surjection(S, T)
  BY <1>3, <1>4, <1>5 DEF Injection, IsInjective, Surjection
<1>8. ExistsBijection(S, T)
  BY <1>7 DEF ExistsBijection, Bijection
<1>9. Cardinality(T) = Cardinality(S)
  BY <1>6, <1>8, FS_Bijection
<1> QED
  BY <1>9 DEF S, T, Count

\* qsort returns what it was given, in ascending order, for every length.
THEOREM QSortIsCorrect == FunctionsSpec => []SortsBlocks
<1>1. ASSUME BlocksDrawn PROVE SortsBlocks
  <2>1. PICK n \in Nat : block1 \in [1 .. n -> Byte]
    BY <1>1 DEF BlocksDrawn, Blocks
  <2> DEFINE X == {block1[i] : i \in DOMAIN block1}
             sorted == qsort(block1, 1, n)
  <2>2. Len(block1) = n /\ DOMAIN block1 = 1 .. n
    BY <2>1
  <2>3. SortsPart(sorted, <<block1, 1, n>>, n, X)
    BY <2>1, QSortSorts
  <2> HIDE DEF sorted, X
  <2>4. /\ sorted \in [1 .. n -> X] /\ Rearranged(sorted, block1, n, 1, n)
        /\ \A i, j \in 1 .. n : i < j => sorted[i] <= sorted[j]
    BY <2>3 DEF SortsPart, Ascending
  <2>5. DOMAIN sorted = 1 .. n
    BY <2>4
  <2>6. \A x : Count(sorted, n, x) = Count(block1, n, x)
    <3>1. n \in Nat /\ 1 \in Int /\ n \in Int
      BY <2>1
    <3> QED
      BY <2>4, <3>1, RearrangedCounts
  <2> QED
    BY <2>2, <2>4, <2>5, <2>6 DEF SortsBlocks, Count, sorted
<1> QED
  BY <1>1, AlwaysBlocks, PTL
=============================================================================
