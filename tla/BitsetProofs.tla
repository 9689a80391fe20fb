---------------------------- MODULE BitsetProofs ----------------------------
(***************************************************************************)
(* The bitsets are vectors of bits, for bytes of any number of bits and    *)
(* any lengths: the bytes, their boundaries and the cached count are never *)
(* seen from outside.                                                      *)
(***************************************************************************)
EXTENDS Bitset, FiniteSetTheorems, TLAPS

-----------------------------------------------------------------------------
(* Indexes as pairs of a byte and a position in it.                        *)

LEMMA Parts ==
  ASSUME NEW x \in Nat
  PROVE  /\ ByteOf(x) \in Nat /\ PositionOf(x) \in Positions
         /\ x = ByteOf(x) * BYTE + PositionOf(x)
<1>1. /\ x = BYTE * (x \div BYTE) + (x % BYTE)
      /\ x % BYTE \in 0 .. BYTE - 1
      /\ x \div BYTE \in Int
  BY ByteAssumption
<1>2. x \div BYTE >= 0
  BY ByteAssumption
<1> QED
  BY <1>1, <1>2, ByteAssumption DEF ByteOf, PositionOf, Positions

LEMMA PartTypes ==
  ASSUME NEW x \in Nat
  PROVE  ByteOf(x) \in Nat /\ PositionOf(x) \in Nat /\ PositionOf(x) < BYTE
<1>1. ByteOf(x) \in Nat /\ PositionOf(x) \in 0 .. BYTE - 1 /\ BYTE \in Nat
  BY Parts, ByteAssumption DEF Positions
<1> QED
  BY <1>1

LEMMA FewerBytes ==
  ASSUME NEW i \in Nat, NEW j \in Nat, i < j
  PROVE  i * BYTE + BYTE <= j * BYTE
<1>1. (j - i - 1) * BYTE >= 0
  BY ByteAssumption
<1>2. (j - i - 1) * BYTE = j * BYTE - i * BYTE - BYTE
  BY ByteAssumption
<1>3. j * BYTE \in Int /\ i * BYTE \in Int /\ BYTE \in Int
  BY ByteAssumption
<1> QED
  BY <1>1, <1>2, <1>3

LEMMA Compose ==
  ASSUME NEW i \in Nat, NEW m \in Positions
  PROVE  i * BYTE + m \in Nat /\ ByteOf(i * BYTE + m) = i /\ PositionOf(i * BYTE + m) = m
<1> DEFINE x == i * BYTE + m
<1>1. i * BYTE \in Nat /\ m \in Nat /\ m < BYTE
  BY ByteAssumption DEF Positions
<1>2. x \in Nat
  BY <1>1
<1> HIDE DEF x
<1>3. /\ ByteOf(x) \in Nat /\ PositionOf(x) \in Nat /\ PositionOf(x) < BYTE
      /\ x = ByteOf(x) * BYTE + PositionOf(x)
  BY <1>2, Parts, ByteAssumption DEF Positions
<1>4. BYTE \in Nat /\ ByteOf(x) * BYTE \in Nat
  BY <1>3, ByteAssumption
<1>5. x = i * BYTE + m
  BY DEF x
<1>6. ~(ByteOf(x) < i)
  <2> SUFFICES ASSUME ByteOf(x) < i PROVE FALSE
    OBVIOUS
  <2>1. ByteOf(x) * BYTE + BYTE <= i * BYTE
    BY <1>3, FewerBytes
  <2> QED
    BY <2>1, <1>1, <1>3, <1>4, <1>5
<1>7. ~(i < ByteOf(x))
  <2> SUFFICES ASSUME i < ByteOf(x) PROVE FALSE
    OBVIOUS
  <2>1. i * BYTE + BYTE <= ByteOf(x) * BYTE
    BY <1>3, FewerBytes
  <2> QED
    BY <2>1, <1>1, <1>3, <1>4, <1>5
<1>8. ByteOf(x) = i
  BY <1>3, <1>6, <1>7
<1>9. PositionOf(x) = m
  BY <1>1, <1>3, <1>5, <1>8
<1> QED
  BY <1>2, <1>8, <1>9 DEF x

\* Indexes are ordered like their bytes, and in a byte like their positions.
LEMMA Order ==
  ASSUME NEW x \in Nat, NEW y \in Nat
  PROVE  x <= y <=> \/ ByteOf(x) < ByteOf(y)
                    \/ ByteOf(x) = ByteOf(y) /\ PositionOf(x) <= PositionOf(y)
<1>1. /\ ByteOf(x) \in Nat /\ PositionOf(x) \in Nat /\ PositionOf(x) < BYTE
      /\ x = ByteOf(x) * BYTE + PositionOf(x)
  BY Parts, ByteAssumption DEF Positions
<1>2. /\ ByteOf(y) \in Nat /\ PositionOf(y) \in Nat /\ PositionOf(y) < BYTE
      /\ y = ByteOf(y) * BYTE + PositionOf(y)
  BY Parts, ByteAssumption DEF Positions
<1>3. BYTE \in Nat /\ ByteOf(x) * BYTE \in Nat /\ ByteOf(y) * BYTE \in Nat
  BY <1>1, <1>2, ByteAssumption
<1>4. CASE ByteOf(x) < ByteOf(y)
  <2>1. ByteOf(x) * BYTE + BYTE <= ByteOf(y) * BYTE
    BY <1>1, <1>2, <1>4, FewerBytes
  <2> QED
    BY <2>1, <1>1, <1>2, <1>3, <1>4
<1>5. CASE ByteOf(y) < ByteOf(x)
  <2>1. ByteOf(y) * BYTE + BYTE <= ByteOf(x) * BYTE
    BY <1>1, <1>2, <1>5, FewerBytes
  <2> QED
    BY <2>1, <1>1, <1>2, <1>3, <1>5
<1>6. CASE ByteOf(x) = ByteOf(y)
  BY <1>1, <1>2, <1>3, <1>6
<1> QED
  BY <1>1, <1>2, <1>4, <1>5, <1>6

LEMMA BelowBytes ==
  ASSUME NEW x \in Nat, NEW n \in Nat
  PROVE  x < n * BYTE <=> ByteOf(x) < n
<1>1. /\ ByteOf(x) \in Nat /\ PositionOf(x) \in Nat /\ PositionOf(x) < BYTE
      /\ x = ByteOf(x) * BYTE + PositionOf(x)
  BY Parts, ByteAssumption DEF Positions
<1>2. BYTE \in Nat /\ ByteOf(x) * BYTE \in Nat /\ n * BYTE \in Nat
  BY <1>1, ByteAssumption
<1>3. CASE ByteOf(x) < n
  <2>1. ByteOf(x) * BYTE + BYTE <= n * BYTE
    BY <1>1, <1>3, FewerBytes
  <2> QED
    BY <2>1, <1>1, <1>2, <1>3
<1>4. CASE n < ByteOf(x)
  <2>1. n * BYTE + BYTE <= ByteOf(x) * BYTE
    BY <1>1, <1>4, FewerBytes
  <2> QED
    BY <2>1, <1>1, <1>2, <1>4
<1>5. CASE n = ByteOf(x)
  BY <1>1, <1>2, <1>5
<1> QED
  BY <1>1, <1>3, <1>4, <1>5

LEMMA Bits ==
  ASSUME NEW n \in Nat, NEW v \in ByteArrays(n)
  PROVE  BitsOf(v) = {x \in Nat : ByteOf(x) < n /\ PositionOf(x) \in v[ByteOf(x)]}
<1>1. DOMAIN v = 0 .. n - 1 /\ \A i \in 0 .. n - 1 : v[i] \subseteq Positions
  BY DEF ByteArrays
<1>2. ASSUME NEW x \in BitsOf(v)
      PROVE  x \in Nat /\ ByteOf(x) < n /\ PositionOf(x) \in v[ByteOf(x)]
  <2>a. PICK i \in 0 .. n - 1 : \E m \in v[i] : x = i * BYTE + m
    BY <1>1, <1>2 DEF BitsOf
  <2>1. PICK m \in v[i] : x = i * BYTE + m
    BY <2>a
  <2>2. i \in Nat /\ i < n /\ m \in Positions
    BY <1>1
  <2>3. x \in Nat /\ ByteOf(x) = i /\ PositionOf(x) = m
    BY <2>1, <2>2, Compose
  <2> QED
    BY <2>2, <2>3
<1>3. ASSUME NEW x \in Nat, ByteOf(x) < n, PositionOf(x) \in v[ByteOf(x)]
      PROVE  x \in BitsOf(v)
  <2>1. ByteOf(x) \in 0 .. n - 1 /\ x = ByteOf(x) * BYTE + PositionOf(x)
    BY <1>3, Parts
  <2> QED
    BY <1>1, <1>3, <2>1 DEF BitsOf
<1> QED
  BY <1>2, <1>3

LEMMA SameParts ==
  ASSUME NEW x \in Nat, NEW y \in Nat, ByteOf(x) = ByteOf(y), PositionOf(x) = PositionOf(y)
  PROVE  x = y
<1>1. x = ByteOf(x) * BYTE + PositionOf(x) /\ y = ByteOf(y) * BYTE + PositionOf(y)
  BY Parts
<1> QED
  BY <1>1
-----------------------------------------------------------------------------
(* What the functions on bytes do to the set of indexes.                   *)

LEMMA ZeroBits ==
  ASSUME NEW n \in Nat
  PROVE  ZeroBytes(n) \in ByteArrays(n) /\ BitsOf(ZeroBytes(n)) = {}
<1>1. ZeroBytes(n) \in ByteArrays(n)
  BY DEF ZeroBytes, ByteArrays
<1> QED
  BY <1>1 DEF ZeroBytes, BitsOf

LEMMA GetBit ==
  ASSUME NEW n \in Nat, NEW v \in ByteArrays(n), NEW index \in Nat, ByteOf(index) < n
  PROVE  inline_bitset_get(v, index) <=> index \in BitsOf(v)
BY Bits DEF inline_bitset_get

LEMMA SetBit ==
  ASSUME NEW n \in Nat, NEW v \in ByteArrays(n), NEW index \in Nat, ByteOf(index) < n
  PROVE  /\ inline_bitset_set(v, index) \in ByteArrays(n)
         /\ BitsOf(inline_bitset_set(v, index)) = BitsOf(v) \cup {index}
<1> DEFINE w == inline_bitset_set(v, index)
           b == ByteOf(index)
           p == PositionOf(index)
<1>1. b \in 0 .. n - 1 /\ p \in Positions
  BY Parts
<1>2. v \in [0 .. n - 1 -> SUBSET Positions]
  BY DEF ByteArrays
<1>3. w = [v EXCEPT ![b] = @ \cup {p}]
  BY DEF inline_bitset_set
<1> HIDE DEF w, b, p
<1>4. w \in [0 .. n - 1 -> SUBSET Positions]
  BY <1>1, <1>2, <1>3
<1>5. \A i \in 0 .. n - 1 : w[i] = IF i = b THEN v[i] \cup {p} ELSE v[i]
  BY <1>1, <1>2, <1>3
<1>6. w \in ByteArrays(n)
  BY <1>4 DEF ByteArrays
<1>7. BitsOf(w) = {x \in Nat : ByteOf(x) < n /\ PositionOf(x) \in w[ByteOf(x)]}
  BY <1>6, Bits
<1>8. BitsOf(v) = {x \in Nat : ByteOf(x) < n /\ PositionOf(x) \in v[ByteOf(x)]}
  BY Bits
<1>9. ASSUME NEW x \in Nat
      PROVE  x \in BitsOf(w) <=> x \in BitsOf(v) \/ x = index
  <2>1. ByteOf(x) \in Nat
    BY Parts
  <2>2. CASE ByteOf(x) < n
    <3>1. ByteOf(x) \in 0 .. n - 1
      BY <2>1, <2>2
    <3>2. ByteOf(x) = b /\ PositionOf(x) = p <=> x = index
      BY SameParts DEF b, p
    <3> QED
      BY <2>2, <3>1, <3>2, <1>5, <1>7, <1>8
  <2>3. CASE ~(ByteOf(x) < n)
    <3>1. x # index
      BY <2>3
    <3> QED
      BY <2>3, <3>1, <1>7, <1>8
  <2> QED
    BY <2>2, <2>3
<1>10. BitsOf(w) \subseteq Nat /\ BitsOf(v) \subseteq Nat
  BY <1>7, <1>8
<1>11. BitsOf(w) = BitsOf(v) \cup {index}
  BY <1>9, <1>10
<1> QED
  BY <1>6, <1>11 DEF w

\* An interval is cleared, in whatever bytes it begins and ends.
LEMMA ClearInByte ==
  ASSUME NEW n \in Nat, NEW v \in ByteArrays(n), NEW b \in 0 .. n - 1,
         NEW p \in Positions, NEW q \in Positions, NEW w, w = ClearWithin(v, b, p, q)
  PROVE  /\ w \in ByteArrays(n)
         /\ \A i \in 0 .. n - 1 : \A m \in Positions :
              m \in w[i] <=>
                /\ m \in v[i]
                /\ ~ /\ b < i \/ (b = i /\ p <= m)
                     /\ i < b \/ (i = b /\ m <= q)
<1>1. v \in [0 .. n - 1 -> SUBSET Positions]
  BY DEF ByteArrays
<1>2. w = [v EXCEPT ![b] = @ \ (p .. q)]
  BY DEF ClearWithin
<1>3. w \in [0 .. n - 1 -> SUBSET Positions]
  BY <1>1, <1>2
<1>4. \A i \in 0 .. n - 1 : w[i] = IF i = b THEN v[i] \ (p .. q) ELSE v[i]
  BY <1>1, <1>2
<1>5. \A m \in Positions : m \in Int /\ (m \in p .. q <=> p <= m /\ m <= q)
  BY ByteAssumption DEF Positions
<1>6. ASSUME NEW i \in 0 .. n - 1, NEW m \in Positions
      PROVE  m \in w[i] <=>
               /\ m \in v[i]
               /\ ~ /\ b < i \/ (b = i /\ p <= m)
                    /\ i < b \/ (i = b /\ m <= q)
  <2>1. CASE i = b
    <3>1. w[i] = v[i] \ (p .. q)
      BY <1>4, <2>1
    <3>2. m \in p .. q <=> p <= m /\ m <= q
      BY <1>5
    <3>3. ~(b < i) /\ ~(i < b)
      BY <2>1
    <3> QED
      BY <2>1, <3>1, <3>2, <3>3
  <2>2. CASE i # b
    <3>1. ~(b < i /\ i < b)
      OBVIOUS
    <3> QED
      BY <1>4, <2>2, <3>1
  <2> QED
    BY <2>1, <2>2
<1>7. w \in ByteArrays(n)
  BY <1>3 DEF ByteArrays
<1> QED
  BY <1>6, <1>7

LEMMA ClearInBytes ==
  ASSUME NEW n \in Nat, NEW v \in ByteArrays(n), NEW from \in Nat, NEW to \in Nat,
         ByteOf(from) < ByteOf(to), ByteOf(to) < n
  PROVE  /\ ClearAcross(v, from, to) \in ByteArrays(n)
         /\ \A i \in 0 .. n - 1 : \A m \in Positions :
              m \in ClearAcross(v, from, to)[i] <=>
                /\ m \in v[i]
                /\ ~ /\ ByteOf(from) < i \/ (ByteOf(from) = i /\ PositionOf(from) <= m)
                     /\ i < ByteOf(to) \/ (i = ByteOf(to) /\ m <= PositionOf(to))
<1> DEFINE w == ClearAcross(v, from, to)
           b == ByteOf(from)
           c == ByteOf(to)
           p == PositionOf(from)
           q == PositionOf(to)
<1>1. v \in [0 .. n - 1 -> SUBSET Positions] /\ DOMAIN v = 0 .. n - 1
  BY DEF ByteArrays
<1>2. b \in Nat /\ c \in Nat /\ b < c /\ c < n /\ p \in Positions /\ q \in Positions
  BY Parts
<1>3. w = [i \in DOMAIN v |->
            CASE i = b -> v[i] \ (p .. BYTE - 1)
              [] i = c -> v[i] \ (0 .. q)
              [] c > 1 /\ i \in b + 1 .. c - 1 -> {}
              [] OTHER -> v[i]]
  BY DEF ClearAcross
<1> HIDE DEF w, b, c, p, q
<1>4. \A i \in 0 .. n - 1 :
        /\ i = b => w[i] = v[i] \ (p .. BYTE - 1)
        /\ i = c => w[i] = v[i] \ (0 .. q)
        /\ b < i /\ i < c => w[i] = {}
        /\ i < b \/ c < i => w[i] = v[i]
  <2> TAKE i \in 0 .. n - 1
  <2>1. CASE i = b
    BY <1>1, <1>2, <1>3, <2>1
  <2>2. CASE i = c
    BY <1>1, <1>2, <1>3, <2>2
  <2>3. CASE b < i /\ i < c
    <3>1. c > 1 /\ i \in b + 1 .. c - 1 /\ i # b /\ i # c
      BY <1>2, <2>3
    <3> QED
      BY <1>1, <1>2, <1>3, <3>1
  <2>4. CASE i < b \/ c < i
    <3>1. i \notin b + 1 .. c - 1 /\ i # b /\ i # c
      BY <1>2, <2>4
    <3> QED
      BY <1>1, <1>2, <1>3, <3>1, <2>4
  <2> QED
    BY <1>2, <2>1, <2>2, <2>3, <2>4
<1>5. DOMAIN w = 0 .. n - 1 /\ w = [i \in 0 .. n - 1 |-> w[i]]
  BY <1>1, <1>3
<1>6. \A i \in 0 .. n - 1 : i = b \/ i = c \/ (b < i /\ i < c) \/ i < b \/ c < i
  BY <1>2
<1>7. \A i \in 0 .. n - 1 : w[i] \subseteq Positions
  BY <1>1, <1>4, <1>6
<1>8. w \in ByteArrays(n)
  BY <1>5, <1>7 DEF ByteArrays
<1>9. \A m \in Positions : /\ m \in Int
                           /\ m \in p .. BYTE - 1 <=> p <= m
                           /\ m \in 0 .. q <=> m <= q
  BY <1>2, ByteAssumption DEF Positions
<1>10. ASSUME NEW i \in 0 .. n - 1, NEW m \in Positions
       PROVE  m \in w[i] <=>
                /\ m \in v[i]
                /\ ~ /\ b < i \/ (b = i /\ p <= m)
                     /\ i < c \/ (i = c /\ m <= q)
  <2>1. CASE i = b
    BY <1>2, <1>4, <1>9, <2>1
  <2>2. CASE i = c
    BY <1>2, <1>4, <1>9, <2>2
  <2>3. CASE b < i /\ i < c
    BY <1>4, <2>3
  <2>4. CASE i < b \/ c < i
    BY <1>2, <1>4, <2>4
  <2> QED
    BY <1>6, <2>1, <2>2, <2>3, <2>4
<1> QED
  BY <1>8, <1>10 DEF w, b, c, p, q

LEMMA ClearBits ==
  ASSUME NEW n \in Nat, NEW v \in ByteArrays(n), NEW from \in Nat, NEW to \in Nat,
         ByteOf(to) < n
  PROVE  /\ inline_bitset_clear(v, from, to) \in ByteArrays(n)
         /\ BitsOf(inline_bitset_clear(v, from, to)) =
              {x \in BitsOf(v) : ~(from <= x /\ x <= to)}
<1> DEFINE w == inline_bitset_clear(v, from, to)
<1>a. /\ ByteOf(from) \in Nat /\ PositionOf(from) \in Positions
      /\ ByteOf(to) \in Nat /\ PositionOf(to) \in Positions
  BY Parts
<1>b. /\ w \in ByteArrays(n)
      /\ \A i \in 0 .. n - 1 : \A m \in Positions :
           m \in w[i] <=>
             /\ m \in v[i]
             /\ ~ /\ ByteOf(from) < i \/ (ByteOf(from) = i /\ PositionOf(from) <= m)
                  /\ i < ByteOf(to) \/ (i = ByteOf(to) /\ m <= PositionOf(to))
  <2>0. \A m \in Positions : m \in Int
    BY ByteAssumption DEF Positions
  <2>1. CASE from <= to /\ ByteOf(from) = ByteOf(to)
    <3> DEFINE b == ByteOf(from)
               p == PositionOf(from)
               q == PositionOf(to)
    <3>1. w = ClearWithin(v, b, p, q)
      <4>1. CASE from = to
        BY <4>1 DEF inline_bitset_clear
      <4>2. CASE from < to
        BY <2>1, <4>2 DEF inline_bitset_clear
      <4> QED
        BY <2>1, <4>1, <4>2
    <3>2. b \in 0 .. n - 1 /\ p \in Positions /\ q \in Positions
      BY <1>a, <2>1
    <3> HIDE DEF w, b, p, q
    <3>3. /\ w \in ByteArrays(n)
          /\ \A i \in 0 .. n - 1 : \A m \in Positions :
               m \in w[i] <=>
                 /\ m \in v[i]
                 /\ ~ /\ b < i \/ (b = i /\ p <= m)
                      /\ i < b \/ (i = b /\ m <= q)
      BY <3>1, <3>2, ClearInByte
    <3> QED
      BY <2>1, <3>3 DEF b, p, q
  <2>3. CASE from < to /\ ByteOf(from) # ByteOf(to)
    <3>1. ByteOf(from) < ByteOf(to)
      BY <2>3, Order
    <3>2. w = ClearAcross(v, from, to)
      BY <2>3 DEF inline_bitset_clear
    <3> QED
      BY <3>1, <3>2, ClearInBytes
  <2>4. CASE to < from
    <3>1. w = v
      BY <2>4 DEF inline_bitset_clear
    <3>2. /\ ~(ByteOf(from) < ByteOf(to))
          /\ ByteOf(from) = ByteOf(to) => ~(PositionOf(from) <= PositionOf(to))
      BY <2>4, Order
    <3> HIDE DEF w
    <3> QED
      BY <3>1, <3>2, <1>a, <2>0
  <2> QED
    BY <2>1, <2>3, <2>4
<1> HIDE DEF w
<1>1. BitsOf(w) = {x \in Nat : ByteOf(x) < n /\ PositionOf(x) \in w[ByteOf(x)]}
  BY <1>b, Bits
<1>2. BitsOf(v) = {x \in Nat : ByteOf(x) < n /\ PositionOf(x) \in v[ByteOf(x)]}
  BY Bits
<1>3. ASSUME NEW x \in Nat
      PROVE  x \in BitsOf(w) <=> x \in BitsOf(v) /\ ~(from <= x /\ x <= to)
  <2>1. ByteOf(x) \in Nat /\ PositionOf(x) \in Positions
    BY Parts
  <2>2. from <= x <=> \/ ByteOf(from) < ByteOf(x)
                      \/ ByteOf(from) = ByteOf(x) /\ PositionOf(from) <= PositionOf(x)
    BY Order
  <2>3. x <= to <=> \/ ByteOf(x) < ByteOf(to)
                    \/ ByteOf(x) = ByteOf(to) /\ PositionOf(x) <= PositionOf(to)
    BY Order
  <2>4. CASE ByteOf(x) < n
    <3>1. ByteOf(x) \in 0 .. n - 1
      BY <2>1, <2>4
    <3> QED
      BY <2>1, <2>2, <2>3, <2>4, <3>1, <1>1, <1>2, <1>b
  <2>5. CASE ~(ByteOf(x) < n)
    BY <2>5, <1>1, <1>2
  <2> QED
    BY <2>4, <2>5
<1>4. BitsOf(w) \subseteq Nat /\ BitsOf(v) \subseteq Nat
  BY <1>1, <1>2
<1>5. BitsOf(w) = {x \in BitsOf(v) : ~(from <= x /\ x <= to)}
  BY <1>3, <1>4
<1> QED
  BY <1>b, <1>5 DEF w

LEMMA ClearCyclicBits ==
  ASSUME NEW n \in Nat, NEW v \in ByteArrays(n), NEW l \in Nat, l <= n * BYTE,
         NEW from \in Nat, NEW to \in Nat, to < l
  PROVE  /\ ClearCyclic(v, l, from, to) \in ByteArrays(n)
         /\ BitsOf(ClearCyclic(v, l, from, to)) =
              {x \in BitsOf(v) : ~(IF from <= to THEN from <= x /\ x <= to
                                   ELSE x <= to \/ (from <= x /\ x <= l - 1))}
<1> DEFINE w == ClearCyclic(v, l, from, to)
           u == inline_bitset_clear(v, 0, to)
<1>1. ByteOf(to) < n /\ l - 1 \in Nat /\ ByteOf(l - 1) < n
  <2>1. n * BYTE \in Nat
    BY ByteAssumption
  <2>2. to < n * BYTE /\ l - 1 \in Nat /\ l - 1 < n * BYTE
    BY <2>1
  <2> QED
    BY <2>2, BelowBytes
<1>2. BitsOf(v) \subseteq Nat
  BY Bits
<1>3. CASE from <= to
  <2>1. w = inline_bitset_clear(v, from, to)
    BY <1>3 DEF ClearCyclic
  <2>2. w \in ByteArrays(n) /\ BitsOf(w) = {x \in BitsOf(v) : ~(from <= x /\ x <= to)}
    BY <2>1, <1>1, ClearBits
  <2> HIDE DEF w
  <2>3. w \in ByteArrays(n)
        /\ BitsOf(w) = {x \in BitsOf(v) : ~(IF from <= to THEN from <= x /\ x <= to
                                            ELSE x <= to \/ (from <= x /\ x <= l - 1))}
    BY <2>2, <1>3
  <2> QED
    BY <2>3 DEF w
<1>4. CASE to < from
  <2>1. u \in ByteArrays(n) /\ BitsOf(u) = {x \in BitsOf(v) : ~(0 <= x /\ x <= to)}
    BY <1>1, ClearBits
  <2>2. w = inline_bitset_clear(u, from, l - 1)
    BY <1>4 DEF ClearCyclic
  <2> HIDE DEF u
  <2>3. w \in ByteArrays(n) /\ BitsOf(w) = {x \in BitsOf(u) : ~(from <= x /\ x <= l - 1)}
    BY <2>1, <2>2, <1>1, ClearBits
  <2> HIDE DEF w
  <2>4. BitsOf(w) = {x \in BitsOf(v) : ~(IF from <= to THEN from <= x /\ x <= to
                                         ELSE x <= to \/ (from <= x /\ x <= l - 1))}
    BY <2>1, <2>3, <1>2, <1>4
  <2> QED
    BY <2>3, <2>4 DEF w
<1> QED
  BY <1>3, <1>4
-----------------------------------------------------------------------------
(* The sizes, and what the loops over whole bytes and the rest see.        *)

Sized == len \in Nat /\ n_bytes = (len + BYTE - 1) \div BYTE

LEMMA Sizes ==
  ASSUME Sized
  PROVE  /\ n_bytes \in Nat
         /\ len <= n_bytes * BYTE
         /\ WholeBytes = ByteOf(len)
         /\ TailPositions = 0 .. PositionOf(len) - 1
<1> DEFINE q == ByteOf(len)
           r == PositionOf(len)
           x == len + BYTE - 1
<1>1. q \in Nat /\ r \in Positions /\ len = q * BYTE + r /\ len \in Nat
  BY Parts DEF Sized
<1>2. n_bytes = ByteOf(x) /\ r = len % BYTE
  BY DEF Sized, ByteOf, PositionOf
<1>3. TailPositions = 0 .. r - 1 /\ WholeBytes = IF r = 0 THEN n_bytes ELSE n_bytes - 1
  BY <1>2 DEF TailPositions, WholeBytes
<1>4. BYTE \in Nat \ {0} /\ q * BYTE \in Nat /\ (q + 1) * BYTE = q * BYTE + BYTE
  BY <1>1, ByteAssumption
<1>5. r \in Nat /\ r < BYTE
  BY <1>1, <1>4 DEF Positions
<1>6. x = len + BYTE - 1
  OBVIOUS
<1> HIDE DEF q, r, x
<1>7. CASE r = 0
  <2>1. x = q * BYTE + (BYTE - 1) /\ BYTE - 1 \in Positions
    BY <1>1, <1>4, <1>6, <1>7 DEF Positions
  <2>2. n_bytes = q
    BY <2>1, <1>1, <1>2, Compose
  <2>3. WholeBytes = q /\ n_bytes \in Nat
    BY <2>2, <1>1, <1>3, <1>7
  <2>4. len <= n_bytes * BYTE
    BY <2>2, <1>1, <1>4, <1>7
  <2> QED
    BY <2>3, <2>4, <1>3 DEF q, r
<1>8. CASE r # 0
  <2>1. x = (q + 1) * BYTE + (r - 1) /\ r - 1 \in Positions /\ q + 1 \in Nat
    BY <1>1, <1>4, <1>5, <1>6, <1>8 DEF Positions
  <2>2. n_bytes = q + 1
    BY <2>1, <1>2, Compose
  <2>3. WholeBytes = q /\ n_bytes \in Nat
    BY <2>2, <1>1, <1>3, <1>8
  <2>4. len <= n_bytes * BYTE
    BY <2>2, <1>1, <1>4, <1>5
  <2> QED
    BY <2>3, <2>4, <1>3 DEF q, r
<1> QED
  BY <1>7, <1>8

\* An index is below len if it is in a whole byte or in the tail of the last.
LEMMA BelowLen ==
  ASSUME Sized, NEW x \in Nat
  PROVE  /\ x < len <=> \/ ByteOf(x) < WholeBytes
                        \/ ByteOf(x) = WholeBytes /\ PositionOf(x) \in TailPositions
         /\ x < len => ByteOf(x) < n_bytes
<1>1. len \in Nat /\ WholeBytes = ByteOf(len) /\ TailPositions = 0 .. PositionOf(len) - 1
  BY Sizes DEF Sized
<1>2. /\ ByteOf(x) \in Nat /\ PositionOf(x) \in Nat
      /\ ByteOf(len) \in Nat /\ PositionOf(len) \in Nat
  BY <1>1, PartTypes
<1>3. len <= x <=> \/ ByteOf(len) < ByteOf(x)
                   \/ ByteOf(len) = ByteOf(x) /\ PositionOf(len) <= PositionOf(x)
  BY <1>1, Order
<1>4. x < len <=> ~(len <= x)
  BY <1>1
<1>5. PositionOf(x) \in TailPositions <=> ~(PositionOf(len) <= PositionOf(x))
  BY <1>1, <1>2
<1>6. ASSUME x < len PROVE ByteOf(x) < n_bytes
  <2>1. n_bytes \in Nat /\ len <= n_bytes * BYTE /\ n_bytes * BYTE \in Nat
    BY Sizes, ByteAssumption
  <2>2. x < n_bytes * BYTE
    BY <2>1, <1>1, <1>6
  <2> QED
    BY <2>1, <2>2, BelowBytes
<1>7. x < len <=> \/ ByteOf(x) < ByteOf(len)
                  \/ ByteOf(x) = ByteOf(len) /\ ~(PositionOf(len) <= PositionOf(x))
  BY <1>2, <1>3, <1>4
<1> QED
  BY <1>1, <1>5, <1>6, <1>7
-----------------------------------------------------------------------------
(* The invariant: no bit is set behind len, and a valid count is right.    *)

IInv ==
  /\ len \in 0 .. MaxLen
  /\ Sized
  /\ value \in ByteArrays(n_bytes)
  /\ is_count_valid \in BOOLEAN
  /\ count \in 0 .. len
  /\ BitsOf(value) \subseteq 0 .. len - 1
  /\ CountIsTrue

LEMMA Facts ==
  ASSUME IInv
  PROVE  /\ len \in Nat /\ n_bytes \in Nat
         /\ value \in ByteArrays(n_bytes)
         /\ len <= n_bytes * BYTE
         /\ BitsOf(value) \subseteq Nat
         /\ BitsOf(value) \subseteq 0 .. len - 1
         /\ \A x \in BitsOf(value) : x < len
BY Sizes, MaxLenAssumption DEF IInv, Sized

\* Sets of bits below len.
LEMMA CardinalityBelow ==
  ASSUME NEW l \in Nat, NEW S, S \subseteq 0 .. l - 1
  PROVE  /\ IsFiniteSet(S)
         /\ Cardinality(S) \in 0 .. l
         /\ Cardinality(S) = l <=> S = 0 .. l - 1
         /\ Cardinality(S) = 0 <=> S = {}
<1>1. IsFiniteSet(0 .. l - 1) /\ Cardinality(0 .. l - 1) = l
  <2>1. IsFiniteSet(0 .. l - 1)
        /\ Cardinality(0 .. l - 1) = IF 0 > l - 1 THEN 0 ELSE l - 1 - 0 + 1
    BY FS_Interval
  <2> QED
    BY <2>1
<1>2. S \in SUBSET (0 .. l - 1)
  OBVIOUS
<1>3. /\ IsFiniteSet(S)
      /\ Cardinality(S) <= Cardinality(0 .. l - 1)
      /\ Cardinality(0 .. l - 1) = Cardinality(S) => 0 .. l - 1 = S
  BY <1>1, <1>2, FS_Subset
<1>4. Cardinality(S) \in Nat /\ (Cardinality(S) = 0 <=> S = {})
  BY <1>3, FS_CardinalityType, FS_EmptySet
<1>5. Cardinality(S) <= l /\ (Cardinality(S) = l => S = 0 .. l - 1)
  BY <1>1, <1>3
<1>6. S = 0 .. l - 1 => Cardinality(S) = l
  BY <1>1
<1> QED
  BY <1>3, <1>4, <1>5, <1>6

\* The loops of bitset_num visit every bit that is set, once.
LEMMA CountedBits ==
  ASSUME IInv
  PROVE  Cardinality(Counted) = Cardinality(BitsOf(value))
<1> DEFINE f == [x \in BitsOf(value) |-> <<ByteOf(x), PositionOf(x)>>]
<1>1. Sized /\ value \in ByteArrays(n_bytes) /\ n_bytes \in Nat
  BY Facts DEF IInv
<1>2. /\ BitsOf(value) \subseteq Nat
      /\ \A x \in BitsOf(value) : x < len
  BY Facts
<1>3. BitsOf(value) =
        {x \in Nat : ByteOf(x) < n_bytes /\ PositionOf(x) \in value[ByteOf(x)]}
  BY <1>1, Bits
<1>4. ASSUME NEW x \in BitsOf(value)
      PROVE  f[x] \in Counted
  <2>1. x \in Nat /\ x < len /\ ByteOf(x) < n_bytes /\ PositionOf(x) \in value[ByteOf(x)]
    BY <1>2, <1>3
  <2>2. ByteOf(x) < WholeBytes \/ PositionOf(x) \in TailPositions
    BY <1>1, <2>1, BelowLen
  <2>3. ByteOf(x) \in 0 .. n_bytes - 1 /\ PositionOf(x) \in Positions
    BY <1>1, <2>1, Parts
  <2>4. <<ByteOf(x), PositionOf(x)>> \in Counted
    BY <2>1, <2>2, <2>3 DEF Counted
  <2> QED
    BY <2>4
<1>5. f \in Injection(BitsOf(value), Counted)
  <2>1. f \in [BitsOf(value) -> Counted]
    BY <1>4
  <2>2. ASSUME NEW x \in BitsOf(value), NEW y \in BitsOf(value), f[x] = f[y]
        PROVE  x = y
    <3>1. ByteOf(x) = ByteOf(y) /\ PositionOf(x) = PositionOf(y)
      BY <2>2
    <3> QED
      BY <3>1, <1>2, SameParts
  <2>3. DOMAIN f = BitsOf(value)
    OBVIOUS
  <2> HIDE DEF f
  <2> QED
    BY <2>1, <2>2, <2>3 DEF Injection, IsInjective
<1>6. f \in Surjection(BitsOf(value), Counted)
  <2>1. f \in [BitsOf(value) -> Counted]
    BY <1>4
  <2>2. ASSUME NEW i_m \in Counted PROVE \E x \in BitsOf(value) : f[x] = i_m
    <3>1. /\ i_m = <<i_m[1], i_m[2]>>
          /\ i_m[1] \in 0 .. n_bytes - 1 /\ i_m[2] \in Positions
          /\ i_m[2] \in value[i_m[1]]
      BY DEF Counted
    <3> DEFINE x == i_m[1] * BYTE + i_m[2]
    <3>2. x \in Nat /\ ByteOf(x) = i_m[1] /\ PositionOf(x) = i_m[2]
      BY <3>1, Compose
    <3> HIDE DEF x
    <3>3. x \in BitsOf(value)
      BY <1>1, <1>3, <3>1, <3>2
    <3>4. f[x] = i_m
      BY <3>1, <3>2, <3>3
    <3> QED
      BY <3>3, <3>4
  <2> HIDE DEF f
  <2> QED
    BY <2>1, <2>2 DEF Surjection
<1>7. IsFiniteSet(BitsOf(value))
  BY Facts, CardinalityBelow
<1> HIDE DEF f
<1>8. ExistsBijection(BitsOf(value), Counted)
  BY <1>5, <1>6 DEF ExistsBijection, Bijection
<1> QED
  BY <1>7, <1>8, FS_Bijection

LEMMA InitIInv == Init => IInv
<1> SUFFICES ASSUME Init PROVE IInv
  OBVIOUS
<1>1. len \in 0 .. MaxLen /\ Sized /\ is_count_valid \in BOOLEAN /\ count = 0
  BY MaxLenAssumption DEF Init, Sized
<1>2. value = ZeroBytes(n_bytes) /\ n_bytes \in Nat /\ len \in Nat
  BY <1>1, Sizes DEF Init, Sized
<1>3. value \in ByteArrays(n_bytes) /\ BitsOf(value) = {}
  BY <1>2, ZeroBits
<1> QED
  BY <1>1, <1>2, <1>3, FS_EmptySet DEF IInv, CountIsTrue

LEMMA ClearedIInv ==
  ASSUME NEW n \in Nat, len' \in 0 .. MaxLen, Sized', n_bytes' = n, value' = ZeroBytes(n),
         count' = 0, is_count_valid' = TRUE
  PROVE  IInv' /\ BitsOf(value)' = {}
<1>1. value' \in ByteArrays(n_bytes') /\ BitsOf(value)' = {}
  BY ZeroBits
<1>2. count' \in 0 .. len'
  BY MaxLenAssumption
<1> QED
  BY <1>1, <1>2, FS_EmptySet DEF IInv, CountIsTrue

LEMMA AttachIInv ==
  ASSUME NEW n \in 1 .. MaxLen, Attach(n)
  PROVE  IInv' /\ BitsOf(value)' = {}
<1>1. BYTE \in Nat \ {0} /\ n \in Nat /\ n * BYTE \in Nat
  BY ByteAssumption, MaxLenAssumption
<1>2. len' = n * BYTE /\ len' \in 0 .. MaxLen
  BY <1>1, MaxLenAssumption DEF Attach
<1>3. n * BYTE + BYTE - 1 = n * BYTE + (BYTE - 1) /\ BYTE - 1 \in Positions
  BY <1>1 DEF Positions
<1>4. n = (n * BYTE + BYTE - 1) \div BYTE
  BY <1>1, <1>3, Compose DEF ByteOf
<1>5. Sized'
  BY <1>1, <1>2, <1>4 DEF Sized, Attach
<1> QED
  BY <1>1, <1>2, <1>5, ClearedIInv DEF Attach

LEMMA PutIInv ==
  ASSUME IInv, NEW index \in Nat, index < len, Put(index)
  PROVE  IInv' /\ BitsOf(value)' = BitsOf(value) \cup {index}
<1>1. /\ n_bytes \in Nat /\ value \in ByteArrays(n_bytes)
      /\ BitsOf(value) \subseteq 0 .. len - 1 /\ len \in Nat
  BY Facts
<1>2. ByteOf(index) < n_bytes
  BY BelowLen DEF IInv
<1>3. /\ value' \in ByteArrays(n_bytes)
      /\ BitsOf(value)' = BitsOf(value) \cup {index}
  BY <1>1, <1>2, SetBit DEF Put
<1>4. BitsOf(value)' \subseteq 0 .. len - 1
  BY <1>1, <1>3
<1>5. inline_bitset_get(value, index) <=> index \in BitsOf(value)
  BY <1>1, <1>2, GetBit
<1>6. /\ IsFiniteSet(BitsOf(value))
      /\ Cardinality(BitsOf(value)) \in 0 .. len
      /\ Cardinality(BitsOf(value)') \in 0 .. len
  BY <1>1, <1>4, CardinalityBelow
<1>7. Cardinality(BitsOf(value)') =
        Cardinality(BitsOf(value)) + IF index \in BitsOf(value) THEN 0 ELSE 1
  <2>1. Cardinality(BitsOf(value) \cup {index}) =
          IF index \in BitsOf(value) THEN Cardinality(BitsOf(value))
          ELSE Cardinality(BitsOf(value)) + 1
    BY <1>6, FS_AddElement
  <2> QED
    BY <2>1, <1>3, <1>6
<1>8. count' = IF is_count_valid /\ ~(index \in BitsOf(value)) THEN count + 1 ELSE count
  BY <1>5 DEF Put
<1>9. count \in 0 .. len /\ (is_count_valid => count = Cardinality(BitsOf(value)))
  BY DEF IInv, CountIsTrue
<1>10. is_count_valid => count' = Cardinality(BitsOf(value)')
  BY <1>6, <1>7, <1>8, <1>9
<1>11. count' \in 0 .. len
  BY <1>6, <1>8, <1>9, <1>10
<1>12. UNCHANGED <<len, n_bytes, is_count_valid>>
  BY DEF Put
<1> QED
  BY <1>3, <1>4, <1>10, <1>11, <1>12 DEF IInv, CountIsTrue, Sized

LEMMA ClearIInv ==
  ASSUME IInv, NEW from \in Nat, NEW to \in Nat, ClearInterval(from, to, FALSE)
  PROVE  /\ IInv'
         /\ BitsOf(value)' =
              {x \in BitsOf(value) :
                 ~(IF from <= to THEN from <= x /\ x <= to
                   ELSE x <= to \/ (from <= x /\ x <= len - 1))}
<1>1. /\ n_bytes \in Nat /\ value \in ByteArrays(n_bytes)
      /\ BitsOf(value) \subseteq 0 .. len - 1 /\ len \in Nat /\ len <= n_bytes * BYTE
  BY Facts
<1>2. to < len /\ value' = ClearCyclic(value, len, from, to)
  BY DEF ClearInterval
<1>3. /\ value' \in ByteArrays(n_bytes)
      /\ BitsOf(value') =
              {x \in BitsOf(value) :
                 ~(IF from <= to THEN from <= x /\ x <= to
                   ELSE x <= to \/ (from <= x /\ x <= len - 1))}
  BY <1>1, <1>2, ClearCyclicBits
<1>4. BitsOf(value') \subseteq 0 .. len - 1
  BY <1>1, <1>3
<1>5. UNCHANGED <<len, n_bytes, count>> /\ is_count_valid' = FALSE
  BY DEF ClearInterval
<1>6. IInv'
  BY <1>3, <1>4, <1>5 DEF IInv, CountIsTrue, Sized
<1> QED
  BY <1>3, <1>6

LEMMA NumIInv ==
  ASSUME IInv, Num
  PROVE  IInv' /\ UNCHANGED <<len, value>> /\ call' = <<"num", Cardinality(BitsOf(value))>>
<1> DEFINE n == IF is_count_valid THEN count ELSE Cardinality(Counted)
<1>1. n = Cardinality(BitsOf(value))
  BY CountedBits DEF IInv, CountIsTrue
<1>2. n \in 0 .. len
  BY <1>1, Facts, CardinalityBelow
<1>3. /\ count' = n /\ is_count_valid' = TRUE /\ call' = <<"num", n>>
      /\ UNCHANGED <<value, len, n_bytes>>
  BY DEF Num, Recount, Return
<1> HIDE DEF n
<1> QED
  BY <1>1, <1>2, <1>3 DEF IInv, CountIsTrue, Sized

\* What any and all compute without a valid count.
LEMMA AnyBit ==
  ASSUME IInv
  PROVE  (\E i \in DOMAIN value : value[i] # {}) <=> BitsOf(value) # {}
<1>1. n_bytes \in Nat /\ value \in ByteArrays(n_bytes)
  BY Facts
<1>2. DOMAIN value = 0 .. n_bytes - 1
  BY <1>1 DEF ByteArrays
<1>3. BitsOf(value) =
        {x \in Nat : ByteOf(x) < n_bytes /\ PositionOf(x) \in value[ByteOf(x)]}
  BY <1>1, Bits
<1>4. ASSUME NEW i \in DOMAIN value, value[i] # {}
      PROVE  BitsOf(value) # {}
  <2>1. PICK m : m \in value[i]
    BY <1>4
  <2>2. i * BYTE + m \in {i * BYTE + p : p \in value[i]}
    BY <2>1
  <2> QED
    BY <2>2 DEF BitsOf
<1>5. ASSUME NEW x \in BitsOf(value)
      PROVE  \E i \in DOMAIN value : value[i] # {}
  <2>1. ByteOf(x) \in 0 .. n_bytes - 1 /\ PositionOf(x) \in value[ByteOf(x)]
    BY <1>1, <1>3, PartTypes
  <2> QED
    BY <1>2, <2>1
<1> QED
  BY <1>4, <1>5

LEMMA AllBits ==
  ASSUME IInv
  PROVE  (/\ \A i \in 0 .. WholeBytes - 1 : value[i] = Positions
          /\ WholeBytes # n_bytes => TailPositions \subseteq value[WholeBytes])
           <=> BitsOf(value) = 0 .. len - 1
<1>1. /\ Sized /\ len \in Nat /\ n_bytes \in Nat /\ value \in ByteArrays(n_bytes)
      /\ BitsOf(value) \subseteq 0 .. len - 1
  BY Facts DEF IInv
<1>2. BitsOf(value) =
        {x \in Nat : ByteOf(x) < n_bytes /\ PositionOf(x) \in value[ByteOf(x)]}
  BY <1>1, Bits
<1>3. WholeBytes \in Nat /\ TailPositions \subseteq Positions
  <2>1. WholeBytes = ByteOf(len) /\ TailPositions = 0 .. PositionOf(len) - 1
    BY <1>1, Sizes
  <2>2. ByteOf(len) \in Nat /\ PositionOf(len) \in Nat /\ PositionOf(len) < BYTE
    BY <1>1, PartTypes
  <2> QED
    BY <2>1, <2>2, ByteAssumption DEF Positions
<1>4. \A i \in 0 .. n_bytes - 1 : value[i] \subseteq Positions
  BY <1>1 DEF ByteArrays
<1>5. ASSUME \A i \in 0 .. WholeBytes - 1 : value[i] = Positions,
             WholeBytes # n_bytes => TailPositions \subseteq value[WholeBytes],
             NEW x \in 0 .. len - 1
      PROVE  x \in BitsOf(value)
  <2>1. x \in Nat /\ x < len
    BY <1>1
  <2>2. ByteOf(x) < n_bytes /\ ByteOf(x) \in Nat /\ PositionOf(x) \in Positions
    BY <1>1, <2>1, BelowLen, Parts
  <2>3. CASE ByteOf(x) < WholeBytes
    <3>1. value[ByteOf(x)] = Positions
      BY <1>3, <1>5, <2>2, <2>3
    <3> QED
      BY <1>2, <2>1, <2>2, <3>1
  <2>4. CASE ByteOf(x) = WholeBytes /\ PositionOf(x) \in TailPositions
    <3>1. PositionOf(x) \in value[ByteOf(x)]
      BY <1>1, <1>5, <2>2, <2>4
    <3> QED
      BY <1>2, <2>1, <2>2, <3>1
  <2> QED
    BY <1>1, <2>1, <2>3, <2>4, BelowLen
<1>6. ASSUME BitsOf(value) = 0 .. len - 1, NEW i \in Nat, NEW m \in Positions,
             i < WholeBytes \/ (i = WholeBytes /\ m \in TailPositions)
      PROVE  m \in value[i] /\ i < n_bytes
  <2> DEFINE x == i * BYTE + m
  <2>1. x \in Nat /\ ByteOf(x) = i /\ PositionOf(x) = m
    BY Compose
  <2> HIDE DEF x
  <2>2. x < len
    BY <1>1, <1>6, <2>1, BelowLen
  <2>3. x \in BitsOf(value)
    BY <1>1, <1>6, <2>1, <2>2
  <2> QED
    BY <1>2, <2>1, <2>3
<1>7. ASSUME BitsOf(value) = 0 .. len - 1
      PROVE  /\ \A i \in 0 .. WholeBytes - 1 : value[i] = Positions
             /\ TailPositions \subseteq value[WholeBytes]
  <2>1. ASSUME NEW i \in 0 .. WholeBytes - 1 PROVE value[i] = Positions
    <3>1. i \in Nat /\ i < WholeBytes
      BY <1>3
    <3>2. \A m \in Positions : m \in value[i] /\ i < n_bytes
      BY <1>6, <1>7, <3>1
    <3>3. 0 \in Positions
      BY ByteAssumption DEF Positions
    <3>4. i \in 0 .. n_bytes - 1
      BY <1>1, <3>1, <3>2, <3>3
    <3> QED
      BY <1>4, <3>2, <3>4
  <2>2. TailPositions \subseteq value[WholeBytes]
    BY <1>3, <1>6, <1>7
  <2> QED
    BY <2>1, <2>2
<1>8. (/\ \A i \in 0 .. WholeBytes - 1 : value[i] = Positions
       /\ WholeBytes # n_bytes => TailPositions \subseteq value[WholeBytes])
        => BitsOf(value) = 0 .. len - 1
  BY <1>1, <1>5
<1> QED
  BY <1>7, <1>8

LEMMA QueryIsTrue ==
  ASSUME IInv, Any \/ All \/ \E index \in Indexes : Get(index)
  PROVE  /\ UNCHANGED <<value, len, n_bytes, count, is_count_valid>>
         /\ Abstract!Query
<1>1. UNCHANGED <<value, len, n_bytes, count, is_count_valid>>
  BY DEF Any, All, Get, Return
<1>2. UNCHANGED <<len, BitsOf(value)>>
  BY <1>1
<1>3. /\ count = 0 <=> Cardinality(BitsOf(value)) = 0
      /\ count = len <=> Cardinality(BitsOf(value)) = len
      \/ ~is_count_valid
  BY DEF IInv, CountIsTrue
<1>4. /\ Cardinality(BitsOf(value)) = len <=> BitsOf(value) = 0 .. len - 1
      /\ Cardinality(BitsOf(value)) = 0 <=> BitsOf(value) = {}
  BY Facts, CardinalityBelow
<1>5. CASE Any
  <2>1. (IF is_count_valid THEN count # 0 ELSE \E i \in DOMAIN value : value[i] # {})
          <=> BitsOf(value) # {}
    BY <1>3, <1>4, AnyBit
  <2>2. call' = <<"any", BitsOf(value) # {}>>
    BY <1>5, <2>1 DEF Any, Return
  <2> QED
    BY <1>1, <1>2, <2>2 DEF Abstract!Query
<1>6. CASE All
  <2>1. (IF is_count_valid THEN count = len
         ELSE /\ \A i \in 0 .. WholeBytes - 1 : value[i] = Positions
              /\ WholeBytes # n_bytes => TailPositions \subseteq value[WholeBytes])
          <=> BitsOf(value) = 0 .. len - 1
    BY <1>3, <1>4, AllBits
  <2>2. call' = <<"all", BitsOf(value) = 0 .. len - 1>>
    BY <1>6, <2>1 DEF All, Return
  <2> QED
    BY <1>1, <1>2, <2>2 DEF Abstract!Query
<1>7. ASSUME NEW index \in Indexes, Get(index) PROVE Abstract!Query
  <2>1. index \in Nat
    BY MaxLenAssumption DEF Indexes
  <2>2. index < len /\ inline_bitset_get(value, index) <=> index \in BitsOf(value)
    <3>1. CASE index < len
      BY <2>1, <3>1, BelowLen, Facts, GetBit DEF IInv
    <3>2. CASE ~(index < len)
      BY <3>2, Facts
    <3> QED
      BY <3>1, <3>2
  <2>3. call' = <<"get", index, index \in BitsOf(value)>>
    BY <1>7, <2>2 DEF Get, Return
  <2> QED
    BY <1>2, <2>3 DEF Abstract!Query
<1> QED
  BY <1>1, <1>5, <1>6, <1>7
-----------------------------------------------------------------------------
(* Every call keeps the invariant and is a call of the vector of bits.      *)

\* The abstract module counts as this one does.
LEMMA SameCardinality ==
  ASSUME NEW S
  PROVE  Abstract!Cardinality(S) = Cardinality(S)
BY DEF Abstract!Cardinality, Cardinality

LEMMA StepIInv ==
  IInv /\ [Next]_vars => IInv' /\ [Abstract!Next]_(Abstract!vars)
<1> SUFFICES ASSUME IInv, [Next]_vars PROVE IInv' /\ [Abstract!Next]_(Abstract!vars)
  OBVIOUS
<1> DEFINE Goal == IInv' /\ [Abstract!Next]_(Abstract!vars)
<1>a. Indexes \subseteq Nat
  BY MaxLenAssumption DEF Indexes
<1>b. UNCHANGED <<value, len, n_bytes, count, is_count_valid>> => IInv'
  BY DEF IInv, CountIsTrue, Sized
<1>c. len \in Nat /\ BitsOf(value) \subseteq 0 .. len - 1
  BY Facts
<1>1. ASSUME NEW n \in 1 .. MaxLen, Attach(n) PROVE Goal
  <2>1. Abstract!Renew
    BY <1>1, AttachIInv DEF Attach, Abstract!Renew
  <2> QED
    BY <1>1, <2>1, AttachIInv DEF Abstract!Next
<1>2. ASSUME NEW index \in Indexes, Set(index) PROVE Goal
  <2>1. CASE index < len /\ Put(index)
    <3>1. IInv' /\ BitsOf(value)' = BitsOf(value) \cup {index}
      BY <2>1, <1>a, PutIInv
    <3>2. {index} \cap (0 .. len - 1) = {index}
      BY <2>1, <1>a, <1>c
    <3>3. Abstract!Set(index)
      BY <2>1, <3>1, <3>2 DEF Put, Abstract!Set
    <3> QED
      BY <3>1, <3>3 DEF Abstract!Next
  <2>2. CASE index >= len /\ Ignored(<<"set", index>>)
    <3>1. {index} \cap (0 .. len - 1) = {}
      BY <2>2, <1>a, <1>c
    <3>2. Abstract!Set(index)
      BY <2>2, <3>1 DEF Ignored, Abstract!Set
    <3> QED
      BY <2>2, <3>2, <1>b DEF Ignored, Abstract!Next
  <2> QED
    BY <1>2, <2>1, <2>2 DEF Set
<1>3. ASSUME NEW from \in Indexes, NEW to \in Indexes, Clear(from, to) PROVE Goal
  <2>1. CASE ClearInterval(from, to, FALSE)
    <3>1. /\ IInv'
          /\ BitsOf(value)' =
               {x \in BitsOf(value) :
                  ~(IF from <= to THEN from <= x /\ x <= to
                    ELSE x <= to \/ (from <= x /\ x <= len - 1))}
      BY <2>1, <1>a, ClearIInv
    <3>2. to < len /\ UNCHANGED len /\ call' = <<"clear", from, to>>
      BY <2>1 DEF ClearInterval
    <3>3. \A x \in BitsOf(value) :
            x \in Abstract!Arc(from, to) <=>
              IF from <= to THEN from <= x /\ x <= to
              ELSE x <= to \/ (from <= x /\ x <= len - 1)
      BY <1>a, <1>c DEF Abstract!Arc
    <3>4. BitsOf(value)' = BitsOf(value) \ Abstract!Arc(from, to)
      BY <3>1, <3>3
    <3>5. Abstract!Clear(from, to)
      BY <3>2, <3>4 DEF Abstract!Clear
    <3> QED
      BY <3>1, <3>5 DEF Abstract!Next
  <2>2. CASE to >= len /\ Ignored(<<"clear", from, to>>)
    <3>1. ~(to < len)
      BY <2>2, <1>a, <1>c
    <3>2. Abstract!Clear(from, to)
      BY <2>2, <3>1 DEF Ignored, Abstract!Clear
    <3> QED
      BY <2>2, <3>2, <1>b DEF Ignored, Abstract!Next
  <2> QED
    BY <1>3, <2>1, <2>2 DEF Clear
<1>4. ASSUME ClearAll PROVE Goal
  <2>1. IInv' /\ BitsOf(value)' = {}
    <3>1. n_bytes \in Nat /\ n_bytes' = n_bytes /\ len' \in 0 .. MaxLen /\ Sized'
      BY <1>4, Facts DEF ClearAll, IInv, Sized
    <3> QED
      BY <1>4, <3>1, ClearedIInv DEF ClearAll
  <2>2. Abstract!ClearAll
    BY <1>4, <2>1 DEF ClearAll, Abstract!ClearAll
  <2> QED
    BY <2>1, <2>2 DEF Abstract!Next
<1>5. ASSUME Num PROVE Goal
  <2>1. IInv' /\ UNCHANGED <<len, value>> /\ call' = <<"num", Cardinality(BitsOf(value))>>
    BY <1>5, NumIInv
  <2>2. Abstract!Query
    BY <2>1, SameCardinality DEF Abstract!Query
  <2> QED
    BY <2>1, <2>2 DEF Abstract!Next
<1>6. ASSUME Any \/ All \/ \E index \in Indexes : Get(index) PROVE Goal
  BY <1>6, <1>b, QueryIsTrue DEF Abstract!Next
<1>7. CASE UNCHANGED vars
  BY <1>7, <1>b DEF vars, Abstract!vars
<1> HIDE DEF Goal
<1>8. ASSUME Next PROVE Goal
  <2>1. CASE \E n \in 1 .. MaxLen : Attach(n)
    BY <1>1, <2>1
  <2>2. CASE \E index \in Indexes : Set(index) \/ Get(index)
    BY <1>2, <1>6, <2>2
  <2>3. CASE \E from, to \in Indexes : Clear(from, to)
    BY <1>3, <2>3
  <2> QED
    BY <1>4, <1>5, <1>6, <1>8, <2>1, <2>2, <2>3 DEF Next
<1> QED
  BY <1>7, <1>8 DEF Goal

LEMMA Invariance == Spec => []IInv
BY InitIInv, StepIInv, PTL DEF Spec

\* Every variable keeps its type.
THEOREM TypeCorrect == Spec => []TypeOK
<1>1. IInv => TypeOK
  BY Facts DEF IInv, TypeOK
<1> QED
  BY <1>1, Invariance, PTL

\* A cached count that is trusted is the number of bits that are set.
THEOREM CachedCountIsTrue == Spec => []CountIsTrue
<1>1. IInv => CountIsTrue
  BY DEF IInv
<1> QED
  BY <1>1, Invariance, PTL

\* The bitset implements the vector of bits: its answers are those of a set of
\* indexes, for every length and every number of bits in a byte.
THEOREM ImplementsBitVector == Spec => BitVectorSpec
<1>1. Init => Abstract!Init
  <2> SUFFICES ASSUME Init PROVE Abstract!Init
    OBVIOUS
  <2>1. Sized /\ value = ZeroBytes(n_bytes) /\ call = <<"new">>
    BY MaxLenAssumption DEF Init, Sized
  <2>2. BitsOf(value) = {}
    BY <2>1, Sizes, ZeroBits
  <2> QED
    BY <2>1, <2>2 DEF Abstract!Init
<1> QED
  BY <1>1, StepIInv, Invariance, PTL DEF Spec, BitVectorSpec, Abstract!Spec

\* The bits of an integer are a vector of bits as well, for every size.
THEOREM IntegersAreBitVectors == Spec => []UintIsBitVector
<1>1. ASSUME IInv PROVE UintIsBitVector
  <2>1. n_bytes \in Nat /\ value \in ByteArrays(n_bytes) /\ n_bytes * BYTE \in Nat
    BY <1>1, Facts, ByteAssumption
  <2>2. /\ BitsOf(value) \subseteq Nat
        /\ \A x \in BitsOf(value) : x < n_bytes * BYTE
    BY <2>1, Bits, BelowBytes
  <2>3. ASSUME NEW index \in Indexes, NEW to \in Indexes
        PROVE  LET bits == BitsOf(value)
                   valid == 0 .. n_bytes * BYTE - 1
               IN  /\ uint_bitset_get(value, n_bytes, index) <=> index \in bits
                   /\ BitsOf(uint_bitset_set(value, n_bytes, index)) =
                        bits \cup ({index} \cap valid)
                   /\ BitsOf(uint_bitset_clear(value, n_bytes, index, to)) =
                        IF to \in valid
                        THEN {i \in bits : ~(IF index <= to THEN index <= i /\ i <= to
                                             ELSE i <= to \/ index <= i)}
                        ELSE bits
    <3> DEFINE size == n_bytes * BYTE
    <3>1. index \in Nat /\ to \in Nat /\ size \in Nat
      BY <2>1, MaxLenAssumption DEF Indexes
    <3>2. /\ index < size <=> ByteOf(index) < n_bytes
          /\ to < size <=> ByteOf(to) < n_bytes
      BY <2>1, <3>1, BelowBytes
    <3>3. /\ index \in 0 .. size - 1 <=> index < size
          /\ to \in 0 .. size - 1 <=> to < size
      BY <3>1
    <3> HIDE DEF size
    <3>4. index < size /\ inline_bitset_get(value, index) <=> index \in BitsOf(value)
      <4>1. CASE index < size
        BY <2>1, <3>1, <3>2, <4>1, GetBit
      <4>2. CASE ~(index < size)
        BY <2>2, <4>2 DEF size
      <4> QED
        BY <4>1, <4>2
    <3>5. BitsOf(IF index < size THEN inline_bitset_set(value, index) ELSE value) =
            BitsOf(value) \cup ({index} \cap (0 .. size - 1))
      <4>1. CASE index < size
        BY <2>1, <3>1, <3>2, <3>3, <4>1, SetBit
      <4>2. CASE ~(index < size)
        BY <3>3, <4>2
      <4> QED
        BY <4>1, <4>2
    <3>6. BitsOf(IF to < size THEN ClearCyclic(value, size, index, to) ELSE value) =
            IF to \in 0 .. size - 1
            THEN {i \in BitsOf(value) : ~(IF index <= to THEN index <= i /\ i <= to
                                          ELSE i <= to \/ index <= i)}
            ELSE BitsOf(value)
      <4>1. CASE to < size
        <5>1. BitsOf(ClearCyclic(value, size, index, to)) =
                {x \in BitsOf(value) : ~(IF index <= to THEN index <= x /\ x <= to
                                         ELSE x <= to \/ (index <= x /\ x <= size - 1))}
          <6>1. size <= n_bytes * BYTE
            BY <2>1 DEF size
          <6> QED
            BY <2>1, <3>1, <4>1, <6>1, ClearCyclicBits
        <5>2. \A x \in BitsOf(value) : x <= size - 1
          BY <2>1, <2>2 DEF size
        <5> QED
          BY <5>1, <5>2, <3>3, <4>1
      <4>2. CASE ~(to < size)
        BY <3>3, <4>2
      <4> QED
        BY <4>1, <4>2
    <3> QED
      BY <3>4, <3>5, <3>6 DEF size, uint_bitset_get, uint_bitset_set, uint_bitset_clear
  <2> QED
    BY <2>3 DEF UintIsBitVector
<1> QED
  BY <1>1, Invariance, PTL
=============================================================================
