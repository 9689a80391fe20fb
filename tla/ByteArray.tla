----------------------------- MODULE ByteArray ------------------------------
(***************************************************************************)
(* The inline_bitset_* functions of source/c_bitset.c: single bits and     *)
(* intervals of bits in a raw array of bytes.  A byte is the set of the    *)
(* positions of its bits that are 1.                                       *)
(***************************************************************************)
EXTENDS Naturals

CONSTANT BYTE   \* the bits of a byte: 8 in the code

ASSUME ByteAssumption == BYTE \in Nat \ {0}

Positions == 0 .. BYTE - 1
ByteArrays(n_bytes) == [0 .. n_bytes - 1 -> SUBSET Positions]
ZeroBytes(n_bytes) == [i \in 0 .. n_bytes - 1 |-> {}]

ByteOf(index) == index \div BYTE
PositionOf(index) == index % BYTE

inline_bitset_get(value, index) == PositionOf(index) \in value[ByteOf(index)]

inline_bitset_set(value, index) ==
  [value EXCEPT ![ByteOf(index)] = @ \cup {PositionOf(index)}]

ClearWithin(value, i, m_from, m_to) == [value EXCEPT ![i] = @ \ (m_from .. m_to)]

\* Mutant of ClearAcross: memset() is asked for one byte too few.
ClearShort(value, from, to) ==
  [i \in DOMAIN value |->
    CASE i = ByteOf(from) -> value[i] \ (PositionOf(from) .. BYTE - 1)
      [] i = ByteOf(to) -> value[i] \ (0 .. PositionOf(to))
      [] i \in ByteOf(from) + 2 .. ByteOf(to) - 1 -> {}
      [] OTHER -> value[i]]

\* An interval over several bytes: memset() between the first and the last,
\* then the end of the first and the beginning of the last bit by bit.
ClearAcross(value, from, to) ==
  [i \in DOMAIN value |->
    CASE i = ByteOf(from) -> value[i] \ (PositionOf(from) .. BYTE - 1)
      [] i = ByteOf(to) -> value[i] \ (0 .. PositionOf(to))
      [] ByteOf(to) > 1 /\ i \in ByteOf(from) + 1 .. ByteOf(to) - 1 -> {}
      [] OTHER -> value[i]]

\* Both ends are included; nothing happens when they are in the wrong order.
inline_bitset_clear(value, from, to) ==
  CASE from = to -> ClearWithin(value, ByteOf(from), PositionOf(to), PositionOf(to))
    [] from < to /\ ByteOf(from) = ByteOf(to) ->
         ClearWithin(value, ByteOf(from), PositionOf(from), PositionOf(to))
    [] from < to /\ ByteOf(from) # ByteOf(to) -> ClearAcross(value, from, to)
    [] OTHER -> value

\* Clears [from, to], or what is outside ]to, from[ when to is before from.
ClearCyclic(value, len, from, to) ==
  IF to < from
  THEN inline_bitset_clear(inline_bitset_clear(value, 0, to), from, len - 1)
  ELSE inline_bitset_clear(value, from, to)

(* BITSET_IMP_FOR: the bits of an integer of Size bytes, whose address the  *)
(* inline functions take.                                                   *)
uint_bitset_set(self, Size, index) ==
  IF index < Size * BYTE THEN inline_bitset_set(self, index) ELSE self

uint_bitset_get(self, Size, index) ==
  index < Size * BYTE /\ inline_bitset_get(self, index)

\* Mutant of uint_bitset_clear: only the part behind the wrap is cleared.
ClearHead(self, Size, from, to) ==
  IF to >= Size * BYTE THEN self
  ELSE inline_bitset_clear(self, IF to < from THEN 0 ELSE from, to)

uint_bitset_clear(self, Size, from, to) ==
  IF to < Size * BYTE THEN ClearCyclic(self, Size * BYTE, from, to) ELSE self

\* The set of indexes that the array stands for.
BitsOf(value) ==
  UNION {{i * BYTE + m : m \in value[i]} : i \in DOMAIN value}
=============================================================================
