------------------------------- MODULE Bitset -------------------------------
(***************************************************************************)
(* bitset_t of utils_c (include/utils_c/bitset.h, source/c_bitset.c): a    *)
(* bitset of any length over an array of bytes, with a cached count of its *)
(* bits that bitset_clear invalidates and bitset_num restores.  The        *)
(* bitsets of one integer share its functions on bytes: see ByteArray.     *)
(***************************************************************************)
EXTENDS ByteArray, FiniteSets

CONSTANT MaxLen   \* bound: the largest length of a bitset

ASSUME MaxLenAssumption == MaxLen \in Nat

Indexes == 0 .. MaxLen + 1

VARIABLES value, len, n_bytes, count, is_count_valid,
          call     \* the last call: <<name, arguments ..., returned value if any>>

vars == <<value, len, n_bytes, count, is_count_valid, call>>

TypeOK ==
  /\ value \in ByteArrays(n_bytes)
  /\ len \in 0 .. MaxLen
  /\ n_bytes \in Nat
  /\ count \in 0 .. len
  /\ is_count_valid \in BOOLEAN

Init ==
  /\ len \in 0 .. MaxLen
  /\ n_bytes = (len + BYTE - 1) \div BYTE
  /\ value = ZeroBytes(n_bytes)
  /\ count = 0
  /\ is_count_valid = TRUE
  /\ call = <<"new">>
-----------------------------------------------------------------------------
\* The structure is put over n bytes of the caller's, which are cleared.
Attach(n) ==
  /\ n * BYTE <= MaxLen
  /\ len' = n * BYTE
  /\ n_bytes' = n
  /\ value' = ZeroBytes(n)
  /\ count' = 0
  /\ is_count_valid' = TRUE
  /\ call' = <<"new">>

\* Sets the bit, and keeps the count up to date while it is valid.
Put(index) ==
  /\ call' = <<"set", index>>
  /\ value' = inline_bitset_set(value, index)
  /\ count' = IF is_count_valid /\ ~inline_bitset_get(value, index)
              THEN count + 1 ELSE count
  /\ UNCHANGED <<len, n_bytes, is_count_valid>>

\* A call whose arguments are out of range does nothing.
Ignored(args) ==
  /\ call' = args
  /\ UNCHANGED <<value, len, n_bytes, count, is_count_valid>>

Set(index) ==
  \/ index < len /\ Put(index)
  \/ index >= len /\ Ignored(<<"set", index>>)

\* The interval is cleared, and valid says what becomes of the count.
ClearInterval(from, to, valid) ==
  /\ to < len
  /\ call' = <<"clear", from, to>>
  /\ value' = ClearCyclic(value, len, from, to)
  /\ is_count_valid' = valid
  /\ UNCHANGED <<len, n_bytes, count>>

\* Mutant of Clear: the count is still trusted.
ClearAndTrust(from, to) == ClearInterval(from, to, is_count_valid)

Clear(from, to) ==
  \/ ClearInterval(from, to, FALSE)
  \/ to >= len /\ Ignored(<<"clear", from, to>>)

ClearAll ==
  /\ value' = ZeroBytes(n_bytes)
  /\ count' = 0
  /\ is_count_valid' = TRUE
  /\ call' = <<"clear_all">>
  /\ UNCHANGED <<len, n_bytes>>
-----------------------------------------------------------------------------
Return(answer) == call' = answer /\ UNCHANGED <<value, len, n_bytes>>

Get(index) ==
  /\ Return(<<"get", index, index < len /\ inline_bitset_get(value, index)>>)
  /\ UNCHANGED <<count, is_count_valid>>

Any ==
  /\ Return(<<"any", IF is_count_valid THEN count # 0
                     ELSE \E i \in DOMAIN value : value[i] # {}>>)
  /\ UNCHANGED <<count, is_count_valid>>

\* The bits of the last byte that belong to the set when len does not fill it.
TailPositions == 0 .. (len % BYTE) - 1
WholeBytes == IF len % BYTE = 0 THEN n_bytes ELSE n_bytes - 1

\* Without a valid count: all whole bytes are full, and so is the tail.
All ==
  /\ Return(<<"all", IF is_count_valid THEN count = len
                     ELSE /\ \A i \in 0 .. WholeBytes - 1 : value[i] = Positions
                          /\ WholeBytes # n_bytes => TailPositions \subseteq value[WholeBytes]>>)
  /\ UNCHANGED <<count, is_count_valid>>

\* The bits that bitset_num's loops visit, the tail first, and find set.
Counted ==
  {i_m \in (0 .. n_bytes - 1) \X Positions :
     /\ i_m[2] \in value[i_m[1]]
     /\ i_m[1] < WholeBytes \/ i_m[2] \in TailPositions}

Recount(n) ==
  /\ count' = n
  /\ is_count_valid' = TRUE
  /\ Return(<<"num", n>>)

\* Mutant of Num: counting starts from the count that is no longer valid.
NumWithoutReset == Recount(IF is_count_valid THEN count ELSE count + Cardinality(Counted))

Num == Recount(IF is_count_valid THEN count ELSE Cardinality(Counted))

Next ==
  \/ \E n \in 1 .. MaxLen : Attach(n)
  \/ \E index \in Indexes : Set(index) \/ Get(index)
  \/ \E from, to \in Indexes : Clear(from, to)
  \/ ClearAll
  \/ Any \/ All \/ Num

Spec == Init /\ [][Next]_vars
-----------------------------------------------------------------------------
\* A valid count is the number of bits that are set, across every sequence of
\* sets of bits that were set already, cyclic clears and recounts.
CountIsTrue == is_count_valid => count = Cardinality(BitsOf(value))

\* The bitset implements BitVector: whatever the lengths, the byte boundaries
\* and the state of the cached count, queries answer as if there were no
\* bytes and no cache.
Abstract == INSTANCE BitVector WITH bits <- BitsOf(value)

BitVectorSpec == Abstract!Spec

\* The bits of an integer are such a vector, too, whatever its bytes are: an
\* interval that runs over the end comes out at the beginning, and an index
\* that the integer does not have is not set and changes nothing.
UintIsBitVector ==
  \A index, to \in Indexes :
    LET bits == BitsOf(value)
        valid == 0 .. n_bytes * BYTE - 1
    IN  /\ uint_bitset_get(value, n_bytes, index) <=> index \in bits
        /\ BitsOf(uint_bitset_set(value, n_bytes, index)) = bits \cup ({index} \cap valid)
        /\ BitsOf(uint_bitset_clear(value, n_bytes, index, to)) =
             IF to \in valid
             THEN {i \in bits : ~(IF index <= to THEN index <= i /\ i <= to
                                  ELSE i <= to \/ index <= i)}
             ELSE bits
=============================================================================
