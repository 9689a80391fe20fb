----------------------------- MODULE BitVector ------------------------------
(***************************************************************************)
(* What the bitsets of utils_c promise: a set of indexes below len, the    *)
(* removal of a cyclic interval, and queries that tell the truth about it. *)
(* A call with an index that is out of range changes nothing.              *)
(***************************************************************************)
EXTENDS Naturals, FiniteSets

CONSTANT Indexes   \* the indexes callers use, valid or not

VARIABLES len,    \* the number of bits
          bits,   \* the indexes of the bits that are set
          call    \* the last call: <<name, arguments ..., returned value if any>>

vars == <<len, bits, call>>

\* The bits from `from' on up to `to', over the end if `to' is before `from'.
Arc(from, to) ==
  IF from <= to THEN from .. to ELSE (0 .. to) \cup (from .. len - 1)

Init == bits = {} /\ call = <<"new">>

Renew == call' = <<"new">> /\ bits' = {}

Set(i) ==
  /\ call' = <<"set", i>>
  /\ bits' = bits \cup ({i} \cap (0 .. len - 1))
  /\ UNCHANGED len

Clear(from, to) ==
  /\ call' = <<"clear", from, to>>
  /\ bits' = IF to < len THEN bits \ Arc(from, to) ELSE bits
  /\ UNCHANGED len

ClearAll == call' = <<"clear_all">> /\ bits' = {} /\ UNCHANGED len

Query ==
  /\ \/ call' = <<"any", bits # {}>>
     \/ call' = <<"all", bits = 0 .. len - 1>>
     \/ call' = <<"num", Cardinality(bits)>>
     \/ \E i \in Indexes : call' = <<"get", i, i \in bits>>
  /\ UNCHANGED <<len, bits>>

Next ==
  \/ Renew
  \/ \E i \in Indexes : Set(i)
  \/ \E from, to \in Indexes : Clear(from, to)
  \/ ClearAll
  \/ Query

Spec == Init /\ [][Next]_vars
=============================================================================
