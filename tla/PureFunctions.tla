--------------------------- MODULE PureFunctions ---------------------------
(***************************************************************************)
(* The functions without state, on inputs that are drawn again and again:  *)
(* three sequence numbers and a word (SeqNumLaws), or two blocks of bytes, *)
(* which are sent with their checksum and sorted.                          *)
(***************************************************************************)
EXTENDS SeqNumLaws, Checksum, QuickSort, FiniteSets

CONSTANT MaxLen  \* bound: the length of a block

ASSUME MaxLenAssumption == MaxLen \in Nat

VARIABLES block1, block2

blocks == <<block1, block2>>

Blocks == UNION {[1 .. n -> Byte] : n \in 0 .. MaxLen}

InitFunctions ==
  /\ Init
  /\ block1 \in Blocks /\ block2 = <<>>
  /\ a = 0 \/ block1 = <<>>

DrawNumbers == blocks = <<<<>>, <<>>>> /\ Draw /\ UNCHANGED blocks

DrawBlock ==
  /\ vars = <<0, 0, 0, 0>>
  /\ block2' \in Blocks
  /\ UNCHANGED <<block1, vars>>

FunctionsSpec == InitFunctions /\ [][DrawNumbers \/ DrawBlock]_<<vars, blocks>>
-----------------------------------------------------------------------------
\* The checksum of a message of two blocks, and what a receiver computes from
\* it and from one or two blocks.
Sent == finalize_oc_checksum(gen_oc_checksum(gen_oc_checksum(0, block1), block2))
Received(data) == gen_oc_checksum(Sent, data)
ReceivedBoth(first, second) == gen_oc_checksum(Received(first), second)

\* c_checksum.cc:66 "Not able to detect out of order": the receiver accepts the
\* blocks in any order, whatever their lengths are; but no message in which a
\* byte was damaged, wherever it is and whatever else is sent.
AcceptsWhatWasSent ==
  /\ verify_oc_checksum(ReceivedBoth(block1, block2))
  /\ verify_oc_checksum(ReceivedBoth(block2, block1))
  /\ \A i \in DOMAIN block1 : \A x \in Byte \ {block1[i]} :
       ~verify_oc_checksum(ReceivedBoth([block1 EXCEPT ![i] = x], block2))

\* What the bytes of a block amount to: the second byte of every pair counts B
\* times, and pairs end where the block ends.
Weight(data, i) == IF (Len(data) - i) % 2 = 0 /\ i # 1 THEN B ELSE 1
Amounts(data) ==
  LET amount[n \in 0 .. Len(data)] ==
        IF n = 0 THEN 0 ELSE amount[n - 1] + data[n] * Weight(data, n)
  IN  amount
Amount(data) == Amounts(data)[Len(data)]

\* c_checksum.cc:79 "Able to detect truncated": the loss of a block is detected,
\* unless it amounts to a multiple of Ones: carries turn it into zero, which
\* has two representations when nothing else is sent.
DetectsLoss ==
  verify_oc_checksum(Received(block1)) <=>
    Amount(block2) % Ones = 0 /\ (Amount(block2) = 0 \/ Amount(block1) > 0)

\* qsort returns what it was given, in ascending order.
SortsBlocks ==
  LET sorted == qsort(block1, 1, Len(block1))
  IN  /\ \A i, j \in DOMAIN sorted : i < j => sorted[i] <= sorted[j]
      /\ \A x \in Byte :
           Cardinality({i \in DOMAIN sorted : sorted[i] = x}) =
             Cardinality({i \in DOMAIN block1 : block1[i] = x})
=============================================================================
