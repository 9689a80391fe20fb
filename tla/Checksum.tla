------------------------------ MODULE Checksum ------------------------------
(***************************************************************************)
(* The one's complement checksum of include/utils_c/checksum.h and         *)
(* source/c_checksum.c.  A message is summed block by block: the sum of    *)
(* the blocks so far is the first argument for the next one.               *)
(***************************************************************************)
EXTENDS Naturals, Sequences

CONSTANT B  \* the number of values of a byte

ASSUME ByteAssumption == B \in Nat \ {0, 1}

Byte == 0 .. B - 1
Ones == B * B - 1  \* 0xffff

\* Mutant of WordsOf: an odd byte is left out.
WordsFromPairs(data) ==
  [k \in 1 .. Len(data) \div 2 |->
    LET last == 2 * k - (Len(data) % 2) IN IF last = 1 THEN 0 ELSE data[last - 1] + B * data[last]]

\* The bytes in twos, the lower one first; when their number is odd, the first
\* one is alone.
WordsOf(data) ==
  [k \in 1 .. (Len(data) + 1) \div 2 |->
    LET last == 2 * k - (Len(data) % 2)
    IN  IF last = 1 THEN data[1] ELSE data[last - 1] + B * data[last]]

\* Mutant of Added: the carry is lost.
AddedWithoutCarry(sum, word) == (sum + word) % (Ones + 1)

Added(sum, word) == IF sum + word > Ones THEN sum + word - Ones ELSE sum + word

\* The loop over the words: what the sum is after each of them.
Summed(checksum, words) ==
  LET sum[k \in 0 .. Len(words)] ==
        IF k = 0 THEN checksum ELSE Added(sum[k - 1], words[k])
  IN  sum

gen_oc_checksum(checksum, data) ==
  Summed(checksum, WordsOf(data))[Len(WordsOf(data))] % (Ones + 1)

finalize_oc_checksum(checksum) == Ones - (checksum % (Ones + 1))

verify_oc_checksum(checksum) == checksum = Ones
=============================================================================
