----------------------------- MODULE QuickSort -----------------------------
(***************************************************************************)
(* utils::qsort of include/utils_cc/algorithm.h.  The futures of           *)
(* std::async are not kept, so that their destructors wait: what it starts *)
(* for a long part is over before the next statement.                      *)
(***************************************************************************)
EXTENDS Integers, Sequences

Swapped(v, i, j) == [v EXCEPT ![i] = v[j], ![j] = v[i]]

\* The loop of qsort for one i: what is smaller than v[left] is put behind the
\* smaller ones that have been found.
Gather(found, left, i) ==
  LET v == found.v
      last == found.last + 1
  IN  IF v[i] < v[left]
      THEN [v |-> IF i # last THEN Swapped(v, i, last) ELSE v, last |-> last]
      ELSE found

Smallers(v, left, right) ==
  LET found[i \in left .. right] ==
        IF i = left THEN [v |-> v, last |-> left] ELSE Gather(found[i - 1], left, i)
  IN  found[right]

\* Mutant of Partition: v[left] stays where it is.
PivotStays(v, left, right) == Smallers(v, left, right)

\* v[left] comes between the smaller ones and the others, at last.
Partition(v, left, right) ==
  LET found == Smallers(v, left, right)
  IN  [found EXCEPT !.v = Swapped(@, left, found.last)]

\* The arrays with the values of v, and the parts of them.
Arrays(v) == [DOMAIN v -> {v[i] : i \in DOMAIN v}]
Parts(v) == Arrays(v) \X (1 .. Len(v) + 1) \X (0 .. Len(v))

qsort(v, left, right) ==
  LET sorted[part \in Parts(v)] ==
        LET lower == part[2]
            upper == part[3]
            found == Partition(part[1], lower, upper)
        IN  IF lower >= upper THEN part[1]
            ELSE sorted[<<sorted[<<found.v, lower, found.last - 1>>], found.last + 1, upper>>]
  IN  sorted[<<v, left, right>>]
=============================================================================
