----------------------------- MODULE MCBasePool -----------------------------
(* Instances of BasePool for TLC. *)
EXTENDS BasePool, TLC

Symmetry == Permutations(Threads)

DtorUses == {<<"dtor", "dealloc">>, <<"dtor", "alloc">>}
DtorBorrows == {<<"dtor", "alloc">>}
CtorBorrows == {<<"ctor", "alloc">>}
=============================================================================
