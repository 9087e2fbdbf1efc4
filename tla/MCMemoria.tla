------------------------------ MODULE MCMemoria ------------------------------
(* Small memories. *)
EXTENDS Memoria

CONSTANTS p1, p2, p3, v1, v2

TresPids == {p1, p2, p3}
Simetria == Permutations(Pid) \cup Permutations(Valores)
=============================================================================
