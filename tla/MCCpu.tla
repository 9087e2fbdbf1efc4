------------------------------- MODULE MCCpu -------------------------------
(* Small programs on one or two processes. *)
EXTENDS Cpu

CONSTANTS p1, p2, v1, v2

DosPids == {p1, p2}
DosRegistros == {"AX", "EAX"}

(* Segment 0 shared, segment 1 absent, or of 8 bytes at one of two bases. *)
LasTablas ==
    LET s0 == [base |-> 0, tamanio |-> 16]
        s1(b) == [base |-> b, tamanio |-> 8]
    IN {[s \in {0} |-> s0]}
       \cup {[s \in {0, 1} |-> IF s = 0 THEN s0 ELSE s1(b)] : b \in {16, 24}}
=============================================================================
