------------------------------ MODULE MCKernel ------------------------------
(* Finite instances of the kernel: programs by the instructions they use.  *)
EXTENDS KernelPropiedades, TLC

CONSTANTS p1, p2, p3, r1, r2, fantasma, a1, a2

DosPids  == {p1, p2}
TresPids == {p1, p2, p3}
UnRecurso   == {r1}
DosRecursos == {r1, r2}
UnArchivo   == {a1}
DosArchivos == {a1, a2}

(* What programs ask for: the configured resources, or also an unknown one. *)
Configurados == Recursos
ConFantasma  == Recursos \cup {fantasma}

UnaInstancia == [r \in Recursos |-> 1]

SimetriaPid == Permutations(Pid)

Todos(instrucciones) == [p \in Pid |-> instrucciones]

(* One program per question; each process executes any sequence of the     *)
(* instructions listed for it.                                             *)
ProgTodo        == Todos(Instrucciones)
ProgBloqueos    == Todos(Instrucciones
                         \ {"CREATE_SEGMENT", "DELETE_SEGMENT", "F_SEEK"})
ProgSegmentosIO == Todos({"IO", "CREATE_SEGMENT", "EXIT"})
ProgLectura     == Todos({"F_OPEN", "F_CLOSE", "F_RW", "CREATE_SEGMENT", "EXIT"})
ProgWait        == Todos({"WAIT", "EXIT"})

(* One process uses the file system and the others compact the memory. *)
ProgUnLector ==
    [p \in Pid |-> IF p = p1
                   THEN {"F_OPEN", "F_CLOSE", "F_RW", "F_TRUNCATE", "IO", "EXIT"}
                   ELSE {"CREATE_SEGMENT", "DELETE_SEGMENT", "YIELD", "EXIT"}]

(* The run under it is one of those the theorems on compaction speak of:   *)
(* their hypotheses are true of these programs.                            *)
ASSUME HipotesisDeProgreso ==
    Programa = ProgUnLector => UnSoloLector /\ SegmentosSinEsperas

(* One process truncates its file while the other does I/O. *)
ProgTruncaConIO ==
    [p \in Pid |-> IF p = p1 THEN {"F_OPEN", "F_TRUNCATE", "EXIT"}
                             ELSE {"IO", "EXIT"}]
=============================================================================
