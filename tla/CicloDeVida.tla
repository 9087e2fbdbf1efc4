---------------------------- MODULE CicloDeVida ----------------------------
(***************************************************************************)
(* What the kernel promises each process, with no threads, lists or        *)
(* semaphores: the states of the life-cycle diagram, at most one process   *)
(* on the CPU, and never more admitted than the degree allows.             *)
(***************************************************************************)
EXTENDS Integers, FiniteSets

CONSTANTS Pid, GRADO_MAX_MULTIPROGRAMACION

VARIABLE fase

Fases == {"NO_CREADO", "NEW", "READY", "EXEC", "BLOCK", "EXIT", "DESTRUIDO"}

EnFase(f) == {p \in Pid : fase[p] = f}
Vivos == {p \in Pid : fase[p] \in {"READY", "EXEC", "BLOCK", "EXIT"}}

Pasa(p, desde, hasta) ==
    /\ fase[p] = desde
    /\ fase' = [fase EXCEPT ![p] = hasta]

Init == fase = [p \in Pid |-> "NO_CREADO"]

Crear(p)   == Pasa(p, "NO_CREADO", "NEW")
Admitir(p) == Pasa(p, "NEW", "READY")
              /\ Cardinality(Vivos) < GRADO_MAX_MULTIPROGRAMACION
Despachar(p)   == Pasa(p, "READY", "EXEC") /\ EnFase("EXEC") = {}
Desalojar(p)   == Pasa(p, "EXEC", "READY")
Bloquear(p)    == Pasa(p, "EXEC", "BLOCK")
Desbloquear(p) == Pasa(p, "BLOCK", "READY")
Terminar(p)    == Pasa(p, "EXEC", "EXIT")
Destruir(p)    == Pasa(p, "EXIT", "DESTRUIDO")

Next ==
    \E p \in Pid :
        \/ Crear(p) \/ Admitir(p) \/ Despachar(p) \/ Desalojar(p)
        \/ Bloquear(p) \/ Desbloquear(p) \/ Terminar(p) \/ Destruir(p)

Spec == Init /\ [][Next]_fase

=============================================================================
