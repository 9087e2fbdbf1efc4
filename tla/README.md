# Verification of TUKI

TUKI is an operating-systems course project in C: five processes (consoles, a
kernel, a CPU, a memory and a file system) that talk over TCP and run small
assembler-like programs.  This directory has TLA+ modules of its control, TLC
configurations that check them on small instances, and TLAPS proofs of what
matters most for instances of every size.  The names of variables and operators
are the source's wherever TLA+ allows it, so they are in Spanish.

"The statement" below is `Archivos Importantes/T.U.K.I - v1.1.pdf`, the
document the program was written to; page numbers are the printed ones.

## 1. The system

### Components, their state, their operations

**Kernel** (`kernel/src/kernel.c`, 1000 lines).  Threads: one per console
(`procesar_cliente`, `armar_pcb`), `ready_pcb` (admits), `exec_pcb` (chooses and
dispatches), `block_return_pcb` (readies unblocked processes), `exit_pcb`
(destroys), one `exec_io` per process that sleeps, `procesar_conexion` (serves
the CPU's operations) and `procesar_conexion_fs` (receives the file system's
answers).  State: seven lists of PCBs, each with a mutex; counting semaphores
`sem_multiprog`, `sem_listos_ready`, `sem_ready`, `sem_exec`, `sem_exit`,
`sem_block_return`, `ongoing_fs_mem_op`, `fin_f_open`; the resources with their
instances and queues; the global table of open files with their queues and
pointers; the counter `fs_mem_op_count`; and, per process, its state, exit
reason, open files and copy of the segment table.

**CPU** (`cpu/src/cpu.c`).  One thread: it receives a context, executes
instructions (`fetch`, `decode`, `ejecutar_*`) until one of them gives the context
back, and sends it with an operation.  State: one *global* register file, the
context, the flag that ends the loop.  The MMU (`traducir_direccion`) works on
the segment table that came in the context.

**Memory** (`memoria/src/memoria.c`).  One thread per connection (kernel, CPU,
file system).  State: the area of bytes, the list of holes, the list of segments
in memory, one segment table per process.  Operations: create and end a process,
create and delete a segment (first, best or worst fit), compact, read, write.

**File system** (`fileSystem/src/fileSystem.c`).  A thread receives requests and
queues them, another serves them one by one; a list with a mutex and a semaphore
between them.  State on disk: FCBs, a bitmap, a file of blocks; each file has a
direct block and a block of pointers.

**Console** (`consola/src/consola.c`).  Parses a program from a text file, sends
it and waits for one message: the end.

**Shared** (`shared/src`).  Sockets and (de)serialisation, no state.

### How they interact

A process's context is passed along: kernel → CPU → kernel.  While the CPU has it
the kernel executes nothing for it, and the kernel's only record of *who* is
running is the head of `cola_exec`.  WAIT, SIGNAL and file operations are served
by the kernel; segment operations go on to the memory (same thread, synchronous);
F_READ, F_WRITE, F_TRUNCATE and the F_OPEN of a closed file go to the file
system, whose answers come to *another* thread, with no process in them.  F_READ
and F_WRITE carry a physical address, and the file system then reads or writes
the memory directly.

### What is hard

1. The token.  `sem_exec` lets one process run; everything that takes the head
   of `cola_exec` for "the process of this context" depends on it (five threads).
2. Order instead of identity.  Answers of the file system are matched to
   processes by the order of `cola_block_fs`.
3. Compaction against file operations: the physical address in flight, the
   counter `fs_mem_op_count` that two threads change without a lock, and a
   semaphore that whoever finds the counter at zero takes or posts.
4. Compaction against segment tables: every PCB's copy must be refreshed, list
   after list, while other threads move PCBs between lists.
5. `cola_block` is changed under two different mutexes.
6. Counting: places of the degree of multiprogramming, posts of queues,
   negative instances of resources, across threads and error paths.
7. Geometry: holes that join on both sides, a moved segment that overlaps its
   destination, `tamanio_total` left behind by another function.
8. The CPU's registers are shared by all processes.
9. The file system dies in the middle of a request whenever the kernel
   disconnects, and starts again from a disk on which one request is several
   writes: the bitmap, the FCB, the block of pointers, the data.

`PROJECT.json` lists these and the rest as hazards, each at its line, with the
properties that watch it or the reason why none does.

## 2. The modules

| module | of | role |
|---|---|---|
| `CicloDeVida` | the statement's state diagram | abstract specification: states of a process, at most one on the CPU, at most the degree admitted |
| `Kernel` | `kernel.c` | every thread and handler, one action per step between shared accesses |
| `KernelPropiedades` | | what the kernel promises, and the refinement mapping to `CicloDeVida` |
| `KernelProofs` | | TLAPS proofs about `Kernel`: types, the token, the CPU's contexts, resources' counts and answers against lists |
| `KernelLugares` | | proofs: one place for each PCB; semaphores against lists, and the only way in which a thread takes from an empty one |
| `KernelCiclo` | | proofs: a PCB's state against its place; `Kernel` implements `CicloDeVida`; the degree; one holder per file |
| `KernelExclusion` | | proofs: F_OPEN is answered, one request per file; compaction against accesses and tables, under what each needs of the programs |
| `Memoria` | `memoria.c` | segmentation, allocation, compaction, contents |
| `Listas` | | lemmas about lists, folds and induction on lengths, used by the proofs below |
| `MemoriaProofs` | | proofs: what the functions of `Memoria` on the list of holes return, for every list; every byte in one segment or hole, one compaction is enough, contents are isolated |
| `Cpu` | `cpu.c` | instruction cycle, registers, MMU |
| `CpuProofs` | | TLAPS proofs about `Cpu` |
| `Almacen` | what F_OPEN, F_TRUNCATE, F_READ, F_WRITE promise | abstract specification: files are sequences of bytes |
| `FileSystem` | `fileSystem.c` | both threads, bitmap, FCBs, blocks, crash and restart; the mapping to `Almacen` |
| `FileSystemProofs` | | proofs: the order of the answers; every block in one place, none lost, enough for every file; the refinement of `Almacen` |
| `MCKernel`, `MCMemoria`, `MCCpu`, `MCFileSystem` | | finite instances |

Each module has a section *Faulty variants*: operators that differ from one of
the module's own by one plausible mistake.  Nothing in the specifications uses
them; putting one in the place of the right operator must break the property it
is listed with in `PROJECT.json`, which is how we know that no property holds by
accident.

### Kernel

One action is one step of one thread: the semaphore waits that open it, *one*
access to data that another thread may touch, and the posts that close it.
That is coarser than C and loses nothing.  A list operation runs under its
list's mutex.  A post that is done a little early, or a wait a little late,
cannot be told apart by the other threads: between them there is nothing they
share.  Where the code shares data *without* a lock the load and the store are
separate steps: `fs_mem_op_count` (`FRwRecibe` tests, `FRwCarga` loads,
`FRwGuarda` stores; `FsRecibe` loads, `FsGuarda` stores, `FsPrueba` tests) and
the `list_add` to `cola_block` under the mutex of `cola_block_fs` (`previa` is
the list as the thread found it; `FsAgrega` links the node).  If the list changed
in between, three outcomes are modelled, those of the links: the node is appended,
it is lost (it was linked to a node that left), or what followed the node it is
linked to is lost.  They are not all that C allows: the library's list also keeps
its length, `elements_count`, which the same race can leave wrong, and then
`list_is_empty` and the position `list_add` goes to are wrong from then on.  The
model takes the length from the links.  `perdidos` records what is lost; no action
reads it.

What a lost PCB does to the program is in the model: its post in
`sem_block_return` stays, and `block_return_pcb`, let through once more than the
list has PCBs, dereferences what `list_remove` gives for an empty list.  `Muere` is
that step, for every thread that removes from a list (`APuntoDeSacar(q)`: the one
that takes from `q` is past its wait); `vivo` is false from then on and nothing
else happens.

| thread in the code | variables | actions |
|---|---|---|
| consoles (`armar_pcb`) | `cola["listos"]` | `ArmarPcb` |
| `ready_pcb` | `mano["ready"]` | `ReadyToma`, `ReadyAdmite` |
| `exec_pcb` | `mano["exec"]` | `ExecElige`, `ExecDespacha` |
| `block_return_pcb` | `mano["block"]` | `BlockToma`, `BlockDevuelve` |
| `exit_pcb` | | `HiloExit` |
| `exec_io` | `io` | `FinIO` |
| `procesar_conexion` | `pcCpu`, `regCpu`, `archCpu`, `paso`, `mano["cpu"]` | `Yield`, `Exit`, `SegFault`, `ManejarIO`, `RecursoFallido`, `Wait*`, `Signal*`, `FOpen*`, `FClose`, `FSeek`, `FTruncate`, `FRw*`, `SegmentoCreado`, `SinMemoria`, `PideCompactar`, `Compacta*`, `ActualizaCola`, `DeleteSegment` |
| `procesar_conexion_fs` | `pcFs`, `regFs`, `previa`, `mano["fs"]` | `FsRecibe`, `FsGuarda`, `FsPrueba`, `FsAgrega` |
| the file system, seen from here | `peticiones`, `respuestas` | `FsAtiende` |
| any thread that removes from a list, when it is empty | `vivo` | `Muere` |

`mano[h]` is the PCB thread `h` holds outside every list.  `cpu` is the process
whose context the CPU has; which instruction the context comes back with is any
of `Programa[cpu]`.  The CPU appears here only as that choice; module `Cpu`
shows that it answers each dispatch with exactly one operation of the same
process, unless it dies (see below).

Abstractions.  HRRN sorts by a ratio computed from timestamps: under HRRN
`ExecElige` takes *any* ready process; under FIFO, the first.  What the memory
answers to a CREATE_SEGMENT is open (`SegmentoCreado`, `SinMemoria`,
`PideCompactar`); after a compaction it is a created segment, which is what
`CompactarAlcanza` of module `Memoria` establishes.  F_READ and F_WRITE are the
same handler in the kernel (`F_RW`).  A file's pointer is 0 or 1, "moved".
Programs use a file between their own F_OPEN and F_CLOSE and delete segments
only if they have some: the statement (p. 11–12) excludes the others.

Bounds, in the guards: `MaxInstancias`, no SIGNAL that would leave more instances
than this (a program could signal for ever); `MaxCuenta`, no F_READ or F_WRITE
once `fs_mem_op_count` or `ongoing_fs_mem_op` has drifted past it (a race may
drive them away for ever).

### Memoria

One thread changes the lists, so a request is one action, except compaction,
which is one step per segment moved.  The kernel's side is reduced to what it
guarantees: one CREATE_SEGMENT at a time, no other instruction meanwhile, and
nothing asked by a process that waits for the file system.

`accesosFs` has the accesses the file system was asked for, each with the physical
address translated when it was asked *and* the segment and offset it was meant for;
the latter exist only for the property.  Nobody guarantees anything about them.
Neither the CPU, nor the kernel, nor the memory compares the offset and the size of
an F_READ or an F_WRITE with the segment, so `PideAccesoFs` takes any of
`Desplazamientos` and `Cantidades`; and a compaction may begin with accesses
pending (`dos_lectores`), so nothing in `CompactaInicia` waits for them.
`SegmentosAislados` names the two ways in which such an access ends in the wrong
bytes, `Desborda` (it is longer than what is left of its segment) and `Viejo` (its
segment has moved), and says that there is no other: creation, deletion and
compaction, and every write that is neither, leave each segment what it had.  MOV is
different, since the CPU does test it: `EscribeCpu` has that guard.

`memcpy` between overlapping areas is undefined in C.  `MueveSegmento(orden)` copies
upwards (`"adelante"`) or downwards (`"atras"`), as the build may, at each move.
Downwards, a segment moved by less than its size is corrupted; `SePisa` is that
case, and is the only effect the order has.

A move and a write are one step each.  Bytes that an access writes after the end of
the area belong to no process and are not modelled.

### Cpu

One action is one instruction, MOV excepted: the request to the memory and its
answer are two.  `registros` is the global structure, `regContexto` the copy in
each context, `propios` a history variable: what the process itself last put
in each register.  `KernelDespacha` may change the segment table of the process
to any of `Tablas`, as the kernel does between dispatches.  `viva` becomes false
when `traducir_direccion` uses the segment it did not find.  `MaxPc` bounds the
length of a program; the instruction at that place is its EXIT.  `Direcciones`
are the logical addresses programs use, and `Cantidades` the sizes of their F_READ and
F_WRITE.  These two are an action of their own (`DevuelveAccesoFs`), as they translate
an address before they give the context back; `enviados` carries the physical address
and the size.  Unlike MOV (`Mov`, `SegFault`) they are not tested against the
segment: `AccesoEnSuSegmento` is about MOV only, `AccesoFsEnSuSegmento` says the same
of what is sent, as the statement asks, and the run `acceso_fs` refutes it.

### FileSystem

| in the code | variables | actions |
|---|---|---|
| `procesar_conexion` (the receiver) | `pendientes`, `contador`, `recibida` | `Recibe`, `Postea` |
| `atender_peticiones` | `peticion`, `paso` | `Saca` |
| `manejar_f_open`, `manejar_f_create` | `fcb` | `ManejarFOpen` |
| `manejar_f_truncate` and what it calls | `bitmap`, `bloques`, `fcb`, `locales` | `AsignarPunteros`, `GuardarPunteros`, `GuardarTamanio`, `AsignarBloques`, `SacarBloques`, `MismosBloques`, `TruncaSinTamanio` |
| `manejar_f_read`, `leer_datos` | `enviado` | `ManejarFRead`, `RecvFinEscritura` |
| `manejar_f_write`, `escribir_datos` | `traido`, `hecho` | `ManejarFWrite`, `EscribirDatos` |
| `main` returning, and being run again | `caidas`, `aMedias` | `CaeYReinicia`, `CaeCreando`, `CaeEnBloques` |
| the kernel, seen from here | `abiertos`, `enVuelo` | the guards of `Recibe`, `Responde`, `FClose` |

A step ends where something reaches the disk: the bitmap and the blocks are
mapped with MAP_SHARED and an FCB is written by `config_save`, so what the code
has written survives the process and the rest does not.  A crash can therefore
fall between marking two blocks and saving the FCB that names them, between that
and the new size, or between two of the `memcpy` of a write.  Where a
request has several writes inside one action, the crash between them has an action
of its own:

- `CaeCreando`: `fopen` with "a+" has made the file of the FCB and `config_save` has
  not filled it.  After the restart `inicializar_fcbs` finds the file; it is in
  `aMedias`, and the first F_TRUNCATE of it reads a TAMANIO_ARCHIVO that is not there
  and kills the process (`TruncaSinTamanio`), each time.
- `CaeEnBloques`: `asignar_bloques` and `sacar_bloques` have changed some of the bits of
  the bitmap, and the block of pointers, which waits RETARDO_ACCESO_BLOQUE, has not
  been written.  Growing, the blocks are lost; shrinking, they are free while the
  block of pointers on disk still names them, so that they will be given to another
  file.  `CaeYReinicia` at the same step is the crash before the first bit.

A restart in that step, the last of a truncation, leaves a disk that is not
consistent, and the code has nothing to repair it with.  The new size is in the FCB
already: a file that was growing has a size and no blocks for it, so
`BloquesSuficientes` would fail; one that was shrinking names blocks that are free, so
`UnDuenio` would fail.  `sano` becomes false there, and the properties of the disk are
claimed until then.  A crash at any other
step keeps them (it may leak blocks: `SinFugas` is claimed until a restart).  `config_save` itself is
taken to be atomic, though it truncates the file and writes it again.

A block keeps one content read in two ways: `datos`, its bytes, and `cant` and
`ptr`, the counter and the pointers of a block of pointers.  A block of data with
text in its first word has a huge counter (`TEXTO`).  `CAPACIDAD` is what the code
makes it: positions of pointers are multiplied by `sizeof(uint32_t)` and then
used as an index of words.  `tamanio_bitmap`, a number of bytes, is the number of
bits `buscar_bloque_libre` looks at.  `vivo` becomes false when a counter that is
text sends a `memcpy` far out of its buffer, and since the process stops there the
runs do not check for deadlock.  Pointers that do not fit are written just past the
copy of the block, on the heap: the process may die, or go on with the counter
counting pointers that were never saved (`NoEntran`, `FueraDeLaCopia`).  `sano` is
false from then on.  What the heap does afterwards is anybody's guess, so nothing is
claimed of the blocks from that step.  The process goes on serving what it has, and
`Acotado` is a bound: nothing more is asked of it while some counter is larger than its
block holds.

A file may have any sizes.  Growing adds the difference of two sizes rounded up,
shrinking takes the difference of two quotients, so a file that grows and shrinks
gathers blocks that it does not need; in the end its pointers do not fit.  Until then
there are never too few (`BloquesSuficientes`).

`EnElArchivo`, programs read and write inside their files, is an assumption on the
programs: no process of the system looks at it.

`Almacen` knows nothing of blocks: a request changes its own file and only the
bytes it names, a read returns what was written, a truncation keeps what still
fits, and a crash keeps a prefix of a write.  `Contenido` is the mapping: the
bytes that the FCB, its blocks and its pointers give, up to the size seen from
outside (the old one, while the new one has no blocks yet).

## 3. What is checked

All safety properties are checked without fairness.  Where symmetry is used it
is between processes, whose programs are then the same, or (`memoria`) between the
values that are written too; and only in runs with no liveness property.

| run | instance | shows |
|---|---|---|
| `todo` | 3 processes, degree 2, HRRN, every instruction, an unknown resource | `TypeOK`; `FichaExec`: the token of `sem_exec` is in one place; `ContextoDeSuPcb`: the head of `cola_exec` *is* the process whose context comes back; `CadaPcbEnUnLugar`: of all the lists, queues, hands of threads and sleeps, no two have a PCB in common, none has one twice, and together they have the live ones (and those the race of `pcb_perdido` dropped); `CupoRespetado`: places left plus processes admitted equal the degree, error paths included; `EstadoSegunLugar`: the state of each PCB is one that its place allows, on every path by which a process ends; `ImplementaCiclo`: the kernel implements `CicloDeVida` |
| `bloqueos` | 3 processes admitted at once, two files, every instruction but those on segments | `SemaforosRespaldados`: each queue's semaphore counts its list, and that of `cola_block` counts besides, exactly, the PCBs its unlocked `list_add` lost; `SoloMuerePorPerdidos`: those are the only reason for which any thread ever takes from an empty list; `EsperanLosQueFaltan`: a negative count is the number of processes that wait; `ArchivoExclusivo`: one holder per file; `FOpenConRespuesta`: the answer the CPU thread waits for inside F_OPEN is still to come; `PedidosDisjuntos`: no two requests in flight are of the same file, which module `FileSystem` takes from the kernel; `RespuestaDeSuProceso`: `cola_block_fs` is exactly the processes of the requests in flight, in order |
| `progreso` | FIFO, 3 processes; one uses files and I/O, two create and delete segments | `FsSinCompactar`: no compaction while the file system has an access to do; `CpuConTablaAlDia`: nobody runs with an old table; `EsperaConTurno`: whoever waits for `ongoing_fs_mem_op` will be posted; `TodoProcesoTermina`, `CpuNoQuedaEsperando`: progress |
| `memoria` | 5 bytes with contents, 3 processes of 1 segment, sizes 1 and 2, accesses of 1 and 2 bytes, pending or not while the memory compacts, `memcpy` in both orders | `TipoMemoria`; `Particion`: each byte in exactly one hole or segment; `HuecosSeparados`: no two holes touch; `EligeElHueco`: each of the three algorithms chooses as its name says; `CompactarAlcanza`: one compaction is enough for the segment it was made for; `SegmentosAislados`: nothing done to one segment changes another's bytes, but for an access that overran its own or that a compaction left behind |
| `archivos` | two files, ten usable blocks, sizes with and without slack, one of the files grows until its pointers do not fit, one crash at any step | while `sano`, `TipoFs`; `UnDuenio`: each block in use belongs to one place of one file and is marked; `SinFugas`: until a restart no marked block is lost; `BloquesSuficientes`: a file has the blocks of its size; `HayLugar`: whoever looks for a block has one to find; `ImplementaAlmacen`: files hold what was written in them.  And always, `RespuestaAlPrimero`: answers come in the order of the requests, and the semaphore counts the list |
| `cpu` | 2 processes, registers of 4 and 8 bytes, three tables, addresses inside, at the border and outside | `TipoCpu`; `AccesoEnSuSegmento`: MOV asks the memory only for bytes of the process's own segments; `UnaRespuestaPorDespacho`: one context back for each one given; `TodoDespachoVuelve`: each dispatch is answered, unless the CPU dies |

The bounds are enough for what can go wrong.  Three processes give every pair of
threads a PCB each and one more to be overtaken; a degree of 2 makes one of three
wait for admission, and a degree of 3 puts two in a queue behind the third.  Two
files are needed for two requests in flight, since a second user of the same file
waits in the kernel.  Five bytes hold the shared segment and three more of one byte,
with one byte left: deleting the first and the last leaves holes of one and of two
bytes that both fit a segment of one, and deleting the one in the middle then joins on
both sides.  Three processes also make the memory compact segments that were created
out of address order, and a segment of two moves by one.  Two registers and two dispatches are enough for one
process to find what another left.

`archivos` has blocks of three bytes and pointers of one, so a block of pointers
holds two: the largest file has a direct block and two more.  `archivo1` has sizes 2
and 8: it grows and shrinks by two blocks, and its accesses go from the last byte of a
block over two more.  `archivo2` has sizes 4 and 6, which need the same blocks: each
growth takes one more than the file needs, the third does not fit, and in between a
shrink may come.  Its accesses stay inside the first block.  Both take blocks from the
same bitmap, which is what they could confuse.  Programs write one text, whose bytes
are all different.  Ten usable blocks (80 in the bitmap file, an eighth of them looked
at) are enough for both with what one crash leaks, and leave none to spare:
`DiscoGrande` (module `FileSystem`), which TLC evaluates on this disk.  `UsoPrevisto`
says what else is left out: a file truncated to 0, and one truncated for the first time
to 1 byte (both in the list that follows the next table).

`progreso` is the largest mix in which the three kinds of promise hold at once.
Its limits are real ones of the code and not of the model: see the next table.
They are named, `UnSoloLector` and `SegmentosSinEsperas` (module
`KernelPropiedades`); TLC evaluates that its programs satisfy both
(`HipotesisDeProgreso`), and theorems show the safety properties of this run from
them (section 4).  No program of this run can race in `cola_block`, as a lost PCB
never ends; that race is in `bloqueos`, for what survives it, and in `pcb_perdido`.

### Runs that find what the code does otherwise

| run | instance | the disagreement |
|---|---|---|
| `compacta_con_io` | 2 processes | a PCB asleep in `exec_io` is in no list, so `actualizar_ts_de_pcbs` misses it, and it later runs with its old table; the comment at kernel.c:947 says the tables of all are updated.  The same can happen to a PCB in the hands of `block_return_pcb` or of the file system's thread |
| `dos_lectores` | 3 processes that read files | a compaction starts with an access pending: only the request that found the counter at 0 took the semaphore, and both threads change the counter without a lock |
| `pcb_perdido` | 2 processes, one truncates, one does I/O | `cola_block` loses a PCB; its console waits for ever, and `block_return_pcb`, let through by the post of the lost PCB, dereferences NULL: the kernel dies |
| `bloque_sucio` | as `archivos`, sizes with no slack, no crash | the block of pointers of a new file is not cleared: after a file with text gave a block back, the next one takes that text for its number of pointers |
| `registros_ajenos` | 2 processes | a process finds in the registers what another left |
| `acceso_fs` | as `cpu` | F_READ and F_WRITE leave the CPU for bytes outside every segment of the process; nobody tests them later |

Other divergences are in the modules and have no run of their own: a search for a
resource that fails overwrites the name of the last configured one
(`RecursoFallido` clears `idValido`); F_CLOSE hands a file over with the pointer
where it was (`FClose` leaves `puntero` alone); `exit_pcb` keeps the process's
files open and `terminar_proceso` its segments occupied (`HiloExit`,
`TerminarProceso`); MOV_IN does not reach the context that is sent back
(`FinLectura`); a lost update of `fs_mem_op_count` also means that nobody posts
the semaphore the CPU thread waits for.  In the file system:

- the blocks a growth adds are the difference of the sizes rounded up, whatever room the
  last block had, so a file that grows inside its last block takes one it does not need
  (`AAgregar`);
- the index of a pointer is multiplied by its size twice, so a block holds a quarter of
  the pointers; those that do not fit are lost, and the file has a size that it cannot
  address (`CAPACIDAD`, `NoEntran`);
- the first truncation of a file to one byte takes away a block the file does not have:
  the word read as its pointer is the counter, 0, and block 0, in use, is freed
  (`ARestar`, `Leido`); a file truncated to 0 keeps its two blocks and takes two more
  when it grows again (`AsignarPunteros`);
- a crash in the last step of a truncation leaves a size without its blocks, or named
  blocks that are free, and one between `fopen` and `config_save` a file whose next
  truncation kills the process (`CaeEnBloques`, `CaeCreando`, `TruncaSinTamanio`).

The statement asks for the opposite of each.

### Fairness, and why the code justifies it

`Kernel!FairSpec`: weak fairness for each thread (`HiloReady`, `HiloBlock`,
`HiloExec`, `HiloExit`, `HiloCpu`, `HiloFs`), for the file system's worker
(`FsAtiende`) and for each sleeping `exec_io` (`FinIO`).  These are POSIX threads
in infinite loops that block only on the conditions in their guards, and a
`usleep` ends.  Strong fairness on `Exit(p)`: programs are finite and have no
jumps, so a process that gets the CPU again and again reaches its EXIT.
Strong and not weak, because between dispatches it is not enabled.  No fairness
is asked of consoles.

`Cpu!FairSpec`: weak fairness of `Ciclo`, the CPU's loop with the memory's answers.
Programs end because of `MaxPc`, so nothing more is needed.

`FileSystem` states no liveness: its worker is fair in `Kernel` (`FsAtiende`), and
by itself it may die.

## 4. What is proved

TLAPS checks the following for *every* value of the constants that satisfies
`KernelAssumption`, `MemoriaAssumption`, `CpuAssumption` or
`FileSystemAssumption`: any processes, resources, files, programs, degree,
algorithm, size of memory, sizes of segments, tables, addresses, requests.

| theorem | says |
|---|---|
| `KernelProofs!TipoCorrecto` | `Spec => []TypeOK`; semaphores, in particular, never go negative |
| `KernelProofs!UnaSolaFicha` | `Spec => []FichaExec` |
| `KernelProofs!ContextoBienAtribuido` | `Spec => []ContextoDeSuPcb` |
| `KernelProofs!EsperasContadas` | `Spec => []EsperanLosQueFaltan` |
| `KernelProofs!RespuestaBienDada` | `Spec => []RespuestaDeSuProceso` |
| `KernelLugares!UnSoloLugar` | `Spec => []CadaPcbEnUnLugar` |
| `KernelLugares!ColasRespaldadas` | `Spec => []SemaforosRespaldados`: the semaphore of `cola_block` counts its list plus what `list_add` lost, the others their lists |
| `KernelLugares!MuereSoloPorPerdidos` | `Spec => []SoloMuerePorPerdidos`: no thread takes from an empty list unless a PCB was lost |
| `KernelCiclo!EstadoDeSuLugar` | `Spec => []EstadoSegunLugar` |
| `KernelCiclo!CupoSiempre` | `Spec => []CupoRespetado` |
| `KernelCiclo!KernelImplementaCiclo` | `Spec => ImplementaCiclo`: the kernel implements the statement's life cycle |
| `KernelCiclo!UnSoloDuenio` | `Spec => []ArchivoExclusivo` |
| `KernelExclusion!AperturaRespondida` | `Spec => []FOpenConRespuesta` |
| `KernelExclusion!UnPedidoPorArchivo` | `Spec => []PedidosDisjuntos` |
| `KernelExclusion!CompactaSinLecturas` | `Spec => []FsSinCompactar`, under `UnSoloLector` |
| `KernelExclusion!NadieEsperaEnVano` | `Spec => []EsperaConTurno`, under `UnSoloLector` |
| `KernelExclusion!TablaAlDia` | `Spec => []CpuConTablaAlDia`, under `SegmentosSinEsperas` |
| `MemoriaProofs!TipoSiempre` | `Spec => []TipoMemoria` |
| `MemoriaProofs!ParteLaMemoria` | `Spec => []Particion` |
| `MemoriaProofs!HuecosApartados` | `Spec => []HuecosSeparados` |
| `MemoriaProofs!CompactaUnaVez` | `Spec => []CompactarAlcanza` |
| `MemoriaProofs!EligeSiempre` | `Spec => []EligeElHueco` |
| `MemoriaProofs!Aislados` | `Spec => SegmentosAislados`, for accesses of any size and `memcpy` in any order |
| `CpuProofs!TipoCpuCorrecto` | `Spec => []TipoCpu` |
| `CpuProofs!RespuestaUnica` | `Spec => []UnaRespuestaPorDespacho` |
| `CpuProofs!AccesoPropio` | `Spec => []AccesoEnSuSegmento` |
| `FileSystemProofs!RespuestaEnOrden` | `Spec => []RespuestaAlPrimero` |
| `FileSystemProofs!TiposDelDisco` | `Spec => []TipoFs`; this and the next five under `UsoPrevisto` and `DiscoGrande`, and, of the disk, while `sano` |
| `FileSystemProofs!UnSoloDuenio` | `Spec => []UnDuenio` |
| `FileSystemProofs!NadaSePierde` | `Spec => []SinFugas` |
| `FileSystemProofs!BloquesDeSobra` | `Spec => []BloquesSuficientes`: at least the blocks each size needs, for any sizes above 1 |
| `FileSystemProofs!SiempreHayLugar` | `Spec => []HayLugar` |
| `FileSystemProofs!FsImplementaAlmacen` | `Spec => ImplementaAlmacen`: files hold what was written in them |

**Kernel.**  One module stands on the other, each with an inductive invariant that
needs those below it.

- `Base == TypeOK /\ FichaExec /\ ContextoDeSuPcb` (`KernelProofs`).
  None of the three is inductive alone.  `TypeOK` says, for example, that a PCB
  put in a list is a process: when it comes from `mano["cpu"]` that needs
  `FichaExec`, which ties the holding of a PCB to the program counter of the
  thread.  `ContextoDeSuPcb` says that `cola_exec` has at most one element, the
  process on the CPU; it holds because `exec_pcb` adds to the list only with the
  token in hand, and the thread that serves the CPU, which also takes it, gives
  the token back only after the PCB has left the list.
- `ColasInv` (`KernelProofs`): `Base`, with each resource's count against its queue,
  and `cola_block_fs` against the requests in flight.
- `LugaresInv` (`KernelLugares`): `ColasInv /\ CadaPcbEnUnLugar /\ Apertura /\
  PerdidosCreados`.  A PCB that moves is taken from one place and put in another;
  the lemmas `ColaSaca`, `ColaAgrega`, `RecursoSaca`, ..., `IoEntra` say what each
  such half step does to the partition, and each action composes them.
  `Apertura` is the one delicate fact: during an F_OPEN of a closed file the CPU
  thread keeps a reference to a PCB that it has put in `cola_block_fs`; the answer
  to that request, and no other, makes it the thread's again.
  The semaphores stand on it.  Each post comes with a PCB in the list, and a PCB that
  the race drops keeps its post: that `sem_block_return` is the length of `cola_block`
  plus the *number* of lost PCBs needs that whoever is lost was not lost before and is
  not in the list, which is the partition (`PerdidosAparte`).  So a thread let through
  finds its list empty only if a PCB was lost: that is `MuereSoloPorPerdidos`, where
  `cola_exec` and `cola_block_fs`, which have no semaphore, come from
  `ContextoDeSuPcb` and `RespuestaDeSuProceso`.
- `CicloInv` (`KernelCiclo`): `LugaresInv /\ EstadosBien /\ EstadosFs`.  That the
  state agrees with the place needs that the PCB was nowhere else.
- `VidaInv == CicloInv /\ PerdidosBloqueados /\ CupoRespetado`
  (`KernelCiclo`).  `CadaTransicion` classifies every action of the kernel as
  one of `Crea`, `Admite`, `Despacha`, `Sigue`, `Acaba`, `Destruye` or `Quieto`; from
  those six and `VidaInv` follow the count of the degree and that each step is
  one of `CicloDeVida` or a stutter.  That at most one process is in EXEC comes
  from the token, that at most the degree is admitted from `CupoRespetado`.
  `ArchivosInv` adds that the file an F_OPEN is waiting for is still closed
  (`AperturaDeCerrado`), by which opening it cannot give it a second holder.
- `AperturaPedida` (`KernelExclusion`): while the CPU thread waits inside F_OPEN and
  nothing has been posted, its process is in `cola_block_fs`.  As that list and the
  requests in flight are one sequence, the request is there too
  (`FOpenConRespuesta`).  And two requests of one file would be of two holders, or
  of a holder and an open of a closed file: `ArchivosInv` excludes both
  (`PedidosDisjuntos`).  This is the guard of `FileSystem!Recibe`, there an
  assumption about the kernel, here a theorem.

Three more properties hold of some programs and not of others: what they say is not
true of the code in general, and the runs `dos_lectores` and `compacta_con_io` show
it.  The theorems name what the programs must not do, which is as
much as the code supports, and leave everything else free: the number of processes,
what they do besides, files, resources, degree, algorithm and interleaving.

- `UnSoloLector`, at most one process whose program has F_READ or F_WRITE.
  `TurnoInv` says that then the protocol of `fs_mem_op_count` works: the reader is
  in one place, so its operation is at one stage (`UnaEtapa`); the counter is 1
  exactly while there is one, and the copies in the registers of the two threads
  are never stale; and `ongoing_fs_mem_op` is one token, which is the semaphore's,
  the compaction's or the operation's.  `FsSinCompactar` and `EsperaConTurno` follow.
  With two readers the second finds the counter at 1 and the two threads can lose
  an update.
- `SegmentosSinEsperas`, programs that create segments have no IO, WAIT or F_OPEN.
  `TablasInv`: such a process is never blocked, only such processes own segments,
  and, during a compaction, whoever owns any is in `cola_ready`, in `cola_exit` or
  is the one that asked (`DondeCompacta`).  So each table made old is ahead of
  `actualizar_ts_de_pcbs`, in a list it has still to see and which meanwhile only
  grows (`ListasCrecen`), or belongs to a process that will not run again.  A PCB
  in I/O is in no list at all.

**Memory.**  The inductive invariant is `IInv` of `MemoriaProofs`:

- `HuecosBien(huecos)`: the holes are in order, do not touch and end inside the
  memory.  It is stronger than `HuecosSeparados` in what it says of a hole of no
  bytes: only one at the very end, which a compaction of a full memory leaves.
- `TablasYLista` and `Propios`: `segmentos_en_memoria` has each segment once, those
  of the tables of live processes among them; segments are not empty, lie inside
  the memory and do not overlap.
- `Reparto`, outside of a compaction: a byte is free (in a hole) exactly when it is
  in no segment.  With the two above, `Particion` follows.
- `Moviendo`, during a compaction, which no step of the loop keeps `Reparto`
  through: the list is in order of base, the segments moved so far fill the memory
  up to `cursor`, those still to move lie above it, in order, and the bytes that
  are left for them *count* what `Pendientes` adds up to.  The count is what makes
  `CompactarAlcanza` true at the end of the loop, and it is established at its
  beginning from `Reparto`: the sum over the holes is the number of bytes in no
  segment (`SumaLibres`), by cardinality of disjoint blocks.
- `Pedidos`, what is being asked for; and `Accesos`, that the segment an access in
  flight was meant for is still its process's, which waits and deletes nothing.
  Nothing is said of the address and the size, as nothing is known of them.

The functions on the lists are proved for every list first: `EligeBien`, that
the hole chosen is the one the algorithm names; `OcupaBien`, that taking a hole
takes its first bytes; `AgregaBien`, that giving bytes back makes exactly those
free and leaves no two holes that touch, by way of `Casi`, the list as it is
between the insertion and the joining of neighbours; `PorBaseOrdena`, that the
sort orders and loses nothing. All are folds or `SelectInSeq` in the community
modules. The proof system cannot use the library's induction theorems, so
`Listas` derives induction on naturals (`Induccion`) from the well-foundedness
of `<`, as a set of naturals that contains 0 and each successor, and
`PorPartes`, that a fold passes through a sequence of partial results, from
which each fold is then proved by steps.

`Aislados` needs no invariant but `IInv`: in each step, a segment that lives keeps
its bytes (`Conserva`), unless the step is a write asked for it (`EscribeEn`), one of
the two misplaced accesses (`EscribeDesviado`) or its own move downwards over itself
(`SePisa`).  An access that is neither longer than its segment nor stale writes bytes
of its own segment only, which by `Propios` are nobody else's (`EscribeOtro`).  A move
writes where, by `Moviendo`, no segment is but those already moved, which end before
it, and the moved segment's own old place (`MueveAisla`); copied upwards, each byte is
read before it is overwritten.

**CPU.**  The inductive invariant is `CpuInv == TipoCpu /\ Turno /\
AccesoEnSuSegmento`.  `Turno` says that a context is in one place, the loop, the
wire to the CPU or the wire back, and that it belongs to the process the kernel
dispatched: without it a second context could replace the table that a pending
request was translated with.  `Traduccion` is the arithmetic of the MMU: the test
of `ejecutar_mov_in` and `ejecutar_mov_out` keeps the last byte of the register
inside the segment.

**File system.**  `RespuestasInv == TipoCola /\ RespuestaAlPrimero`.  The kernel's
list of unanswered requests is the one being served followed by the receiver's
list; `EnOrden` restates it with `Nombres`, the files of a list of requests, and
the lemmas about `Append` and `Tail` of `Nombres` do the rest.  Crashes are covered:
no bound is put on where or how often.

The blocks have an inductive invariant of their own, `BloquesInv`, which needs the
other: that the requests that wait are of other files than the one being served
comes from the kernel's list.  It has these parts.

- `DiscoBien(bm, bl, di, in, h, M)` describes a disk without its requests: a
  bitmap, the blocks, for each file its direct block, its block of pointers and
  how many pointers it has, and the blocks `M` in the hands of a request.  The
  places of a file (`Sitios`) name blocks (`Nombra`); every named block is marked,
  two places never name the same one, each counter is the number of pointers (or,
  with none, text that was there before), and what is not a block of pointers
  holds data.  The last part is what `UnDuenio` lacks to be inductive: the block of
  pointers of a new file is used as it was left, so its first word must be known
  to be zero or text, never the number of pointers of a file gone by.  `Toma`,
  `Guarda`, `Cambia`, `Escribe` and `Suelta` say what marking two blocks, saving
  them, writing a block of pointers, writing data and a restart leave of a disk.
- `DiscoInv` applies it to the variables at every step of every request.  The
  number of pointers of a file is its counter (`Alturas`), whatever its size, since a
  file may have more than it needs; `Caben` says that there are enough for the size,
  the *old* one until `AsignarBloques` or `SacarBloques` has written them.
- `FugasInv`: the marked blocks that no place names are few.  There is a set `P` that
  has them, and two for each restart pay for `P` and for the files that a restart
  left with two blocks and no size (`Huerfanos`), whose next truncation will lose
  those two.
- `TrabajoInv == RespuestasInv /\ RestoInv /\ (sano => BloquesInv)` is what is
  inductive.  `sano` is false once the process has written past its copy of a block, or
  a restart has cut the last step of a truncation, and nothing is claimed of the disk
  from then on, but the queue, the order of the answers and what the process keeps in
  variables of its own (`RestoInv`) go on.
- `PedidosInv`, `FcbsInv`, `EtapaInv`: requests are valid, of different files; a file
  with a size has blocks; what each step of a request knows of it.

That there is a free block when one is looked for is derived, not assumed: by
`Contados` the marked blocks are at most the places of all files and `P`, so on a
`DiscoGrande` what a file has not used yet is free (`LugarSobra`).  The chain of
`buscar_bloque_libre` is a recursive function, treated as in `Memoria` by induction on
a set of naturals (`CadenaBien`).  `BloquesDeTruncate` is the arithmetic of
`manejar_f_truncate`.  Growing from `v` to `t` adds the difference rounded up, which is
at least what `t` needs and `v` does not (`Techo`, `DivSuma`); shrinking takes exactly
what `v` needs and `t` does not.  So a file that has at least what it needs, and maybe
more, goes on having it; there is a loss only if the pointers do not fit, and then
`sano` is false.

The refinement of `Almacen` stands on that.  `ByteDe(f, i)` is byte `i` of a file
where its FCB and its blocks put it, and `ByteVisto` says that every byte of the
size a user sees is in one of the places of its file; as two places never name the
same block, a block written or given back changes the bytes of its own place and no
other.  `DatosInv` is what a request carries in memory: the bytes brought are the
request's and each `memcpy` but the first begins with a block (which makes the three
parts of `escribir_datos` one after another, `TramoEnUnBloque`), and the bytes sent
by a read are still those of the file when the memory answers.  Then each action is
a step of `Almacen` (`SacaAtiende`, `FOpenAbre`, `FReadLee`, `FinEscrituraTermina`,
`FWriteTrae`, `EscribirDatosEscribe`, `FinDeTruncarTrunca`, `MismosBloquesTrunca`,
`CaeCae`, `CaeCreandoCae`) or a stutter (`RecibeQuieto`, `AsignarPunterosQuieto`,
`GuardarPunterosQuieto`, `GuardarTamanioQuieto`, `MuereQuieto`): a truncation is seen
at its last step, since until then the size in the mapping is the old one.

Hypotheses.  `UsoPrevisto`: a counter of pointers is too small to be taken for text,
which is a convenience, as no disk of this program is so large; and no file is truncated
to 0 or to 1.  Of sizes it asks nothing else: those of the repository's
`cuentas_truncate` (192, 100, 64, 32 and 80 in blocks of 64) satisfy it.  The single
byte breaks `UnDuenio`, and a file that is emptied breaks `SinFugas`.  `DiscoGrande`:
the usable blocks are enough for each file with its block of pointers full and two more
for each restart, since `buscar_bloque_libre` gives block 0 when it finds none.  It is
more than programs that leave their files small need.  Number of files, sizes of blocks,
pointers and disk, requests, restarts and where they fall are free.  `RespuestaEnOrden`
needs none of this.

Only model-checked:

- Liveness: `TodoProcesoTermina`, `CpuNoQuedaEsperando` and `TodoDespachoVuelve`.
  The proof system does not reason about fairness and ENABLED here.
  `FOpenConRespuesta` and `EsperaConTurno` are the safety part of the second: what
  the CPU thread waits for is still to come.

Every safety invariant, action property and refinement that a passing run checks
has its theorem.

## 5. What is not modelled

- HRRN's estimates and ratios, and their 16-bit arithmetic (kernel.c:814-828).
- Connections: the acceptance of clients and the argument each new thread gets
  (kernel.c:420-431); the one socket to the memory that several of the kernel's
  threads use without a lock; the order of the codes on it.  The kernel uses that
  socket so that two threads can read each other's answers; nothing correct could
  be stated of it, and with it in `Kernel` nothing of the rest could be either.
- The file system's configuration, the creation of its files on the first start
  and its log.  A crash inside `config_save`, taken to be atomic.  What the heap of the
  file system does after it has been written past the copy of a block: nothing is
  claimed of the blocks from then on (`sano`).
- `elements_count` of the list `cola_block`, which the unlocked `list_add` can spoil
  besides the links: the three outcomes of `FsAgrega` are not all there are.
- The bytes after the end of the memory's area, where a long F_READ may write; moves
  and writes of `espacio_usuario` that interleave byte by byte.
- The console's parser, the serialisation of messages, configuration and logs.
- Programs the statement excludes: operations on files not open, deletion of
  segments that do not exist.  And, in `FileSystem`, programs that read or write past
  the end of their files (`EnElArchivo`): the statement does not exclude them and
  nothing in the code looks at it.

## 6. What could follow

The order in which the project was built: `Kernel` first, as the component
everything passes through, with its abstract life cycle; `Memoria` and `Cpu`, which
justify what `Kernel` takes from them; `FileSystem`, with its abstract store; then
the proofs, from the types up to the refinement.  What is left, by what it would
add:

1. `Sistema`: the compaction of `Kernel` composed with the addresses of `Memoria`, so
   that the stale table and the stale physical address show as a wrong byte.
2. `Conexion`: the socket to the memory shared by the kernel's threads, once the
   code gives it a lock or a thread of its own.
3. `Hrrn`: the estimate with its width.
