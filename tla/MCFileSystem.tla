---------------------------- MODULE MCFileSystem ----------------------------
(* Small disks: blocks of three bytes, pointers of one, so that a block of *)
(* pointers holds two and a file has at most three blocks of data.         *)
EXTENDS FileSystem

CONSTANTS archivo1, archivo2

DosArchivos == {archivo1, archivo2}
(* In archivo1 the first block, or all of them; archivo2 gains at each     *)
(* growth a block it does not need, until its pointers do not fit.         *)
DosTamanios == [f \in Archivos |-> IF f = archivo1 THEN {2, 8} ELSE {4, 6}]
(* From the last byte of one block over two more; inside the first.        *)
DosAccesos == [f \in Archivos |-> IF f = archivo1 THEN {<<2, 6>>} ELSE {<<0, 2>>}]

(* Sizes with no slack. *)
Exactos == [f \in Archivos |-> IF f = archivo1 THEN {2, 8} ELSE {2, 5}]

(* This disk is large enough for the theorems; with a restart, it has no   *)
(* block to spare.                                                         *)
ASSUME DiscoDeLaPrueba == DiscoGrande
=============================================================================
