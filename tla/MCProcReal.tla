------------------------------ MODULE MCProcReal ------------------------------
(* The sizes of the x86-64 build: headers of 24 bytes, a heap of 7 pages,   *)
(* the TSS and the three file system nodes of the boot, process_t of 248     *)
(* bytes, and the program headers of a program with three segments.         *)
EXTENDS Proc

BootRequests == <<104, 304, 304, 304>>
=============================================================================
