-------------------------------- MODULE MCProc --------------------------------
(* A heap of 15 bytes in which one request was made before proc_init.  A     *)
(* process_t takes 1, a kernel stack 2, program headers 1: the fourth        *)
(* process gets no kernel stack, and the third lies beyond the heap's end.   *)
EXTENDS Proc

MCBoot == <<1>>
=============================================================================
