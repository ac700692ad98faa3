---------------------------- MODULE MCKernelHeap ----------------------------
(* A small instance of KernelHeap: headers of 2 bytes, a heap of 6, and     *)
(* requests of nothing, of one to three bytes and of more than there is.    *)
EXTENDS KernelHeap

MCSizes == {0, 1, 2, 3, 7}
=============================================================================
