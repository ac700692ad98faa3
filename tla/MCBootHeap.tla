------------------------------ MODULE MCBootHeap ------------------------------
(* The kernel's own requests, in the order and with the sizes of the boot:  *)
(* the TSS, the VFS root, the two nodes tmpfs_init makes, and the first      *)
(* process with its kernel stack.                                           *)
EXTENDS KernelHeap

BootRequests == <<104, 304, 304, 304, 248, 4096>>

MCSizes == {BootRequests[i] : i \in DOMAIN BootRequests}

Request == heap_head(heap) \in DOMAIN BootRequests /\ Malloc(BootRequests[heap_head(heap)])

BootSpec == Init /\ [][Request]_vars

\* make_process: "Kernel stack is kmalloc'd.  So all we need to do is kmalloc a
\* page-sized buffer."  The buffer is good only inside the mapped heap.
AllocationsAreMapped == \A p \in live : DataEnd(heap, p) <= HeapSize
=============================================================================
