-------------------------- MODULE MCBootstrapHeap --------------------------
(* An instance of BootstrapHeap for TLC: a buffer of eight bytes.          *)
EXTENDS BootstrapHeap

FewSizes == 0..4
=============================================================================
