----------------------------- MODULE MCNetboot -----------------------------
(* TLC instances of Netboot.                                               *)
EXTENDS Netboot

\* Below the buffer's size, exactly that size (so the last block is empty), and
\* one unit beyond it.
MCFileLen == <<3, 4, 5>>
=============================================================================
