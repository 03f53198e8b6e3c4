-------------------------------- MODULE MCOta --------------------------------
(* TLC instance of Ota: an application region of two sectors, bitstreams    *)
(* that end in the middle of a sector (old), that fill one and end with an  *)
(* empty block (a) and that are too long for the region (long), and a file  *)
(* that is no bitstream (text).                                             *)
EXTENDS Ota

MCBlocks == [f \in Files |-> CASE f \in {"old", "text"} -> 1 [] f = "long" -> 5 [] OTHER -> 3]
=============================================================================
