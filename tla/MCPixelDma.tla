----------------------------- MODULE MCPixelDma -----------------------------
(* TLC instances of PixelDma.                                              *)
EXTENDS PixelDma

\* Two RGB888 frames of three chunks and an indexed frame of one, 1..3.
MCWireId == [f \in Frames |-> f]
MCFormat == [f \in Frames |-> IF f = 3 THEN "BI" ELSE "BM"]
MCStride == [m \in Formats |-> IF m = "BI" THEN 3 ELSE 1]
MCTotal == [m \in Formats |->
              CHOOSE t \in 1 .. NumPixels : /\ t * MCStride[m] >= NumPixels
                                            /\ (t - 1) * MCStride[m] < NumPixels]
=============================================================================
