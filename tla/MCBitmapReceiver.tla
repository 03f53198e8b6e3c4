-------------------------- MODULE MCBitmapReceiver --------------------------
(* TLC instances of BitmapReceiver.                                        *)
EXTENDS BitmapReceiver

MCWireId == [f \in Frames |-> f]

\* One pixel to a chunk in full colour, three in indexed colour.
MCStride == [m \in Formats |-> IF m = "BI" THEN 3 ELSE 1]
MCTotal == [m \in Formats |->
              CHOOSE t \in 1 .. NumPixels : /\ t * MCStride[m] >= NumPixels
                                            /\ (t - 1) * MCStride[m] < NumPixels]

\* Streams: full colour; indexed; an indexed frame among full-colour ones.
MCRgb == [f \in Frames |-> "BM"]
MCIndexed == [f \in Frames |-> "BI"]
MCMixed == [f \in Frames |-> IF f = 2 THEN "BI" ELSE "BM"]

\* No frame uses a palette; every frame uses palette 1; a palette of its own.
MCNoPalette == [f \in Frames |-> 0]
MCOnePalette == [f \in Frames |-> 1]
MCOwnPalette == [f \in Frames |-> f]

\* Strays: none; a packet of a smaller wall, under a frame_id the sender uses too.
MCNoStrays == {}
MCStrays == [frame_id : {1}, total_chunks : {1}, chunk : {0}, format : {"BI"}]
=============================================================================
