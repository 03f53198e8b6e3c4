------------------------------ MODULE BootSlot ------------------------------
(***************************************************************************)
(* What an over-the-air bitstream update promises: the card's application  *)
(* slot holds one whole image or none, an image is only ever given up when *)
(* a golden image can take over, and every power-up configures the FPGA    *)
(* from the slot or, when the slot is broken, from the golden image.       *)
(***************************************************************************)
CONSTANTS
    Images,     \* bitstreams that may be in the application slot
    Factory,    \* the one the card left the bench with
    Golden,     \* the recovery image
    Broken      \* what a slot holds that does not configure

VARIABLES
    slot,
    running,
    golden      \* was the golden image ever written, over JTAG

Init == slot = Factory /\ running = Factory /\ golden \in BOOLEAN

\* The first sector of an update, or an operator's erase.
Break ==
    /\ golden
    /\ slot' = Broken
    /\ UNCHANGED <<running, golden>>

\* The last sector of an update.
Install(i) ==
    /\ golden
    /\ slot = Broken
    /\ slot' = i
    /\ UNCHANGED <<running, golden>>

\* Power goes away, perhaps in the middle of a sector, and comes back.
PowerCycle ==
    /\ \/ slot' = slot
       \/ golden /\ slot' = Broken
    /\ running' = IF slot' = Broken THEN Golden ELSE slot'
    /\ UNCHANGED golden

Next == Break \/ PowerCycle \/ \E i \in Images : Install(i)

Spec == Init /\ [][Next]_<<slot, running, golden>>
=============================================================================
