-------------------------------- MODULE Glass --------------------------------
(***************************************************************************)
(* What the pixel path of a card promises to somebody looking at the       *)
(* panel: the glass shows one picture at a time and goes from one to       *)
(* another in a single step.  Over a network that keeps packets in order   *)
(* it only ever moves to a newer frame.                                    *)
(***************************************************************************)
EXTENDS Integers

CONSTANTS
    Frames,     \* the frames of the stream, numbered in sending order
    Pixels,
    Boot,       \* the boot picture
    Undrawn,    \* the half of the framebuffer nobody drew before the first flip
    Ordered     \* the network neither duplicates nor delays packets

VARIABLE glass  \* glass[p]: the picture pixel p is showing

Whole(x) == [p \in Pixels |-> x]

\* The boot picture is up.
Init == glass = Whole(Boot)

\* The flip at the first header the gateware ever parses.
FirstFlip ==
    /\ glass = Whole(Boot)
    /\ glass' = Whole(Undrawn)

\* A frame replaces whatever was shown.
Show(f) ==
    /\ Ordered => \A g \in Frames : glass = Whole(g) => g < f
    /\ glass' = Whole(f)

Next == FirstFlip \/ \E f \in Frames : Show(f)

Spec == Init /\ [][Next]_glass
=============================================================================
