------------------------------ MODULE PixelDma ------------------------------
(***************************************************************************)
(* The hardware pixel path of one receiver card: the sender's chunked      *)
(* frames (marquee_core/stream.py), the lossy link to the card, the        *)
(* gateware parser that writes pixels straight into the framebuffer        *)
(* (gateware/dma_writer.py, Hub75UdpDma) and the flip of the displayed     *)
(* half at a frame boundary (gateware/hub75.py).                           *)
(*                                                                         *)
(* A frame is cut into chunks by pixel address.  Every pixel of a          *)
(* framebuffer half remembers which frame last wrote it, so that "the      *)
(* glass shows a torn picture" is a statement about the displayed half.    *)
(***************************************************************************)
EXTENDS Integers, Sequences, FiniteSets

CONSTANTS
    NumFrames,      \* frames the sender produces
    WireId,         \* WireId[f]: the u16 frame_id frame f travels under
    Format,         \* Format[f]: the magic of frame f
    NumPixels,      \* pixels in the card's image (the `limit` CSR)
    PixelsPerChunk, \* PixelsPerChunk[m]: chunk stride of format m
    Total,          \* Total[m]: total_chunks of a frame in format m
    Copies,         \* REDUNDANT_COPIES: how often a frame is sent
    SwapWholeOnly,  \* the swap_whole_only CSR (1 out of reset)
    Delays,         \* may the network duplicate and delay packets
    WireCap,        \* bound: packets on the wire at once
    SeqMod          \* done_seq wraps here (2^16 in the gateware)

Frames == 1 .. NumFrames            \* in sending order
Formats == {"BM", "BW", "BI"}       \* RGB888, RGB888 with u16 counters, indexed
Pixels == 0 .. NumPixels - 1
Halves == {0, 1}
Boot == 0           \* the boot picture, drawn by the firmware and swapped to
Torn == -1          \* a pixel of a payload only partly written, or not the sender's
Undrawn == -2       \* what the other half of the framebuffer held at boot
Contents == Frames \cup {Boot, Undrawn}

\* Chunk c carries the pixels from c * stride up to the next chunk; what lies
\* past the image is dropped at the limit.
Cover(m, c) ==
    {p \in Pixels : c * PixelsPerChunk[m] <= p /\ p < (c + 1) * PixelsPerChunk[m]}

ChunkIds == 0 .. NumPixels - 1
Packets == [frame : Frames, chunk : ChunkIds, cut : BOOLEAN]

\* The sender increments frame_id before it sends, so its first frame is 1 and
\* never the 0 the frame_id register resets to.  A frame's chunks cover the image.
ASSUME PixelDmaAssumption ==
    /\ NumFrames \in Nat
    /\ WireId \in [Frames -> Nat \ {0}]
    /\ Format \in [Frames -> Formats]
    /\ NumPixels \in Nat \ {0}
    /\ PixelsPerChunk \in [Formats -> Nat \ {0}]
    /\ Total \in [Formats -> 1 .. NumPixels]
    /\ \A m \in Formats : \A p \in Pixels :
         \E c \in 0 .. Total[m] - 1 : p \in Cover(m, c)
    /\ Copies \in Nat \ {0}
    /\ SwapWholeOnly \in BOOLEAN
    /\ Delays \in BOOLEAN
    /\ WireCap \in Nat \ {0}
    /\ SeqMod \in Nat \ {0}

TotalOf(f) == Total[Format[f]]
CoverOf(f, c) == Cover(Format[f], c)

VARIABLES
    nextFrame,    \* sender: the frame being sent
    nextChunk,    \* sender: position among the frame's total * Copies packets
    wire,         \* packets between the sender and the parser, oldest first
    enable,       \* ctrl.enable: hardware pixel writes on
    auto_swap,    \* the display flips on the parser's swap_req
    fsm,          \* "IDLE" between packets, "PIX" while a payload is written
    pix,          \* the payload being written, the half it goes to
    frame_id,     \* committed header of the frame being assembled
    total_chunks,
    indexed,
    arrival,      \* its chunks that are completely written
    received,     \* how many distinct ones
    done,         \* snapshot of the frame that finished last
    done_seq,
    fb_base,      \* the half being scanned out
    fb            \* fb[h][p]: the frame that wrote pixel p of half h

sendVars == <<nextFrame, nextChunk>>
frameVars == <<frame_id, total_chunks, indexed, done, done_seq>>
countVars == <<arrival, received>>
dmaVars == <<fsm, pix, frame_id, total_chunks, indexed, done, done_seq, arrival, received>>
csrVars == <<enable, auto_swap>>
dispVars == <<fb_base, fb>>
dmaAll == <<nextFrame, nextChunk, wire, enable, auto_swap, fsm, pix, frame_id,
            total_chunks, indexed, arrival, received, done, done_seq, fb_base, fb>>

Snapshots == [arrival : SUBSET ChunkIds, frame_id : Nat, total_chunks : Nat, indexed : BOOLEAN]

\* Type correctness of the whole pixel path.
TypeOK ==
    /\ nextFrame \in Nat /\ nextChunk \in Nat
    /\ wire \in Seq(Packets)
    /\ enable \in BOOLEAN /\ auto_swap \in BOOLEAN
    /\ fsm \in {"IDLE", "PIX"}
    /\ pix \in [frame : Frames \cup {Boot}, chunk : ChunkIds, half : Halves, cut : BOOLEAN]
    /\ frame_id \in Nat /\ total_chunks \in Nat /\ indexed \in BOOLEAN
    /\ arrival \in SUBSET ChunkIds /\ received \in Nat
    /\ done \in Snapshots /\ done_seq \in 0 .. SeqMod - 1
    /\ fb_base \in Halves
    /\ fb \in [Halves -> [Pixels -> Contents \cup {Torn}]]

\* Gateware reset, after the firmware drew its boot picture into half 1 and
\* swapped to it (main.rs), with the DMA and the hardware flip on or off.
CardInit(dma, flip) ==
    /\ nextFrame = 1 /\ nextChunk = 0
    /\ wire = <<>>
    /\ enable = dma /\ auto_swap = flip
    /\ fsm = "IDLE"
    /\ pix = [frame |-> Boot, chunk |-> 0, half |-> 0, cut |-> FALSE]
    /\ frame_id = 0 /\ total_chunks = 0 /\ indexed = FALSE
    /\ arrival = {} /\ received = 0
    /\ done = [arrival |-> {}, frame_id |-> 0, total_chunks |-> 0, indexed |-> FALSE]
    /\ done_seq = 0
    /\ fb_base = 1
    /\ fb = [h \in Halves |-> [p \in Pixels |-> IF h = 1 THEN Boot ELSE Undrawn]]

\* The enable CSR resets to 0; the player turns it on.
DmaInit == \E flip \in BOOLEAN : CardInit(FALSE, flip)

-----------------------------------------------------------------------------
(* Sender and link.                                                        *)

\* Every chunk of a frame in order, Copies times over, under one frame_id.
SendChunk ==
    /\ nextFrame \in Frames
    /\ Len(wire) < WireCap
    /\ wire' = Append(wire, [frame |-> nextFrame, chunk |-> nextChunk % TotalOf(nextFrame),
                             cut |-> FALSE])
    /\ \/ /\ nextChunk + 1 < TotalOf(nextFrame) * Copies
          /\ nextChunk' = nextChunk + 1
          /\ UNCHANGED nextFrame
       \/ /\ nextChunk + 1 >= TotalOf(nextFrame) * Copies
          /\ nextChunk' = 0
          /\ nextFrame' = nextFrame + 1
    /\ UNCHANGED <<dmaVars, csrVars, dispVars>>

\* Lost on the link, or cut short within its headers by the gate.
LosePacket ==
    /\ wire # <<>>
    /\ wire' = Tail(wire)
    /\ UNCHANGED <<sendVars, dmaVars, csrVars, dispVars>>

\* The network duplicates a packet and delivers the copy behind later ones.
DelayCopy ==
    /\ Delays
    /\ wire # <<>>
    /\ Len(wire) < WireCap
    /\ wire' = Append(wire, [Head(wire) EXCEPT !.cut = FALSE])
    /\ UNCHANGED <<sendVars, dmaVars, csrVars, dispVars>>

\* burst_fifo refuses a beat of the packet now arriving: the gate drops what is
\* left of it and terminates it, and no filter behind it checks lengths.
CutPacket ==
    /\ wire # <<>>
    /\ wire' = [wire EXCEPT ![Len(wire)].cut = TRUE]
    /\ UNCHANGED <<sendVars, dmaVars, csrVars, dispVars>>

-----------------------------------------------------------------------------
(* Parser.                                                                 *)

\* The writer always targets the half that is not displayed.
WriteBase(base) == 1 - base

\* At a frame change both registers still describe the outgoing frame.
outgoing_whole == received = total_chunks

\* Mutant: every frame change flips, as before swap_whole_only.
SwapUnconditionally == TRUE

\* One-cycle request to flip; the flip itself also needs auto_swap.
swap_req == outgoing_whole \/ ~SwapWholeOnly

\* The half displayed from the cycle after a frame change on.
NextBase == IF swap_req /\ auto_swap THEN 1 - fb_base ELSE fb_base

\* Mutant: the first chunk's address ignores the flip of the same cycle.
StaleWriteBase == WriteBase(fb_base)

\* pix_adr of a frame's first chunk accounts for the flip of the same cycle.
write_base_next == WriteBase(NextBase)

\* From here until the payload ends the chunk's pixels are part old, part new;
\* rewriting a pixel with the value it holds changes nothing.
BeginPayload(p, h) ==
    /\ fsm' = "PIX"
    /\ pix' = [frame |-> p.frame, chunk |-> p.chunk, half |-> h, cut |-> p.cut]
    /\ fb' = [fb EXCEPT ![h] = [q \in Pixels |->
                IF q \in CoverOf(p.frame, p.chunk) /\ fb[h][q] # p.frame
                  THEN Torn ELSE fb[h][q]]]

\* The last header byte of a chunk of the frame being assembled.
SameFrameHeader ==
    /\ fsm = "IDLE" /\ enable /\ wire # <<>>
    /\ WireId[Head(wire).frame] = frame_id
    /\ wire' = Tail(wire)
    /\ BeginPayload(Head(wire), WriteBase(fb_base))
    /\ UNCHANGED <<sendVars, csrVars, frameVars, countVars, fb_base>>

\* Mutant: the counter of finished frames does not wrap.
UnboundedSeq == done_seq + 1

NextSeq == (done_seq + 1) % SeqMod

\* A header with another frame_id: show the outgoing frame if it is whole, latch
\* its snapshot, commit the new header.
CommitHeader(id, total, isIndexed) ==
    /\ frame_id' = id /\ total_chunks' = total /\ indexed' = isIndexed
    /\ fb_base' = NextBase
    /\ done' = [arrival |-> arrival, frame_id |-> frame_id,
                total_chunks |-> total_chunks, indexed |-> indexed]
    /\ done_seq' = NextSeq
    /\ arrival' = {} /\ received' = 0

\* The last header byte of a chunk of another frame.
NewFrameHeader ==
    /\ fsm = "IDLE" /\ enable /\ wire # <<>>
    /\ LET p == Head(wire) IN
         /\ WireId[p.frame] # frame_id
         /\ BeginPayload(p, write_base_next)
         /\ CommitHeader(WireId[p.frame], TotalOf(p.frame), Format[p.frame] = "BI")
    /\ wire' = Tail(wire)
    /\ UNCHANGED <<sendVars, csrVars>>

\* Mutant: a repeated chunk counts again.
NeverSeen == FALSE

\* The payload being written has arrived before.
already_seen == pix.chunk \in arrival

\* The last byte of the payload, or of what the gate let through of it: the
\* chunk counts as arrived.
FinishPayload ==
    /\ fsm = "PIX"
    /\ fsm' = "IDLE"
    /\ fb' = [fb EXCEPT ![pix.half] = [q \in Pixels |->
                IF ~pix.cut /\ q \in CoverOf(pix.frame, pix.chunk)
                  THEN pix.frame ELSE fb[pix.half][q]]]
    /\ arrival' = arrival \cup {pix.chunk}
    /\ received' = IF already_seen THEN received ELSE received + 1
    /\ UNCHANGED <<sendVars, wire, csrVars, pix, frameVars, fb_base>>

\* The writer waited stall_limit cycles on the DRAM: the rest of the payload
\* is dropped and the chunk has not arrived.
AbandonPayload ==
    /\ fsm = "PIX"
    /\ fsm' = "IDLE"
    /\ UNCHANGED <<sendVars, wire, csrVars, pix, frameVars, countVars, dispVars>>

\* Packets are consumed and ignored while writes are disabled.  (IDLE looks at
\* enable at every beat: a packet under way when it is set is dropped as bad
\* magic, unless the payload's next bytes happen to read like a header.)
IgnorePacket ==
    /\ fsm = "IDLE" /\ ~enable /\ wire # <<>>
    /\ wire' = Tail(wire)
    /\ UNCHANGED <<sendVars, dmaVars, csrVars, dispVars>>

\* The enable CSR is looked at between packets only.
SetEnable(on) ==
    /\ enable # on
    /\ enable' = on
    /\ UNCHANGED <<sendVars, wire, dmaVars, auto_swap, dispVars>>

HardwareNext == SameFrameHeader \/ NewFrameHeader \/ FinishPayload \/ AbandonPayload \/ IgnorePacket

DmaNext ==
    \/ SendChunk
    \/ LosePacket
    \/ DelayCopy
    \/ HardwareNext
    \/ \E on \in BOOLEAN : SetEnable(on)

\* burst_fifo never fills up.
DmaSpec == DmaInit /\ [][DmaNext]_dmaAll

\* It may, at any moment.
OverflowNext == DmaNext \/ CutPacket

OverflowSpec == DmaInit /\ [][OverflowNext]_dmaAll

-----------------------------------------------------------------------------
(* Properties.                                                             *)

\* No two frames the card may confuse travel under one frame_id.
DistinctIds == \A f, g \in Frames : WireId[f] = WireId[g] => f = g

\* Half h holds nothing but content x.
Holds(h, x) == \A p \in Pixels : fb[h][p] = x

\* Whatever is lost, repeated, delayed or abandoned on the way, the displayed
\* half holds one picture, never a mix of two frames and never a payload in
\* progress ("SHOW A FRAME ONLY IF IT IS WHOLE", dma_writer.py).
WholeOnGlass == \E x \in Contents : Holds(fb_base, x)

\* A snapshot the CPU reads as complete is the frame on the glass: latching the
\* outgoing frame and flipping to it are one step.
SnapshotOnGlass ==
    auto_swap /\ done.total_chunks # 0 /\ Cardinality(done.arrival) = done.total_chunks =>
        \E f \in Frames : WireId[f] = done.frame_id /\ Holds(fb_base, f)

\* The inductive invariant behind WholeOnGlass.
\* Frame f is the one being assembled.
Current(f) == f \in Frames /\ WireId[f] = frame_id

WireInv == \A i \in 1 .. Len(wire) :
    wire[i].chunk < TotalOf(wire[i].frame) /\ ~wire[i].cut
ResetInv == frame_id = 0 => total_chunks = 0 /\ arrival = {} /\ fsm = "IDLE"
                            /\ Holds(fb_base, Boot) /\ Holds(1 - fb_base, Undrawn)
HeaderInv == frame_id # 0 =>
    \E f \in Frames : Current(f) /\ total_chunks = TotalOf(f)
ArrivalInv ==
    /\ arrival \subseteq 0 .. total_chunks - 1
    /\ received = Cardinality(arrival)
    /\ \A f \in Frames : Current(f) =>
         \A c \in arrival : \A p \in CoverOf(f, c) : fb[1 - fb_base][p] = f
PixInv == fsm = "PIX" =>
    /\ Current(pix.frame)
    /\ pix.half = 1 - fb_base
    /\ pix.chunk < TotalOf(pix.frame)
    /\ ~pix.cut
IInv == /\ TypeOK /\ WireInv /\ ResetInv /\ HeaderInv /\ ArrivalInv /\ PixInv
        /\ WholeOnGlass

-----------------------------------------------------------------------------
(* The detailed path implements what the glass promises.                   *)
G == INSTANCE Glass WITH glass <- fb[fb_base], Ordered <- ~Delays

\* The gateware shows whole frames, one after the other and, over a link that
\* keeps packets in order, never an older one after a newer one.
GlassSpec == G!Spec

\* What the ordering part of GlassSpec rests on: without delays every frame on
\* the wire is at least as new as the one being assembled, and the frame on the
\* glass is older than that one.
OrderInv == ~Delays =>
    /\ \A i, j \in 1 .. Len(wire) : i < j => wire[i].frame <= wire[j].frame
    /\ \A i \in 1 .. Len(wire) : wire[i].frame <= nextFrame
    /\ \A f \in Frames : Current(f) =>
         f <= nextFrame /\ \A i \in 1 .. Len(wire) : f <= wire[i].frame
    /\ \A g \in Frames : Holds(fb_base, g) => \E f \in Frames : Current(f) /\ g < f
=============================================================================
