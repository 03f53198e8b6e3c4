--------------------------- MODULE PixelDmaProofs ---------------------------
(* Theorems of PixelDma for every stream, image size, chunking and link.   *)
EXTENDS PixelDma, FiniteSetTheorems, TLAPS

-----------------------------------------------------------------------------
(* Facts about the constants and the operators.                            *)

\* A remainder lies below its divisor (chunk numbers, done_seq).
LEMMA ModRange ==
    ASSUME NEW a \in Nat, NEW b \in Nat \ {0}
    PROVE  a % b \in 0 .. b - 1
BY SMT

\* Frames are numbered in sending order.
LEMMA FrameNumbers == Frames \subseteq Int
BY DEF Frames

\* The number of chunks of a frame is positive and within the chunk numbers.
LEMMA TotalType ==
    ASSUME NEW f \in Frames
    PROVE  /\ TotalOf(f) \in 1 .. NumPixels
           /\ TotalOf(f) \in Nat \ {0}
           /\ 0 .. TotalOf(f) - 1 \subseteq ChunkIds
BY PixelDmaAssumption DEF TotalOf, ChunkIds, Formats

\* As many distinct chunks as the header promises are all of them.
LEMMA AllArrived ==
    ASSUME NEW n \in Nat, NEW A \in SUBSET (0 .. n - 1), Cardinality(A) = n
    PROVE  A = 0 .. n - 1
<1>1. IsFiniteSet(0 .. n - 1)
  BY FS_Interval
<1>2. Cardinality(0 .. n - 1) = IF 0 > n - 1 THEN 0 ELSE n - 1 - 0 + 1
  BY FS_Interval, n - 1 \in Int
<1>3. Cardinality(0 .. n - 1) = n
  BY <1>2
<1> QED BY <1>1, <1>3, FS_Subset

\* The chunks of a frame cover its image.
LEMMA ChunksCover ==
    ASSUME NEW f \in Frames, NEW p \in Pixels
    PROVE  \E c \in 0 .. TotalOf(f) - 1 : p \in CoverOf(f, c)
BY PixelDmaAssumption DEF TotalOf, CoverOf

\* A half holds one content only: the image is not empty.
LEMMA HoldsUnique ==
    ASSUME NEW h \in Halves, NEW x, NEW y, Holds(h, x), Holds(h, y)
    PROVE  x = y
<1>1. 0 \in Pixels
  BY PixelDmaAssumption DEF Pixels
<1> QED BY <1>1 DEF Holds

\* The two halves.
LEMMA OtherHalf ==
    ASSUME NEW h \in Halves
    PROVE  1 - h \in Halves /\ 1 - h # h /\ 1 - (1 - h) = h
BY DEF Halves

\* What consuming the oldest packet leaves on the wire.
LEMMA TailFacts ==
    ASSUME NEW w \in Seq(Packets), w # <<>>
    PROVE  /\ Tail(w) \in Seq(Packets)
           /\ Head(w) \in Packets /\ Head(w) = w[1] /\ 1 \in 1 .. Len(w)
           /\ Len(Tail(w)) = Len(w) - 1
           /\ \A i \in 1 .. Len(Tail(w)) : Tail(w)[i] = w[i + 1] /\ i + 1 \in 1 .. Len(w)
OBVIOUS

\* Every packet on the wire belongs to a frame of the stream.
LEMMA WireFrames ==
    ASSUME NEW w \in Seq(Packets), NEW i \in 1 .. Len(w)
    PROVE  w[i] \in Packets /\ w[i].frame \in Frames
<1>1. w[i] \in Packets
  OBVIOUS
<1> QED BY <1>1 DEF Packets

\* What putting a packet on the wire adds to it.
LEMMA AppendFacts ==
    ASSUME NEW w \in Seq(Packets), NEW p \in Packets
    PROVE  /\ Append(w, p) \in Seq(Packets)
           /\ Len(Append(w, p)) = Len(w) + 1
           /\ \A i \in 1 .. Len(Append(w, p)) :
                Append(w, p)[i] = IF i = Len(w) + 1 THEN p ELSE w[i]
OBVIOUS

\* The packet the sender puts on the wire next.
LEMMA SentPacket ==
    ASSUME TypeOK, SendChunk
    PROVE  \E q \in Packets : /\ wire' = Append(wire, q) /\ q.frame = nextFrame
                             /\ q.chunk < TotalOf(q.frame) /\ q.cut = FALSE
<1> DEFINE c == nextChunk % TotalOf(nextFrame)
<1>1. nextFrame \in Frames /\ nextChunk \in Nat
  BY DEF SendChunk, TypeOK
<1>2. c \in 0 .. TotalOf(nextFrame) - 1 /\ TotalOf(nextFrame) \in Nat
  BY <1>1, TotalType, ModRange
<1>3. c \in ChunkIds /\ c < TotalOf(nextFrame)
  BY <1>1, <1>2, TotalType
<1> DEFINE q == [frame |-> nextFrame, chunk |-> c, cut |-> FALSE]
<1>4. wire' = Append(wire, q)
  BY DEF SendChunk
<1> HIDE DEF c
<1>5. q \in Packets /\ q.frame = nextFrame /\ q.chunk = c /\ q.cut = FALSE
  BY <1>1, <1>3 DEF Packets
<1> QED BY <1>3, <1>4, <1>5

\* The copy of a packet that arrives later is the packet, unharmed.
LEMMA CopiedPacket ==
    ASSUME NEW p \in Packets
    PROVE  /\ [p EXCEPT !.cut = FALSE] \in Packets
           /\ [p EXCEPT !.cut = FALSE].frame = p.frame
           /\ [p EXCEPT !.cut = FALSE].chunk = p.chunk
           /\ [p EXCEPT !.cut = FALSE].cut = FALSE
BY DEF Packets

\* Cutting the newest packet short leaves the rest of the wire alone.
LEMMA CutFacts ==
    ASSUME NEW w \in Seq(Packets), w # <<>>
    PROVE  [w EXCEPT ![Len(w)].cut = TRUE] \in Seq(Packets)
<1>1. Len(w) \in 1 .. Len(w) /\ w[Len(w)] \in Packets
  OBVIOUS
<1>2. [w[Len(w)] EXCEPT !.cut = TRUE] \in Packets
  BY <1>1 DEF Packets
<1>3. PICK q \in Packets : q = [w[Len(w)] EXCEPT !.cut = TRUE]
  BY <1>2
<1>4. [w EXCEPT ![Len(w)] = q] \in Seq(Packets)
  OBVIOUS
<1> QED BY <1>3, <1>4

-----------------------------------------------------------------------------
(* Type correctness.                                                       *)

\* Beginning a payload keeps the framebuffer and the parser well typed.
LEMMA BeginPayloadType ==
    ASSUME TypeOK, NEW p \in Packets, NEW h \in Halves, BeginPayload(p, h)
    PROVE  /\ fsm' \in {"IDLE", "PIX"}
           /\ pix' \in [frame : Frames \cup {Boot}, chunk : ChunkIds, half : Halves, cut : BOOLEAN]
           /\ fb' \in [Halves -> [Pixels -> Contents \cup {Torn}]]
BY DEF TypeOK, BeginPayload, Packets

\* Every step of the sender, the link, the parser and the CSRs is well typed.
LEMMA TypeStep == TypeOK /\ [OverflowNext]_dmaAll => TypeOK'
<1> SUFFICES ASSUME TypeOK, [OverflowNext]_dmaAll PROVE TypeOK'
  OBVIOUS
<1>1. CASE SendChunk
  <2>1. PICK q \in Packets : wire' = Append(wire, q)
    BY <1>1, SentPacket
  <2>2. wire' \in Seq(Packets)
    BY <2>1, AppendFacts DEF TypeOK
  <2>3. nextFrame' \in Nat /\ nextChunk' \in Nat
    BY <1>1 DEF SendChunk, TypeOK
  <2> QED BY <1>1, <2>2, <2>3 DEF SendChunk, TypeOK, dmaVars, csrVars, dispVars
<1>2. CASE LosePacket
  BY <1>2, TailFacts DEF LosePacket, TypeOK, sendVars, dmaVars, csrVars, dispVars
<1>3. CASE DelayCopy
  <2>0. Head(wire) \in Packets
    BY <1>3, TailFacts DEF DelayCopy, TypeOK
  <2>1. wire' \in Seq(Packets)
    BY <1>3, <2>0, CopiedPacket, AppendFacts DEF DelayCopy, TypeOK
  <2> QED BY <1>3, <2>1 DEF DelayCopy, TypeOK, sendVars, dmaVars, csrVars, dispVars
<1>4. CASE SameFrameHeader
  <2>1. Head(wire) \in Packets /\ wire' \in Seq(Packets) /\ WriteBase(fb_base) \in Halves
    BY <1>4, TailFacts, OtherHalf DEF SameFrameHeader, TypeOK, WriteBase
  <2>2. BeginPayload(Head(wire), WriteBase(fb_base))
    BY <1>4 DEF SameFrameHeader
  <2> QED
    BY <1>4, <2>1, <2>2, BeginPayloadType
    DEF SameFrameHeader, TypeOK, sendVars, csrVars, frameVars, countVars
<1>5. CASE NewFrameHeader
  <2> DEFINE p == Head(wire)
  <2>1. p \in Packets /\ wire' \in Seq(Packets)
    BY <1>5, TailFacts DEF NewFrameHeader, CommitHeader, TypeOK
  <2>2. NextBase \in Halves /\ write_base_next \in Halves
    BY OtherHalf DEF TypeOK, NextBase, write_base_next, WriteBase
  <2>3. BeginPayload(p, write_base_next)
    BY <1>5 DEF NewFrameHeader, CommitHeader
  <2>4. frame_id' \in Nat /\ total_chunks' \in Nat /\ indexed' \in BOOLEAN
    BY <1>5, <2>1, TotalType, PixelDmaAssumption DEF NewFrameHeader, CommitHeader, Packets
  <2>5. done' \in Snapshots
    BY <1>5 DEF NewFrameHeader, CommitHeader, TypeOK, Snapshots
  <2>6. done_seq' \in 0 .. SeqMod - 1
    BY <1>5, ModRange, PixelDmaAssumption DEF NewFrameHeader, CommitHeader, NextSeq, TypeOK
  <2> HIDE DEF p
  <2> QED
    BY <1>5, <2>1, <2>2, <2>3, <2>4, <2>5, <2>6, BeginPayloadType
    DEF NewFrameHeader, CommitHeader, TypeOK, sendVars, csrVars
<1>6. CASE FinishPayload
  BY <1>6 DEF FinishPayload, already_seen, TypeOK, sendVars, csrVars, frameVars, Contents
<1>7. CASE AbandonPayload
  BY <1>7 DEF AbandonPayload, TypeOK, sendVars, csrVars, frameVars, countVars, dispVars
<1>8. CASE IgnorePacket
  BY <1>8, TailFacts DEF IgnorePacket, TypeOK, sendVars, dmaVars, csrVars, dispVars
<1>9. ASSUME NEW on \in BOOLEAN, SetEnable(on) PROVE TypeOK'
  BY <1>9 DEF SetEnable, TypeOK, sendVars, dmaVars, dispVars
<1>10. CASE CutPacket
  <2>1. wire' \in Seq(Packets)
    BY <1>10, CutFacts DEF CutPacket, TypeOK
  <2> QED BY <1>10, <2>1 DEF CutPacket, TypeOK, sendVars, dmaVars, csrVars, dispVars
<1>11. CASE UNCHANGED dmaAll
  BY <1>11 DEF TypeOK, dmaAll
<1> QED
  BY <1>1, <1>2, <1>3, <1>4, <1>5, <1>6, <1>7, <1>8, <1>9, <1>10, <1>11
  DEF OverflowNext, DmaNext, HardwareNext

\* The card is well typed at boot, with the DMA and the hardware flip on or off.
LEMMA CardTypeInit ==
    ASSUME NEW dma \in BOOLEAN, NEW flip \in BOOLEAN, CardInit(dma, flip)
    PROVE  TypeOK
<1>1. 0 \in ChunkIds /\ 0 \in Halves /\ 1 \in Halves /\ 0 \in 0 .. SeqMod - 1
  BY PixelDmaAssumption DEF ChunkIds, Halves
<1>2. pix \in [frame : Frames \cup {Boot}, chunk : ChunkIds, half : Halves, cut : BOOLEAN]
  BY <1>1 DEF CardInit
<1>3. done \in Snapshots
  BY DEF CardInit, Snapshots
<1>4. fb \in [Halves -> [Pixels -> Contents \cup {Torn}]]
  BY DEF CardInit, Contents
<1>5. wire \in Seq(Packets)
  BY DEF CardInit
<1>6. enable \in BOOLEAN /\ auto_swap \in BOOLEAN
  BY Zenon DEF CardInit
<1>7. /\ nextFrame = 1 /\ nextChunk = 0 /\ fsm = "IDLE" /\ indexed = FALSE /\ fb_base = 1
      /\ frame_id = 0 /\ total_chunks = 0 /\ arrival = {} /\ received = 0 /\ done_seq = 0
  BY DEF CardInit
<1> QED BY <1>1, <1>2, <1>3, <1>4, <1>5, <1>6, <1>7 DEF TypeOK

\* The initial state is well typed.
LEMMA TypeInit == DmaInit => TypeOK
BY CardTypeInit DEF DmaInit

\* Every variable of the pixel path keeps its type, whatever the stream, the
\* chunking, the link and the CSR writes are, and whenever burst_fifo fills up.
THEOREM TypeCorrect == OverflowSpec => []TypeOK
BY TypeInit, TypeStep, PTL DEF OverflowSpec

-----------------------------------------------------------------------------
(* Only whole frames reach the glass.                                      *)

\* A frame all of whose chunks arrived fills the half being written.
LEMMA FrameFillsHalf ==
    ASSUME IInv, outgoing_whole, frame_id # 0
    PROVE  \E f \in Frames : Current(f) /\ Holds(1 - fb_base, f)
<1>1. PICK f \in Frames : Current(f) /\ total_chunks = TotalOf(f)
  BY DEF IInv, HeaderInv
<1>2. arrival = 0 .. TotalOf(f) - 1
  BY <1>1, TotalType, AllArrived DEF IInv, ArrivalInv, outgoing_whole
<1>3. ASSUME NEW p \in Pixels PROVE fb[1 - fb_base][p] = f
  BY <1>1, <1>2, ChunksCover DEF IInv, ArrivalInv
<1> QED BY <1>1, <1>3 DEF Holds

\* The flip that `outgoing_whole` allows shows one picture.
LEMMA OutgoingWhole ==
    ASSUME IInv, outgoing_whole
    PROVE  \E x \in Contents : Holds(1 - fb_base, x)
BY FrameFillsHalf DEF IInv, ResetInv, Contents

\* A payload only changes the half it goes to, and there neither the pixels
\* outside its chunk nor those that already hold its frame.
LEMMA PayloadEffect ==
    ASSUME TypeOK, NEW p \in Packets, NEW h \in Halves, BeginPayload(p, h)
    PROVE  /\ fb'[1 - h] = fb[1 - h]
           /\ \A q \in Pixels : fb[h][q] = p.frame => fb'[h][q] = p.frame
BY OtherHalf DEF TypeOK, BeginPayload

\* Under distinct frame_ids only one frame is being assembled.
LEMMA CurrentUnique ==
    ASSUME DistinctIds, NEW f, NEW g, Current(f), Current(g)
    PROVE  f = g
BY DEF DistinctIds, Current

\* The parts of IInv that speak of the framebuffer and the frame being
\* assembled do not depend on the sender, the wire beyond its chunk numbers,
\* and the CSRs.
LEMMA FrameFrozen ==
    ASSUME IInv, TypeOK', WireInv',
           UNCHANGED <<fsm, pix, frame_id, total_chunks, arrival, received, fb_base, fb>>
    PROVE  IInv'
BY DEF IInv, ResetInv, HeaderInv, ArrivalInv, PixInv, WholeOnGlass, Current, Holds

\* A sound packet put on the wire keeps the wire sound.
LEMMA AppendedPacket ==
    ASSUME IInv, NEW q \in Packets, wire' = Append(wire, q),
           q.chunk < TotalOf(q.frame), q.cut = FALSE
    PROVE  WireInv'
<1>1. wire \in Seq(Packets) /\ WireInv
  BY DEF IInv, TypeOK
<1>2. /\ Len(wire') = Len(wire) + 1 /\ Len(wire) \in Nat
      /\ \A i \in 1 .. Len(wire') : wire'[i] = IF i = Len(wire) + 1 THEN q ELSE wire[i]
  BY <1>1, AppendFacts
<1>3. ASSUME NEW i \in 1 .. Len(wire')
      PROVE  wire'[i].chunk < TotalOf(wire'[i].frame) /\ ~wire'[i].cut
  <2>1. CASE i = Len(wire) + 1
    BY <1>2, <2>1
  <2>2. CASE i # Len(wire) + 1
    <3>1. i \in 1 .. Len(wire) /\ wire'[i] = wire[i]
      BY <1>2, <2>2
    <3> QED BY <1>1, <3>1 DEF WireInv
  <2> QED BY <2>1, <2>2
<1> QED BY <1>3 DEF WireInv

\* IInv holds at boot.
LEMMA CardIInvInit ==
    ASSUME NEW dma \in BOOLEAN, NEW flip \in BOOLEAN, CardInit(dma, flip)
    PROVE  IInv
<1>1. TypeOK
  BY CardTypeInit
<1>2. WireInv
  BY DEF CardInit, WireInv
<1>3. Holds(fb_base, Boot) /\ Holds(1 - fb_base, Undrawn)
  BY DEF CardInit, Holds, Halves
<1>4. ArrivalInv
  BY FS_EmptySet DEF CardInit, ArrivalInv
<1>5. HeaderInv /\ PixInv
  BY DEF CardInit, HeaderInv, PixInv
<1>6. WholeOnGlass
  BY <1>3 DEF WholeOnGlass, Contents
<1> QED BY <1>1, <1>2, <1>3, <1>4, <1>5, <1>6 DEF IInv, ResetInv, CardInit

\* IInv holds at reset.
LEMMA IInvInit == DmaInit => IInv
BY CardIInvInit DEF DmaInit

\* Every step preserves IInv when frames travel under ids of their own and the
\* gateware shows whole frames only.
LEMMA IInvStep ==
    ASSUME DistinctIds, SwapWholeOnly, IInv, [DmaNext]_dmaAll
    PROVE  IInv'
<1>0. TypeOK /\ TypeOK'
  BY TypeStep DEF IInv, OverflowNext
<1>h. /\ fb_base \in Halves /\ 1 - fb_base \in Halves /\ 1 - fb_base # fb_base
      /\ 1 - (1 - fb_base) = fb_base
  BY <1>0, OtherHalf DEF TypeOK
<1>1. CASE SendChunk
  <2>1. PICK q \in Packets : /\ wire' = Append(wire, q)
                             /\ q.chunk < TotalOf(q.frame) /\ q.cut = FALSE
    BY <1>0, <1>1, SentPacket
  <2>2. WireInv'
    BY <2>1, AppendedPacket
  <2> QED BY <1>0, <1>1, <2>2, FrameFrozen DEF SendChunk, dmaVars, dispVars
<1>2. CASE LosePacket
  <2>1. WireInv'
    BY <1>0, <1>2, TailFacts DEF LosePacket, WireInv, IInv, TypeOK
  <2> QED BY <1>0, <1>2, <2>1, FrameFrozen DEF LosePacket, dmaVars, dispVars
<1>3. CASE DelayCopy
  <2>0. PICK p \in Packets : /\ p = Head(wire) /\ p.chunk < TotalOf(p.frame)
    BY <1>0, <1>3, TailFacts DEF DelayCopy, TypeOK, IInv, WireInv
  <2>1. PICK q \in Packets : /\ wire' = Append(wire, q)
                             /\ q.chunk < TotalOf(q.frame) /\ q.cut = FALSE
    BY <1>3, <2>0, CopiedPacket DEF DelayCopy
  <2>2. WireInv'
    BY <2>1, AppendedPacket
  <2> QED BY <1>0, <1>3, <2>2, FrameFrozen DEF DelayCopy, dmaVars, dispVars
<1>4. CASE SameFrameHeader
  <2> DEFINE p == Head(wire)
  <2>1. p \in Packets /\ Current(p.frame) /\ p.chunk < TotalOf(p.frame) /\ ~p.cut
    BY <1>0, <1>4, TailFacts DEF SameFrameHeader, IInv, WireInv, TypeOK, Current, Packets
  <2>2. WireInv'
    BY <1>0, <1>4, TailFacts DEF SameFrameHeader, WireInv, IInv, TypeOK
  <2>3. frame_id # 0 /\ frame_id' = frame_id /\ total_chunks' = total_chunks
        /\ arrival' = arrival /\ received' = received /\ fb_base' = fb_base
    BY <1>4, <2>1, PixelDmaAssumption DEF SameFrameHeader, Current, frameVars, countVars
  <2>4. BeginPayload(p, 1 - fb_base)
    BY <1>4 DEF SameFrameHeader, WriteBase
  <2>5. /\ fb'[fb_base] = fb[fb_base]
        /\ \A q \in Pixels : fb[1 - fb_base][q] = p.frame => fb'[1 - fb_base][q] = p.frame
    BY <1>0, <1>h, <2>1, <2>4, PayloadEffect
  <2>6. PixInv'
    BY <2>1, <2>3, <2>4 DEF PixInv, BeginPayload, Current
  <2>7. ArrivalInv'
    <3>1. ASSUME NEW f \in Frames, Current(f), NEW c \in arrival, NEW q \in CoverOf(f, c)
          PROVE  fb'[1 - fb_base][q] = f
      <4>1. f = p.frame
        BY <2>1, <3>1, CurrentUnique
      <4>2. fb[1 - fb_base][q] = f
        BY <3>1 DEF IInv, ArrivalInv
      <4>3. q \in Pixels
        BY DEF CoverOf, Cover
      <4> QED BY <2>5, <4>1, <4>2, <4>3
    <3> HIDE DEF p
    <3> QED BY <2>3, <3>1 DEF IInv, ArrivalInv, Current
  <2>8. WholeOnGlass'
    BY <2>3, <2>5 DEF IInv, WholeOnGlass, Holds
  <2>9. HeaderInv' /\ ResetInv'
    BY <2>3 DEF IInv, HeaderInv, ResetInv, Current
  <2> QED BY <1>0, <2>2, <2>6, <2>7, <2>8, <2>9 DEF IInv
<1>5. CASE NewFrameHeader
  <2> DEFINE p == Head(wire)
  <2>1. p \in Packets /\ p.frame \in Frames /\ p.chunk < TotalOf(p.frame) /\ ~p.cut
    BY <1>0, <1>5, TailFacts DEF NewFrameHeader, CommitHeader, IInv, WireInv, TypeOK, Packets
  <2>2. WireInv'
    BY <1>0, <1>5, TailFacts DEF NewFrameHeader, CommitHeader, WireInv, IInv, TypeOK
  <2>3. /\ frame_id' = WireId[p.frame] /\ total_chunks' = TotalOf(p.frame)
        /\ arrival' = {} /\ received' = 0 /\ fb_base' = NextBase
        /\ BeginPayload(p, 1 - NextBase)
    BY <1>5 DEF NewFrameHeader, CommitHeader, write_base_next, WriteBase
  <2>4. NextBase \in Halves /\ 1 - NextBase \in Halves /\ 1 - (1 - NextBase) = NextBase
    BY <1>h, OtherHalf DEF NextBase
  <2>5. fb'[NextBase] = fb[NextBase]
    BY <1>0, <2>1, <2>3, <2>4, PayloadEffect
  <2>6. \E x \in Contents : Holds(NextBase, x)
    <3>1. CASE NextBase = fb_base
      BY <3>1 DEF IInv, WholeOnGlass
    <3>2. CASE NextBase # fb_base
      BY <3>2, OutgoingWhole DEF NextBase, swap_req
    <3> QED BY <3>1, <3>2
  <2>7. WholeOnGlass'
    BY <2>3, <2>5, <2>6 DEF WholeOnGlass, Holds
  <2>8. frame_id' # 0
    BY <2>1, <2>3, PixelDmaAssumption
  <2>9. HeaderInv' /\ ResetInv'
    BY <2>1, <2>3, <2>8 DEF HeaderInv, ResetInv, Current
  <2>10. ArrivalInv'
    BY <2>3, FS_EmptySet DEF ArrivalInv
  <2>11. PixInv'
    BY <2>1, <2>3 DEF PixInv, BeginPayload, Current
  <2> QED BY <1>0, <2>2, <2>7, <2>9, <2>10, <2>11 DEF IInv
<1>6. CASE FinishPayload
  <2>1. /\ Current(pix.frame) /\ pix.half = 1 - fb_base
        /\ pix.chunk < TotalOf(pix.frame) /\ ~pix.cut
    BY <1>6 DEF FinishPayload, IInv, PixInv
  <2>2. /\ frame_id' = frame_id /\ total_chunks' = total_chunks /\ fb_base' = fb_base
        /\ arrival' = arrival \cup {pix.chunk} /\ fsm' = "IDLE" /\ wire' = wire
    BY <1>6 DEF FinishPayload, frameVars
  <2>3. frame_id # 0
    BY <2>1, PixelDmaAssumption DEF Current
  <2>4. total_chunks = TotalOf(pix.frame)
    BY <2>1, <2>3, CurrentUnique DEF IInv, HeaderInv
  <2>5. /\ fb'[fb_base] = fb[fb_base]
        /\ \A q \in Pixels : fb'[1 - fb_base][q] =
             IF q \in CoverOf(pix.frame, pix.chunk) THEN pix.frame ELSE fb[1 - fb_base][q]
    BY <1>0, <1>6, <1>h, <2>1 DEF FinishPayload, TypeOK
  <2>6. ArrivalInv'
    <3>1. arrival' \subseteq 0 .. total_chunks - 1
      <4>1. pix.chunk \in Nat /\ TotalOf(pix.frame) \in Nat
        BY <1>0, <2>1, TotalType DEF TypeOK, ChunkIds, Current
      <4>2. pix.chunk \in 0 .. total_chunks - 1
        BY <2>1, <2>4, <4>1
      <4> QED BY <2>2, <4>2 DEF IInv, ArrivalInv
    <3>2. received' = Cardinality(arrival')
      <4>1. IsFiniteSet(arrival)
        <5>1. IsFiniteSet(0 .. total_chunks - 1)
          BY <1>0, total_chunks - 1 \in Int, FS_Interval DEF TypeOK
        <5> QED BY <5>1, FS_Subset DEF IInv, ArrivalInv
      <4> QED BY <1>6, <2>2, <4>1, FS_AddElement DEF FinishPayload, already_seen, IInv, ArrivalInv
    <3>3. ASSUME NEW f \in Frames, Current(f), NEW c \in arrival', NEW q \in CoverOf(f, c)
          PROVE  fb'[1 - fb_base][q] = f
      <4>1. f = pix.frame
        BY <2>1, <3>3, CurrentUnique
      <4>2. q \in Pixels
        BY DEF CoverOf, Cover
      <4>3. CASE c = pix.chunk
        BY <2>5, <4>1, <4>2, <4>3
      <4>4. CASE c \in arrival
        BY <2>5, <3>3, <4>1, <4>2, <4>4 DEF IInv, ArrivalInv
      <4> QED BY <2>2, <4>3, <4>4
    <3> QED BY <2>2, <3>1, <3>2, <3>3 DEF ArrivalInv, Current
  <2>7. WholeOnGlass'
    BY <2>2, <2>5 DEF IInv, WholeOnGlass, Holds
  <2>8. WireInv' /\ HeaderInv' /\ ResetInv' /\ PixInv'
    BY <2>2, <2>3 DEF IInv, WireInv, HeaderInv, ResetInv, PixInv, Current
  <2> QED BY <1>0, <2>6, <2>7, <2>8 DEF IInv
<1>7. CASE AbandonPayload
  BY <1>0, <1>7
  DEF AbandonPayload, IInv, WireInv, ResetInv, HeaderInv, ArrivalInv, PixInv, WholeOnGlass,
      Current, Holds, frameVars, countVars, dispVars
<1>8. CASE IgnorePacket
  <2>1. WireInv'
    BY <1>0, <1>8, TailFacts DEF IgnorePacket, WireInv, IInv, TypeOK
  <2> QED BY <1>0, <1>8, <2>1, FrameFrozen DEF IgnorePacket, dmaVars, dispVars
<1>9. ASSUME NEW on \in BOOLEAN, SetEnable(on) PROVE IInv'
  <2>1. WireInv'
    BY <1>9 DEF SetEnable, WireInv, IInv
  <2> QED BY <1>0, <1>9, <2>1, FrameFrozen DEF SetEnable, dmaVars, dispVars
<1>10. CASE UNCHANGED dmaAll
  <2>1. WireInv'
    BY <1>10 DEF dmaAll, WireInv, IInv
  <2> QED BY <1>0, <1>10, <2>1, FrameFrozen DEF dmaAll
<1> QED
  BY <1>1, <1>2, <1>3, <1>4, <1>5, <1>6, <1>7, <1>8, <1>9, <1>10
  DEF DmaNext, HardwareNext

\* The parser's registers, the arrival map and the back half tell one story at
\* every step: the pixels of every chunk counted as arrived are those of the
\* frame in the committed header.
THEOREM AssemblyConsistent ==
    ASSUME DistinctIds, SwapWholeOnly
    PROVE  DmaSpec => []IInv
<1>1. DmaInit => IInv
  BY IInvInit
<1>2. IInv /\ [DmaNext]_dmaAll => IInv'
  BY IInvStep
<1> QED BY <1>1, <1>2, PTL DEF DmaSpec

\* Whatever the link loses, repeats, delays or reorders, whatever payloads the
\* parser abandons and whenever the CPU toggles the DMA, the displayed half
\* never holds a mix of frames -- as long as no two frames share a frame_id and
\* burst_fifo never overflows.
THEOREM OnlyWholeFrames ==
    ASSUME DistinctIds, SwapWholeOnly
    PROVE  DmaSpec => []WholeOnGlass
<1>1. IInv => WholeOnGlass
  BY DEF IInv
<1> QED BY <1>1, AssemblyConsistent, PTL

-----------------------------------------------------------------------------
(* The glass between two steps.                                            *)

\* Only the first header of another frame changes what is displayed.
LEMMA GlassFrozen ==
    ASSUME IInv, [DmaNext]_dmaAll, ~NewFrameHeader
    PROVE  fb'[fb_base'] = fb[fb_base] /\ UNCHANGED <<frame_id, done, auto_swap>>
<1>0. TypeOK /\ fb_base \in Halves /\ 1 - fb_base \in Halves
      /\ 1 - fb_base # fb_base /\ 1 - (1 - fb_base) = fb_base
  BY OtherHalf DEF IInv, TypeOK
<1>1. CASE SameFrameHeader
  <2>1. Head(wire) \in Packets /\ BeginPayload(Head(wire), 1 - fb_base)
    BY <1>0, <1>1, TailFacts DEF SameFrameHeader, TypeOK, WriteBase
  <2> QED BY <1>0, <1>1, <2>1, PayloadEffect DEF SameFrameHeader, frameVars, csrVars
<1>2. CASE FinishPayload
  <2>1. pix.half = 1 - fb_base
    BY <1>2 DEF FinishPayload, IInv, PixInv
  <2> QED BY <1>0, <1>2, <2>1 DEF FinishPayload, TypeOK, frameVars, csrVars
<1>3. CASE SendChunk \/ LosePacket \/ DelayCopy \/ AbandonPayload \/ IgnorePacket
  BY <1>3 DEF SendChunk, LosePacket, DelayCopy, AbandonPayload, IgnorePacket,
              dmaVars, frameVars, dispVars, csrVars
<1>4. ASSUME NEW on \in BOOLEAN, SetEnable(on)
      PROVE  fb'[fb_base'] = fb[fb_base] /\ UNCHANGED <<frame_id, done, auto_swap>>
  BY <1>4 DEF SetEnable, dmaVars, dispVars
<1>5. CASE UNCHANGED dmaAll
  BY <1>5 DEF dmaAll
<1> QED BY <1>1, <1>2, <1>3, <1>4, <1>5 DEF DmaNext, HardwareNext

\* The first header of another frame displays the half NextBase as it was.
LEMMA GlassAtNewFrame ==
    ASSUME IInv, NewFrameHeader
    PROVE  /\ fb_base' = NextBase /\ fb'[fb_base'] = fb[NextBase]
           /\ NextBase = fb_base \/ (NextBase = 1 - fb_base /\ swap_req /\ auto_swap)
           /\ NextBase \in Halves
<1>0. TypeOK /\ fb_base \in Halves /\ 1 - fb_base \in Halves
  BY OtherHalf DEF IInv, TypeOK
<1>1. NextBase \in Halves /\ 1 - NextBase \in Halves /\ 1 - (1 - NextBase) = NextBase
  BY <1>0, OtherHalf DEF NextBase
<1>2. Head(wire) \in Packets
  BY <1>0, TailFacts DEF NewFrameHeader, CommitHeader, TypeOK
<1>3. BeginPayload(Head(wire), 1 - NextBase) /\ fb_base' = NextBase
  BY DEF NewFrameHeader, CommitHeader, write_base_next, WriteBase
<1>4. fb'[NextBase] = fb[NextBase]
  BY <1>0, <1>1, <1>2, <1>3, PayloadEffect
<1> QED BY <1>1, <1>3, <1>4 DEF NextBase

\* Every step keeps a complete snapshot and the glass in agreement.
LEMMA SnapshotStep ==
    ASSUME DistinctIds, IInv, SnapshotOnGlass, [DmaNext]_dmaAll
    PROVE  SnapshotOnGlass'
<1>1. CASE ~NewFrameHeader
  BY <1>1, GlassFrozen DEF SnapshotOnGlass, Holds
<1>2. CASE NewFrameHeader
  <2> SUFFICES ASSUME auto_swap', done'.total_chunks # 0,
                      Cardinality(done'.arrival) = done'.total_chunks
               PROVE  \E f \in Frames : WireId[f] = done'.frame_id /\ Holds(fb_base, f)'
    BY DEF SnapshotOnGlass
  <2>1. /\ done' = [arrival |-> arrival, frame_id |-> frame_id,
                    total_chunks |-> total_chunks, indexed |-> indexed]
        /\ auto_swap' = auto_swap
    BY <1>2 DEF NewFrameHeader, CommitHeader, csrVars
  <2>2. total_chunks # 0 /\ outgoing_whole /\ auto_swap
    BY <2>1 DEF IInv, ArrivalInv, outgoing_whole
  <2>3. frame_id # 0
    BY <2>2 DEF IInv, ResetInv
  <2>4. PICK f \in Frames : Current(f) /\ Holds(1 - fb_base, f)
    BY <2>2, <2>3, FrameFillsHalf
  <2>5. fb'[fb_base'] = fb[1 - fb_base]
    BY <1>2, <2>2, GlassAtNewFrame DEF NextBase, swap_req
  <2> QED BY <2>1, <2>4, <2>5 DEF Holds, Current
<1> QED BY <1>1, <1>2

\* The snapshot registers never report a complete frame that is not the frame
\* on the glass: latching the outgoing frame and flipping to it are one step (no
\* two frames share a frame_id, burst_fifo never overflows).
THEOREM SnapshotsTellTheGlass ==
    ASSUME DistinctIds, SwapWholeOnly
    PROVE  DmaSpec => []SnapshotOnGlass
<1>1. DmaInit => IInv /\ SnapshotOnGlass
  BY IInvInit DEF DmaInit, CardInit, SnapshotOnGlass
<1>2. IInv /\ SnapshotOnGlass /\ [DmaNext]_dmaAll => (IInv /\ SnapshotOnGlass)'
  BY IInvStep, SnapshotStep
<1> QED BY <1>1, <1>2, PTL DEF DmaSpec

-----------------------------------------------------------------------------
(* The gateware implements Glass.                                          *)

\* Consuming the oldest packet keeps the frames on the wire in order.
LEMMA TailOrder ==
    ASSUME IInv, OrderInv, ~Delays, wire # <<>>, wire' = Tail(wire), nextFrame' = nextFrame
    PROVE  /\ \A i, j \in 1 .. Len(wire') : i < j => wire'[i].frame <= wire'[j].frame
           /\ \A i \in 1 .. Len(wire') :
                wire'[i].frame <= nextFrame' /\ Head(wire).frame <= wire'[i].frame
           /\ \A f \in Frames : Current(f) =>
                f <= nextFrame' /\ \A i \in 1 .. Len(wire') : f <= wire'[i].frame
<1>1. /\ Head(wire) = wire[1] /\ 1 \in 1 .. Len(wire) /\ Len(wire) \in Nat
      /\ Len(wire') = Len(wire) - 1
      /\ \A i \in 1 .. Len(wire') : wire'[i] = wire[i + 1] /\ i + 1 \in 1 .. Len(wire)
  BY TailFacts DEF IInv, TypeOK
<1>2. \A i, j \in 1 .. Len(wire') : i < j => wire'[i].frame <= wire'[j].frame
  BY <1>1 DEF OrderInv
<1>3. \A i \in 1 .. Len(wire') :
        wire'[i].frame <= nextFrame' /\ Head(wire).frame <= wire'[i].frame
  BY <1>1 DEF OrderInv
<1> QED BY <1>1, <1>2, <1>3 DEF OrderInv

\* Every step keeps the stream in order on a link without delays.
LEMMA OrderStep ==
    ASSUME DistinctIds, SwapWholeOnly, IInv, OrderInv, [DmaNext]_dmaAll
    PROVE  OrderInv'
<1> SUFFICES ASSUME ~Delays PROVE OrderInv'
  BY DEF OrderInv
<1>0. TypeOK /\ wire \in Seq(Packets) /\ fb_base \in Halves /\ 1 - fb_base \in Halves
  BY OtherHalf DEF IInv, TypeOK
<1>1. CASE NewFrameHeader
  <2>0. PICK p : p = Head(wire)
    OBVIOUS
  <2>1. /\ p \in Packets /\ p.frame \in Frames /\ p = wire[1] /\ 1 \in 1 .. Len(wire)
        /\ wire # <<>> /\ wire' = Tail(wire) /\ nextFrame' = nextFrame
        /\ frame_id' = WireId[p.frame] /\ WireId[p.frame] # frame_id
    BY <1>0, <1>1, <2>0, TailFacts DEF NewFrameHeader, CommitHeader, Packets, sendVars
  <2>2. \A f : Current(f)' => f = p.frame
    BY <2>1 DEF Current, DistinctIds
  <2>3. Current(p.frame)' /\ p.frame <= nextFrame
    BY <2>1 DEF Current, OrderInv
  <2>4. ASSUME NEW g \in Frames, Holds(fb_base, g)' PROVE g < p.frame
    <3>1. Holds(NextBase, g)
      BY <1>1, <2>4, GlassAtNewFrame DEF Holds
    <3>2. CASE NextBase = fb_base
      <4>1. PICK f \in Frames : Current(f) /\ g < f
        BY <3>1, <3>2 DEF OrderInv
      <4>2. f <= p.frame
        BY <2>1, <4>1 DEF OrderInv
      <4>3. g \in Int /\ f \in Int /\ p.frame \in Int
        BY <2>1, FrameNumbers
      <4> QED BY <4>1, <4>2, <4>3
    <3>3. CASE NextBase # fb_base
      <4>1. outgoing_whole /\ NextBase = 1 - fb_base
        BY <1>1, <3>3, GlassAtNewFrame DEF swap_req
      <4>2. frame_id # 0
        <5> SUFFICES ASSUME frame_id = 0 PROVE FALSE
          OBVIOUS
        <5>1. Holds(1 - fb_base, Undrawn)
          BY DEF IInv, ResetInv
        <5>2. g = Undrawn
          BY <1>0, <3>1, <4>1, <5>1, HoldsUnique
        <5> QED BY <2>4, <5>2, PixelDmaAssumption DEF Frames, Undrawn
      <4>3. PICK f \in Frames : Current(f) /\ Holds(1 - fb_base, f)
        BY <4>1, <4>2, FrameFillsHalf
      <4>4. g = f
        BY <1>0, <3>1, <4>1, <4>3, HoldsUnique
      <4>5. f <= p.frame /\ f # p.frame
        BY <2>1, <4>3 DEF OrderInv, Current
      <4> QED BY <2>1, <4>4, <4>5, PixelDmaAssumption DEF Frames
    <3> QED BY <3>2, <3>3
  <2>5. \A i \in 1 .. Len(wire') : wire'[i].frame <= nextFrame' /\ p.frame <= wire'[i].frame
    BY <2>0, <2>1, TailOrder
  <2>6. \A i, j \in 1 .. Len(wire') : i < j => wire'[i].frame <= wire'[j].frame
    BY <2>1, TailOrder
  <2> QED BY <2>1, <2>2, <2>3, <2>4, <2>5, <2>6 DEF OrderInv
<1>2. CASE ~NewFrameHeader
  <2>1. \A f : Current(f)' = Current(f)
    BY <1>2, GlassFrozen DEF Current
  <2>2. \A g : Holds(fb_base, g)' = Holds(fb_base, g)
    BY <1>2, GlassFrozen DEF Holds
  <2>3. CASE SendChunk
    <3>1. PICK q \in Packets : q.frame = nextFrame /\ wire' = Append(wire, q)
      BY <1>0, <2>3, SentPacket
    <3>2. nextFrame \in Frames /\ (nextFrame' = nextFrame \/ nextFrame' = nextFrame + 1)
      BY <2>3 DEF SendChunk
    <3>3. \A i \in 1 .. Len(wire) : wire[i].frame \in Frames
      BY <1>0, WireFrames
    <3>4. \A i \in 1 .. Len(wire') : wire'[i] = IF i = Len(wire) + 1 THEN q ELSE wire[i]
      BY <1>0, <3>1, AppendFacts
    <3>5. Len(wire') = Len(wire) + 1 /\ Len(wire) \in Nat
      BY <1>0, <3>1, AppendFacts
    <3>6. \A i, j \in 1 .. Len(wire') : i < j => wire'[i].frame <= wire'[j].frame
      <4> SUFFICES ASSUME NEW i \in 1 .. Len(wire'), NEW j \in 1 .. Len(wire'), i < j
                   PROVE  wire'[i].frame <= wire'[j].frame
        OBVIOUS
      <4>1. i \in 1 .. Len(wire) /\ wire'[i] = wire[i]
        BY <3>4, <3>5
      <4>2. CASE j = Len(wire) + 1
        <5>1. wire'[j].frame = nextFrame
          BY <3>1, <3>4, <4>2
        <5>2. wire[i].frame <= nextFrame
          BY <4>1 DEF OrderInv
        <5> QED BY <4>1, <5>1, <5>2
      <4>3. CASE j # Len(wire) + 1
        <5>1. j \in 1 .. Len(wire) /\ wire'[j] = wire[j]
          BY <3>4, <3>5, <4>3
        <5>2. wire[i].frame <= wire[j].frame
          BY <4>1, <5>1 DEF OrderInv
        <5> QED BY <4>1, <5>1, <5>2
      <4> QED BY <4>2, <4>3
    <3>7. \A i \in 1 .. Len(wire') : wire'[i].frame <= nextFrame'
      <4> SUFFICES ASSUME NEW i \in 1 .. Len(wire') PROVE wire'[i].frame <= nextFrame'
        OBVIOUS
      <4>1. nextFrame \in Int /\ nextFrame <= nextFrame'
        BY <3>2, FrameNumbers
      <4>2. CASE i = Len(wire) + 1
        BY <3>1, <3>4, <4>1, <4>2
      <4>3. CASE i # Len(wire) + 1
        <5>1. i \in 1 .. Len(wire) /\ wire'[i] = wire[i]
          BY <3>4, <3>5, <4>3
        <5>2. wire[i].frame \in Int /\ wire[i].frame <= nextFrame
          BY <3>3, <5>1, FrameNumbers DEF OrderInv
        <5> QED BY <3>2, <4>1, <5>1, <5>2
      <4> QED BY <4>2, <4>3
    <3>8. ASSUME NEW f \in Frames, Current(f)
          PROVE  f <= nextFrame' /\ \A i \in 1 .. Len(wire') : f <= wire'[i].frame
      <4>1. f \in Int /\ nextFrame \in Int /\ f <= nextFrame
        BY <3>2, <3>8, FrameNumbers DEF OrderInv
      <4>2. \A i \in 1 .. Len(wire) : f <= wire[i].frame
        BY <3>8 DEF OrderInv
      <4>3. \A i \in 1 .. Len(wire') : f <= wire'[i].frame
        BY <3>1, <3>4, <3>5, <4>1, <4>2
      <4> QED BY <3>2, <4>1, <4>3
    <3> QED BY <2>1, <2>2, <3>6, <3>7, <3>8 DEF OrderInv
  <2>4. CASE LosePacket \/ SameFrameHeader \/ IgnorePacket
    <3>1. wire # <<>> /\ wire' = Tail(wire) /\ nextFrame' = nextFrame
      BY <2>4 DEF LosePacket, SameFrameHeader, IgnorePacket, sendVars
    <3> QED BY <2>1, <2>2, <3>1, TailOrder DEF OrderInv
  <2>5. CASE UNCHANGED <<wire, nextFrame>>
    BY <2>1, <2>2, <2>5 DEF OrderInv
  <2> QED
    BY <1>2, <2>3, <2>4, <2>5
    DEF DmaNext, HardwareNext, DelayCopy, FinishPayload, AbandonPayload, SetEnable,
        sendVars, dmaAll
<1> QED BY <1>1, <1>2

\* A half of one content is that picture of Glass.
LEMMA WholePicture ==
    ASSUME TypeOK, NEW h \in Halves, NEW x
    PROVE  Holds(h, x) <=> fb[h] = G!Whole(x)
BY DEF TypeOK, Holds, G!Whole

\* Nothing is on the wire and no frame on the glass when the card comes up.
LEMMA CardOrderInit ==
    ASSUME NEW dma \in BOOLEAN, NEW flip \in BOOLEAN, CardInit(dma, flip)
    PROVE  OrderInv /\ G!Init
<1>1. TypeOK /\ fb_base \in Halves /\ Holds(fb_base, Boot)
  BY CardTypeInit DEF CardInit, Halves, Holds
<1>2. \A f \in Frames : ~Current(f)
  BY PixelDmaAssumption DEF CardInit, Current
<1>3. ASSUME NEW g \in Frames PROVE ~Holds(fb_base, g)
  <2>1. g # Boot
    BY PixelDmaAssumption DEF Frames, Boot
  <2> QED BY <1>1, <2>1, HoldsUnique
<1>4. G!Init
  BY <1>1, WholePicture DEF G!Init
<1> QED BY <1>2, <1>3, <1>4 DEF OrderInv, CardInit

\* And so they are at reset.
LEMMA OrderInit == DmaInit => OrderInv /\ G!Init
BY CardOrderInit DEF DmaInit

\* Over a link that keeps packets in order, no frame on the wire is older than
\* the one being assembled, and the frame on the glass is older than that one.
THEOREM StreamInOrder ==
    ASSUME DistinctIds, SwapWholeOnly
    PROVE  DmaSpec => []OrderInv
<1>1. DmaInit => IInv /\ OrderInv
  BY IInvInit, OrderInit
<1>2. IInv /\ OrderInv /\ [DmaNext]_dmaAll => (IInv /\ OrderInv)'
  BY IInvStep, OrderStep
<1> QED BY <1>1, <1>2, PTL DEF DmaSpec

\* A step of the detailed path is a step of Glass or leaves the glass alone.
LEMMA GlassStep ==
    ASSUME DistinctIds, SwapWholeOnly, IInv, OrderInv, [DmaNext]_dmaAll
    PROVE  [G!Next]_(fb[fb_base])
<1>0. TypeOK /\ fb_base \in Halves /\ 1 - fb_base \in Halves
  BY OtherHalf DEF IInv, TypeOK
<1>1. CASE ~NewFrameHeader
  BY <1>1, GlassFrozen
<1>2. CASE NewFrameHeader /\ NextBase = fb_base
  BY <1>2, GlassAtNewFrame
<1>3. CASE NewFrameHeader /\ NextBase # fb_base
  <2>1. fb'[fb_base'] = fb[1 - fb_base] /\ outgoing_whole
    BY <1>3, GlassAtNewFrame DEF swap_req
  <2>2. CASE frame_id = 0
    <3>1. Holds(fb_base, Boot) /\ Holds(1 - fb_base, Undrawn)
      BY <2>2 DEF IInv, ResetInv
    <3>2. fb[fb_base] = G!Whole(Boot) /\ fb[1 - fb_base] = G!Whole(Undrawn)
      BY <1>0, <3>1, WholePicture
    <3> QED BY <2>1, <3>2 DEF G!Next, G!FirstFlip
  <2>3. CASE frame_id # 0
    <3>1. PICK f \in Frames : Current(f) /\ Holds(1 - fb_base, f)
      BY <2>1, <2>3, FrameFillsHalf
    <3>2. fb[1 - fb_base] = G!Whole(f)
      BY <1>0, <3>1, WholePicture
    <3>3. ASSUME ~Delays, NEW g \in Frames, fb[fb_base] = G!Whole(g) PROVE g < f
      <4>1. Holds(fb_base, g)
        BY <1>0, <3>3, WholePicture
      <4> QED BY <3>1, <3>3, <4>1, CurrentUnique DEF OrderInv
    <3>4. G!Show(f)
      BY <2>1, <3>2, <3>3 DEF G!Show
    <3> QED BY <3>4 DEF G!Next
  <2> QED BY <2>2, <2>3
<1> QED BY <1>1, <1>2, <1>3

\* The pixel path implements Glass: the panel goes from one whole picture to
\* another in a single step and, over a link that keeps packets in order, never
\* back to an older frame (no two frames share a frame_id, burst_fifo never
\* overflows).
THEOREM ImplementsGlass ==
    ASSUME DistinctIds, SwapWholeOnly
    PROVE  DmaSpec => GlassSpec
<1>1. DmaInit => IInv /\ OrderInv /\ G!Init
  BY IInvInit, OrderInit
<1>2. IInv /\ OrderInv /\ [DmaNext]_dmaAll => (IInv /\ OrderInv)'
  BY IInvStep, OrderStep
<1>3. IInv /\ OrderInv /\ [DmaNext]_dmaAll => [G!Next]_(fb[fb_base])
  BY GlassStep
<1> QED BY <1>1, <1>2, <1>3, PTL DEF DmaSpec, GlassSpec, G!Spec
=============================================================================
