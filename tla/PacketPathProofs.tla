-------------------------- MODULE PacketPathProofs --------------------------
(***************************************************************************)
(* Theorems of BitmapReceiver on the packet path: the filter and the DMA   *)
(* are off, and the CPU draws, repairs and flips by itself.                *)
(***************************************************************************)
EXTENDS ReceiverProofs

\* The filter and the DMA are off from boot and nobody turns them on: the only
\* request is api_cpu_pixels.  The wall has one format, and so have the frames
\* of another size that stray onto it.
PacketPath ==
    /\ ~FilterOn /\ ~DmaOn /\ Knobs \subseteq {"cpu_pixels"}
    /\ \E m \in Formats : (\A f \in Frames : Format[f] = m) /\ \A x \in Strays : x.format = m

\* Frame f is the one the CPU is assembling, or assembled last.
Names(s, f) == f \in Frames /\ WireId[f] = s.rx.current_frame_id

\* What the CPU has of its frame is in the half it draws into.
Drawn(s) == s.rx.total_chunks # 0 => \E f \in Frames :
    /\ Names(s, f) /\ TotalOf(f) = s.rx.total_chunks /\ Format[f] = s.rx.format
    /\ \A c \in s.rx.chunk_mask : \A p \in CoverOf(f, c) : s.fb[1 - s.fb_base][p] = f

\* The CPU has the display to itself.
CpuCard(s) ==
    /\ s \in Cards /\ ~s.auto_swap /\ ~s.rx.hw_filter_on
    /\ s.hub.active_buf = s.fb_base
    /\ CountInv(s.rx) /\ Drawn(s)

\* Of two cards: the same picture on the glass;
SameGlass(t, s) == t.fb_base = s.fb_base /\ t.fb[t.fb_base] = s.fb[s.fb_base]
\* on the glass of t, pixel by pixel, frame f or what the glass of s shows;
Shows(t, s, f) == \A p \in Pixels : t.fb[t.fb_base][p] \in {f, s.fb[s.fb_base][p]}
\* nothing but f.
ShowsOnly(t, f) == \A p \in Pixels : t.fb[t.fb_base][p] = f

\* The larger of zero and an integer.
LEMMA MaxZero ==
    ASSUME NEW a \in Int
    PROVE  Max({0, a}) = IF a <= 0 THEN 0 ELSE a
<1>1. \E x \in {0, a} : \A y \in {0, a} : x >= y
  OBVIOUS
<1>2. Max({0, a}) \in {0, a} /\ \A y \in {0, a} : Max({0, a}) >= y
  BY <1>1, Zenon DEF Max
<1> QED BY <1>2

\* The pixels of the half being drawn into that no chunk of the frame wrote are
\* the ones repair_from_front patches.
LEMMA DrawnOrMissing ==
    ASSUME NEW s, NEW f \in Frames, TotalOf(f) = s.rx.total_chunks, Format[f] = s.rx.format,
           \A c \in s.rx.chunk_mask : \A p \in CoverOf(f, c) : s.fb[1 - s.fb_base][p] = f,
           NEW p \in Pixels
    PROVE  p \in MissingPixels(s) \/ s.fb[1 - s.fb_base][p] = f
<1>1. PICK c \in 0 .. TotalOf(f) - 1 : p \in CoverOf(f, c)
  BY ChunksCover
<1>2. CASE c \in s.rx.chunk_mask
  BY <1>1, <1>2
<1>3. CASE c \notin s.rx.chunk_mask
  BY <1>1, <1>3 DEF MissingPixels, CoverOf
<1> QED BY <1>2, <1>3

\* Presenting drops the frame, or flips to a half that is, pixel by pixel, the
\* frame or what the glass showed; a frame with all its chunks is never dropped.
LEMMA PresentPath ==
    ASSUME NEW s, CpuCard(s)
    PROVE  LET t == present(s)
           IN /\ CpuCard(t) /\ SameIdentity(t, s)
              /\ SameGlass(t, s) \/ \E f : Names(s, f) /\ Shows(t, s, f)
              /\ (s.rx.total_chunks # 0 /\ s.rx.received >= s.rx.total_chunks)
                   => \E f : Names(s, f) /\ ShowsOnly(t, f)
<1>0. /\ s \in Cards /\ ~s.auto_swap /\ ~s.rx.hw_filter_on /\ s.hub.active_buf = s.fb_base
      /\ CountInv(s.rx) /\ Drawn(s)
  BY DEF CpuCard
<1>1. CASE s.rx.total_chunks = 0
  <2>1. present(s) = s
    BY <1>0, <1>1, Present
  <2> QED BY <1>1, <2>1 DEF SameIdentity, SameGlass
<1>2. CASE s.rx.total_chunks # 0
  <2> DEFINE missing == Max({0, s.rx.total_chunks - s.rx.received})
             patched == IF missing > 0 /\ ~s.auto_swap THEN repair_from_front(s, MissingPixels(s)) ELSE s
             coloured == apply_pending_palette(patched)
             flipped == swap_buffers(coloured)
             reset == reset_frame(flipped)
             dropped == reset_frame(s)
             shown == [reset EXCEPT !.presented = TRUE]
  <2>1. present(s) = IF missing > MaxRepair THEN dropped ELSE shown
    BY <1>0, <1>2, Zenon DEF present, CpuOwnsSwap
  <2>2. PICK f \in Frames : /\ Names(s, f) /\ TotalOf(f) = s.rx.total_chunks /\ Format[f] = s.rx.format
                            /\ \A c \in s.rx.chunk_mask : \A p \in CoverOf(f, c) : s.fb[1 - s.fb_base][p] = f
    BY <1>0, <1>2 DEF Drawn
  <2>3. /\ s.rx.total_chunks \in Nat /\ s.rx.received \in Nat /\ s.fb_base \in Halves
        /\ s.fb \in [Halves -> [Pixels -> Contents \cup {Torn}]]
        /\ 1 - s.fb_base \in Halves /\ 1 - s.fb_base # s.fb_base /\ 1 - (1 - s.fb_base) = s.fb_base
    BY <1>0, CardParts, OtherHalf DEF Receivers
  <2>4. missing \in Nat /\ (s.rx.received >= s.rx.total_chunks <=> missing = 0)
    BY <2>3, MaxZero
  <2> HIDE DEF missing
  <2>5. missing = 0 => s.rx.chunk_mask = 0 .. TotalOf(f) - 1
    <3> SUFFICES ASSUME missing = 0 PROVE s.rx.chunk_mask = 0 .. s.rx.total_chunks - 1
      BY <2>2
    <3>1. /\ s.rx.chunk_mask \in SUBSET (0 .. s.rx.total_chunks - 1)
          /\ s.rx.received = Cardinality(s.rx.chunk_mask)
      BY <1>0 DEF CountInv
    <3>2. Cardinality(s.rx.chunk_mask) <= s.rx.total_chunks /\ Cardinality(s.rx.chunk_mask) \in Nat
      BY <2>3, <3>1, CountBound
    <3>3. s.rx.received >= s.rx.total_chunks
      BY <2>4
    <3>4. Cardinality(s.rx.chunk_mask) = s.rx.total_chunks
      BY <2>3, <3>1, <3>2, <3>3
    <3> QED BY <2>3, <3>1, <3>4, AllArrived
  <2>6. missing = 0 => \A p \in Pixels : s.fb[1 - s.fb_base][p] = f
    BY <2>2, <2>5, ChunksCover
  <2>7. /\ patched \in Cards /\ patched.rx = s.rx /\ patched.fb_base = s.fb_base
        /\ patched.auto_swap = s.auto_swap /\ patched.hub = s.hub
        /\ patched.fb[s.fb_base] = s.fb[s.fb_base]
        /\ missing = 0 => patched = s
        /\ missing > 0 => \A p \in Pixels : patched.fb[1 - s.fb_base][p] =
             IF p \in MissingPixels(s) THEN s.fb[s.fb_base][p] ELSE s.fb[1 - s.fb_base][p]
    <3>1. CASE missing > 0
      <4>1. PICK pic \in [Pixels -> Contents \cup {Torn}] : pic = s.fb[s.hub.active_buf]
        BY <1>0, <2>3
      <4>2. patched = Overwrite(s, MissingPixels(s), pic)
        BY <1>0, <3>1, <4>1 DEF repair_from_front
      <4> DEFINE over == Overwrite(s, MissingPixels(s), pic)
      <4>3. /\ over \in Cards /\ over.rx = s.rx /\ over.fb_base = s.fb_base
            /\ over.auto_swap = s.auto_swap /\ over.hub = s.hub
            /\ over.fb[s.fb_base] = s.fb[s.fb_base]
            /\ \A p \in Pixels : over.fb[1 - s.fb_base][p] =
                 IF p \in MissingPixels(s) THEN pic[p] ELSE s.fb[1 - s.fb_base][p]
        BY <1>0, OverwriteEffect
      <4> HIDE DEF over, patched
      <4>4. missing # 0
        BY <2>4, <3>1
      <4> QED BY <1>0, <4>1, <4>2, <4>3, <4>4 DEF over
    <3>2. CASE ~(missing > 0)
      BY <1>0, <3>2
    <3> QED BY <3>1, <3>2
  <2>8. \A p \in Pixels : patched.fb[1 - s.fb_base][p] \in {f, s.fb[s.fb_base][p]}
    BY <2>2, <2>4, <2>6, <2>7, DrawnOrMissing
  <2> HIDE DEF patched
  <2>9. /\ coloured \in Cards /\ SameFrame(coloured, patched) /\ SameSettings(coloured, patched)
        /\ SameDisplay(coloured, patched)
    BY <2>7, ApplyPalette
  <2> HIDE DEF coloured
  <2>10. /\ flipped \in Cards /\ flipped.rx = coloured.rx /\ flipped.fb = coloured.fb
         /\ flipped.auto_swap = coloured.auto_swap
         /\ flipped.fb_base = 1 - coloured.hub.active_buf
         /\ flipped.hub.active_buf = 1 - coloured.hub.active_buf
    BY <2>9, SwapBuffers
  <2> HIDE DEF flipped
  <2>11. /\ reset \in Cards /\ NoFrame(reset) /\ SameSettings(reset, flipped) /\ SameDisplay(reset, flipped)
    BY <2>10, ResetFrame
  <2>12. /\ dropped \in Cards /\ NoFrame(dropped) /\ SameSettings(dropped, s) /\ SameDisplay(dropped, s)
    BY <1>0, ResetFrame
  <2> HIDE DEF reset, dropped
  <2>13. shown \in Cards /\ shown.rx = reset.rx /\ SameDisplay(shown, reset)
    BY <2>11, Presented
  <2> HIDE DEF shown
  <2>14. SameIdentity(present(s), s)
    BY <1>0, Present
  <2>15. CASE missing > MaxRepair
    <3>1. CpuCard(dropped)
      BY <1>0, <2>12, NoFrameCounts DEF CpuCard, SameSettings, SameDisplay, Drawn, NoFrame
    <3>2. SameGlass(dropped, s)
      BY <2>12 DEF SameDisplay, SameGlass
    <3>3. ~(s.rx.received >= s.rx.total_chunks)
      BY <2>4, <2>15, ReceiverAssumption
    <3> QED BY <2>1, <2>14, <2>15, <3>1, <3>2, <3>3
  <2>16. CASE ~(missing > MaxRepair)
    <3>1. /\ shown.fb = patched.fb /\ shown.fb_base = 1 - s.fb_base /\ ~shown.auto_swap
          /\ shown.hub.active_buf = shown.fb_base
      BY <1>0, <2>7, <2>9, <2>10, <2>11, <2>13 DEF SameDisplay
    <3>2. NoFrame(shown) /\ ~shown.rx.hw_filter_on
      BY <1>0, <2>7, <2>9, <2>10, <2>11, <2>13 DEF SameSettings, NoFrame
    <3>3. CpuCard(shown)
      BY <2>13, <3>1, <3>2, NoFrameCounts DEF CpuCard, Drawn, NoFrame
    <3>4. Shows(shown, s, f)
      BY <2>8, <3>1 DEF Shows
    <3>5. s.rx.received >= s.rx.total_chunks => ShowsOnly(shown, f)
      BY <2>4, <2>6, <2>7, <3>1 DEF ShowsOnly
    <3> QED BY <2>1, <2>2, <2>14, <2>16, <3>3, <3>4, <3>5
  <2> QED BY <2>15, <2>16
<1> QED BY <1>1, <1>2

\* A chunk of the frame being assembled is drawn where the frame is, and the
\* last one shows the frame.
LEMMA AcceptPath ==
    ASSUME TypeOK, ~enable, DistinctIds, NEW s, CpuCard(s), NEW f \in Frames, NEW c \in ChunkIds,
           c < TotalOf(f), Names(s, f), TotalOf(f) = s.rx.total_chunks, Format[f] = s.rx.format
    PROVE  LET t == AcceptChunk(s, f, c)
           IN /\ CpuCard(t) /\ Names(t, f)
              /\ SameGlass(t, s) \/ ShowsOnly(t, f)
<1> DEFINE drawn == IF enable THEN s ELSE CpuWrite(s, f, c)
           A == s.rx.chunk_mask \cup {c}
           k == s.rx.received + 1
           counted == Counted(drawn, A, k)
           merged == IF counted.rx.received + 1 >= counted.rx.total_chunks
                       THEN merge_dma_arrival(counted) ELSE counted
           quiet == [s EXCEPT !.rx.quiet = 0]
<1>0. /\ s \in Cards /\ ~s.auto_swap /\ ~s.rx.hw_filter_on /\ s.hub.active_buf = s.fb_base
      /\ CountInv(s.rx) /\ Drawn(s)
  BY DEF CpuCard
<1>t. TotalOf(f) \in Nat /\ TotalOf(f) # 0 /\ s.rx.total_chunks # 0
  BY TotalType
<1>1. /\ drawn \in Cards /\ drawn.rx = s.rx /\ drawn.hub = s.hub /\ drawn.fb_base = s.fb_base
      /\ drawn.auto_swap = s.auto_swap /\ drawn.fb[s.fb_base] = s.fb[s.fb_base]
      /\ \A q \in Pixels : drawn.fb[1 - s.fb_base][q] =
           IF q \in CoverOf(f, c) THEN f ELSE s.fb[1 - s.fb_base][q]
  BY <1>0, Write
<1>2. /\ s.rx \in Receivers /\ s.rx.chunk_mask \in SUBSET ChunkIds /\ s.rx.received \in Nat
      /\ s.rx.total_chunks \in Nat /\ s.fb_base \in Halves
  BY <1>0, CardParts DEF Receivers
<1>3. A \in SUBSET ChunkIds /\ k \in Nat
  BY <1>2
<1>4. \A d \in s.rx.chunk_mask : \A p \in CoverOf(f, d) : s.fb[1 - s.fb_base][p] = f
  BY <1>0, <1>t DEF Drawn, Names, DistinctIds
<1>5. ASSUME c \notin s.rx.chunk_mask
      PROVE  A \subseteq 0 .. s.rx.total_chunks - 1 /\ k = Cardinality(A)
  <2>1. c \in 0 .. s.rx.total_chunks - 1
    BY <1>2 DEF ChunkIds
  <2>2. IsFiniteSet(s.rx.chunk_mask)
    BY <1>2, ChunkCount
  <2>3. s.rx.chunk_mask \subseteq 0 .. s.rx.total_chunks - 1 /\ s.rx.received = Cardinality(s.rx.chunk_mask)
    BY <1>0 DEF CountInv
  <2>4. Cardinality(A) = Cardinality(s.rx.chunk_mask) + 1
    BY <1>5, <2>2, FS_AddElement
  <2> QED BY <2>1, <2>3, <2>4
<1>6. \A d \in A : \A p \in CoverOf(f, d) : drawn.fb[1 - s.fb_base][p] = f
  <2>1. \A d : CoverOf(f, d) \subseteq Pixels
    BY DEF CoverOf, Cover
  <2> QED BY <1>1, <1>4, <2>1
<1>7. /\ c \in s.rx.chunk_mask => AcceptChunk(s, f, c) = quiet
      /\ c \notin s.rx.chunk_mask => AcceptChunk(s, f, c) =
           IF merged.rx.received >= merged.rx.total_chunks THEN present(merged) ELSE merged
  BY Zenon DEF AcceptChunk, Counted
<1> HIDE DEF drawn, A, k
<1>8. /\ counted \in Cards /\ Kept(counted, drawn) /\ SameIdentity(counted, drawn)
      /\ SameDisplay(counted, drawn) /\ counted.rx.total_chunks = drawn.rx.total_chunks
      /\ counted.rx.chunk_mask = A /\ counted.rx.received = k
  BY <1>1, <1>3, CountedUpdate DEF Kept
<1>9. Kept(quiet, s) /\ SameFrame(quiet, s) /\ SameDisplay(quiet, s)
  BY <1>0, QuietUpdate
<1> HIDE DEF counted, quiet
<1>10. CASE c \in s.rx.chunk_mask
  <2>1. CountInv(quiet.rx)
    BY <1>0, <1>9, SameFrameCounts
  <2>2. Names(quiet, f) /\ Drawn(quiet)
    BY <1>0, <1>9 DEF Drawn, Names, SameFrame, SameDisplay
  <2>3. CpuCard(quiet)
    BY <1>0, <1>9, <2>1, <2>2 DEF CpuCard, Kept, SameSettings, SameDisplay
  <2> QED BY <1>7, <1>9, <1>10, <2>2, <2>3 DEF SameGlass, SameDisplay
<1>11. CASE c \notin s.rx.chunk_mask
  <2>1. merged = counted
    BY <1>8, MergeArrival
  <2>2. AcceptChunk(s, f, c) =
          IF counted.rx.received >= counted.rx.total_chunks THEN present(counted) ELSE counted
    BY <1>7, <1>11, <2>1
  <2>3. Names(counted, f) /\ counted.rx.total_chunks = TotalOf(f) /\ counted.rx.format = Format[f]
    BY <1>1, <1>8 DEF Names, SameIdentity
  <2>4. Drawn(counted)
    BY <1>1, <1>6, <1>8, <2>3 DEF Drawn, SameDisplay
  <2>5. CountInv(counted.rx)
    BY <1>1, <1>5, <1>8, <1>11, <2>3 DEF CountInv, Announced, Names
  <2>6. CpuCard(counted)
    BY <1>0, <1>1, <1>8, <2>4, <2>5 DEF CpuCard, Kept, SameSettings, SameDisplay
  <2>7. SameGlass(counted, s)
    BY <1>1, <1>8 DEF SameGlass, SameDisplay
  <2>8. CASE counted.rx.received >= counted.rx.total_chunks
    <3>1. /\ CpuCard(present(counted)) /\ SameIdentity(present(counted), counted)
          /\ \E g : Names(counted, g) /\ ShowsOnly(present(counted), g)
      BY <1>t, <2>3, <2>6, <2>8, PresentPath
    <3>2. \A g : Names(counted, g) => g = f
      BY <2>3 DEF Names, DistinctIds
    <3>3. Names(present(counted), f)
      BY <2>3, <3>1 DEF Names, SameIdentity
    <3> QED BY <2>2, <2>8, <3>1, <3>2, <3>3
  <2>9. CASE ~(counted.rx.received >= counted.rx.total_chunks)
    BY <2>2, <2>3, <2>6, <2>7, <2>9
  <2> QED BY <2>8, <2>9
<1> QED BY <1>10, <1>11

\* What a handler may do to the glass: nothing, or show -- pixel by pixel --
\* one frame, the one it was assembling or the one it goes on with.
GlassMove(t, s) ==
    SameGlass(t, s) \/ \E f : (Names(s, f) \/ Names(t, f)) /\ Shows(t, s, f)
\* The receiver stays with its frame_id.
SameName(t, s) == t.rx.current_frame_id = s.rx.current_frame_id

\* The format and the mode follow a packet's magic; the frame stays.
LEMMA ParsePath ==
    ASSUME NEW s, CpuCard(s), NEW m \in Formats, \A f \in Frames : Format[f] = m
    PROVE  LET t == parse_magic(s, m)
           IN /\ CpuCard(t) /\ SameGlass(t, s) /\ SameName(t, s)
              /\ t.rx.total_chunks = s.rx.total_chunks
              /\ s.rx.cpu_pixels => t.rx.format = m
<1>0. /\ s \in Cards /\ ~s.auto_swap /\ ~s.rx.hw_filter_on /\ s.hub.active_buf = s.fb_base
      /\ CountInv(s.rx) /\ Drawn(s)
  BY DEF CpuCard
<1>1. PICK t : t = parse_magic(s, m)
  OBVIOUS
<1>2. /\ Kept(t, s) /\ SameDisplay(t, s)
      /\ t.rx.current_frame_id = s.rx.current_frame_id
      /\ t.rx.total_chunks = s.rx.total_chunks
      /\ t.rx.chunk_mask = s.rx.chunk_mask /\ t.rx.received = s.rx.received
      /\ t.rx.format = IF s.rx.cpu_pixels THEN m ELSE s.rx.format
  BY <1>0, <1>1, ParseMagic
<1>3. CountInv(t.rx)
  BY <1>0, <1>2 DEF CountInv
<1>4. Drawn(t)
  BY <1>0, <1>2 DEF Drawn, Names, SameDisplay
<1>5. CpuCard(t)
  BY <1>0, <1>2, <1>3, <1>4 DEF CpuCard, Kept, SameSettings, SameDisplay
<1> QED BY <1>1, <1>2, <1>5 DEF SameGlass, SameName, SameDisplay

\* A pixel packet: the outgoing frame is shown or dropped, then the chunk drawn,
\* and perhaps its frame shown in the same handler.
LEMMA PixelPath ==
    ASSUME TypeOK, ~enable, DistinctIds, PacketPath, NEW s, CpuCard(s),
           NEW f \in Frames, NEW c \in ChunkIds, c < TotalOf(f)
    PROVE  LET t == process_pixels(s, f, c)
           IN /\ CpuCard(t) /\ GlassMove(t, s)
              /\ SameName(t, s) \/ Names(t, f)
<1> DEFINE parsed == parse_magic(s, Format[f])
           change == WireId[f] # s.rx.current_frame_id \/ TotalOf(f) # s.rx.total_chunks
           shown == present(parsed)
           started == Started(shown, WireId[f], TotalOf(f))
           current == IF change THEN started ELSE parsed
           accepted == AcceptChunk(current, f, c)
<1>1. process_pixels(s, f, c) = IF s.rx.cpu_pixels THEN accepted ELSE parsed
  BY Zenon DEF process_pixels, Started
<1>2. /\ Format[f] \in Formats /\ WireId[f] \in Nat /\ TotalOf(f) \in Nat
      /\ \A g \in Frames : Format[g] = Format[f]
  BY PixelDmaAssumption, TotalType DEF PacketPath
<1>3. /\ CpuCard(parsed) /\ SameGlass(parsed, s) /\ SameName(parsed, s)
      /\ parsed.rx.total_chunks = s.rx.total_chunks
      /\ s.rx.cpu_pixels => parsed.rx.format = Format[f]
  BY <1>2, ParsePath
<1> HIDE DEF parsed
<1>4. CASE ~s.rx.cpu_pixels
  BY <1>1, <1>3, <1>4 DEF GlassMove
<1>5. CASE s.rx.cpu_pixels
  <2>1. /\ CpuCard(shown) /\ SameIdentity(shown, parsed)
        /\ SameGlass(shown, parsed) \/ \E g : Names(parsed, g) /\ Shows(shown, parsed, g)
    BY <1>3, PresentPath
  <2>2. parsed \in Cards /\ CountInv(parsed.rx) /\ shown \in Cards
    BY <1>3, <2>1 DEF CpuCard
  <2>3. shown.rx.chunk_mask = {} /\ shown.rx.received = 0
    <3>1. CASE parsed.rx.total_chunks = 0
      <4>1. shown = parsed
        BY <2>2, <3>1, Present
      <4>2. parsed.rx.chunk_mask = {}
        BY <2>2, <3>1 DEF CountInv
      <4> QED BY <2>2, <4>1, <4>2, FS_EmptySet DEF CountInv
    <3>2. CASE parsed.rx.total_chunks # 0
      BY <2>2, <3>2, Present DEF NoFrame
    <3> QED BY <3>1, <3>2
  <2>4. GlassMove(shown, s)
    BY <1>3, <2>1 DEF GlassMove, SameGlass, Shows, Names, SameName
  <2>5. SameName(shown, s)
    BY <1>3, <2>1 DEF SameName, SameIdentity
  <2> HIDE DEF shown
  <2>6. /\ Kept(started, shown) /\ SameDisplay(started, shown)
        /\ started.rx.current_frame_id = WireId[f] /\ started.rx.total_chunks = TotalOf(f)
        /\ started.rx.chunk_mask = shown.rx.chunk_mask /\ started.rx.received = shown.rx.received
        /\ started.rx.format = shown.rx.format
    BY <1>2, <2>2, StartUpdate
  <2> HIDE DEF started
  <2>7. started.rx.format = Format[f] /\ Names(started, f)
    BY <1>3, <1>5, <2>1, <2>6 DEF SameIdentity, Names
  <2>8. CountInv(started.rx)
    BY <2>3, <2>6, FS_EmptySet DEF CountInv, Announced
  <2>9. CpuCard(started)
    BY <2>1, <2>3, <2>6, <2>7, <2>8 DEF CpuCard, Kept, SameSettings, SameDisplay, Drawn
  <2>10. SameGlass(started, shown)
    BY <2>6 DEF SameGlass, SameDisplay
  <2>11. \E g : SameGlass(current, s) \/ (Names(s, g) /\ Shows(current, s, g))
    <3>1. CASE ~change
      BY <1>3, <3>1
    <3>2. CASE change
      BY <2>4, <2>5, <2>10, <3>2 DEF GlassMove, SameGlass, Shows, Names, SameName
    <3> QED BY <3>1, <3>2
  <2>12. /\ CpuCard(current) /\ Names(current, f) /\ TotalOf(f) = current.rx.total_chunks
         /\ Format[f] = current.rx.format
    <3>1. CASE ~change
      BY <1>3, <1>5, <3>1 DEF Names, SameName
    <3>2. CASE change
      BY <2>6, <2>7, <2>9, <3>2
    <3> QED BY <3>1, <3>2
  <2> HIDE DEF current
  <2>13. CpuCard(accepted) /\ Names(accepted, f) /\ (SameGlass(accepted, current) \/ ShowsOnly(accepted, f))
    BY <2>12, AcceptPath
  <2> HIDE DEF accepted
  <2>14. GlassMove(accepted, s)
    <3>1. CASE ShowsOnly(accepted, f)
      BY <2>13, <3>1 DEF GlassMove, Shows, ShowsOnly
    <3>2. CASE SameGlass(accepted, current)
      BY <2>11, <3>2 DEF GlassMove, SameGlass, Shows
    <3> QED BY <2>13, <3>1, <3>2
  <2> QED BY <1>1, <1>5, <2>13, <2>14
<1> QED BY <1>4, <1>5

\* Handlers that only touch palettes, settings or counters of the same frame.
LEMMA SamePath ==
    ASSUME NEW s, CpuCard(s), NEW t \in Cards, SameFrame(t, s), SameDisplay(t, s),
           t.rx.hw_filter_on = s.rx.hw_filter_on
    PROVE  CpuCard(t) /\ GlassMove(t, s) /\ SameName(t, s)
<1>1. CountInv(t.rx)
  BY SameFrameCounts DEF CpuCard
<1>2. Drawn(t)
  BY DEF CpuCard, Drawn, Names, SameFrame, SameDisplay
<1> QED BY <1>1, <1>2 DEF CpuCard, GlassMove, SameGlass, SameName, SameFrame, SameDisplay

\* A frame is forgotten without a trace on the glass.
LEMMA ForgetPath ==
    ASSUME NEW s, CpuCard(s)
    PROVE  LET t == reset_frame(s) IN CpuCard(t) /\ GlassMove(t, s) /\ SameName(t, s)
<1>1. PICK t : t = reset_frame(s)
  OBVIOUS
<1>2. /\ t \in Cards /\ NoFrame(t) /\ SameSettings(t, s) /\ SameDisplay(t, s)
      /\ t.rx.current_frame_id = s.rx.current_frame_id
  BY <1>1, ResetFrame DEF CpuCard
<1>3. CountInv(t.rx) /\ Drawn(t)
  BY <1>2, NoFrameCounts DEF Drawn, NoFrame
<1>4. CpuCard(t)
  BY <1>2, <1>3 DEF CpuCard, SameSettings, SameDisplay
<1> QED BY <1>1, <1>2, <1>4 DEF GlassMove, SameGlass, SameName, SameDisplay

\* Any packet through the trap handler.
LEMMA PacketPathPacket ==
    ASSUME TypeOK, ~enable, DistinctIds, PacketPath, NEW s, CpuCard(s), NEW p \in MacPackets,
           p.kind = "pixels" => p.chunk < TotalOf(p.frame),
           p.kind = "wrong size" => \E x \in Strays : p.format = x.format
    PROVE  LET t == process_packet(s, p)
           IN /\ CpuCard(t) /\ GlassMove(t, s)
              /\ SameName(t, s) \/ (p.kind = "pixels" /\ Names(t, p.frame))
<1>0. s \in Cards /\ GlassMove(s, s) /\ SameName(s, s)
  BY DEF CpuCard, GlassMove, SameGlass, SameName
<1>1. \/ p.kind = "pixels" /\ p.frame \in Frames /\ p.chunk \in ChunkIds
      \/ p.kind = "BP" /\ p.palette \in Palettes
      \/ p.kind = "wrong size" /\ p.format \in Formats
  BY DEF MacPackets
<1>2. CASE s.rx.hold
  <2>1. process_packet(s, p) = s
    BY <1>2 DEF process_packet
  <2> QED BY <1>0, <2>1
<1>3. CASE ~s.rx.hold /\ p.kind = "BP" /\ p.palette \in Palettes
  <2>1. PICK t : t = process_packet(s, p) /\ t = stash_palette(s, p.palette)
    BY <1>3 DEF process_packet
  <2>2. Kept(t, s) /\ SameFrame(t, s) /\ SameDisplay(t, s)
    BY <1>0, <1>3, <2>1, Stash
  <2> QED BY <2>1, <2>2, SamePath DEF Kept, SameSettings
<1>4. CASE ~s.rx.hold /\ p.kind = "wrong size" /\ p.format \in Formats
  <2>1. PICK t : t = process_packet(s, p) /\ t = parse_magic(s, p.format)
    BY <1>4 DEF process_packet
  <2>2. \A f \in Frames : Format[f] = p.format
    BY <1>4 DEF PacketPath
  <2> QED BY <1>4, <2>1, <2>2, ParsePath DEF GlassMove
<1>5. CASE ~s.rx.hold /\ p.kind = "pixels" /\ p.frame \in Frames /\ p.chunk \in ChunkIds
  <2>1. process_packet(s, p) = process_pixels(s, p.frame, p.chunk)
    BY <1>5 DEF process_packet
  <2> QED BY <1>5, <2>1, PixelPath
<1> QED BY <1>1, <1>2, <1>3, <1>4, <1>5

\* The main loop's tick: the frame may be found whole, or stale.
LEMMA TickPath ==
    ASSUME TypeOK, ~enable, NEW s, CpuCard(s)
    PROVE  LET t == tick(s) IN CpuCard(t) /\ GlassMove(t, s) /\ SameName(t, s)
<1> DEFINE late == LatePalette(s)
           shown == present_done_frame(late)
           adopted == adopt_dma_frame(shown)
           merged == merge_dma_arrival(adopted)
<1>0. s \in Cards /\ ~s.rx.hw_filter_on
  BY DEF CpuCard
<1>1. tick(s) \in {adopted, present(merged), PresentStale(merged)}
  BY <1>0, Zenon DEF tick
<1>2. Kept(late, s) /\ SameFrame(late, s) /\ SameDisplay(late, s)
  BY <1>0, Late
<1>3. late \in Cards /\ CpuCard(late) /\ GlassMove(late, s) /\ SameName(late, s) /\ SameGlass(late, s)
  BY <1>2, SamePath DEF Kept, SameSettings, SameGlass, SameDisplay
<1> HIDE DEF late
<1>4. shown = late
  BY <1>3, DoneFrame
<1>5. adopted = late
  BY <1>3, <1>4, AdoptFrame
<1>6. merged = late
  BY <1>3, <1>5, MergeArrival
<1> HIDE DEF shown, adopted, merged
<1>7. PresentStale(late) \in {late, present(late)}
  BY <1>3, Stale
<1>8. tick(s) \in {late, present(late)}
  BY <1>1, <1>5, <1>6, <1>7
<1>9. CpuCard(present(late)) /\ GlassMove(present(late), s) /\ SameName(present(late), s)
  <2>1. /\ CpuCard(present(late)) /\ SameIdentity(present(late), late)
        /\ SameGlass(present(late), late) \/ \E f : Names(late, f) /\ Shows(present(late), late, f)
    BY <1>3, PresentPath
  <2>2. SameName(present(late), s)
    BY <1>3, <2>1, Zenon DEF SameName, SameIdentity
  <2>3. \A f : Names(late, f) => Names(s, f)
    BY <1>3, Zenon DEF Names, SameName
  <2>4. \A f : Shows(present(late), late, f) => Shows(present(late), s, f)
    BY <1>3, Zenon DEF Shows, SameGlass
  <2>5. SameGlass(present(late), late) => SameGlass(present(late), s)
    BY <1>3, Zenon DEF SameGlass
  <2> QED BY <2>1, <2>2, <2>3, <2>4, <2>5 DEF GlassMove
<1> QED BY <1>3, <1>8, <1>9

-----------------------------------------------------------------------------
(* The packet path's invariant.                                            *)

\* CpuCard of the variables, with the gateware asleep.
CpuState ==
    /\ ~enable /\ fsm = "IDLE" /\ ~auto_swap /\ ~rx.hw_filter_on
    /\ hub.active_buf = fb_base
    /\ rx.total_chunks # 0 => \E f \in Frames :
         /\ WireId[f] = rx.current_frame_id /\ TotalOf(f) = rx.total_chunks
         /\ Format[f] = rx.format
         /\ \A c \in rx.chunk_mask : \A p \in CoverOf(f, c) : fb[1 - fb_base][p] = f
\* Frames of another size have the wall's format.
StrayInv == \A i \in 1 .. Len(mac) : 
    mac[i].kind = "wrong size" => \E x \in Strays : mac[i].format = x.format
\* The inductive invariant behind PatchedFlip.
PathInv == OneTotal /\ RxInv /\ CpuState /\ StrayInv

\* The glass before and after a step, as the properties speak of it.
GlassAfter(f) == \A p \in Pixels : fb'[fb_base'][p] \in {f, fb[fb_base][p]}
\* The receiver's frame before or after the step.
NamedFrame(f) == f \in Frames /\ WireId[f] \in {rx.current_frame_id, rx'.current_frame_id}
\* What a step may do: to the glass, show one of these frames; to the receiver's
\* frame_id, take it from the packet it consumes.
PathMove ==
    /\ \/ fb_base' = fb_base /\ fb'[fb_base'] = fb[fb_base]
       \/ \E f : NamedFrame(f) /\ GlassAfter(f)
    /\ \/ rx'.current_frame_id = rx.current_frame_id
       \/ /\ mac # <<>> /\ mac' = Tail(mac) /\ Head(mac).kind = "pixels"
          /\ rx'.current_frame_id = WireId[Head(mac).frame]

\* The gateware is not looking at strays, and frames of their own id have totals
\* of their own.
LEMMA DistinctTotals ==
    ASSUME PacketPath, DistinctIds
    PROVE  OneTotal
<1>1. DmaNever
  BY DEF PacketPath, DmaNever
<1> QED BY <1>1 DEF DistinctIds, OneTotal, Announced

\* The handlers find the card as PathInv describes it.
LEMMA StateToCard ==
    ASSUME PathInv
    PROVE  \E s : /\ CpuCard(s) /\ s = Card /\ s.rx = rx /\ s.fb = fb /\ s.fb_base = fb_base
<1>1. PICK s \in Cards : /\ s = Card /\ s.rx = rx /\ s.fb = fb /\ s.fb_base = fb_base
                         /\ s.auto_swap = auto_swap /\ s.hub = hub
  BY CardTyped DEF PathInv, RxInv
<1>2. CpuCard(s)
  BY <1>1 DEF PathInv, RxInv, WellCounted, CpuState, CpuCard, Drawn, Names
<1> QED BY <1>1, <1>2

\* A handler on the packet path.
LEMMA HandlerPath ==
    ASSUME RxTypeOK, ~enable, fsm = "IDLE", NEW s, CpuCard(s), s.rx = rx, s.fb = fb, s.fb_base = fb_base,
           NEW t, CpuCard(t), GlassMove(t, s), Become(t), UNCHANGED dmaRest
    PROVE  /\ CpuState'
           /\ \/ fb_base' = fb_base /\ fb'[fb_base'] = fb[fb_base]
              \/ \E f : NamedFrame(f) /\ GlassAfter(f)
<1>1. /\ rx' = t.rx /\ hub' = t.hub /\ fb' = t.fb /\ fb_base' = t.fb_base /\ auto_swap' = t.auto_swap
  BY DEF Become
<1>2. enable' = enable /\ fsm' = fsm
  BY DEF dmaRest, dmaVars
<1>3. CpuState'
  BY <1>1, <1>2 DEF CpuState, CpuCard, Drawn, Names
<1> QED BY <1>1, <1>3 DEF GlassMove, SameGlass, Shows, Names, NamedFrame, GlassAfter

\* The gateware's side leaves the display and its own switches alone.
LEMMA GatePath ==
    ASSUME PacketPath, PathInv, [ReceiverNext]_allVars, ~CpuHandler
    PROVE  UNCHANGED <<fb, fb_base, enable, fsm, auto_swap>>
<1>0. ~enable /\ fsm = "IDLE"
  BY DEF PathInv, CpuState
<1>1. ASSUME SendChunk \/ DelayCopy \/ LosePacket \/ CutPacket \/ HardwareNext
      PROVE  UNCHANGED <<fb, fb_base, enable, fsm, auto_swap>>
  BY <1>0, <1>1 DEF SendChunk, DelayCopy, LosePacket, CutPacket, HardwareNext, SameFrameHeader,
       NewFrameHeader, CommitHeader, FinishPayload, AbandonPayload, IgnorePacket, dmaVars, csrVars, dispVars
<1>2. CASE RxSendChunk \/ RxDelayCopy \/ Gateware
  BY <1>1, <1>2 DEF RxSendChunk, RxDelayCopy, Gateware
<1>3. CASE SendPalette \/ LoseMacPacket \/ TimerTick \/ TimePasses \/ UNCHANGED allVars
           \/ \E x \in Strays : StrayPacket(x)
  BY <1>0, <1>3 DEF SendPalette, LoseMacPacket, TimerTick, TimePasses, allVars, StrayPacket, dmaAll
<1>4. CASE \E on \in BOOLEAN : api_hold_set(on) \/ api_dma_set(on)
  BY <1>4 DEF api_hold_set, api_dma_set, Knob, PacketPath
<1> QED BY <1>2, <1>3, <1>4, Zenon DEF ReceiverNext, Operator, CpuHandler

\* Strays keep the wall's format on the way through the MAC.
LEMMA StrayStep ==
    ASSUME RxTypeOK, StrayInv, MacStep
    PROVE  StrayInv'
<1>0. mac \in Seq(MacPackets)
  BY DEF RxTypeOK
<1>1. CASE mac' = mac
  BY <1>0, <1>1 DEF StrayInv
<1>2. CASE mac # <<>> /\ mac' = Tail(mac)
  <2>1. \A i \in 1 .. Len(mac') : i + 1 \in 1 .. Len(mac) /\ mac'[i] = mac[i + 1]
    BY <1>0, <1>2, MacTail
  <2> QED BY <2>1 DEF StrayInv
<1>3. CASE \E p \in MacPackets : /\ mac' = Append(mac, p)
                                 /\ p.kind = "wrong size" => \E x \in Strays : p.format = x.format
  <2>1. PICK p \in MacPackets : /\ mac' = Append(mac, p)
                                /\ p.kind = "wrong size" => \E x \in Strays : p.format = x.format
    BY <1>3
  <2>2. mac' = Append(mac, p)
    BY <2>1
  <2>3. /\ Len(mac') = Len(mac) + 1 /\ Len(mac) \in Nat
        /\ \A i \in 1 .. Len(mac') : mac'[i] = IF i = Len(mac) + 1 THEN p ELSE mac[i]
    BY <1>0, <2>2, MacAppend
  <2>4. ASSUME NEW i \in 1 .. Len(mac'), mac'[i].kind = "wrong size"
        PROVE  \E x \in Strays : mac'[i].format = x.format
    <3>1. CASE i = Len(mac) + 1
      BY <2>1, <2>3, <2>4, <3>1
    <3>2. CASE i # Len(mac) + 1
      <4>1. i \in 1 .. Len(mac) /\ mac'[i] = mac[i]
        BY <2>3, <3>2
      <4> QED BY <2>4, <4>1 DEF StrayInv
    <3> QED BY <3>1, <3>2
  <2> QED BY <2>4 DEF StrayInv
<1> QED BY <1>1, <1>2, <1>3 DEF MacStep

\* Every step preserves PathInv.
LEMMA PathStep ==
    ASSUME PacketPath, DistinctIds, PathInv, [ReceiverNext]_allVars
    PROVE  PathInv' /\ PathMove
<1>0. /\ RxInv /\ RxInv' /\ RxTypeOK /\ TypeOK /\ GateInv /\ MacInv /\ CpuState /\ StrayInv /\ StrayInv'
      /\ ~enable /\ fsm = "IDLE" /\ mac \in Seq(MacPackets)
  BY RxInvStep, MacSteps, StrayStep DEF PathInv, RxInv, RxTypeOK, CpuState
<1>c. PICK s : CpuCard(s) /\ s = Card /\ s.rx = rx /\ s.fb = fb /\ s.fb_base = fb_base
  BY StateToCard
<1>1. ASSUME NEW t, CpuCard(t), GlassMove(t, s), Become(t), UNCHANGED dmaRest,
             \/ SameName(t, s)
             \/ /\ mac # <<>> /\ mac' = Tail(mac) /\ Head(mac).kind = "pixels"
                /\ Names(t, Head(mac).frame)
      PROVE  PathInv' /\ PathMove
  <2>1. rx' = t.rx
    BY <1>1 DEF Become
  <2>2. CpuState' /\ \/ fb_base' = fb_base /\ fb'[fb_base'] = fb[fb_base]
                     \/ \E f : NamedFrame(f) /\ GlassAfter(f)
    BY <1>0, <1>c, <1>1, HandlerPath
  <2> QED BY <1>0, <1>c, <1>1, <2>1, <2>2 DEF PathInv, PathMove, SameName, Names
<1>2. CASE ~CpuHandler
  <2>1. UNCHANGED <<fb, fb_base, enable, fsm, auto_swap>>
    BY <1>2, GatePath
  <2>2. /\ hub' = hub /\ rx'.hw_filter_on = rx.hw_filter_on
        /\ rx'.current_frame_id = rx.current_frame_id /\ rx'.total_chunks = rx.total_chunks
        /\ rx'.chunk_mask = rx.chunk_mask /\ rx'.format = rx.format
    BY <1>0, <1>2, GateSteps DEF GateSide
  <2>3. CpuState'
    BY <1>0, <2>1, <2>2 DEF CpuState
  <2> QED BY <1>0, <2>1, <2>2, <2>3 DEF PathInv, PathMove
<1>3. CASE IsrPacket
  <2>1. mac # <<>> /\ mac' = Tail(mac) /\ UNCHANGED dmaRest /\ Become(process_packet(Card, Head(mac)))
    BY <1>3 DEF IsrPacket
  <2>2. PICK p \in MacPackets : p = Head(mac) /\ p = mac[1] /\ 1 \in 1 .. Len(mac)
    BY <1>0, <2>1, MacTail
  <2>3. /\ p.kind = "pixels" => p.chunk < TotalOf(p.frame)
        /\ p.kind = "wrong size" => \E x \in Strays : p.format = x.format
    BY <1>0, <2>2 DEF MacInv, StrayInv
  <2>4. PICK t : t = process_packet(s, p)
    OBVIOUS
  <2>5. /\ CpuCard(t) /\ GlassMove(t, s)
        /\ SameName(t, s) \/ (p.kind = "pixels" /\ Names(t, p.frame))
    BY <1>0, <1>c, <2>3, <2>4, PacketPathPacket
  <2>6. Become(t)
    BY <1>c, <2>1, <2>2, <2>4, Zenon
  <2> QED BY <1>1, <2>1, <2>2, <2>5, <2>6
<1>4. CASE bitmap_present_tick \/ bitmap_tick
  <2>1. PICK u \in {present_done_now(s), tick(s)} : Become(AfterPresent(u)) /\ UNCHANGED dmaRest
    BY <1>4, <1>c, Zenon DEF bitmap_present_tick, bitmap_tick
  <2>2. present_done_now(s) = s
    BY <1>c DEF present_done_now, CpuCard
  <2>3. CpuCard(s) /\ GlassMove(s, s) /\ SameName(s, s)
    BY <1>c DEF GlassMove, SameGlass, SameName
  <2>4. CpuCard(u) /\ GlassMove(u, s) /\ SameName(u, s)
    BY <1>0, <1>c, <2>1, <2>2, <2>3, TickPath
  <2>5. PICK t : t = AfterPresent(u)
    OBVIOUS
  <2>6. t \in Cards /\ t.rx = u.rx /\ SameDisplay(t, u)
    BY <2>4, <2>5, After DEF CpuCard
  <2>7. CpuCard(t)
    BY <2>4, <2>6 DEF CpuCard, Drawn, Names, SameDisplay
  <2>8. GlassMove(t, s) /\ SameName(t, s)
    BY <2>4, <2>6 DEF GlassMove, SameGlass, Shows, Names, SameName, SameDisplay
  <2> QED BY <1>1, <2>1, <2>5, <2>7, <2>8
<1>5. CASE \E on \in BOOLEAN : api_cpu_pixels(on)
  <2>1. PICK on \in BOOLEAN : api_cpu_pixels(on)
    BY <1>5
  <2>2. s \in Cards
    BY <1>c DEF CpuCard
  <2> DEFINE c == [s EXCEPT !.rx.cpu_pixels = on]
  <2>3. /\ c \in Cards /\ SameFrame(c, s) /\ SameDisplay(c, s)
        /\ c.rx.hw_filter_on = s.rx.hw_filter_on
    BY <2>2, SettingUpdate, Zenon
  <2>4. UNCHANGED dmaRest /\ \E t \in {c, reset_frame(c)} : Become(t)
    BY <1>c, <2>1, Zenon DEF api_cpu_pixels, forget_frame
  <2> HIDE DEF c
  <2>5. CpuCard(c) /\ GlassMove(c, s) /\ SameName(c, s) /\ SameGlass(c, s)
    BY <1>c, <2>3, SamePath DEF SameGlass, SameDisplay
  <2>6. PICK d : d = reset_frame(c)
    OBVIOUS
  <2>7. CpuCard(d) /\ GlassMove(d, c) /\ SameName(d, c)
    BY <2>5, <2>6, ForgetPath
  <2>8. GlassMove(d, s) /\ SameName(d, s)
    <3>1. SameName(d, s)
      BY <2>5, <2>7, Zenon DEF SameName
    <3>2. \A f : Names(c, f) => Names(s, f)
      BY <2>5, Zenon DEF Names, SameName
    <3>3. \A f : Shows(d, c, f) => Shows(d, s, f)
      BY <2>5, Zenon DEF Shows, SameGlass
    <3>4. SameGlass(d, c) => SameGlass(d, s)
      BY <2>5, Zenon DEF SameGlass
    <3> QED BY <2>7, <3>1, <3>2, <3>3, <3>4, Zenon DEF GlassMove
  <2>9. Become(c) \/ Become(d)
    BY <2>4, <2>6, Zenon
  <2> QED BY <1>1, <2>4, <2>5, <2>7, <2>8, <2>9
<1>6. CASE \E on \in BOOLEAN : api_hw_filter(on) \/ api_auto_swap(on)
  BY <1>6 DEF api_hw_filter, api_auto_swap, Knob, PacketPath
<1> QED BY <1>2, <1>3, <1>4, <1>5, <1>6, Zenon DEF CpuHandler

\* It holds at boot.
LEMMA PathInit ==
    ASSUME PacketPath, DistinctIds, ReceiverInit
    PROVE  PathInv
<1>1. RxInv
  BY RxInvInit
<1>2. /\ ~enable /\ fsm = "IDLE" /\ ~auto_swap /\ fb_base = 1
  BY DEF ReceiverInit, CardInit, PacketPath
<1>3. ~rx.hw_filter_on /\ rx.total_chunks = 0 /\ hub.active_buf = 1 /\ mac = <<>>
  BY DEF ReceiverInit, PacketPath
<1>4. CpuState
  BY <1>2, <1>3 DEF CpuState
<1>5. StrayInv
  <2>1. 1 .. Len(mac) = {}
    BY <1>3
  <2> QED BY <2>1 DEF StrayInv
<1> QED BY <1>1, <1>4, <1>5, DistinctTotals DEF PathInv

\* On the packet path every flip the CPU places -- at a frame change, on the last
\* chunk, on a tick that finds the frame whole or stale -- shows, pixel by pixel,
\* the presented frame or what the glass showed before: repair_from_front patches
\* exactly what is missing.
THEOREM FlipsArePatched ==
    ASSUME PacketPath, DistinctIds
    PROVE  ReceiverSpec => PatchedFlip
<1> DEFINE Act == ~auto_swap /\ fb_base' # fb_base =>
                    \E f \in Frames : \A p \in Pixels : fb'[fb_base'][p] \in {f, fb[fb_base][p]}
<1>1. ReceiverInit => PathInv
  BY PathInit
<1>2. PathInv /\ [ReceiverNext]_allVars => PathInv'
  BY PathStep
<1>3. PathInv /\ [ReceiverNext]_allVars => [Act]_allVars
  BY PathStep DEF PathMove, NamedFrame, GlassAfter
<1> QED BY <1>1, <1>2, <1>3, PTL DEF ReceiverSpec, PatchedFlip

-----------------------------------------------------------------------------
(* Order on the packet path.                                               *)

\* Frame f is the one the receiver's frame_id names.
Named(f) == f \in Frames /\ WireId[f] = rx.current_frame_id
\* Pixel packets wait in the order they were sent ...
QueueInv ==
    /\ \A i, j \in 1 .. Len(mac) :
         i < j /\ mac[i].kind = "pixels" /\ mac[j].kind = "pixels" => mac[i].frame <= mac[j].frame
    /\ \A i \in 1 .. Len(mac) : mac[i].kind = "pixels" => mac[i].frame <= nextFrame
\* ... none of them belongs to a frame older than the one being assembled ...
NamedInv == \A f : Named(f) =>
    /\ f <= nextFrame
    /\ \A i \in 1 .. Len(mac) : mac[i].kind = "pixels" => f <= mac[i].frame
\* ... and no pixel of the glass is newer than that one.
ShownInv == \A p \in Pixels : fb[fb_base][p] \in Frames =>
    \E f : Named(f) /\ fb[fb_base][p] <= f
\* The inductive invariant behind PixelsNeverGoBack.
CpuOrder == QueueInv /\ NamedInv /\ ShownInv

\* The sender only moves on.
LEMMA SenderMovesOn ==
    ASSUME RxTypeOK, [ReceiverNext]_allVars
    PROVE  nextFrame \in Nat /\ nextFrame' \in Nat /\ nextFrame <= nextFrame'
<1>0. nextFrame \in Nat
  BY DEF RxTypeOK, TypeOK
<1>1. ASSUME [OverflowNext]_dmaAll PROVE nextFrame' = nextFrame \/ nextFrame' = nextFrame + 1
  BY <1>1 DEF OverflowNext, DmaNext, HardwareNext, SendChunk, LosePacket, DelayCopy, CutPacket,
       SameFrameHeader, NewFrameHeader, FinishPayload, AbandonPayload, IgnorePacket, SetEnable,
       sendVars, dmaAll
<1>2. ASSUME StraySide PROVE nextFrame' = nextFrame
  BY <1>2 DEF StraySide, StrayHeader, sendVars
<1>3. nextFrame' = nextFrame \/ nextFrame' = nextFrame + 1
  BY <1>1, <1>2, Sides DEF GateSide, CpuSide, dmaRest
<1> QED BY <1>0, <1>3

\* What a pixel packet in the MAC is made of.
LEMMA MacFrames ==
    ASSUME RxTypeOK, NEW i \in 1 .. Len(mac), mac[i].kind = "pixels"
    PROVE  mac[i].frame \in Frames /\ mac[i].frame \in Int
<1>1. mac[i] \in MacPackets
  BY DEF RxTypeOK
<1> QED BY <1>1, FrameNumbers DEF MacPackets

\* How the packets waiting change, with a link that keeps their order.
LEMMA QueueStep ==
    ASSUME RxTypeOK, ~Delays, QueueInv, [ReceiverNext]_allVars,
           NEW f \in Int, f <= nextFrame,
           \A i \in 1 .. Len(mac) : mac[i].kind = "pixels" => f <= mac[i].frame
    PROVE  /\ QueueInv'
           /\ \A i \in 1 .. Len(mac') : mac'[i].kind = "pixels" => f <= mac'[i].frame
<1>0. /\ mac \in Seq(MacPackets) /\ Len(mac) \in Nat /\ MacStep
      /\ nextFrame \in Nat /\ nextFrame' \in Nat /\ nextFrame <= nextFrame'
  BY MacSteps, SenderMovesOn DEF RxTypeOK
<1>1. CASE mac' = mac
  <2>1. \A i \in 1 .. Len(mac) : mac[i].kind = "pixels" => mac[i].frame <= nextFrame'
    BY <1>0, MacFrames DEF QueueInv
  <2> QED BY <1>1, <2>1 DEF QueueInv
<1>2. CASE mac # <<>> /\ mac' = Tail(mac)
  <2>1. /\ Len(mac') = Len(mac) - 1
        /\ \A i \in 1 .. Len(mac') : mac'[i] = mac[i + 1] /\ i + 1 \in 1 .. Len(mac)
    BY <1>0, <1>2, MacTail
  <2>2. \A i \in 1 .. Len(mac) : mac[i].kind = "pixels" => mac[i].frame <= nextFrame'
    BY <1>0, MacFrames DEF QueueInv
  <2>3. \A i, j \in 1 .. Len(mac') :
          i < j /\ mac'[i].kind = "pixels" /\ mac'[j].kind = "pixels" => mac'[i].frame <= mac'[j].frame
    <3>1. SUFFICES ASSUME NEW i \in 1 .. Len(mac'), NEW j \in 1 .. Len(mac'), i < j,
                          mac'[i].kind = "pixels", mac'[j].kind = "pixels"
                   PROVE  mac'[i].frame <= mac'[j].frame
      OBVIOUS
    <3>2. i + 1 \in 1 .. Len(mac) /\ j + 1 \in 1 .. Len(mac) /\ i + 1 < j + 1
      BY <3>1, <2>1
    <3>3. mac'[i] = mac[i + 1] /\ mac'[j] = mac[j + 1]
      BY <2>1
    <3> QED BY <3>1, <3>2, <3>3 DEF QueueInv
  <2> QED BY <2>1, <2>2, <2>3 DEF QueueInv
<1>3. CASE \E p \in MacPackets : mac' = Append(mac, p) /\ (p.kind = "pixels" => p.frame = nextFrame)
  <2>1. PICK p \in MacPackets : mac' = Append(mac, p) /\ (p.kind = "pixels" => p.frame = nextFrame)
    BY <1>3
  <2>2. mac' = Append(mac, p)
    BY <2>1
  <2>3. /\ Len(mac') = Len(mac) + 1
        /\ \A i \in 1 .. Len(mac') : mac'[i] = IF i = Len(mac) + 1 THEN p ELSE mac[i]
    BY <1>0, <2>2, MacAppend
  <2>4. ASSUME NEW i \in 1 .. Len(mac')
        PROVE  (i = Len(mac) + 1 /\ mac'[i] = p) \/ (i \in 1 .. Len(mac) /\ mac'[i] = mac[i])
    BY <1>0, <2>3
  <2>5. ASSUME NEW i \in 1 .. Len(mac'), mac'[i].kind = "pixels"
        PROVE  mac'[i].frame <= nextFrame /\ mac'[i].frame <= nextFrame' /\ f <= mac'[i].frame
    <3>1. CASE i = Len(mac) + 1 /\ mac'[i] = p
      BY <1>0, <2>1, <2>5, <3>1
    <3>2. CASE i \in 1 .. Len(mac) /\ mac'[i] = mac[i]
      BY <1>0, <2>5, <3>2, MacFrames DEF QueueInv
    <3> QED BY <2>4, <3>1, <3>2
  <2>6. ASSUME NEW i \in 1 .. Len(mac'), NEW j \in 1 .. Len(mac'), i < j,
               mac'[i].kind = "pixels", mac'[j].kind = "pixels"
        PROVE  mac'[i].frame <= mac'[j].frame
    <3>1. CASE j = Len(mac) + 1 /\ mac'[j] = p
      BY <2>1, <2>5, <2>6, <3>1
    <3>2. CASE j \in 1 .. Len(mac) /\ mac'[j] = mac[j]
      <4>1. i \in 1 .. Len(mac) /\ mac'[i] = mac[i]
        BY <1>0, <2>4, <2>6, <3>2
      <4> QED BY <2>6, <3>2, <4>1 DEF QueueInv
    <3> QED BY <2>4, <3>1, <3>2
  <2> QED BY <2>5, <2>6 DEF QueueInv
<1> QED BY <1>0, <1>1, <1>2, <1>3 DEF MacStep

\* The order of frames is kept from the MAC to the glass.
LEMMA OrderPath ==
    ASSUME PacketPath, DistinctIds, ~Delays, PathInv, CpuOrder, [ReceiverNext]_allVars
    PROVE  /\ CpuOrder'
           /\ \A p \in Pixels : fb[fb_base][p] \in Frames => fb'[fb_base'][p] >= fb[fb_base][p]
<1>0. /\ RxTypeOK /\ PathMove /\ QueueInv /\ NamedInv /\ ShownInv /\ mac \in Seq(MacPackets)
      /\ nextFrame \in Nat /\ nextFrame' \in Nat /\ nextFrame <= nextFrame'
  BY PathStep, SenderMovesOn DEF PathInv, RxInv, RxTypeOK, CpuOrder
<1>1. \A f, g : Named(f) /\ Named(g) => f = g
  BY DEF Named, DistinctIds
<1>2. \A f : Named(f) => f \in Int
  BY FrameNumbers DEF Named
<1>q. QueueInv'
  <2>1. 0 \in Int /\ 0 <= nextFrame
    BY <1>0
  <2>2. \A i \in 1 .. Len(mac) : mac[i].kind = "pixels" => 0 <= mac[i].frame
    <3> SUFFICES ASSUME NEW i \in 1 .. Len(mac), mac[i].kind = "pixels" PROVE 0 <= mac[i].frame
      OBVIOUS
    <3>1. mac[i].frame \in Frames
      BY <1>0, MacFrames
    <3> QED BY <3>1 DEF Frames
  <2> QED BY <1>0, <2>1, <2>2, QueueStep
<1>3. CASE rx'.current_frame_id = rx.current_frame_id
  <2>1. \A f : Named(f)' <=> Named(f)
    BY <1>3 DEF Named
  <2>2. ASSUME NEW f, Named(f)
        PROVE  /\ f <= nextFrame'
               /\ \A i \in 1 .. Len(mac') : mac'[i].kind = "pixels" => f <= mac'[i].frame
    <3>1. f \in Int /\ f <= nextFrame
      BY <1>0, <1>2, <2>2 DEF NamedInv
    <3> QED BY <1>0, <2>2, <3>1, QueueStep DEF NamedInv
  <2>3. NamedInv'
    BY <2>1, <2>2 DEF NamedInv
  <2>4. ASSUME NEW p \in Pixels
        PROVE  \/ fb'[fb_base'][p] = fb[fb_base][p]
               \/ \E g : Named(g) /\ fb'[fb_base'][p] = g
    BY <1>0, <1>3 DEF PathMove, NamedFrame, GlassAfter, Named
  <2>5. ASSUME NEW p \in Pixels, fb'[fb_base'][p] \in Frames
        PROVE  \E f : Named(f) /\ fb'[fb_base'][p] <= f
    <3>1. CASE fb'[fb_base'][p] = fb[fb_base][p]
      BY <1>0, <2>5, <3>1 DEF ShownInv
    <3>2. CASE \E g : Named(g) /\ fb'[fb_base'][p] = g
      BY <1>2, <3>2
    <3> QED BY <2>4, <3>1, <3>2
  <2>6. ShownInv'
    BY <2>1, <2>5 DEF ShownInv
  <2>7. ASSUME NEW p \in Pixels, fb[fb_base][p] \in Frames
        PROVE  fb'[fb_base'][p] >= fb[fb_base][p]
    <3>1. PICK f : Named(f) /\ fb[fb_base][p] <= f
      BY <1>0, <2>7 DEF ShownInv
    <3>2. fb[fb_base][p] \in Int
      BY <2>7, FrameNumbers
    <3> QED BY <1>1, <1>2, <2>4, <3>1, <3>2
  <2> QED BY <1>q, <2>3, <2>6, <2>7 DEF CpuOrder
<1>4. CASE /\ mac # <<>> /\ mac' = Tail(mac) /\ Head(mac).kind = "pixels"
           /\ rx'.current_frame_id = WireId[Head(mac).frame]
  <2>1. /\ Head(mac) = mac[1] /\ 1 \in 1 .. Len(mac) /\ Len(mac') = Len(mac) - 1 /\ Len(mac) \in Nat
        /\ \A i \in 1 .. Len(mac') : mac'[i] = mac[i + 1] /\ i + 1 \in 1 .. Len(mac)
    BY <1>0, <1>4, MacTail
  <2>2. PICK h : h = Head(mac).frame
    OBVIOUS
  <2>3. h = mac[1].frame /\ h \in Frames /\ h \in Int /\ h <= nextFrame
    BY <1>0, <1>4, <2>1, <2>2, MacFrames DEF QueueInv
  <2>4. \A f : Named(f) => f <= h
    BY <1>0, <1>4, <2>1, <2>2 DEF NamedInv
  <2>5. \A f : Named(f)' <=> f = h
    BY <1>4, <2>2, <2>3 DEF Named, DistinctIds
  <2>6. \A i \in 1 .. Len(mac') : mac'[i].kind = "pixels" => h <= mac'[i].frame
    BY <1>0, <1>4, <2>1, <2>3 DEF QueueInv
  <2>7. NamedInv'
    BY <1>0, <2>3, <2>5, <2>6 DEF NamedInv
  <2>8. ASSUME NEW p \in Pixels
        PROVE  \/ fb'[fb_base'][p] = fb[fb_base][p]
               \/ \E g : (Named(g) \/ g = h) /\ fb'[fb_base'][p] = g
    <3>1. CASE fb_base' = fb_base /\ fb'[fb_base'] = fb[fb_base]
      BY <3>1
    <3>2. CASE \E g : NamedFrame(g) /\ GlassAfter(g)
      <4>1. PICK g : NamedFrame(g) /\ GlassAfter(g)
        BY <3>2
      <4>2. Named(g) \/ g = h
        BY <1>4, <2>2, <2>3, <4>1 DEF NamedFrame, Named, DistinctIds
      <4> QED BY <4>1, <4>2 DEF GlassAfter
    <3> QED BY <1>0, <3>1, <3>2 DEF PathMove
  <2>9. ASSUME NEW p \in Pixels, fb'[fb_base'][p] \in Frames
        PROVE  fb'[fb_base'][p] <= h
    <3>1. CASE fb'[fb_base'][p] = fb[fb_base][p]
      <4>1. PICK f : Named(f) /\ fb[fb_base][p] <= f
        BY <1>0, <2>9, <3>1 DEF ShownInv
      <4>2. f \in Int /\ f <= h /\ fb[fb_base][p] \in Int
        BY <1>2, <2>4, <2>9, <3>1, <4>1, FrameNumbers
      <4> QED BY <2>3, <3>1, <4>1, <4>2
    <3>2. CASE \E g : (Named(g) \/ g = h) /\ fb'[fb_base'][p] = g
      BY <2>3, <2>4, <3>2
    <3> QED BY <2>8, <3>1, <3>2
  <2>10. ShownInv'
    BY <2>5, <2>9 DEF ShownInv
  <2>11. ASSUME NEW p \in Pixels, fb[fb_base][p] \in Frames
         PROVE  fb'[fb_base'][p] >= fb[fb_base][p]
    <3>1. PICK f : Named(f) /\ fb[fb_base][p] <= f
      BY <1>0, <2>11 DEF ShownInv
    <3>2. fb[fb_base][p] \in Int /\ f \in Int /\ f <= h
      BY <1>2, <2>4, <2>11, <3>1, FrameNumbers
    <3> QED BY <1>1, <2>3, <2>8, <3>1, <3>2
  <2> QED BY <1>q, <2>7, <2>10, <2>11 DEF CpuOrder
<1> QED BY <1>0, <1>3, <1>4 DEF PathMove

\* At boot nothing is queued and no frame is on the glass.
LEMMA CpuOrderInit ==
    ASSUME ReceiverInit
    PROVE  CpuOrder
<1>1. /\ mac = <<>> /\ rx.current_frame_id = NoId /\ fb_base = 1
      /\ fb = [h \in Halves |-> [p \in Pixels |-> IF h = 1 THEN Boot ELSE Undrawn]]
  BY DEF ReceiverInit, CardInit
<1>2. \A f : ~Named(f)
  BY <1>1, PixelDmaAssumption DEF Named, NoId
<1>3. \A p \in Pixels : fb[fb_base][p] = Boot
  BY <1>1 DEF Halves
<1>4. Boot \notin Frames
  BY DEF Frames, Boot
<1> QED BY <1>1, <1>2, <1>3, <1>4 DEF CpuOrder, QueueInv, NamedInv, ShownInv

\* While the network keeps packets in order, no flip and no repair of the CPU
\* ever takes a pixel of the glass back to an older frame: chunks lost or
\* duplicated, frames dropped, presented late or twice in one handler included.
THEOREM PixelsOnlyAdvance ==
    ASSUME PacketPath, DistinctIds, ~Delays
    PROVE  ReceiverSpec => PixelsNeverGoBack
<1> DEFINE Act == \A p \in Pixels : fb[fb_base][p] \in Frames =>
                    fb'[fb_base'][p] >= fb[fb_base][p]
<1>1. ReceiverInit => PathInv /\ CpuOrder
  BY PathInit, CpuOrderInit
<1>2. PathInv /\ CpuOrder /\ [ReceiverNext]_allVars => PathInv' /\ CpuOrder'
  BY PathStep, OrderPath
<1>3. PathInv /\ CpuOrder /\ [ReceiverNext]_allVars => [Act]_allVars
  BY OrderPath
<1> QED BY <1>1, <1>2, <1>3, PTL DEF ReceiverSpec, PixelsNeverGoBack
=============================================================================
