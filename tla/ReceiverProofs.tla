--------------------------- MODULE ReceiverProofs ---------------------------
(***************************************************************************)
(* Theorems of BitmapReceiver: type correctness and the chunk count for    *)
(* every configuration, and the filter path, in which the gateware         *)
(* assembles and flips and the firmware only follows it.                   *)
(***************************************************************************)
EXTENDS BitmapReceiver, PixelDmaProofs

\* The records the handlers work on.
Cards == [rx : Receivers, hub : Hub75s, fb_base : Halves, auto_swap : BOOLEAN,
          fb : [Halves -> [Pixels -> Contents \cup {Torn}]], presented : BOOLEAN]

\* Of two cards: the same switches,
SameSettings(t, s) ==
    /\ t.rx.hold = s.rx.hold /\ t.rx.hw_filter_on = s.rx.hw_filter_on
    /\ t.rx.cpu_pixels = s.rx.cpu_pixels
\* the same frame as far as it arrived,
SameFrame(t, s) ==
    /\ t.rx.current_frame_id = s.rx.current_frame_id /\ t.rx.total_chunks = s.rx.total_chunks
    /\ t.rx.chunk_mask = s.rx.chunk_mask /\ t.rx.received = s.rx.received
    /\ t.rx.format = s.rx.format
\* the same framebuffer and flip.
SameDisplay(t, s) ==
    /\ t.fb = s.fb /\ t.fb_base = s.fb_base /\ t.auto_swap = s.auto_swap
    /\ t.hub.active_buf = s.hub.active_buf
\* While the flip stays with the gateware, so do the framebuffer and the flip.
HandsOff(t, s) == t.auto_swap => s.auto_swap /\ t.fb = s.fb /\ t.fb_base = s.fb_base
\* The card assembles no frame.
NoFrame(t) == t.rx.chunk_mask = {} /\ t.rx.total_chunks = 0 /\ t.rx.received = 0

-----------------------------------------------------------------------------
\* The DMA is off and nobody turns it on.
DmaNever == ~DmaOn /\ "dma" \notin Knobs /\ "hold" \notin Knobs

\* A frame the gateware may meet, by its frame_id and number of chunks: one of
\* the sender's or a stray.
Announced(id, total) ==
    \/ \E f \in Frames : WireId[f] = id /\ TotalOf(f) = total
    \/ ~DmaNever /\ \E x \in Strays : x.frame_id = id /\ x.total_chunks = total

\* Those that travel under one frame_id have one number of chunks, and strays
\* are chunks of their frames.
OneTotal ==
    /\ \A id, m, n \in Nat : Announced(id, m) /\ Announced(id, n) => m = n
    /\ DmaNever \/ \A x \in Strays : x.chunk < x.total_chunks

\* What the gateware holds is a frame announced to it.
GateFrame ==
    /\ frame_id # 0 \/ total_chunks # 0 => Announced(frame_id, total_chunks)
    /\ fsm = "PIX" => frame_id # 0 /\ pix.chunk < total_chunks
    /\ arrival \subseteq 0 .. total_chunks - 1

\* The wire holds no chunks no frame has,
GateInv ==
    /\ \A i \in 1 .. Len(wire) : wire[i].chunk < TotalOf(wire[i].frame)
    /\ OneTotal => GateFrame

\* nor does the MAC.
MacInv == \A i \in 1 .. Len(mac) :
    mac[i].kind = "pixels" => mac[i].chunk < TotalOf(mac[i].frame)

\* Nobody turned the DMA on who may not.
EnableInv == enable => ~DmaNever

\* What the CPU holds is an announced frame, and it counts what it has of it.
CountInv(r) ==
    /\ r.total_chunks # 0 => Announced(r.current_frame_id, r.total_chunks)
    /\ r.chunk_mask \subseteq 0 .. r.total_chunks - 1
    /\ r.received = Cardinality(r.chunk_mask)

\* It counts what it has whatever shares a frame_id with its frame.
WellCounted(r) == r.received = Cardinality(r.chunk_mask) /\ (OneTotal => CountInv(r))

\* The inductive invariant behind MaskCounts and OnlyOwnChunks.
RxInv == RxTypeOK /\ GateInv /\ MacInv /\ EnableInv /\ WellCounted(rx)

\* The parts of a card the handlers look at.
LEMMA CardParts ==
    ASSUME NEW s \in Cards
    PROVE  /\ s.rx \in Receivers /\ s.hub \in Hub75s /\ s.fb_base \in Halves
           /\ s.auto_swap \in BOOLEAN /\ s.fb \in [Halves -> [Pixels -> Contents \cup {Torn}]]
           /\ s.hub.active_buf \in Halves /\ s.hub.bank \in [Halves -> Palettes]
           /\ s.hub.current_banks \subseteq Halves /\ s.hub.palette_shadow \in Palettes
           /\ 1 - s.fb_base \in Halves /\ 1 - s.hub.active_buf \in Halves
<1>1. /\ s.rx \in Receivers /\ s.hub \in Hub75s /\ s.fb_base \in Halves
      /\ s.auto_swap \in BOOLEAN /\ s.fb \in [Halves -> [Pixels -> Contents \cup {Torn}]]
  BY DEF Cards
<1>2. /\ s.hub.active_buf \in Halves /\ s.hub.bank \in [Halves -> Palettes]
      /\ s.hub.current_banks \subseteq Halves /\ s.hub.palette_shadow \in Palettes
  BY <1>1 DEF Hub75s
<1> QED BY <1>1, <1>2, OtherHalf

\* swap_buffers displays the half it drew into.
LEMMA SwapBuffers ==
    ASSUME NEW s \in Cards
    PROVE  /\ swap_buffers(s) \in Cards
           /\ swap_buffers(s).rx = s.rx /\ swap_buffers(s).fb = s.fb
           /\ swap_buffers(s).fb_base = 1 - s.hub.active_buf
           /\ swap_buffers(s).auto_swap = s.auto_swap
           /\ swap_buffers(s).hub.active_buf = 1 - s.hub.active_buf
<1>1. PICK h \in Halves : h = 1 - s.hub.active_buf
  BY CardParts
<1> QED BY <1>1 DEF swap_buffers, Cards, Hub75s

\* sync_buffers_from_hw only follows the gateware.
LEMMA SyncBuffers ==
    ASSUME NEW s \in Cards
    PROVE  /\ sync_buffers_from_hw(s) \in Cards
           /\ sync_buffers_from_hw(s).rx = s.rx /\ sync_buffers_from_hw(s).fb = s.fb
           /\ sync_buffers_from_hw(s).fb_base = s.fb_base
           /\ sync_buffers_from_hw(s).auto_swap = s.auto_swap
BY DEF sync_buffers_from_hw, Cards, Hub75s

\* A palette bank holds palettes.
LEMMA BankType ==
    ASSUME NEW b \in [Halves -> Palettes], NEW h \in Halves, NEW p \in Palettes
    PROVE  [b EXCEPT ![h] = p] \in [Halves -> Palettes]
OBVIOUS

\* Palette writes leave the display and the receiver alone,
LEMMA SetPalette ==
    ASSUME NEW s \in Cards, NEW p \in Palettes
    PROVE  /\ set_palette(s, p) \in Cards
           /\ set_palette(s, p).rx = s.rx /\ SameDisplay(set_palette(s, p), s)
<1>1. back_palette_bank(s) \in Halves
  BY CardParts DEF back_palette_bank
<1>2. [s.hub.bank EXCEPT ![back_palette_bank(s)] = p] \in [Halves -> Palettes]
  BY <1>1, BankType, CardParts
<1>3. ASSUME NEW h \in Halves, NEW b \in [Halves -> Palettes]
      PROVE  LET t == [s EXCEPT !.hub.palette_shadow = p, !.hub.bank = b, !.hub.current_banks = {h}]
             IN t \in Cards /\ t.rx = s.rx /\ SameDisplay(t, s)
  BY DEF Cards, Hub75s, SameDisplay
<1> QED BY <1>1, <1>2, <1>3, Zenon DEF set_palette

\* so do the catch-up after a present
LEMMA SyncPalette ==
    ASSUME NEW s \in Cards
    PROVE  /\ sync_palette_bank(s) \in Cards
           /\ sync_palette_bank(s).rx = s.rx /\ SameDisplay(sync_palette_bank(s), s)
<1>1. back_palette_bank(s) \in Halves
  BY CardParts DEF back_palette_bank
<1>2. [s.hub.bank EXCEPT ![back_palette_bank(s)] = s.hub.palette_shadow] \in [Halves -> Palettes]
  BY <1>1, BankType, CardParts
<1>3. ASSUME NEW h \in Halves, NEW b \in [Halves -> Palettes]
      PROVE  LET t == [s EXCEPT !.hub.bank = b, !.hub.current_banks = @ \cup {h}]
             IN t \in Cards /\ t.rx = s.rx /\ SameDisplay(t, s)
  BY DEF Cards, Hub75s, SameDisplay
<1>4. s \in Cards /\ s.rx = s.rx /\ SameDisplay(s, s)
  BY DEF SameDisplay
<1>5. CASE back_palette_bank(s) \in s.hub.current_banks
  BY <1>4, <1>5, Zenon DEF sync_palette_bank
<1>6. CASE back_palette_bank(s) \notin s.hub.current_banks
  BY <1>1, <1>2, <1>3, <1>6, Zenon DEF sync_palette_bank
<1> QED BY <1>5, <1>6

\* and the output mode.
LEMMA SetMode ==
    ASSUME NEW s \in Cards, NEW i
    PROVE  /\ set_mode(s, i) \in Cards
           /\ set_mode(s, i).rx = s.rx /\ SameDisplay(set_mode(s, i), s)
BY DEF set_mode, Cards, Hub75s, SameDisplay

\* Pixels are only written to the half that is not active.
LEMMA OverwriteEffect ==
    ASSUME NEW s \in Cards, NEW Q, NEW pic \in [Pixels -> Contents \cup {Torn}]
    PROVE  /\ Overwrite(s, Q, pic) \in Cards
           /\ Overwrite(s, Q, pic).rx = s.rx /\ Overwrite(s, Q, pic).hub = s.hub
           /\ Overwrite(s, Q, pic).fb_base = s.fb_base
           /\ Overwrite(s, Q, pic).auto_swap = s.auto_swap
           /\ Overwrite(s, Q, pic).fb[s.hub.active_buf] = s.fb[s.hub.active_buf]
           /\ \A q \in Pixels : Overwrite(s, Q, pic).fb[1 - s.hub.active_buf][q] =
                IF q \in Q THEN pic[q] ELSE s.fb[1 - s.hub.active_buf][q]
<1>1. PICK h \in Halves : h = 1 - s.hub.active_buf /\ h # s.hub.active_buf
  BY CardParts, OtherHalf
<1>2. PICK v : v = [q \in Pixels |-> IF q \in Q THEN pic[q] ELSE s.fb[h][q]]
  OBVIOUS
<1>3. v \in [Pixels -> Contents \cup {Torn}]
  BY <1>2, CardParts
<1>4. PICK b : b = [s.fb EXCEPT ![h] = v]
  OBVIOUS
<1>5. /\ b \in [Halves -> [Pixels -> Contents \cup {Torn}]] /\ b[h] = v
      /\ b[s.hub.active_buf] = s.fb[s.hub.active_buf]
  BY <1>1, <1>3, <1>4, CardParts
<1>6. Overwrite(s, Q, pic) = [s EXCEPT !.fb = b]
  BY <1>1, <1>2, <1>4, Zenon DEF Overwrite
<1>7. /\ [s EXCEPT !.fb = b] \in Cards /\ [s EXCEPT !.fb = b].rx = s.rx
      /\ [s EXCEPT !.fb = b].hub = s.hub /\ [s EXCEPT !.fb = b].fb_base = s.fb_base
      /\ [s EXCEPT !.fb = b].auto_swap = s.auto_swap /\ [s EXCEPT !.fb = b].fb = b
  BY <1>5 DEF Cards
<1> QED BY <1>1, <1>2, <1>5, <1>6, <1>7

\* reset_frame forgets the frame, not its frame_id.
LEMMA ResetFrame ==
    ASSUME NEW s \in Cards
    PROVE  /\ reset_frame(s) \in Cards
           /\ NoFrame(reset_frame(s)) /\ SameSettings(reset_frame(s), s)
           /\ SameDisplay(reset_frame(s), s)
           /\ reset_frame(s).rx.current_frame_id = s.rx.current_frame_id
           /\ reset_frame(s).rx.format = s.rx.format
BY DEF reset_frame, Cards, Receivers, NoFrame, SameSettings, SameDisplay

\* A palette that was held back is applied without touching the frame.
LEMMA ApplyPalette ==
    ASSUME NEW s \in Cards
    PROVE  /\ apply_pending_palette(s) \in Cards
           /\ SameFrame(apply_pending_palette(s), s) /\ SameSettings(apply_pending_palette(s), s)
           /\ SameDisplay(apply_pending_palette(s), s)
           /\ apply_pending_palette(s).rx.quiet = s.rx.quiet
<1>1. CASE s.rx.pending_palette = 0
  BY <1>1 DEF apply_pending_palette, SameFrame, SameSettings, SameDisplay
<1>2. CASE s.rx.pending_palette # 0
  <2>1. s.rx.pending_palette \in Palettes
    BY DEF Cards, Receivers
  <2>2. PICK t \in Cards : t = set_palette(s, s.rx.pending_palette) /\ t.rx = s.rx /\ SameDisplay(t, s)
    BY <2>1, SetPalette
  <2>3. apply_pending_palette(s) = [t EXCEPT !.rx.pending_palette = 0]
    BY <1>2, <2>2, Zenon DEF apply_pending_palette
  <2>4. 0 \in Palettes
    BY PixelDmaAssumption DEF Palettes
  <2> DEFINE u == [t EXCEPT !.rx.pending_palette = 0]
  <2>5. u \in Cards
    BY <2>2, <2>4 DEF Cards, Receivers
  <2>6. SameFrame(u, t) /\ SameSettings(u, t) /\ SameDisplay(u, t) /\ u.rx.quiet = t.rx.quiet
    BY <2>2 DEF Cards, Receivers, SameFrame, SameSettings, SameDisplay
  <2> HIDE DEF u
  <2>7. SameFrame(u, s) /\ SameSettings(u, s) /\ SameDisplay(u, s) /\ u.rx.quiet = s.rx.quiet
    BY <2>2, <2>6, Zenon DEF SameFrame, SameSettings, SameDisplay
  <2> QED BY <2>3, <2>5, <2>7, Zenon DEF u
<1> QED BY <1>1, <1>2

\* What the handlers may change of a card's frame: its identity survives.
SameIdentity(t, s) ==
    t.rx.current_frame_id = s.rx.current_frame_id /\ t.rx.format = s.rx.format

\* verify_flip's bookkeeping while the gateware flips
LEMMA FlipUpdate ==
    ASSUME NEW s \in Cards, NEW k \in 0 .. StuckFrames - 1
    PROVE  LET t == [s EXCEPT !.rx.last_fb_base = s.fb_base, !.rx.fb_base_stuck = k]
           IN t \in Cards /\ SameFrame(t, s) /\ SameSettings(t, s) /\ SameDisplay(t, s)
BY DEF Cards, Receivers, SameFrame, SameSettings, SameDisplay

\* and when it gives up on the gateware.
LEMMA DemoteUpdate ==
    ASSUME NEW s \in Cards, NEW k, 0 \in 0 .. StuckFrames - 1
    PROVE  LET t == [[s EXCEPT !.rx.last_fb_base = s.fb_base, !.rx.fb_base_stuck = k]
                        EXCEPT !.auto_swap = FALSE, !.rx.fb_base_stuck = 0]
           IN t \in Cards /\ SameFrame(t, s) /\ SameSettings(t, s) /\ t.fb = s.fb /\ t.auto_swap = FALSE
BY DEF Cards, Receivers, SameFrame, SameSettings, SameDisplay

\* verify_flip leaves the display alone or takes the flip back.
LEMMA VerifyFlip ==
    ASSUME NEW s \in Cards
    PROVE  /\ verify_flip(s) \in Cards
           /\ SameFrame(verify_flip(s), s) /\ SameSettings(verify_flip(s), s)
           /\ HandsOff(verify_flip(s), s)
<1> DEFINE k == IF s.fb_base # s.rx.last_fb_base THEN 0 ELSE s.rx.fb_base_stuck + 1
           seen == [s EXCEPT !.rx.last_fb_base = s.fb_base, !.rx.fb_base_stuck = k]
           taken == [seen EXCEPT !.auto_swap = FALSE, !.rx.fb_base_stuck = 0]
<1>1. s.rx.fb_base_stuck \in 0 .. StuckFrames - 1 /\ StuckFrames \in Nat \ {0}
  BY ReceiverAssumption DEF Cards, Receivers
<1>2. k \in Nat /\ (~FlipStuck(k) => k \in 0 .. StuckFrames - 1) /\ 0 \in 0 .. StuckFrames - 1
  BY <1>1 DEF FlipStuck
<1>3. verify_flip(s) = IF FlipStuck(k) THEN swap_buffers(taken) ELSE sync_buffers_from_hw(seen)
  BY Zenon DEF verify_flip
<1> HIDE DEF k
<1>4. CASE FlipStuck(k)
  <2>1. taken \in Cards /\ SameFrame(taken, s) /\ SameSettings(taken, s) /\ taken.auto_swap = FALSE
    BY <1>2, DemoteUpdate, Zenon
  <2> HIDE DEF taken
  <2>2. /\ swap_buffers(taken) \in Cards /\ swap_buffers(taken).rx = taken.rx
        /\ swap_buffers(taken).auto_swap = FALSE
    BY <2>1, SwapBuffers
  <2> QED BY <1>3, <1>4, <2>1, <2>2 DEF SameFrame, SameSettings, HandsOff
<1>5. CASE ~FlipStuck(k)
  <2>1. seen \in Cards /\ SameFrame(seen, s) /\ SameSettings(seen, s) /\ SameDisplay(seen, s)
    BY <1>2, <1>5, FlipUpdate, Zenon
  <2> HIDE DEF seen
  <2>2. /\ sync_buffers_from_hw(seen) \in Cards /\ sync_buffers_from_hw(seen).rx = seen.rx
        /\ sync_buffers_from_hw(seen).fb = seen.fb /\ sync_buffers_from_hw(seen).fb_base = seen.fb_base
        /\ sync_buffers_from_hw(seen).auto_swap = seen.auto_swap
    BY <2>1, SyncBuffers
  <2> QED BY <1>3, <1>5, <2>1, <2>2 DEF SameFrame, SameSettings, HandsOff, SameDisplay
<1> QED BY <1>4, <1>5

\* The mark that makes the caller catch up the palette bank.
LEMMA Presented ==
    ASSUME NEW s \in Cards
    PROVE  LET t == [s EXCEPT !.presented = TRUE]
           IN t \in Cards /\ t.rx = s.rx /\ SameDisplay(t, s)
BY DEF Cards, SameDisplay

\* present ends the frame, if there is one; it keeps its frame_id, and leaves
\* the display alone unless the flip is the CPU's or becomes the CPU's.
LEMMA Present ==
    ASSUME NEW s \in Cards
    PROVE  /\ present(s) \in Cards /\ SameSettings(present(s), s)
           /\ SameIdentity(present(s), s) /\ HandsOff(present(s), s)
           /\ s.rx.total_chunks = 0 => present(s) = s
           /\ s.rx.total_chunks # 0 => NoFrame(present(s))
<1>1. CASE s.rx.total_chunks = 0
  <2>1. present(s) = s
    BY <1>1, Zenon DEF present
  <2> QED BY <1>1, <2>1 DEF SameSettings, SameIdentity, HandsOff
<1>2. CASE s.rx.total_chunks # 0
  <2> DEFINE missing == Max({0, s.rx.total_chunks - s.rx.received})
             patched == IF missing > 0 /\ CpuOwnsSwap(s) THEN repair_from_front(s, MissingPixels(s)) ELSE s
             coloured == apply_pending_palette(patched)
             flipped == IF s.auto_swap THEN verify_flip(coloured) ELSE swap_buffers(coloured)
  <2>1. \/ present(s) = reset_frame(s)
        \/ present(s) = [reset_frame(flipped) EXCEPT !.presented = TRUE]
    BY <1>2, Zenon DEF present
  <2>2. /\ patched \in Cards /\ patched.rx = s.rx /\ patched.auto_swap = s.auto_swap
        /\ s.auto_swap => patched = s
    BY CardParts, OverwriteEffect DEF repair_from_front, CpuOwnsSwap
  <2> HIDE DEF patched
  <2>3. /\ coloured \in Cards /\ SameFrame(coloured, patched)
        /\ SameSettings(coloured, patched) /\ SameDisplay(coloured, patched)
    BY <2>2, ApplyPalette
  <2> HIDE DEF coloured
  <2>4. flipped \in Cards /\ SameSettings(flipped, s) /\ SameIdentity(flipped, s) /\ HandsOff(flipped, s)
    <3>1. CASE s.auto_swap
      BY <2>2, <2>3, <3>1, VerifyFlip DEF SameFrame, SameSettings, SameIdentity, SameDisplay, HandsOff
    <3>2. CASE ~s.auto_swap
      BY <2>2, <2>3, <3>2, SwapBuffers DEF SameFrame, SameSettings, SameIdentity, SameDisplay, HandsOff
    <3> QED BY <3>1, <3>2
  <2> HIDE DEF flipped
  <2>5. ASSUME NEW d \in Cards, SameSettings(d, s), SameIdentity(d, s), HandsOff(d, s)
        PROVE  /\ reset_frame(d) \in Cards /\ SameSettings(reset_frame(d), s)
               /\ SameIdentity(reset_frame(d), s) /\ HandsOff(reset_frame(d), s) /\ NoFrame(reset_frame(d))
    BY <2>5, ResetFrame DEF SameSettings, SameIdentity, HandsOff, SameDisplay
  <2>6. SameSettings(s, s) /\ SameIdentity(s, s) /\ HandsOff(s, s)
    BY DEF SameSettings, SameIdentity, HandsOff
  <2>7. CASE present(s) = reset_frame(s)
    BY <1>2, <2>5, <2>6, <2>7
  <2>8. CASE present(s) = [reset_frame(flipped) EXCEPT !.presented = TRUE]
    <3>1. PICK d \in Cards : /\ d = reset_frame(flipped) /\ SameSettings(d, s)
                             /\ SameIdentity(d, s) /\ HandsOff(d, s) /\ NoFrame(d)
      BY <2>4, <2>5
    <3>2. present(s) \in Cards /\ present(s).rx = d.rx /\ SameDisplay(present(s), d)
      BY <2>8, <3>1, Presented
    <3> QED BY <1>2, <3>1, <3>2 DEF SameSettings, SameIdentity, HandsOff, SameDisplay, NoFrame
  <2> QED BY <2>1, <2>7, <2>8
<1> QED BY <1>1, <1>2

-----------------------------------------------------------------------------
(* The handlers keep the card well typed and leave the settings alone.     *)

\* What a handler keeps.
Kept(t, s) == t \in Cards /\ SameSettings(t, s)

\* Handlers compose.
LEMMA KeptKept ==
    /\ \A s \in Cards : Kept(s, s)
    /\ \A s, t, u : Kept(t, s) /\ Kept(u, t) => Kept(u, s)
BY DEF Kept, SameSettings

\* Sets of chunk numbers can be counted.
LEMMA ChunkCount ==
    ASSUME NEW A \in SUBSET ChunkIds
    PROVE  IsFiniteSet(A) /\ Cardinality(A) \in Nat
<1>1. IsFiniteSet(ChunkIds)
  BY FS_Interval, PixelDmaAssumption DEF ChunkIds
<1> QED BY <1>1, FS_Subset, FS_CardinalityType

\* A frame has at most as many chunks as it announces.
LEMMA CountBound ==
    ASSUME NEW n \in Nat, NEW A \in SUBSET (0 .. n - 1)
    PROVE  IsFiniteSet(A) /\ Cardinality(A) \in Nat /\ Cardinality(A) <= n
<1>1. IsFiniteSet(0 .. n - 1)
  BY FS_Interval
<1>2. Cardinality(0 .. n - 1) = IF 0 > n - 1 THEN 0 ELSE n - 1 - 0 + 1
  BY FS_Interval, n - 1 \in Int
<1>3. Cardinality(0 .. n - 1) = n
  BY <1>2
<1> QED BY <1>1, <1>3, FS_Subset, FS_CardinalityType

\* The smaller of two numbers.
LEMMA MinTwo ==
    ASSUME NEW a \in Nat, NEW b \in Nat
    PROVE  Min({a, b}) = IF a <= b THEN a ELSE b
<1>1. \E x \in {a, b} : \A y \in {a, b} : x <= y
  OBVIOUS
<1>2. Min({a, b}) \in {a, b} /\ \A y \in {a, b} : Min({a, b}) <= y
  BY <1>1, Zenon DEF Min
<1> QED BY <1>2

\* A sign of life changes nothing else,
LEMMA QuietUpdate ==
    ASSUME NEW s \in Cards
    PROVE  LET t == [s EXCEPT !.rx.quiet = 0]
           IN Kept(t, s) /\ SameFrame(t, s) /\ SameDisplay(t, s)
BY DEF Cards, Receivers, Kept, SameSettings, SameFrame, SameDisplay

\* neither does a snapshot that is marked as seen.
LEMMA SeenUpdate ==
    ASSUME NEW s \in Cards, NEW n \in 0 .. SeqMod - 1
    PROVE  LET t == [s EXCEPT !.rx.last_done_seq = n]
           IN Kept(t, s) /\ SameFrame(t, s) /\ SameDisplay(t, s)
BY DEF Cards, Receivers, Kept, SameSettings, SameFrame, SameDisplay

\* The receiver's fields after Follow, as one update.
Adopted(r, A, k, id, n, m) ==
    [r EXCEPT !.chunk_mask = A, !.received = k, !.current_frame_id = id,
              !.total_chunks = n, !.format = m, !.quiet = 0]

\* Each of them is what the gateware's registers say.
LEMMA FollowRecord ==
    ASSUME NEW r \in Receivers, NEW A \in SUBSET ChunkIds, NEW k \in Nat, NEW id \in Nat,
           NEW n \in Nat, NEW m \in Formats
    PROVE  LET q == Adopted(r, A, k, id, n, m)
           IN /\ q \in Receivers /\ q.hold = r.hold /\ q.hw_filter_on = r.hw_filter_on
              /\ q.cpu_pixels = r.cpu_pixels /\ q.chunk_mask = A /\ q.received = k
              /\ q.current_frame_id = id /\ q.total_chunks = n /\ q.format = m
<1> DEFINE u == [r EXCEPT !.chunk_mask = A, !.received = k]
           v == [u EXCEPT !.current_frame_id = id, !.total_chunks = n]
           w == [v EXCEPT !.format = m]
           q == [w EXCEPT !.quiet = 0]
<1>1. Adopted(r, A, k, id, n, m) = q
  BY Zenon DEF Adopted
<1>2. /\ u \in Receivers /\ u.hold = r.hold /\ u.hw_filter_on = r.hw_filter_on
      /\ u.cpu_pixels = r.cpu_pixels /\ u.chunk_mask = A /\ u.received = k
  BY DEF Receivers
<1> HIDE DEF u
<1>4. /\ v \in Receivers /\ v.hold = u.hold /\ v.hw_filter_on = u.hw_filter_on
      /\ v.cpu_pixels = u.cpu_pixels /\ v.chunk_mask = u.chunk_mask /\ v.received = u.received
      /\ v.current_frame_id = id /\ v.total_chunks = n
  BY <1>2 DEF Receivers
<1> HIDE DEF v
<1>5. v \in Receivers
  BY <1>4
<1>6. /\ w \in Receivers /\ w.hold = v.hold /\ w.hw_filter_on = v.hw_filter_on
      /\ w.cpu_pixels = v.cpu_pixels /\ w.chunk_mask = v.chunk_mask /\ w.received = v.received
      /\ w.current_frame_id = v.current_frame_id /\ w.total_chunks = v.total_chunks /\ w.format = m
  BY <1>5 DEF Receivers
<1> HIDE DEF w
<1>7. w \in Receivers
  BY <1>6
<1>8. /\ q \in Receivers /\ q.hold = w.hold /\ q.hw_filter_on = w.hw_filter_on
      /\ q.cpu_pixels = w.cpu_pixels /\ q.chunk_mask = w.chunk_mask /\ q.received = w.received
      /\ q.current_frame_id = w.current_frame_id /\ q.total_chunks = w.total_chunks /\ q.format = w.format
  BY <1>7 DEF Receivers
<1> HIDE DEF q
<1> QED BY <1>1, <1>2, <1>4, <1>6, <1>8

\* Following a frame of the gateware leaves the display alone.
LEMMA FollowEffect ==
    ASSUME NEW s \in Cards, NEW A \in SUBSET ChunkIds, NEW k \in Nat, NEW id \in Nat,
           NEW n \in Nat, NEW i
    PROVE  LET t == Follow(s, A, k, id, n, i)
           IN /\ Kept(t, s) /\ SameDisplay(t, s) /\ t.rx.chunk_mask = A /\ t.rx.received = k
              /\ t.rx.current_frame_id = id /\ t.rx.total_chunks = n
<1>1. WireFormat(i, n) \in Formats /\ s.rx \in Receivers
  BY CardParts DEF WireFormat, Formats
<1>2. PICK q : q = Adopted(s.rx, A, k, id, n, WireFormat(i, n))
  OBVIOUS
<1>3. /\ q \in Receivers /\ q.hold = s.rx.hold /\ q.hw_filter_on = s.rx.hw_filter_on
      /\ q.cpu_pixels = s.rx.cpu_pixels /\ q.chunk_mask = A /\ q.received = k
      /\ q.current_frame_id = id /\ q.total_chunks = n
  BY <1>1, <1>2, FollowRecord
<1>4. PICK u : u = [s EXCEPT !.rx = q]
  OBVIOUS
<1>5. u \in Cards /\ u.rx = q /\ SameDisplay(u, s)
  BY <1>3, <1>4 DEF Cards, SameDisplay
<1>6. Follow(s, A, k, id, n, i) = set_mode(u, i)
  BY <1>2, <1>4, Zenon DEF Follow, Adopted
<1>7. set_mode(u, i) \in Cards /\ set_mode(u, i).rx = q /\ SameDisplay(set_mode(u, i), u)
  BY <1>5, SetMode
<1> QED BY <1>3, <1>5, <1>6, <1>7 DEF Kept, SameSettings, SameDisplay

\* A frame that was presented or dropped is counted as nothing.
LEMMA NoFrameCounts ==
    ASSUME NEW t, NoFrame(t)
    PROVE  CountInv(t.rx) /\ WellCounted(t.rx)
BY FS_EmptySet DEF NoFrame, CountInv, WellCounted

\* The same frame is counted the same.
LEMMA SameFrameCounts ==
    ASSUME NEW s, NEW t, SameFrame(t, s)
    PROVE  /\ CountInv(s.rx) => CountInv(t.rx)
           /\ WellCounted(s.rx) => WellCounted(t.rx)
BY DEF SameFrame, CountInv, WellCounted

\* Presenting keeps the count right, and mends it where there is a frame.
LEMMA PresentCounts ==
    ASSUME NEW s \in Cards, WellCounted(s.rx) \/ s.rx.total_chunks # 0
    PROVE  WellCounted(present(s).rx)
BY Present, NoFrameCounts

\* Announced frames have an id and chunks.
LEMMA AnnouncedType ==
    ASSUME NEW id, NEW n, Announced(id, n)
    PROVE  id \in Nat /\ id # 0 /\ n \in Nat /\ n # 0
<1>1. CASE \E f \in Frames : WireId[f] = id /\ TotalOf(f) = n
  BY <1>1, TotalType, PixelDmaAssumption
<1>2. CASE \E x \in Strays : x.frame_id = id /\ x.total_chunks = n
  BY <1>2, ReceiverAssumption
<1> QED BY <1>1, <1>2 DEF Announced

\* Presenting what the gateware latched.  With the DMA off there is nothing.
LEMMA DoneFrame ==
    ASSUME TypeOK, NEW s \in Cards
    PROVE  /\ Kept(present_done_frame(s), s) /\ HandsOff(present_done_frame(s), s)
           /\ ~enable => present_done_frame(s) = s
           /\ WellCounted(s.rx) => WellCounted(present_done_frame(s).rx)
<1> DEFINE new == enable /\ done.total_chunks # 0 /\ done_seq # s.rx.last_done_seq
           seen == [s EXCEPT !.rx.last_done_seq = done_seq]
           count == Min({Cardinality(done.arrival), done.total_chunks})
           adopted == Follow(seen, done.arrival, count, done.frame_id, done.total_chunks, done.indexed)
<1>1. /\ ~new => present_done_frame(s) = s
      /\ new /\ s.rx.cpu_saw_packet => present_done_frame(s) = seen
      /\ new /\ ~s.rx.cpu_saw_packet => present_done_frame(s) = present(adopted)
  BY Zenon DEF present_done_frame
<1>2. /\ done_seq \in 0 .. SeqMod - 1 /\ done.arrival \in SUBSET ChunkIds /\ done.frame_id \in Nat
      /\ done.total_chunks \in Nat
  BY DEF TypeOK, Snapshots
<1>3. count \in Nat
  BY <1>2, ChunkCount, MinTwo
<1> HIDE DEF count
<1>5. Kept(seen, s) /\ SameFrame(seen, s) /\ SameDisplay(seen, s)
  BY <1>2, SeenUpdate
<1>6. seen \in Cards
  BY <1>5 DEF Kept
<1> HIDE DEF seen
<1>7. Kept(adopted, seen) /\ SameDisplay(adopted, seen) /\ adopted.rx.total_chunks = done.total_chunks
  BY <1>2, <1>3, <1>6, FollowEffect
<1>8. adopted \in Cards
  BY <1>7 DEF Kept
<1> HIDE DEF adopted
<1>10. /\ Kept(present(adopted), adopted) /\ HandsOff(present(adopted), adopted)
       /\ done.total_chunks # 0 => NoFrame(present(adopted))
  BY <1>7, <1>8, Present DEF Kept
<1>11. Kept(present(adopted), s) /\ HandsOff(present(adopted), s)
  BY <1>5, <1>7, <1>10 DEF Kept, SameSettings, HandsOff, SameDisplay
<1>12. Kept(s, s) /\ HandsOff(s, s) /\ HandsOff(seen, s)
  BY <1>5, KeptKept DEF HandsOff, SameDisplay
<1>13. /\ WellCounted(s.rx) => WellCounted(seen.rx)
       /\ done.total_chunks # 0 => WellCounted(present(adopted).rx)
  BY <1>5, <1>10, SameFrameCounts, NoFrameCounts
<1> QED BY <1>1, <1>5, <1>11, <1>12, <1>13

\* Adopting the gateware's frame starts from an empty mask.
LEMMA AdoptFrame ==
    ASSUME TypeOK, NEW s \in Cards
    PROVE  /\ Kept(adopt_dma_frame(s), s)
           /\ ~enable => adopt_dma_frame(s) = s
           /\ (GateInv /\ WellCounted(s.rx)) => WellCounted(adopt_dma_frame(s).rx)
<1> DEFINE t == Follow(present(s), {}, 0, frame_id, total_chunks, indexed)
<1>1. /\ adopt_dma_frame(s) = s \/ (adopt_dma_frame(s) = t /\ total_chunks # 0)
      /\ ~enable => adopt_dma_frame(s) = s
  BY Zenon DEF adopt_dma_frame
<1>2. Kept(present(s), s) /\ present(s) \in Cards
  BY Present DEF Kept
<1>3. {} \in SUBSET ChunkIds /\ 0 \in Nat /\ frame_id \in Nat /\ total_chunks \in Nat
  BY DEF TypeOK
<1>4. /\ Kept(t, present(s)) /\ t.rx.chunk_mask = {} /\ t.rx.received = 0
      /\ t.rx.current_frame_id = frame_id /\ t.rx.total_chunks = total_chunks
  BY <1>2, <1>3, FollowEffect
<1> HIDE DEF t
<1>5. Kept(t, s) /\ Kept(s, s)
  BY <1>2, <1>4, KeptKept
<1>6. GateInv /\ total_chunks # 0 => WellCounted(t.rx)
  BY <1>4, FS_EmptySet DEF GateInv, GateFrame, CountInv, WellCounted
<1> QED BY <1>1, <1>5, <1>6

\* The receiver's fields after a merge, as one update.
Recounted(s, A, k, w) ==
    [s EXCEPT !.rx.chunk_mask = A, !.rx.received = k, !.rx.quiet = w]

\* A merge changes the mask and the count only.
LEMMA CountUpdate ==
    ASSUME NEW s \in Cards, NEW A \in SUBSET ChunkIds, NEW k \in Nat, NEW w \in 0 .. 2
    PROVE  LET t == Recounted(s, A, k, w)
           IN /\ Kept(t, s) /\ SameIdentity(t, s) /\ SameDisplay(t, s)
              /\ t.rx.total_chunks = s.rx.total_chunks
              /\ t.rx.chunk_mask = A /\ t.rx.received = k
<1> DEFINE u == [s EXCEPT !.rx.chunk_mask = A, !.rx.received = k]
           v == [u EXCEPT !.rx.quiet = w]
<1>1. Recounted(s, A, k, w) = v
  BY Zenon DEF Recounted
<1>2. /\ u \in Cards /\ SameSettings(u, s) /\ SameIdentity(u, s) /\ SameDisplay(u, s)
      /\ u.rx.total_chunks = s.rx.total_chunks
      /\ u.rx.chunk_mask = A /\ u.rx.received = k
  BY DEF Cards, Receivers, SameSettings, SameIdentity, SameDisplay
<1> HIDE DEF u
<1>3. u \in Cards
  BY <1>2
<1>4. v \in Cards /\ SameSettings(v, u) /\ SameFrame(v, u) /\ SameDisplay(v, u)
  BY <1>3 DEF Cards, Receivers, SameSettings, SameFrame, SameDisplay
<1> HIDE DEF v
<1>5. /\ Kept(v, s) /\ SameIdentity(v, s) /\ SameDisplay(v, s)
      /\ v.rx.total_chunks = s.rx.total_chunks
      /\ v.rx.chunk_mask = A /\ v.rx.received = k
  BY <1>2, <1>4 DEF Kept, SameSettings, SameFrame, SameIdentity, SameDisplay
<1> QED BY <1>1, <1>5, Zenon

\* The merged count is the merged mask's.  min() in the code never cuts while the
\* gateware's bitmap stays within the frame's chunks; where it does cut, the frame
\* counts as complete.
LEMMA MergeArrival ==
    ASSUME TypeOK, NEW s \in Cards
    PROVE  LET t == merge_dma_arrival(s)
           IN /\ Kept(t, s) /\ SameIdentity(t, s) /\ SameDisplay(t, s)
              /\ t.rx.total_chunks = s.rx.total_chunks
              /\ ~enable => t = s
              /\ (GateInv /\ WellCounted(s.rx) /\ s.rx.total_chunks # 0)
                    => WellCounted(t.rx) \/ t.rx.received >= t.rx.total_chunks
<1> DEFINE mask == s.rx.chunk_mask \cup arrival
           merged == Min({Cardinality(mask), s.rx.total_chunks})
           w == IF merged > s.rx.received THEN 0 ELSE s.rx.quiet
           t == Recounted(s, mask, merged, w)
<1>1. /\ ~enable \/ frame_id # s.rx.current_frame_id => merge_dma_arrival(s) = s
      /\ enable /\ frame_id = s.rx.current_frame_id => merge_dma_arrival(s) = t
  BY Zenon DEF merge_dma_arrival, Recounted
<1>2. /\ s.rx \in Receivers /\ s.rx.chunk_mask \in SUBSET ChunkIds /\ s.rx.total_chunks \in Nat
      /\ s.rx.quiet \in 0 .. 2 /\ arrival \in SUBSET ChunkIds
  BY CardParts DEF Receivers, TypeOK
<1>3. mask \in SUBSET ChunkIds
  BY <1>2
<1>4. IsFiniteSet(mask) /\ Cardinality(mask) \in Nat
  BY <1>3, ChunkCount
<1> HIDE DEF mask
<1>5. merged = (IF Cardinality(mask) <= s.rx.total_chunks THEN Cardinality(mask) ELSE s.rx.total_chunks)
  BY <1>2, <1>4, MinTwo
<1>6. merged \in Nat
  BY <1>2, <1>4, <1>5
<1> HIDE DEF merged
<1>7. w \in 0 .. 2
  BY <1>2
<1> HIDE DEF w
<1>8. /\ Kept(t, s) /\ SameIdentity(t, s) /\ SameDisplay(t, s)
      /\ t.rx.total_chunks = s.rx.total_chunks
      /\ t.rx.chunk_mask = mask /\ t.rx.received = merged
  BY <1>3, <1>6, <1>7, CountUpdate
<1> HIDE DEF t
<1>9. Kept(s, s) /\ SameIdentity(s, s) /\ SameDisplay(s, s)
  BY KeptKept DEF SameIdentity, SameDisplay
<1>10. ASSUME OneTotal, GateInv, CountInv(s.rx), s.rx.total_chunks # 0, frame_id = s.rx.current_frame_id
       PROVE  CountInv(t.rx)
  <2>1. Announced(s.rx.current_frame_id, s.rx.total_chunks)
    BY <1>10 DEF CountInv
  <2>2. frame_id # 0 /\ frame_id \in Nat
    BY <1>10, <2>1, AnnouncedType
  <2>3. Announced(frame_id, total_chunks) /\ total_chunks \in Nat
    BY <1>10, <2>2, AnnouncedType DEF GateInv, GateFrame
  <2>4. total_chunks = s.rx.total_chunks
    BY <1>2, <1>10, <2>1, <2>2, <2>3 DEF OneTotal
  <2>5. mask \subseteq 0 .. s.rx.total_chunks - 1
    BY <1>10, <2>4 DEF GateInv, GateFrame, CountInv, mask
  <2>7. Cardinality(mask) <= s.rx.total_chunks
    BY <1>2, <2>5, CountBound
  <2>8. merged = Cardinality(mask)
    BY <1>5, <2>7
  <2>9. t.rx.current_frame_id = s.rx.current_frame_id
    BY <1>8 DEF SameIdentity
  <2> QED BY <1>8, <1>10, <2>5, <2>8, <2>9 DEF CountInv
<1>11. ASSUME GateInv, WellCounted(s.rx), s.rx.total_chunks # 0, frame_id = s.rx.current_frame_id
       PROVE  WellCounted(t.rx) \/ t.rx.received >= t.rx.total_chunks
  <2>1. CASE Cardinality(mask) <= s.rx.total_chunks
    BY <1>5, <1>8, <1>10, <1>11, <2>1 DEF WellCounted
  <2>2. CASE ~(Cardinality(mask) <= s.rx.total_chunks)
    BY <1>2, <1>5, <1>8, <2>2
  <2> QED BY <2>1, <2>2
<1> QED BY <1>1, <1>8, <1>9, <1>11

\* A late palette,
LEMMA Late ==
    ASSUME NEW s \in Cards
    PROVE  LET t == LatePalette(s)
           IN Kept(t, s) /\ SameFrame(t, s) /\ SameDisplay(t, s)
<1>1. LatePalette(s) = s \/ LatePalette(s) = apply_pending_palette(s)
  BY Zenon DEF LatePalette
<1>2. Kept(s, s) /\ SameFrame(s, s) /\ SameDisplay(s, s)
  BY KeptKept DEF SameFrame, SameDisplay
<1> QED BY <1>1, <1>2, ApplyPalette DEF Kept

\* a stale frame
LEMMA Stale ==
    ASSUME NEW s \in Cards
    PROVE  /\ Kept(PresentStale(s), s)
           /\ WellCounted(s.rx) => WellCounted(PresentStale(s).rx)
           /\ PresentStale(s) \in {s, present(s)}
<1>1. PresentStale(s) \in {s, present(s)}
  BY Zenon DEF PresentStale
<1> QED BY <1>1, KeptKept, Present, PresentCounts DEF Kept

\* and all that a tick does.
LEMMA Tick ==
    ASSUME TypeOK, NEW s \in Cards
    PROVE  /\ Kept(tick(s), s)
           /\ s.rx.hw_filter_on => HandsOff(tick(s), s)
           /\ s.rx.hw_filter_on /\ ~enable => SameDisplay(tick(s), s)
           /\ (GateInv /\ WellCounted(s.rx)) => WellCounted(tick(s).rx)
<1> DEFINE late == LatePalette(s)
           shown == present_done_frame(late)
           adopted == adopt_dma_frame(shown)
           merged == merge_dma_arrival(adopted)
<1>1. /\ s.rx.hw_filter_on => tick(s) = shown
      /\ ~s.rx.hw_filter_on /\ adopted.rx.total_chunks = 0 => tick(s) = adopted
      /\ ~s.rx.hw_filter_on /\ adopted.rx.total_chunks # 0 =>
           tick(s) = IF merged.rx.received >= merged.rx.total_chunks
                       THEN present(merged) ELSE PresentStale(merged)
  BY Zenon DEF tick
<1>2. /\ late \in Cards /\ Kept(late, s) /\ SameFrame(late, s) /\ SameDisplay(late, s)
  BY Late DEF Kept
<1> HIDE DEF late
<1>3. /\ shown \in Cards /\ Kept(shown, late) /\ HandsOff(shown, late)
      /\ ~enable => shown = late
      /\ WellCounted(late.rx) => WellCounted(shown.rx)
  BY <1>2, DoneFrame DEF Kept
<1> HIDE DEF shown
<1>4. /\ adopted \in Cards /\ Kept(adopted, shown)
      /\ GateInv /\ WellCounted(shown.rx) => WellCounted(adopted.rx)
  BY <1>3, AdoptFrame DEF Kept
<1> HIDE DEF adopted
<1>5. /\ merged \in Cards /\ Kept(merged, adopted)
      /\ merged.rx.total_chunks = adopted.rx.total_chunks
      /\ (GateInv /\ WellCounted(adopted.rx) /\ adopted.rx.total_chunks # 0)
            => WellCounted(merged.rx) \/ merged.rx.received >= merged.rx.total_chunks
  BY <1>4, MergeArrival DEF Kept
<1> HIDE DEF merged
<1>6. /\ Kept(present(merged), merged) /\ Kept(PresentStale(merged), merged)
      /\ merged.rx.total_chunks # 0 => WellCounted(present(merged).rx)
      /\ WellCounted(merged.rx) => WellCounted(PresentStale(merged).rx)
  BY <1>5, Present, PresentCounts, Stale DEF Kept
<1>7. /\ Kept(shown, s) /\ Kept(adopted, s) /\ Kept(present(merged), s) /\ Kept(PresentStale(merged), s)
  BY <1>2, <1>3, <1>4, <1>5, <1>6, KeptKept
<1>8. /\ HandsOff(shown, s)
      /\ ~enable => SameDisplay(shown, s)
  BY <1>2, <1>3 DEF HandsOff, SameDisplay
<1>9. WellCounted(s.rx) => WellCounted(late.rx)
  BY <1>2, SameFrameCounts
<1> QED BY <1>1, <1>3, <1>4, <1>5, <1>6, <1>7, <1>8, <1>9

\* A palette packet touches neither frame nor display.
LEMMA Stash ==
    ASSUME NEW s \in Cards, NEW p \in Palettes
    PROVE  LET t == stash_palette(s, p)
           IN Kept(t, s) /\ SameFrame(t, s) /\ SameDisplay(t, s)
<1> DEFINE u == [s EXCEPT !.rx.pending_palette = p]
<1>1. stash_palette(s, p) = u \/ stash_palette(s, p) = apply_pending_palette(u)
  BY Zenon DEF stash_palette
<1>2. u \in Cards /\ Kept(u, s) /\ SameFrame(u, s) /\ SameDisplay(u, s)
  BY DEF Cards, Receivers, Kept, SameSettings, SameFrame, SameDisplay
<1> HIDE DEF u
<1>3. LET t == apply_pending_palette(u)
      IN Kept(t, u) /\ SameFrame(t, u) /\ SameDisplay(t, u)
  BY <1>2, ApplyPalette DEF Kept
<1> QED BY <1>1, <1>2, <1>3, KeptKept DEF SameFrame, SameDisplay

\* Neither does the catch-up of the palette bank.
LEMMA After ==
    ASSUME NEW s \in Cards
    PROVE  LET t == AfterPresent(s)
           IN t \in Cards /\ t.rx = s.rx /\ SameDisplay(t, s)
BY SyncPalette DEF AfterPresent, SameDisplay

\* The magic sets the format and the mode, nothing else.
LEMMA ParseMagic ==
    ASSUME NEW s \in Cards, NEW m \in Formats
    PROVE  LET t == parse_magic(s, m)
           IN /\ Kept(t, s) /\ SameDisplay(t, s)
              /\ t.rx.current_frame_id = s.rx.current_frame_id
              /\ t.rx.total_chunks = s.rx.total_chunks
              /\ t.rx.chunk_mask = s.rx.chunk_mask /\ t.rx.received = s.rx.received
              /\ t.rx.format = IF s.rx.cpu_pixels THEN m ELSE s.rx.format
<1>1. CASE s.rx.cpu_pixels
  <2> DEFINE u == [s EXCEPT !.rx.format = m]
  <2>1. parse_magic(s, m) = set_mode(u, m = "BI")
    BY <1>1, Zenon DEF parse_magic
  <2>2. /\ u \in Cards /\ SameSettings(u, s) /\ SameDisplay(u, s)
        /\ u.rx.current_frame_id = s.rx.current_frame_id /\ u.rx.total_chunks = s.rx.total_chunks
        /\ u.rx.chunk_mask = s.rx.chunk_mask /\ u.rx.received = s.rx.received /\ u.rx.format = m
    BY DEF Cards, Receivers, SameSettings, SameDisplay
  <2> HIDE DEF u
  <2>3. PICK i : i = (m = "BI")
    OBVIOUS
  <2>4. LET t == set_mode(u, i) IN t \in Cards /\ t.rx = u.rx /\ SameDisplay(t, u)
    BY <2>2, SetMode
  <2> QED BY <1>1, <2>1, <2>2, <2>3, <2>4 DEF Kept, SameSettings, SameDisplay
<1>2. CASE ~s.rx.cpu_pixels
  <2>1. parse_magic(s, m) = [s EXCEPT !.rx.quiet = 0]
    BY <1>2, Zenon DEF parse_magic
  <2> QED BY <1>2, <2>1, QuietUpdate DEF SameFrame
<1> QED BY <1>1, <1>2

\* The receiver's fields after a chunk was counted, as one update.
Counted(s, A, k) ==
    [s EXCEPT !.rx.chunk_mask = A, !.rx.received = k,
              !.rx.cpu_saw_packet = TRUE, !.rx.quiet = 0]

\* Counting a chunk changes the mask and the count only.
LEMMA CountedUpdate ==
    ASSUME NEW s \in Cards, NEW A \in SUBSET ChunkIds, NEW k \in Nat
    PROVE  LET t == Counted(s, A, k)
           IN /\ Kept(t, s) /\ SameIdentity(t, s) /\ SameDisplay(t, s)
              /\ t.rx.total_chunks = s.rx.total_chunks
              /\ t.rx.chunk_mask = A /\ t.rx.received = k
<1> DEFINE u == [s EXCEPT !.rx.chunk_mask = A, !.rx.received = k]
           v == [u EXCEPT !.rx.cpu_saw_packet = TRUE]
           w == [v EXCEPT !.rx.quiet = 0]
<1>1. Counted(s, A, k) = w
  BY Zenon DEF Counted
<1>2. /\ u \in Cards /\ SameSettings(u, s) /\ SameIdentity(u, s) /\ SameDisplay(u, s)
      /\ u.rx.total_chunks = s.rx.total_chunks
      /\ u.rx.chunk_mask = A /\ u.rx.received = k
  BY DEF Cards, Receivers, SameSettings, SameIdentity, SameDisplay
<1> HIDE DEF u
<1>3. u \in Cards
  BY <1>2
<1>4. v \in Cards /\ SameSettings(v, u) /\ SameFrame(v, u) /\ SameDisplay(v, u)
  BY <1>3 DEF Cards, Receivers, SameSettings, SameFrame, SameDisplay
<1> HIDE DEF v
<1>5. v \in Cards
  BY <1>4
<1>6. Kept(w, v) /\ SameFrame(w, v) /\ SameDisplay(w, v)
  BY <1>5, QuietUpdate
<1> HIDE DEF w
<1> QED BY <1>1, <1>2, <1>4, <1>6 DEF Kept, SameSettings, SameFrame, SameIdentity, SameDisplay

\* A chunk is drawn into its own pixels of the back half.
LEMMA Write ==
    ASSUME NEW s \in Cards, NEW f \in Frames, NEW c
    PROVE  LET t == CpuWrite(s, f, c)
           IN /\ t \in Cards /\ t.rx = s.rx /\ t.hub = s.hub /\ t.fb_base = s.fb_base
              /\ t.auto_swap = s.auto_swap
              /\ t.fb[s.hub.active_buf] = s.fb[s.hub.active_buf]
              /\ \A q \in Pixels : t.fb[1 - s.hub.active_buf][q] =
                   IF q \in CoverOf(f, c) THEN f ELSE s.fb[1 - s.hub.active_buf][q]
<1> DEFINE pic == [q \in Pixels |-> f]
<1>1. pic \in [Pixels -> Contents \cup {Torn}] /\ \A q \in Pixels : pic[q] = f
  BY DEF Contents
<1>2. CpuWrite(s, f, c) = Overwrite(s, CoverOf(f, c), pic)
  BY Zenon DEF CpuWrite
<1> HIDE DEF pic
<1>3. PICK t : t = Overwrite(s, CoverOf(f, c), pic)
  OBVIOUS
<1> QED BY <1>1, <1>2, <1>3, OverwriteEffect

\* A new chunk is counted once, a duplicate not at all.
LEMMA Accept ==
    ASSUME TypeOK, NEW s \in Cards, NEW f \in Frames, NEW c \in ChunkIds
    PROVE  LET t == AcceptChunk(s, f, c)
           IN /\ Kept(t, s)
              /\ (/\ GateInv /\ WellCounted(s.rx)
                  /\ s.rx.total_chunks # 0 /\ c < s.rx.total_chunks) => WellCounted(t.rx)
<1> DEFINE drawn == IF enable THEN s ELSE CpuWrite(s, f, c)
           A == s.rx.chunk_mask \cup {c}
           k == s.rx.received + 1
           counted == Counted(drawn, A, k)
           merged == IF counted.rx.received + 1 >= counted.rx.total_chunks
                       THEN merge_dma_arrival(counted) ELSE counted
           quiet == [s EXCEPT !.rx.quiet = 0]
<1>1. /\ c \in s.rx.chunk_mask => AcceptChunk(s, f, c) = quiet
      /\ c \notin s.rx.chunk_mask =>
           AcceptChunk(s, f, c) = IF merged.rx.received >= merged.rx.total_chunks
                                    THEN present(merged) ELSE merged
  BY Zenon DEF AcceptChunk, Counted
<1>2. Kept(quiet, s) /\ SameFrame(quiet, s)
  BY QuietUpdate
<1> HIDE DEF quiet
<1>3. drawn \in Cards /\ drawn.rx = s.rx
  BY Write
<1> HIDE DEF drawn
<1>4. s.rx \in Receivers /\ s.rx.chunk_mask \in SUBSET ChunkIds /\ s.rx.received \in Nat /\ s.rx.total_chunks \in Nat
  BY CardParts DEF Receivers
<1>5. A \in SUBSET ChunkIds /\ k \in Nat
  BY <1>4
<1>6. ASSUME WellCounted(s.rx), c < s.rx.total_chunks, c \notin s.rx.chunk_mask
      PROVE  /\ k = Cardinality(A)
             /\ CountInv(s.rx) => A \subseteq 0 .. s.rx.total_chunks - 1
  <2>1. c \in 0 .. s.rx.total_chunks - 1
    BY <1>4, <1>6 DEF ChunkIds
  <2>2. IsFiniteSet(s.rx.chunk_mask)
    BY <1>4, ChunkCount
  <2>3. k = Cardinality(A)
    BY <1>6, <2>2, FS_AddElement DEF WellCounted
  <2> QED BY <1>6, <2>1, <2>3 DEF CountInv
<1> HIDE DEF A, k
<1>7. /\ counted \in Cards /\ Kept(counted, drawn) /\ SameIdentity(counted, drawn)
      /\ counted.rx.total_chunks = s.rx.total_chunks
      /\ counted.rx.chunk_mask = A /\ counted.rx.received = k
  BY <1>3, <1>5, CountedUpdate DEF Kept
<1> HIDE DEF counted
<1>8. ASSUME WellCounted(s.rx), c < s.rx.total_chunks, c \notin s.rx.chunk_mask
      PROVE  WellCounted(counted.rx)
  BY <1>3, <1>6, <1>7, <1>8 DEF WellCounted, CountInv, SameIdentity
<1>9. /\ merged \in Cards /\ Kept(merged, counted)
      /\ merged.rx.total_chunks = s.rx.total_chunks
      /\ (GateInv /\ WellCounted(counted.rx) /\ s.rx.total_chunks # 0)
            => WellCounted(merged.rx) \/ merged.rx.received >= merged.rx.total_chunks
  BY <1>7, MergeArrival, KeptKept DEF Kept
<1> HIDE DEF merged
<1>10. Kept(present(merged), merged) /\ (s.rx.total_chunks # 0 => WellCounted(present(merged).rx))
  BY <1>9, Present, PresentCounts DEF Kept
<1>11. Kept(drawn, s)
  BY <1>3 DEF Kept, SameSettings
<1>12. Kept(merged, s) /\ Kept(present(merged), s)
  BY <1>7, <1>9, <1>10, <1>11, KeptKept
<1>13. WellCounted(s.rx) => WellCounted(quiet.rx)
  BY <1>2, SameFrameCounts
<1> QED BY <1>1, <1>2, <1>8, <1>9, <1>10, <1>12, <1>13

\* The receiver starts a frame: its name changes, not what has arrived of it.
Started(s, id, n) == [s EXCEPT !.rx.current_frame_id = id, !.rx.total_chunks = n]

\* Starting a frame leaves the display alone.
LEMMA StartUpdate ==
    ASSUME NEW s \in Cards, NEW id \in Nat, NEW n \in Nat
    PROVE  LET t == Started(s, id, n)
           IN /\ Kept(t, s) /\ SameDisplay(t, s)
              /\ t.rx.current_frame_id = id /\ t.rx.total_chunks = n
              /\ t.rx.chunk_mask = s.rx.chunk_mask /\ t.rx.received = s.rx.received
              /\ t.rx.format = s.rx.format
BY DEF Cards, Receivers, Started, Kept, SameSettings, SameDisplay

\* A pixel packet: the outgoing frame ends, the chunk's frame is current.
LEMMA Pixel ==
    ASSUME TypeOK, NEW s \in Cards, NEW f \in Frames, NEW c \in ChunkIds
    PROVE  LET t == process_pixels(s, f, c)
           IN /\ Kept(t, s)
              /\ (GateInv /\ WellCounted(s.rx) /\ c < TotalOf(f)) => WellCounted(t.rx)
<1> DEFINE parsed == parse_magic(s, Format[f])
           change == WireId[f] # s.rx.current_frame_id \/ TotalOf(f) # s.rx.total_chunks
           shown == present(parsed)
           started == Started(shown, WireId[f], TotalOf(f))
           current == IF change THEN started ELSE parsed
           accepted == AcceptChunk(current, f, c)
<1>1. process_pixels(s, f, c) \in {accepted, parsed}
  BY Zenon DEF process_pixels, Started
<1>2. Format[f] \in Formats /\ WireId[f] \in Nat /\ TotalOf(f) \in Nat /\ TotalOf(f) # 0
  BY PixelDmaAssumption, TotalType
<1>3. /\ parsed \in Cards /\ Kept(parsed, s)
      /\ parsed.rx.current_frame_id = s.rx.current_frame_id
      /\ parsed.rx.total_chunks = s.rx.total_chunks
      /\ parsed.rx.chunk_mask = s.rx.chunk_mask /\ parsed.rx.received = s.rx.received
  BY <1>2, ParseMagic DEF Kept
<1> HIDE DEF parsed
<1>4. WellCounted(s.rx) => WellCounted(parsed.rx)
  BY <1>3 DEF WellCounted, CountInv
<1>5. /\ shown \in Cards /\ Kept(shown, parsed)
      /\ parsed.rx.total_chunks = 0 => shown = parsed
      /\ parsed.rx.total_chunks # 0 => NoFrame(shown)
  BY <1>3, Present DEF Kept
<1> HIDE DEF shown
<1>6. CountInv(parsed.rx) => shown.rx.chunk_mask = {} /\ shown.rx.received = 0
  <2>1. CASE parsed.rx.total_chunks = 0
    <3> SUFFICES ASSUME CountInv(parsed.rx) PROVE parsed.rx.chunk_mask = {} /\ parsed.rx.received = 0
      BY <1>5, <2>1
    <3>1. parsed.rx.chunk_mask = {}
      BY <2>1 DEF CountInv
    <3> QED BY <3>1, FS_EmptySet DEF CountInv
  <2> QED BY <1>5, <2>1 DEF NoFrame
<1>7. /\ Kept(started, shown) /\ started.rx.current_frame_id = WireId[f]
      /\ started.rx.total_chunks = TotalOf(f)
      /\ started.rx.chunk_mask = shown.rx.chunk_mask /\ started.rx.received = shown.rx.received
  BY <1>2, <1>5, StartUpdate
<1> HIDE DEF started
<1>8. WellCounted(parsed.rx) => WellCounted(started.rx)
  <2>1. WellCounted(parsed.rx) => shown.rx.received = Cardinality(shown.rx.chunk_mask)
    BY <1>5, FS_EmptySet DEF WellCounted, NoFrame
  <2>2. CountInv(parsed.rx) => CountInv(started.rx)
    BY <1>6, <1>7, FS_EmptySet DEF CountInv, Announced
  <2> QED BY <1>7, <2>1, <2>2 DEF WellCounted
<1>9. /\ current \in Cards /\ Kept(current, s)
      /\ WellCounted(s.rx) => WellCounted(current.rx)
      /\ current.rx.total_chunks = TotalOf(f)
  <2>1. Kept(started, s)
    BY <1>3, <1>5, <1>7, KeptKept
  <2>2. CASE change
    BY <1>4, <1>7, <1>8, <2>1, <2>2 DEF Kept
  <2>3. CASE ~change
    BY <1>3, <1>4, <2>3
  <2> QED BY <2>2, <2>3
<1> HIDE DEF current
<1>10. /\ Kept(accepted, current)
       /\ (GateInv /\ WellCounted(current.rx) /\ c < TotalOf(f)) => WellCounted(accepted.rx)
  BY <1>2, <1>9, Accept
<1> HIDE DEF accepted
<1>11. Kept(accepted, s)
  BY <1>9, <1>10, KeptKept
<1> QED BY <1>1, <1>3, <1>4, <1>9, <1>10, <1>11

\* Every packet the trap handler takes.
LEMMA Packet ==
    ASSUME TypeOK, NEW s \in Cards, NEW p \in MacPackets
    PROVE  LET t == process_packet(s, p)
           IN /\ Kept(t, s)
              /\ p.kind = "BP" => SameDisplay(t, s)
              /\ s.rx.hold => t = s
              /\ (/\ GateInv /\ WellCounted(s.rx)
                  /\ p.kind = "pixels" => p.chunk < TotalOf(p.frame)) => WellCounted(t.rx)
<1>1. \/ p.kind = "pixels" /\ p.frame \in Frames /\ p.chunk \in ChunkIds
      \/ p.kind = "BP" /\ p.palette \in Palettes
      \/ p.kind = "wrong size" /\ p.format \in Formats
  BY DEF MacPackets
<1>0. Kept(s, s) /\ SameDisplay(s, s)
  BY KeptKept DEF SameDisplay
<1>2. CASE s.rx.hold
  <2>1. process_packet(s, p) = s
    BY <1>2 DEF process_packet
  <2> QED BY <1>0, <2>1
<1>3. CASE ~s.rx.hold /\ p.kind = "BP" /\ p.palette \in Palettes
  <2>1. process_packet(s, p) = stash_palette(s, p.palette)
    BY <1>3 DEF process_packet
  <2> QED BY <1>3, <2>1, Stash, SameFrameCounts
<1>4. CASE ~s.rx.hold /\ p.kind = "wrong size" /\ p.format \in Formats
  <2>1. process_packet(s, p) = parse_magic(s, p.format)
    BY <1>4 DEF process_packet
  <2>2. PICK t : t = parse_magic(s, p.format)
    OBVIOUS
  <2>3. /\ Kept(t, s)
        /\ t.rx.current_frame_id = s.rx.current_frame_id /\ t.rx.total_chunks = s.rx.total_chunks
        /\ t.rx.chunk_mask = s.rx.chunk_mask /\ t.rx.received = s.rx.received
    BY <1>4, <2>2, ParseMagic
  <2>4. WellCounted(s.rx) => WellCounted(t.rx)
    BY <2>3, Zenon DEF WellCounted, CountInv
  <2> QED BY <1>4, <2>1, <2>2, <2>3, <2>4
<1>5. CASE ~s.rx.hold /\ p.kind = "pixels" /\ p.frame \in Frames /\ p.chunk \in ChunkIds
  <2>1. process_packet(s, p) = process_pixels(s, p.frame, p.chunk)
    BY <1>5 DEF process_packet
  <2> QED BY <1>5, <2>1, Pixel
<1> QED BY <1>1, <1>2, <1>3, <1>4, <1>5

-----------------------------------------------------------------------------
(* Steps of the gateware's side and steps of the CPU's.                    *)

\* What taking the oldest packet leaves in the MAC.
LEMMA MacTail ==
    ASSUME NEW m \in Seq(MacPackets), m # <<>>
    PROVE  /\ Tail(m) \in Seq(MacPackets)
           /\ Head(m) \in MacPackets /\ Head(m) = m[1] /\ 1 \in 1 .. Len(m)
           /\ Len(Tail(m)) = Len(m) - 1
           /\ \A i \in 1 .. Len(Tail(m)) : Tail(m)[i] = m[i + 1] /\ i + 1 \in 1 .. Len(m)
OBVIOUS

\* What a packet that reaches the MAC adds to it.
LEMMA MacAppend ==
    ASSUME NEW m \in Seq(MacPackets), NEW p \in MacPackets
    PROVE  /\ Append(m, p) \in Seq(MacPackets)
           /\ Len(Append(m, p)) = Len(m) + 1
           /\ \A i \in 1 .. Len(Append(m, p)) :
                Append(m, p)[i] = IF i = Len(m) + 1 THEN p ELSE m[i]
OBVIOUS

\* How the packets in the MAC change in a step.
MacStep ==
    \/ mac' = mac
    \/ mac # <<>> /\ mac' = Tail(mac)
    \/ \E p \in MacPackets :
         /\ mac' = Append(mac, p)
         /\ p.kind = "pixels" => /\ ~rx.hw_filter_on
                                 /\ GateInv => p.chunk < TotalOf(p.frame)
                                 /\ ~Delays => p.frame = nextFrame
         /\ p.kind = "wrong size" => ~rx.hw_filter_on /\ \E x \in Strays : p.format = x.format

\* The packet the MAC makes of a chunk.
LEMMA PixelPacket ==
    ASSUME NEW f \in Frames, NEW c \in ChunkIds
    PROVE  LET p == [kind |-> "pixels", frame |-> f, chunk |-> c]
           IN p \in MacPackets /\ p.kind = "pixels" /\ p.frame = f /\ p.chunk = c
BY DEF MacPackets

\* What MacReceives puts into the MAC.
LEMMA Received ==
    ASSUME NEW f \in Frames, NEW c \in ChunkIds, GateInv => c < TotalOf(f),
           ~Delays => f = nextFrame, MacReceives(f, c)
    PROVE  MacStep
<1>1. PICK p : p = [kind |-> "pixels", frame |-> f, chunk |-> c]
  OBVIOUS
<1>2. p \in MacPackets /\ p.kind = "pixels" /\ p.frame = f /\ p.chunk = c
  BY <1>1, PixelPacket
<1>3. mac' = mac \/ (~rx.hw_filter_on /\ mac' = Append(mac, p))
  BY <1>1 DEF MacReceives
<1> QED BY <1>2, <1>3 DEF MacStep

\* Every step changes the MAC in one of the ways of MacStep.
LEMMA MacSteps ==
    ASSUME RxTypeOK, [ReceiverNext]_allVars
    PROVE  MacStep
<1>1. CASE RxSendChunk
  <2>1. nextFrame \in Frames /\ nextChunk \in Nat
    BY <1>1 DEF RxSendChunk, RxTypeOK, TypeOK
  <2> DEFINE c == nextChunk % TotalOf(nextFrame)
  <2>2. c \in 0 .. TotalOf(nextFrame) - 1 /\ TotalOf(nextFrame) \in Nat
    BY <2>1, TotalType, ModRange
  <2>3. c \in ChunkIds /\ c < TotalOf(nextFrame)
    BY <2>1, <2>2, TotalType
  <2>4. MacReceives(nextFrame, c)
    BY <1>1 DEF RxSendChunk
  <2> HIDE DEF c
  <2> QED BY <2>1, <2>3, <2>4, Received
<1>2. CASE RxDelayCopy
  <2>1. wire # <<>> /\ wire \in Seq(Packets)
    BY <1>2 DEF RxDelayCopy, DelayCopy, RxTypeOK, TypeOK
  <2>2. Head(wire) \in Packets /\ Head(wire) = wire[1] /\ 1 \in 1 .. Len(wire)
    BY <2>1, TailFacts
  <2>3. /\ Head(wire).frame \in Frames /\ Head(wire).chunk \in ChunkIds
        /\ GateInv => Head(wire).chunk < TotalOf(Head(wire).frame)
    BY <2>2 DEF GateInv, Packets
  <2> QED BY <1>2, <2>3, Received DEF RxDelayCopy, DelayCopy
<1>3. CASE SendPalette
  <2>1. PaletteOf[nextFrame] \in Palettes
    BY <1>3, ReceiverAssumption DEF SendPalette
  <2>2. PICK p : p = [kind |-> "BP", palette |-> PaletteOf[nextFrame]]
    OBVIOUS
  <2>3. p \in MacPackets /\ p.kind = "BP"
    BY <2>1, <2>2 DEF MacPackets
  <2>4. mac' = Append(mac, p)
    BY <1>3, <2>2 DEF SendPalette
  <2> QED BY <2>3, <2>4 DEF MacStep
<1>4. CASE \E x \in Strays : StrayPacket(x)
  <2>1. PICK x \in Strays : StrayPacket(x)
    BY <1>4
  <2>2. x.format \in Formats
    BY ReceiverAssumption
  <2>3. PICK p : p = [kind |-> "wrong size", format |-> x.format]
    OBVIOUS
  <2>4. p \in MacPackets /\ p.kind = "wrong size" /\ p.format = x.format
    BY <2>2, <2>3 DEF MacPackets
  <2>5. mac' = mac \/ (mac' = Append(mac, p) /\ ~rx.hw_filter_on)
    BY <2>1, <2>3 DEF StrayPacket
  <2> QED BY <2>4, <2>5 DEF MacStep
<1>5. CASE LoseMacPacket \/ IsrPacket
  BY <1>5 DEF LoseMacPacket, IsrPacket, MacStep
<1>6. CASE Gateware \/ bitmap_present_tick \/ TimerTick \/ TimePasses \/ bitmap_tick \/ Operator
           \/ UNCHANGED allVars
  <2>1. mac' = mac
    BY <1>6 DEF Gateware, bitmap_present_tick, TimerTick, TimePasses, bitmap_tick, Operator,
         api_hold_set, api_dma_set, api_hw_filter, api_auto_swap, api_cpu_pixels, cpuVars, allVars
  <2> QED BY <2>1 DEF MacStep
<1> QED BY <1>1, <1>2, <1>3, <1>4, <1>5, <1>6 DEF ReceiverNext

\* Packets keep their type and their chunk numbers on the way through the MAC.
LEMMA MacKept ==
    ASSUME RxTypeOK, MacStep
    PROVE  /\ mac' \in Seq(MacPackets)
           /\ GateInv /\ MacInv => MacInv'
<1>0. mac \in Seq(MacPackets)
  BY DEF RxTypeOK
<1>1. CASE mac' = mac
  BY <1>0, <1>1 DEF MacInv
<1>2. CASE mac # <<>> /\ mac' = Tail(mac)
  BY <1>0, <1>2, MacTail DEF MacInv
<1>3. CASE \E p \in MacPackets : /\ mac' = Append(mac, p)
                                 /\ p.kind = "pixels" => (GateInv => p.chunk < TotalOf(p.frame))
  <2>1. PICK p \in MacPackets : /\ mac' = Append(mac, p)
                                /\ p.kind = "pixels" => (GateInv => p.chunk < TotalOf(p.frame))
    BY <1>3
  <2>2. /\ mac' \in Seq(MacPackets) /\ Len(mac') = Len(mac) + 1 /\ Len(mac) \in Nat
        /\ \A i \in 1 .. Len(mac') : mac'[i] = IF i = Len(mac) + 1 THEN p ELSE mac[i]
    BY <1>0, <2>1, MacAppend
  <2>3. ASSUME GateInv, MacInv, NEW i \in 1 .. Len(mac'), mac'[i].kind = "pixels"
        PROVE  mac'[i].chunk < TotalOf(mac'[i].frame)
    <3>1. CASE i = Len(mac) + 1
      BY <2>1, <2>2, <2>3, <3>1
    <3>2. CASE i # Len(mac) + 1
      BY <2>2, <2>3, <3>2 DEF MacInv
    <3> QED BY <3>1, <3>2
  <2> QED BY <2>2, <2>3 DEF MacInv
<1> QED BY <1>1, <1>2, <1>3 DEF MacStep

\* The gateware's frame stays an announced one,
LEMMA GateStep ==
    ASSUME TypeOK, GateInv, [OverflowNext]_dmaAll
    PROVE  GateInv'
<1>0. wire \in Seq(Packets) /\ TypeOK' /\ frame_id \in Nat /\ total_chunks \in Nat
  BY TypeStep DEF TypeOK
<1>s. UNCHANGED <<fsm, pix, frame_id, total_chunks, arrival>> => (OneTotal => GateFrame)'
  BY DEF GateInv, GateFrame, Announced
<1>1. CASE SendChunk
  <2>1. PICK q \in Packets : wire' = Append(wire, q) /\ q.chunk < TotalOf(q.frame)
    BY <1>1, SentPacket
  <2>2. UNCHANGED <<fsm, pix, frame_id, total_chunks, arrival>>
    BY <1>1 DEF SendChunk, dmaVars
  <2>3. /\ Len(wire') = Len(wire) + 1 /\ Len(wire) \in Nat
        /\ \A i \in 1 .. Len(wire') : wire'[i] = IF i = Len(wire) + 1 THEN q ELSE wire[i]
    BY <1>0, <2>1, AppendFacts
  <2> QED BY <1>s, <2>1, <2>2, <2>3 DEF GateInv
<1>2. CASE LosePacket \/ IgnorePacket
  <2>1. wire' = Tail(wire) /\ wire # <<>> /\ UNCHANGED <<fsm, pix, frame_id, total_chunks, arrival>>
    BY <1>2 DEF LosePacket, IgnorePacket, dmaVars
  <2> QED BY <1>0, <1>s, <2>1, TailFacts DEF GateInv
<1>3. CASE DelayCopy
  <2>1. wire # <<>> /\ UNCHANGED <<fsm, pix, frame_id, total_chunks, arrival>>
    BY <1>3 DEF DelayCopy, dmaVars
  <2>2. Head(wire) \in Packets /\ Head(wire) = wire[1] /\ 1 \in 1 .. Len(wire)
    BY <1>0, <2>1, TailFacts
  <2>3. PICK q \in Packets : wire' = Append(wire, q) /\ q.frame = Head(wire).frame /\ q.chunk = Head(wire).chunk
    BY <1>3, <2>2, CopiedPacket DEF DelayCopy
  <2>4. q.chunk < TotalOf(q.frame)
    BY <2>2, <2>3 DEF GateInv
  <2>5. /\ Len(wire') = Len(wire) + 1 /\ Len(wire) \in Nat
        /\ \A i \in 1 .. Len(wire') : wire'[i] = IF i = Len(wire) + 1 THEN q ELSE wire[i]
    BY <1>0, <2>3, AppendFacts
  <2> QED BY <1>s, <2>1, <2>4, <2>5 DEF GateInv
<1>4. CASE SameFrameHeader \/ NewFrameHeader
  <2>1. PICK p : p = Head(wire)
    OBVIOUS
  <2>2. /\ p \in Packets /\ p.frame \in Frames /\ p.chunk < TotalOf(p.frame)
        /\ wire # <<>> /\ wire' = Tail(wire)
    BY <1>0, <1>4, <2>1, TailFacts DEF GateInv, Packets, SameFrameHeader, NewFrameHeader
  <2>3. \A i \in 1 .. Len(wire') : wire'[i].chunk < TotalOf(wire'[i].frame)
    BY <1>0, <2>2, TailFacts DEF GateInv
  <2>4. pix'.chunk = p.chunk
    BY <1>4, <2>1 DEF SameFrameHeader, NewFrameHeader, BeginPayload
  <2>5. Announced(WireId[p.frame], TotalOf(p.frame)) /\ WireId[p.frame] # 0 /\ TotalOf(p.frame) \in Nat
    BY <2>2, AnnouncedType DEF Announced
  <2>6. CASE SameFrameHeader
    <3>1. WireId[p.frame] = frame_id /\ UNCHANGED <<frame_id, total_chunks, arrival>>
      BY <2>1, <2>6 DEF SameFrameHeader, frameVars, countVars
    <3>2. OneTotal => total_chunks = TotalOf(p.frame)
      BY <1>0, <2>5, <3>1 DEF GateInv, GateFrame, OneTotal
    <3>3. OneTotal' => GateFrame'
      BY <2>2, <2>4, <2>5, <3>1, <3>2 DEF GateInv, GateFrame, Announced
    <3> QED BY <2>3, <3>3 DEF GateInv
  <2>7. CASE NewFrameHeader
    <3>1. frame_id' = WireId[p.frame] /\ total_chunks' = TotalOf(p.frame) /\ arrival' = {}
      BY <2>1, <2>7 DEF NewFrameHeader, CommitHeader
    <3>2. GateFrame'
      BY <2>2, <2>4, <2>5, <3>1 DEF GateFrame, Announced
    <3> QED BY <2>3, <3>2 DEF GateInv
  <2> QED BY <1>4, <2>6, <2>7
<1>5. CASE FinishPayload
  <2>1. /\ fsm = "PIX" /\ fsm' = "IDLE" /\ arrival' = arrival \cup {pix.chunk}
        /\ UNCHANGED <<wire, frame_id, total_chunks>>
    BY <1>5 DEF FinishPayload, frameVars
  <2>2. pix.chunk \in ChunkIds /\ (OneTotal => pix.chunk < total_chunks)
    BY <2>1 DEF GateInv, GateFrame, TypeOK
  <2>3. OneTotal => pix.chunk \in 0 .. total_chunks - 1
    BY <1>0, <2>2 DEF ChunkIds
  <2>4. OneTotal' => GateFrame'
    BY <2>1, <2>3 DEF GateInv, GateFrame, Announced
  <2> QED BY <2>1, <2>4 DEF GateInv
<1>6. CASE AbandonPayload
  <2>1. fsm' = "IDLE" /\ UNCHANGED <<wire, frame_id, total_chunks, arrival>>
    BY <1>6 DEF AbandonPayload, frameVars, countVars
  <2>2. OneTotal' => GateFrame'
    BY <2>1 DEF GateInv, GateFrame, Announced
  <2> QED BY <2>1, <2>2 DEF GateInv
<1>7. CASE CutPacket
  <2>1. /\ wire # <<>> /\ wire' = [wire EXCEPT ![Len(wire)].cut = TRUE]
        /\ UNCHANGED <<fsm, pix, frame_id, total_chunks, arrival>>
    BY <1>7 DEF CutPacket, dmaVars
  <2>2. \A i \in 1 .. Len(wire') : wire'[i].chunk < TotalOf(wire'[i].frame)
    BY <1>0, <2>1 DEF GateInv
  <2> QED BY <1>s, <2>1, <2>2 DEF GateInv
<1>8. CASE (\E on \in BOOLEAN : SetEnable(on)) \/ UNCHANGED dmaAll
  <2>1. UNCHANGED <<wire, fsm, pix, frame_id, total_chunks, arrival>>
    BY <1>8 DEF SetEnable, dmaVars, dmaAll
  <2> QED BY <1>s, <2>1 DEF GateInv
<1> QED BY <1>1, <1>2, <1>3, <1>4, <1>5, <1>6, <1>7, <1>8 DEF OverflowNext, DmaNext, HardwareNext

\* A stray's header, in the gateware.
StraySide == enable /\ \E x \in Strays : StrayHeader(x)

\* also when the header is a stray's.
LEMMA StrayGate ==
    ASSUME TypeOK, EnableInv, GateInv, StraySide
    PROVE  GateInv'
<1>1. PICK x \in Strays : StrayHeader(x) /\ ~DmaNever
  BY DEF StraySide, EnableInv
<1>2. wire' = wire /\ pix'.chunk = x.chunk /\ frame_id \in Nat /\ total_chunks \in Nat
  BY <1>1 DEF StrayHeader, StrayPayload, TypeOK
<1>3. /\ Announced(x.frame_id, x.total_chunks) /\ x.frame_id # 0
      /\ x.frame_id \in Nat /\ x.total_chunks \in Nat
  BY <1>1, AnnouncedType DEF Announced
<1>4. OneTotal => x.chunk < x.total_chunks
  BY <1>1 DEF OneTotal
<1>5. CASE x.frame_id = frame_id
  <2>1. UNCHANGED <<frame_id, total_chunks, arrival>>
    BY <1>1, <1>5 DEF StrayHeader, frameVars, countVars
  <2>2. OneTotal => total_chunks = x.total_chunks
    BY <1>2, <1>3, <1>5 DEF GateInv, GateFrame, OneTotal
  <2>3. OneTotal' => GateFrame'
    BY <1>2, <1>3, <1>4, <1>5, <2>1, <2>2 DEF GateInv, GateFrame, Announced
  <2> QED BY <1>2, <2>3 DEF GateInv
<1>6. CASE x.frame_id # frame_id
  <2>1. frame_id' = x.frame_id /\ total_chunks' = x.total_chunks /\ arrival' = {}
    BY <1>1, <1>6 DEF StrayHeader, CommitHeader
  <2>2. OneTotal' => GateFrame'
    BY <1>2, <1>3, <1>4, <2>1 DEF GateFrame, Announced
  <2> QED BY <1>2, <2>2 DEF GateInv
<1> QED BY <1>5, <1>6

\* A stray keeps the gateware well typed.
LEMMA StrayTypes ==
    ASSUME TypeOK, StraySide
    PROVE  TypeOK'
<1>1. PICK x \in Strays : StrayHeader(x)
  BY DEF StraySide
<1>2. /\ x.frame_id \in Nat /\ x.total_chunks \in Nat /\ x.chunk \in ChunkIds
  BY ReceiverAssumption
<1>3. PICK h \in Halves : StrayPayload(x, h)
  BY <1>1, OtherHalf DEF StrayHeader, WriteBase, write_base_next, NextBase, TypeOK
<1>4. fsm' \in {"IDLE", "PIX"} /\ pix' \in [frame : Frames \cup {Boot}, chunk : ChunkIds, half : Halves, cut : BOOLEAN]
  BY <1>2, <1>3 DEF StrayPayload
<1>5. fb' \in [Halves -> [Pixels -> Contents \cup {Torn}]]
  <2>1. PICK v : v = [q \in Pixels |-> IF q \in Cover(x.format, x.chunk) THEN Torn ELSE fb[h][q]]
    OBVIOUS
  <2>2. v \in [Pixels -> Contents \cup {Torn}]
    BY <2>1 DEF TypeOK
  <2>3. fb' = [fb EXCEPT ![h] = v]
    BY <1>3, <2>1 DEF StrayPayload
  <2> QED BY <2>2, <2>3 DEF TypeOK
<1>6. UNCHANGED <<nextFrame, nextChunk, wire, enable, auto_swap>>
  BY <1>1 DEF StrayHeader, sendVars, csrVars
<1>7. CASE UNCHANGED <<frameVars, countVars, fb_base>>
  BY <1>4, <1>5, <1>6, <1>7 DEF TypeOK, frameVars, countVars
<1>8. CASE CommitHeader(x.frame_id, x.total_chunks, x.format = "BI")
  <2>0. fb_base' \in Halves
    BY <1>8, OtherHalf DEF CommitHeader, NextBase, TypeOK
  <2>1. done_seq' \in 0 .. SeqMod - 1
    <3>1. done_seq + 1 \in Nat /\ SeqMod \in Nat \ {0}
      BY PixelDmaAssumption DEF TypeOK
    <3>2. (done_seq + 1) % SeqMod \in 0 .. SeqMod - 1
      BY <3>1, ModRange
    <3> QED BY <1>8, <3>2 DEF CommitHeader, NextSeq
  <2>2. done' \in Snapshots
    BY <1>8 DEF CommitHeader, Snapshots, TypeOK
  <2>3. frame_id' \in Nat /\ total_chunks' \in Nat /\ arrival' \in SUBSET ChunkIds /\ received' \in Nat
    BY <1>2, <1>8 DEF CommitHeader
  <2>4. indexed' \in BOOLEAN
    BY <1>8, Zenon DEF CommitHeader
  <2> QED BY <1>4, <1>5, <1>6, <2>0, <2>1, <2>2, <2>3, <2>4 DEF TypeOK
<1> QED BY <1>1, <1>7, <1>8, Zenon DEF StrayHeader

\* The record the handlers work on is well typed.
LEMMA CardTyped ==
    ASSUME RxTypeOK
    PROVE  Card \in Cards /\ Card.rx = rx /\ Card.fb = fb /\ Card.fb_base = fb_base
           /\ Card.auto_swap = auto_swap /\ Card.hub = hub
BY DEF RxTypeOK, TypeOK, Card, Cards

\* A step of the gateware's side: the sender, the link, the parser, the CSRs and
\* the bookkeeping that leaves the CPU's frame alone.
GateSide ==
    /\ [OverflowNext]_dmaAll \/ StraySide
    /\ ~Overflow /\ Strays = {} => [DmaNext]_dmaAll
    /\ hub' = hub /\ rx' \in Receivers
    /\ rx'.hw_filter_on = rx.hw_filter_on
    /\ rx'.current_frame_id = rx.current_frame_id /\ rx'.total_chunks = rx.total_chunks
    /\ rx'.chunk_mask = rx.chunk_mask /\ rx'.received = rx.received
    /\ rx'.format = rx.format

\* A step of the CPU: a handler ran to its end.
CpuSide == \E t \in Cards :
    /\ Become(t) /\ UNCHANGED dmaRest
    /\ GateInv /\ MacInv /\ WellCounted(rx) => WellCounted(t.rx)

\* What a handler leaves behind.
LEMMA Became ==
    ASSUME RxTypeOK, NEW t \in Cards, Become(t), UNCHANGED dmaRest
    PROVE  /\ TypeOK' /\ rx' = t.rx /\ hub' = t.hub /\ rx' \in Receivers /\ hub' \in Hub75s
           /\ fb' = t.fb /\ fb_base' = t.fb_base /\ auto_swap' = t.auto_swap
           /\ GateInv => GateInv'
<1>1. /\ rx' = t.rx /\ hub' = t.hub /\ fb' = t.fb /\ fb_base' = t.fb_base /\ auto_swap' = t.auto_swap
  BY DEF Become
<1>2. UNCHANGED <<nextFrame, nextChunk, wire, enable, fsm, pix, frame_id, total_chunks,
                  indexed, done, done_seq, arrival, received>>
  BY DEF dmaRest, dmaVars
<1>3. GateInv => GateInv'
  BY <1>2 DEF GateInv, GateFrame, Announced
<1> QED BY <1>1, <1>2, <1>3, CardParts DEF RxTypeOK, TypeOK

\* A setting changes, and perhaps the frame is forgotten.
LEMMA SettingUpdate ==
    ASSUME NEW s \in Cards, NEW on \in BOOLEAN
    PROVE  /\ LET t == [s EXCEPT !.auto_swap = on, !.rx.hw_filter_on = on]
              IN t \in Cards /\ SameFrame(t, s) /\ t.rx.hold = s.rx.hold
           /\ LET t == [s EXCEPT !.auto_swap = on]
              IN t \in Cards /\ SameFrame(t, s) /\ t.rx.hold = s.rx.hold
           /\ LET t == [s EXCEPT !.rx.cpu_pixels = on]
              IN /\ t \in Cards /\ SameFrame(t, s) /\ SameDisplay(t, s)
                 /\ t.rx.hold = s.rx.hold /\ t.rx.hw_filter_on = s.rx.hw_filter_on
BY DEF Cards, Receivers, SameFrame, SameDisplay

\* Setting or clearing the hold stops or starts the DMA between packets.
LEMMA HoldStep ==
    ASSUME RxTypeOK, NEW on \in BOOLEAN, api_hold_set(on)
    PROVE  [DmaNext]_dmaAll /\ enable' = ~on
<1>1. UNCHANGED <<sendVars, wire, dmaVars, auto_swap, dispVars>> /\ enable' = ~on
  BY DEF api_hold_set
<1>2. CASE enable' = enable
  BY <1>1, <1>2 DEF sendVars, dmaVars, dispVars, dmaAll
<1>3. CASE enable' # enable
  <2>1. enable' \in BOOLEAN
    BY <1>1
  <2>2. SetEnable(enable')
    BY <1>1, <1>3 DEF SetEnable
  <2> QED BY <1>1, <2>1, <2>2 DEF DmaNext
<1> QED BY <1>1, <1>2, <1>3

\* The steps in which the firmware may touch the display.
CpuHandler ==
    \/ IsrPacket \/ bitmap_present_tick \/ bitmap_tick
    \/ \E on \in BOOLEAN : api_hw_filter(on) \/ api_auto_swap(on) \/ api_cpu_pixels(on)

\* All others are steps of the gateware's side.
LEMMA GateSteps ==
    ASSUME RxTypeOK, [ReceiverNext]_allVars, ~CpuHandler
    PROVE  GateSide
<1>0. rx \in Receivers /\ TypeOK
  BY DEF RxTypeOK
<1>1. CASE RxSendChunk \/ RxDelayCopy \/ Gateware \/ \E on \in BOOLEAN : api_dma_set(on)
  <2>1. rx' = rx /\ hub' = hub
    BY <1>1 DEF RxSendChunk, RxDelayCopy, Gateware, api_dma_set, cpuVars
  <2>2. [OverflowNext]_dmaAll /\ (~Overflow => [DmaNext]_dmaAll)
    BY <1>1 DEF RxSendChunk, RxDelayCopy, Gateware, api_dma_set, OverflowNext, DmaNext
  <2> QED BY <1>0, <2>1, <2>2 DEF GateSide
<1>2. CASE SendPalette \/ LoseMacPacket \/ TimerTick \/ UNCHANGED allVars
  <2>1. rx' = rx /\ hub' = hub /\ UNCHANGED dmaAll
    BY <1>2 DEF SendPalette, LoseMacPacket, TimerTick, allVars, cpuVars
  <2> QED BY <1>0, <2>1 DEF GateSide
<1>5. CASE \E x \in Strays : StrayPacket(x)
  <2>1. PICK x \in Strays : StrayPacket(x)
    BY <1>5
  <2>2. rx' = rx /\ hub' = hub /\ (StraySide \/ UNCHANGED dmaAll)
    BY <2>1 DEF StrayPacket, StraySide
  <2> QED BY <1>0, <2>1, <2>2 DEF GateSide
<1>3. CASE TimePasses
  <2>1. rx.quiet + 1 \in 0 .. 2 /\ rx' = [rx EXCEPT !.quiet = rx.quiet + 1]
    BY <1>0, <1>3 DEF TimePasses, Receivers
  <2>2. hub' = hub /\ UNCHANGED dmaAll
    BY <1>3 DEF TimePasses
  <2> QED BY <1>0, <2>1, <2>2 DEF GateSide, Receivers
<1>4. CASE \E on \in BOOLEAN : api_hold_set(on)
  <2>1. PICK on \in BOOLEAN : api_hold_set(on)
    BY <1>4
  <2>2. hub' = hub /\ rx' = [rx EXCEPT !.hold = on]
    BY <2>1 DEF api_hold_set
  <2>3. [OverflowNext]_dmaAll /\ [DmaNext]_dmaAll
    BY <2>1, HoldStep DEF OverflowNext
  <2>4. /\ rx' \in Receivers /\ rx'.hw_filter_on = rx.hw_filter_on
        /\ rx'.current_frame_id = rx.current_frame_id /\ rx'.total_chunks = rx.total_chunks
        /\ rx'.chunk_mask = rx.chunk_mask /\ rx'.received = rx.received
        /\ rx'.format = rx.format
    BY <1>0, <2>2 DEF Receivers
  <2> QED BY <2>2, <2>3, <2>4 DEF GateSide
<1> QED BY <1>1, <1>2, <1>3, <1>4, <1>5, Zenon DEF ReceiverNext, Operator, CpuHandler

\* Every handler takes a well typed card to a well typed card.
LEMMA CpuSteps ==
    ASSUME RxTypeOK, CpuHandler
    PROVE  CpuSide
<1>0. TypeOK
  BY DEF RxTypeOK
<1>c. PICK s \in Cards : s = Card /\ s.rx = rx
  BY CardTyped
<1>5. CASE IsrPacket
  <2>1. mac # <<>> /\ mac \in Seq(MacPackets)
    BY <1>5 DEF IsrPacket, RxTypeOK
  <2>2. PICK p \in MacPackets : p = Head(mac) /\ p = mac[1] /\ 1 \in 1 .. Len(mac)
    BY <2>1, MacTail
  <2>3. PICK t : t = process_packet(s, p)
    OBVIOUS
  <2>4. t \in Cards /\ (GateInv /\ MacInv /\ WellCounted(rx) => WellCounted(t.rx))
    BY <1>0, <1>c, <2>2, <2>3, Packet DEF Kept, MacInv
  <2>5. Become(t) /\ UNCHANGED dmaRest
    BY <1>5, <1>c, <2>2, <2>3, Zenon DEF IsrPacket
  <2> QED BY <2>4, <2>5 DEF CpuSide
<1>6. CASE bitmap_present_tick
  <2>1. PICK u : u = present_done_now(s)
    OBVIOUS
  <2>2. u \in Cards /\ (WellCounted(rx) => WellCounted(u.rx))
    BY <1>0, <1>c, <2>1, DoneFrame DEF present_done_now, Kept
  <2>3. PICK t : t = AfterPresent(u)
    OBVIOUS
  <2>4. t \in Cards /\ t.rx = u.rx
    BY <2>2, <2>3, After
  <2>5. Become(t) /\ UNCHANGED dmaRest
    BY <1>6, <1>c, <2>1, <2>3, Zenon DEF bitmap_present_tick
  <2> QED BY <2>2, <2>4, <2>5 DEF CpuSide
<1>7. CASE bitmap_tick
  <2>1. PICK u : u = tick(s)
    OBVIOUS
  <2>2. u \in Cards /\ (GateInv /\ WellCounted(rx) => WellCounted(u.rx))
    BY <1>0, <1>c, <2>1, Tick DEF Kept
  <2>3. PICK t : t = AfterPresent(u)
    OBVIOUS
  <2>4. t \in Cards /\ t.rx = u.rx
    BY <2>2, <2>3, After
  <2>5. Become(t) /\ UNCHANGED dmaRest
    BY <1>7, <1>c, <2>1, <2>3, Zenon DEF bitmap_tick
  <2> QED BY <2>2, <2>4, <2>5 DEF CpuSide
<1>8. CASE \E on \in BOOLEAN : api_hw_filter(on) \/ api_auto_swap(on) \/ api_cpu_pixels(on)
  <2>1. PICK on \in BOOLEAN : api_hw_filter(on) \/ api_auto_swap(on) \/ api_cpu_pixels(on)
    BY <1>8
  <2> DEFINE a == [s EXCEPT !.auto_swap = on, !.rx.hw_filter_on = on]
             b == [s EXCEPT !.auto_swap = on]
             c == [s EXCEPT !.rx.cpu_pixels = on]
  <2>2. /\ a \in Cards /\ SameFrame(a, s) /\ b \in Cards /\ SameFrame(b, s)
        /\ c \in Cards /\ SameFrame(c, s)
    BY SettingUpdate, Zenon
  <2>3. UNCHANGED dmaRest /\ \E t \in {a, b, c, reset_frame(a), reset_frame(c)} : Become(t)
    BY <1>c, <2>1, Zenon DEF api_hw_filter, api_auto_swap, api_cpu_pixels, forget_frame
  <2> HIDE DEF a, b, c
  <2>4. /\ reset_frame(a) \in Cards /\ WellCounted(reset_frame(a).rx)
        /\ reset_frame(c) \in Cards /\ WellCounted(reset_frame(c).rx)
        /\ WellCounted(rx) => WellCounted(a.rx) /\ WellCounted(b.rx) /\ WellCounted(c.rx)
    BY <1>c, <2>2, ResetFrame, NoFrameCounts, SameFrameCounts
  <2>5. PICK t \in {a, b, c, reset_frame(a), reset_frame(c)} : Become(t)
    BY <2>3
  <2>6. t \in Cards /\ (WellCounted(rx) => WellCounted(t.rx))
    BY <2>2, <2>4, <2>5, Zenon
  <2> QED BY <2>3, <2>5, <2>6, Zenon DEF CpuSide
<1> QED BY <1>5, <1>6, <1>7, <1>8, Zenon DEF CpuHandler

\* A step is the gateware's or the CPU's.
LEMMA Sides ==
    ASSUME RxTypeOK, [ReceiverNext]_allVars
    PROVE  GateSide \/ CpuSide
BY GateSteps, CpuSteps

\* Every step is well typed.
LEMMA RxTypeStep ==
    ASSUME RxTypeOK, [ReceiverNext]_allVars
    PROVE  RxTypeOK'
<1>1. TypeOK' /\ rx' \in Receivers /\ hub' \in Hub75s
  <2>1. CASE GateSide
    BY <2>1, TypeStep, StrayTypes DEF GateSide, RxTypeOK
  <2>2. CASE CpuSide
    BY <2>2, Became DEF CpuSide
  <2> QED BY <2>1, <2>2, Sides
<1>2. mac' \in Seq(MacPackets)
  BY MacSteps, MacKept
<1>3. palSent' \in Palettes
  BY ReceiverAssumption
  DEF RxTypeOK, ReceiverNext, RxSendChunk, RxDelayCopy, SendPalette, LoseMacPacket, Gateware,
      IsrPacket, bitmap_present_tick, TimerTick, TimePasses, bitmap_tick, Operator, StrayPacket,
      api_hold_set, api_dma_set, api_hw_filter, api_auto_swap, api_cpu_pixels, cpuVars, allVars
<1>4. timer' \in BOOLEAN
  BY Zenon
  DEF RxTypeOK, ReceiverNext, RxSendChunk, RxDelayCopy, SendPalette, LoseMacPacket, Gateware,
      IsrPacket, bitmap_present_tick, TimerTick, TimePasses, bitmap_tick, Operator, StrayPacket,
      api_hold_set, api_dma_set, api_hw_filter, api_auto_swap, api_cpu_pixels, cpuVars, allVars
<1>5. knobs' = knobs \/ (knobs < MaxKnobs /\ knobs' = knobs + 1)
  BY Zenon
  DEF ReceiverNext, RxSendChunk, RxDelayCopy, SendPalette, LoseMacPacket, Gateware,
      IsrPacket, bitmap_present_tick, TimerTick, TimePasses, bitmap_tick, Operator, StrayPacket,
      api_hold_set, api_dma_set, api_hw_filter, api_auto_swap, api_cpu_pixels, cpuVars, allVars, Knob
<1>6. knobs' \in 0 .. MaxKnobs
  BY <1>5, ReceiverAssumption DEF RxTypeOK
<1> QED BY <1>1, <1>2, <1>3, <1>4, <1>6 DEF RxTypeOK

\* The firmware comes up well typed,
LEMMA RxTypeInit == ReceiverInit => RxTypeOK
<1> SUFFICES ASSUME ReceiverInit PROVE RxTypeOK
  OBVIOUS
<1>1. TypeOK
  BY CardTypeInit, ReceiverAssumption DEF ReceiverInit
<1>0. mac = <<>> /\ palSent = 0 /\ knobs = 0 /\ timer = FALSE
  BY DEF ReceiverInit
<1>2. palSent \in Palettes /\ knobs \in 0 .. MaxKnobs
  BY <1>0, ReceiverAssumption, PixelDmaAssumption DEF Palettes
<1>7. timer \in BOOLEAN
  BY <1>0, Zenon
<1>6. mac \in Seq(MacPackets)
  BY <1>0
<1>3. 0 \in 0 .. SeqMod - 1 /\ 0 \in 0 .. StuckFrames - 1 /\ 0 \in Palettes
  BY ReceiverAssumption, PixelDmaAssumption DEF Palettes
<1>4. rx \in Receivers
  BY <1>3, ReceiverAssumption DEF ReceiverInit, Receivers, Formats
<1>5. hub \in Hub75s
  BY <1>3 DEF ReceiverInit, Hub75s, Halves
<1> QED BY <1>1, <1>2, <1>4, <1>5, <1>6, <1>7 DEF RxTypeOK

\* Every variable of the receiver, the flip and the palette banks keeps its
\* type, whatever arrives in the MAC, whatever the operator asks for and whether
\* or not burst_fifo overflows: in particular the watchdog of verify_flip never
\* counts past STUCK_FRAMES and the frame_id and arrival the CPU adopts from the
\* gateware's CSRs always fit its own fields.
THEOREM RxTypes == ReceiverSpec => []RxTypeOK
BY RxTypeInit, RxTypeStep, PTL DEF ReceiverSpec

\* The card boots with nothing counted.
LEMMA RxInvInit == ReceiverInit => RxInv
<1> SUFFICES ASSUME ReceiverInit PROVE RxInv
  OBVIOUS
<1>1. /\ wire = <<>> /\ mac = <<>> /\ fsm = "IDLE" /\ frame_id = 0 /\ total_chunks = 0 /\ arrival = {}
      /\ enable = DmaOn
  BY DEF ReceiverInit, CardInit
<1>2. GateInv /\ MacInv /\ EnableInv
  BY <1>1 DEF GateInv, GateFrame, MacInv, EnableInv, DmaNever
<1>3. rx.total_chunks = 0 /\ rx.chunk_mask = {} /\ rx.received = 0
  BY DEF ReceiverInit
<1>4. WellCounted(rx)
  BY <1>3, FS_EmptySet DEF CountInv, WellCounted
<1> QED BY <1>2, <1>4, RxTypeInit DEF RxInv

\* Only an operator turns the DMA on.
LEMMA EnableStep ==
    ASSUME RxTypeOK, [ReceiverNext]_allVars, EnableInv
    PROVE  EnableInv'
<1>1. CASE UNCHANGED enable
  BY <1>1 DEF EnableInv, DmaNever
<1>2. CASE \E on \in BOOLEAN : api_hold_set(on) \/ api_dma_set(on)
  <2>1. "hold" \in Knobs \/ "dma" \in Knobs
    BY <1>2 DEF api_hold_set, api_dma_set, Knob
  <2> QED BY <2>1 DEF EnableInv, DmaNever
<1>3. CASE RxSendChunk \/ RxDelayCopy \/ Gateware
  BY <1>1, <1>3 DEF RxSendChunk, RxDelayCopy, Gateware, SendChunk, DelayCopy, LosePacket, CutPacket,
       HardwareNext, SameFrameHeader, NewFrameHeader, FinishPayload, AbandonPayload, IgnorePacket, csrVars
<1>4. CASE SendPalette \/ LoseMacPacket \/ TimerTick \/ TimePasses \/ UNCHANGED allVars
           \/ \E x \in Strays : StrayPacket(x)
  BY <1>1, <1>4 DEF SendPalette, LoseMacPacket, TimerTick, TimePasses, StrayPacket, StrayHeader,
       allVars, dmaAll, csrVars
<1>5. CASE CpuHandler
  BY <1>1, <1>5, CpuSteps DEF CpuSide, dmaRest
<1> QED BY <1>2, <1>3, <1>4, <1>5, Zenon DEF ReceiverNext, Operator, CpuHandler

\* Every step preserves RxInv.
LEMMA RxInvStep ==
    ASSUME RxInv, [ReceiverNext]_allVars
    PROVE  RxInv'
<1>0. RxTypeOK /\ RxTypeOK' /\ TypeOK /\ GateInv /\ MacInv /\ EnableInv /\ WellCounted(rx)
  BY RxTypeStep DEF RxInv, RxTypeOK
<1>1. MacInv' /\ EnableInv'
  BY <1>0, MacSteps, MacKept, EnableStep
<1>2. CASE GateSide
  <2>1. GateInv'
    BY <1>0, <1>2, GateStep, StrayGate DEF GateSide
  <2>2. WellCounted(rx)'
    BY <1>0, <1>2 DEF GateSide, CountInv, WellCounted, Announced
  <2> QED BY <1>0, <1>1, <2>1, <2>2 DEF RxInv
<1>3. CASE CpuSide
  <2>1. PICK t \in Cards : Become(t) /\ UNCHANGED dmaRest /\ WellCounted(t.rx)
    BY <1>0, <1>3 DEF CpuSide
  <2>2. rx' = t.rx /\ GateInv'
    BY <1>0, <2>1, Became
  <2> QED BY <1>0, <1>1, <2>1, <2>2 DEF RxInv
<1> QED BY <1>0, <1>2, <1>3, Sides

\* The receiver's `received` is always the number of chunks in its arrival mask:
\* duplicates, merges with the gateware's bitmap, adoption of a frame, watchdog
\* demotions, held and forgotten frames and cut packets included, and whatever
\* else travels under the frame's id -- a restarted sender's frames, a stray of
\* another wall, in as many chunks as it likes, drawn and counted by the gateware.
THEOREM MaskIsCounted == ReceiverSpec => []MaskCounts
<1>1. RxInv => MaskCounts
  BY DEF RxInv, WellCounted, MaskCounts
<1>2. RxInv /\ [ReceiverNext]_allVars => RxInv'
  BY RxInvStep
<1> QED BY <1>1, <1>2, RxInvInit, PTL DEF ReceiverSpec

\* While frames that share a frame_id, strays included, have as many chunks, only
\* a frame's own chunks count towards its completion, in the CPU and in the bitmap
\* it merges: received >= total_chunks is a completion test.
THEOREM CompletionIsWhole ==
    ASSUME OneTotal
    PROVE  ReceiverSpec => []OnlyOwnChunks
<1>1. ASSUME RxInv PROVE OnlyOwnChunks
  <2>1. GateFrame /\ CountInv(rx) /\ rx.total_chunks \in Nat /\ frame_id \in Nat /\ total_chunks \in Nat
    BY <1>1 DEF RxInv, GateInv, WellCounted, RxTypeOK, Receivers, TypeOK
  <2>2. ASSUME rx.total_chunks # 0, frame_id = rx.current_frame_id
        PROVE  arrival \subseteq 0 .. rx.total_chunks - 1
    <3>1. Announced(frame_id, rx.total_chunks)
      BY <2>1, <2>2 DEF CountInv
    <3>2. Announced(frame_id, total_chunks)
      BY <2>1, <3>1, AnnouncedType DEF GateFrame
    <3>3. total_chunks = rx.total_chunks
      BY <2>1, <3>1, <3>2 DEF OneTotal
    <3> QED BY <2>1, <3>3 DEF GateFrame
  <2> QED BY <2>1, <2>2 DEF OnlyOwnChunks, CountInv
<1>2. RxInv /\ [ReceiverNext]_allVars => RxInv'
  BY RxInvStep
<1> QED BY <1>1, <1>2, RxInvInit, PTL DEF ReceiverSpec

-----------------------------------------------------------------------------
(* The filter path: the gateware filters, assembles and flips.             *)

\* The hardware filter and flip are on from boot and no operator turns either
\* off; burst_fifo never overflows and nothing strays in from another wall.
FilterPath ==
    FilterOn /\ ~Overflow /\ Strays = {} /\ "filter" \notin Knobs /\ "auto_swap" \notin Knobs

\* Only palettes get past the filter.
FilterBase == RxTypeOK /\ rx.hw_filter_on /\ \A i \in 1 .. Len(mac) : mac[i].kind = "BP"

\* No step puts anything but palettes into the MAC.
LEMMA FilterMac ==
    ASSUME FilterBase, MacStep
    PROVE  \A i \in 1 .. Len(mac') : mac'[i].kind = "BP"
<1>0. mac \in Seq(MacPackets)
  BY DEF FilterBase, RxTypeOK
<1>1. CASE mac' = mac
  BY <1>1 DEF FilterBase
<1>2. CASE mac # <<>> /\ mac' = Tail(mac)
  BY <1>0, <1>2, MacTail DEF FilterBase
<1>3. CASE \E p \in MacPackets : mac' = Append(mac, p) /\ p.kind = "BP"
  <2>1. PICK p \in MacPackets : mac' = Append(mac, p) /\ p.kind = "BP"
    BY <1>3
  <2>2. /\ Len(mac') = Len(mac) + 1 /\ Len(mac) \in Nat
        /\ \A i \in 1 .. Len(mac') : mac'[i] = IF i = Len(mac) + 1 THEN p ELSE mac[i]
    BY <1>0, <2>1, MacAppend
  <2> QED BY <2>1, <2>2 DEF FilterBase
<1>4. \A p \in MacPackets : p.kind \in {"pixels", "BP", "wrong size"}
  BY DEF MacPackets
<1> QED BY <1>1, <1>2, <1>3, <1>4 DEF MacStep, FilterBase

\* The firmware never touches what the gateware works on unless it takes the
\* flip away from it.
LEMMA FilterStep ==
    ASSUME FilterPath, FilterBase, [ReceiverNext]_allVars
    PROVE  FilterBase' /\ (auto_swap' => auto_swap /\ [DmaNext]_dmaAll)
<1>0. RxTypeOK /\ RxTypeOK' /\ TypeOK /\ rx.hw_filter_on /\ mac \in Seq(MacPackets)
  BY RxTypeStep DEF FilterBase, RxTypeOK
<1>m. \A i \in 1 .. Len(mac') : mac'[i].kind = "BP"
  BY <1>0, MacSteps, FilterMac
<1>c. PICK s \in Cards : /\ s = Card /\ s.rx = rx /\ s.fb = fb /\ s.fb_base = fb_base
                         /\ s.auto_swap = auto_swap
  BY <1>0, CardTyped
<1>1. ASSUME NEW t \in Cards, Become(t), UNCHANGED dmaRest, HandsOff(t, s),
             t.rx.hw_filter_on = s.rx.hw_filter_on
      PROVE  FilterBase' /\ (auto_swap' => auto_swap /\ [DmaNext]_dmaAll)
  <2>1. rx' = t.rx /\ fb' = t.fb /\ fb_base' = t.fb_base /\ auto_swap' = t.auto_swap
    BY <1>0, <1>1, Became
  <2>2. FilterBase'
    BY <1>0, <1>1, <1>c, <1>m, <2>1 DEF FilterBase
  <2>3. ASSUME auto_swap' PROVE auto_swap /\ UNCHANGED dmaAll
    <3>1. t.auto_swap
      BY <2>1, <2>3
    <3>2. s.auto_swap /\ t.fb = s.fb /\ t.fb_base = s.fb_base
      BY <1>1, <3>1 DEF HandsOff
    <3>3. auto_swap /\ auto_swap' = auto_swap
      BY <1>0, <1>c, <2>3, <3>2 DEF RxTypeOK, TypeOK
    <3>4. fb' = fb /\ fb_base' = fb_base
      BY <1>c, <2>1, <3>2
    <3> QED BY <1>1, <3>3, <3>4 DEF dmaRest, dmaVars, dmaAll
  <2> QED BY <2>2, <2>3
<1>2. CASE GateSide
  <2>1. [DmaNext]_dmaAll /\ rx'.hw_filter_on = rx.hw_filter_on
    BY <1>2 DEF GateSide, FilterPath
  <2>2. auto_swap' = auto_swap
    BY <2>1 DEF DmaNext, HardwareNext, SendChunk, LosePacket, DelayCopy, SameFrameHeader,
         NewFrameHeader, CommitHeader, FinishPayload, AbandonPayload, IgnorePacket, SetEnable, csrVars, dmaAll
  <2> QED BY <1>0, <1>m, <2>1, <2>2 DEF FilterBase
<1>3. CASE IsrPacket
  <2>1. mac # <<>>
    BY <1>3 DEF IsrPacket
  <2>2. PICK p \in MacPackets : p = Head(mac) /\ p.kind = "BP"
    BY <1>0, <2>1, MacTail DEF FilterBase
  <2>3. PICK t : t = process_packet(s, p)
    OBVIOUS
  <2>4. Kept(t, s) /\ SameDisplay(t, s)
    BY <1>0, <2>2, <2>3, Packet
  <2>5. Become(t) /\ UNCHANGED dmaRest
    BY <1>3, <1>c, <2>2, <2>3, Zenon DEF IsrPacket
  <2> QED BY <1>1, <2>4, <2>5 DEF Kept, SameSettings, SameDisplay, HandsOff
<1>4. CASE bitmap_present_tick \/ bitmap_tick
  <2>1. PICK u \in {present_done_now(s), tick(s)} : Become(AfterPresent(u)) /\ UNCHANGED dmaRest
    BY <1>4, <1>c, Zenon DEF bitmap_present_tick, bitmap_tick
  <2>2. present_done_now(s) = present_done_frame(s)
    BY <1>0, <1>c DEF present_done_now
  <2>3. u \in Cards /\ Kept(u, s) /\ HandsOff(u, s)
    BY <1>0, <1>c, <2>1, <2>2, DoneFrame, Tick DEF Kept
  <2>4. PICK t : t = AfterPresent(u)
    OBVIOUS
  <2>5. t \in Cards /\ t.rx = u.rx /\ SameDisplay(t, u)
    BY <2>3, <2>4, After
  <2> QED BY <1>1, <2>1, <2>3, <2>4, <2>5 DEF Kept, SameSettings, SameDisplay, HandsOff
<1>5. CASE \E on \in BOOLEAN : api_cpu_pixels(on)
  <2>1. PICK on \in BOOLEAN : api_cpu_pixels(on)
    BY <1>5
  <2> DEFINE c == [s EXCEPT !.rx.cpu_pixels = on]
  <2>2. c \in Cards /\ SameDisplay(c, s) /\ c.rx.hw_filter_on = s.rx.hw_filter_on
    BY SettingUpdate, Zenon
  <2>3. UNCHANGED dmaRest /\ \E t \in {c, reset_frame(c)} : Become(t)
    BY <1>c, <2>1, Zenon DEF api_cpu_pixels, forget_frame
  <2> HIDE DEF c
  <2>4. /\ reset_frame(c) \in Cards /\ SameDisplay(reset_frame(c), s)
        /\ reset_frame(c).rx.hw_filter_on = s.rx.hw_filter_on
    BY <2>2, ResetFrame DEF SameSettings, SameDisplay
  <2>5. PICK t \in {c, reset_frame(c)} : Become(t)
    BY <2>3
  <2>6. t \in Cards /\ SameDisplay(t, s) /\ t.rx.hw_filter_on = s.rx.hw_filter_on
    BY <2>2, <2>4, <2>5, Zenon
  <2>7. HandsOff(t, s)
    BY <2>6 DEF SameDisplay, HandsOff
  <2> QED BY <1>1, <2>3, <2>5, <2>6, <2>7
<1>6. CASE \E on \in BOOLEAN : api_hw_filter(on) \/ api_auto_swap(on)
  BY <1>6, Zenon DEF api_hw_filter, api_auto_swap, Knob, FilterPath
<1>7. CASE ~CpuHandler
  BY <1>0, <1>2, <1>7, GateSteps
<1> QED BY <1>3, <1>4, <1>5, <1>6, <1>7, Zenon DEF CpuHandler

\* The filter is on at boot.
LEMMA FilterInit ==
    ASSUME FilterPath, ReceiverInit
    PROVE  FilterBase
<1>1. rx.hw_filter_on /\ mac = <<>>
  BY DEF ReceiverInit, FilterPath
<1> QED BY <1>1, RxTypeInit DEF FilterBase

\* With the filter on, whatever the firmware does -- palettes, verify_flip, ticks,
\* holds, cpu_pixels -- the gateware makes its steps as if it were alone, in every
\* step that leaves it the flip: the CPU writes no pixel and moves no buffer.
FirmwareHandsOff == [][auto_swap' => auto_swap /\ [DmaNext]_dmaAll]_allVars

\* FirmwareHandsOff holds with the filter on from boot, whatever the stream, the
\* link, the palettes, the holds and the watchdog's limit are.
THEOREM GatewareAlone ==
    ASSUME FilterPath
    PROVE  ReceiverSpec => FirmwareHandsOff
<1>1. ReceiverInit => FilterBase
  BY FilterInit
<1>2. FilterBase /\ [ReceiverNext]_allVars =>
        FilterBase' /\ (auto_swap' => auto_swap /\ [DmaNext]_dmaAll)
  BY FilterStep
<1>3. FilterBase /\ [ReceiverNext]_allVars => FilterBase'
  BY <1>2
<1>4. FilterBase /\ [ReceiverNext]_allVars => [auto_swap' => auto_swap /\ [DmaNext]_dmaAll]_allVars
  BY <1>2
<1> QED BY <1>1, <1>3, <1>4, PTL DEF ReceiverSpec, FirmwareHandsOff

\* What AssemblyConsistent and StreamInOrder say of the gateware alone, for as
\* long as it has the flip.
FilterInv == FilterBase /\ (auto_swap => IInv /\ OrderInv)

\* At boot the gateware's invariants hold
LEMMA FilterInvInit ==
    ASSUME FilterPath, ReceiverInit
    PROVE  FilterInv /\ G!Init
<1>1. CardInit(DmaOn, FilterOn) /\ DmaOn \in BOOLEAN /\ FilterOn \in BOOLEAN
  BY ReceiverAssumption DEF ReceiverInit
<1> QED BY <1>1, FilterInit, CardIInvInit, CardOrderInit DEF FilterInv

\* and every step preserves them, for as long as the gateware flips.
LEMMA FilterInvStep ==
    ASSUME FilterPath, DistinctIds, SwapWholeOnly, FilterInv, [ReceiverNext]_allVars
    PROVE  FilterInv' /\ (auto_swap' => [G!Next]_(fb[fb_base]))
<1>1. FilterBase' /\ (auto_swap' => auto_swap /\ [DmaNext]_dmaAll)
  BY FilterStep DEF FilterInv
<1>2. ASSUME auto_swap' PROVE IInv' /\ OrderInv' /\ [G!Next]_(fb[fb_base])
  BY <1>1, <1>2, IInvStep, OrderStep, GlassStep DEF FilterInv
<1> QED BY <1>1, <1>2 DEF FilterInv

\* OnlyWholeFrames with the firmware in the loop: as long as verify_flip has not
\* taken the flip back, the glass holds one picture whatever the link does and
\* whatever handlers run between the gateware's steps.
THEOREM FilterPathWhole ==
    ASSUME FilterPath, DistinctIds, SwapWholeOnly
    PROVE  ReceiverSpec => []WholeWhileHardware
<1>1. ReceiverInit => FilterInv
  BY FilterInvInit
<1>2. FilterInv /\ [ReceiverNext]_allVars => FilterInv'
  BY FilterInvStep
<1>3. FilterInv => WholeWhileHardware
  BY DEF FilterInv, IInv, WholeWhileHardware
<1> QED BY <1>1, <1>2, <1>3, PTL DEF ReceiverSpec

\* The card as a whole implements Glass in the filter path: whole frames, one
\* after the other and in the order sent when the link keeps order, in every
\* behaviour in which verify_flip leaves the flip to the gateware.
THEOREM FilterPathImplementsGlass ==
    ASSUME FilterPath, DistinctIds, SwapWholeOnly
    PROVE  ReceiverSpec /\ []auto_swap => GlassSpec
<1>1. ReceiverInit => FilterInv /\ G!Init
  BY FilterInvInit
<1>2. FilterInv /\ [ReceiverNext]_allVars => FilterInv'
  BY FilterInvStep
<1>3. FilterInv /\ [ReceiverNext]_allVars /\ auto_swap' => [G!Next]_(fb[fb_base])
  BY FilterInvStep
<1> QED BY <1>1, <1>2, <1>3, PTL DEF ReceiverSpec, GlassSpec, G!Spec

-----------------------------------------------------------------------------
(* Held means held.                                                        *)

\* Only set_stream_hold sets and clears the hold.
LEMMA HoldStops ==
    ASSUME RxTypeOK, [ReceiverNext]_allVars
    PROVE  rx'.hold = rx.hold \/ enable' = ~rx'.hold
<1>0. rx \in Receivers /\ TypeOK
  BY DEF RxTypeOK
<1>c. PICK s \in Cards : s = Card /\ s.rx = rx
  BY CardTyped
<1>1. CASE \E on \in BOOLEAN : api_hold_set(on)
  <2>1. PICK on \in BOOLEAN : api_hold_set(on)
    BY <1>1
  <2>2. enable' = ~on /\ rx'.hold = on
    BY <1>0, <2>1 DEF api_hold_set, Receivers
  <2> QED BY <2>2
<1>2. CASE TimePasses
  BY <1>0, <1>2 DEF TimePasses, Receivers
<1>3. ASSUME NEW t \in Cards, Become(t), t.rx.hold = s.rx.hold
      PROVE  rx'.hold = rx.hold
  BY <1>3, <1>c DEF Become
<1>4. CASE IsrPacket
  <2>1. mac # <<>> /\ mac \in Seq(MacPackets)
    BY <1>4 DEF IsrPacket, RxTypeOK
  <2>2. PICK p \in MacPackets : p = Head(mac)
    BY <2>1, MacTail
  <2>3. PICK t : t = process_packet(s, p)
    OBVIOUS
  <2>4. Kept(t, s)
    BY <1>0, <2>3, Packet
  <2>5. Become(t)
    BY <1>4, <1>c, <2>2, <2>3, Zenon DEF IsrPacket
  <2> QED BY <1>3, <2>4, <2>5 DEF Kept, SameSettings
<1>5. CASE bitmap_present_tick \/ bitmap_tick
  <2>1. PICK u \in {present_done_now(s), tick(s)} : Become(AfterPresent(u))
    BY <1>5, <1>c, Zenon DEF bitmap_present_tick, bitmap_tick
  <2>2. Kept(present_done_now(s), s)
    BY <1>0, DoneFrame, KeptKept DEF present_done_now
  <2>3. Kept(u, s)
    BY <1>0, <2>1, <2>2, Tick
  <2>4. PICK t : t = AfterPresent(u)
    OBVIOUS
  <2>5. t \in Cards /\ t.rx = u.rx
    BY <2>3, <2>4, After DEF Kept
  <2> QED BY <1>3, <2>1, <2>3, <2>4, <2>5 DEF Kept, SameSettings
<1>6. CASE \E on \in BOOLEAN : api_hw_filter(on) \/ api_auto_swap(on) \/ api_cpu_pixels(on)
  <2>1. PICK on \in BOOLEAN : api_hw_filter(on) \/ api_auto_swap(on) \/ api_cpu_pixels(on)
    BY <1>6
  <2> DEFINE a == [s EXCEPT !.auto_swap = on, !.rx.hw_filter_on = on]
             b == [s EXCEPT !.auto_swap = on]
             c == [s EXCEPT !.rx.cpu_pixels = on]
  <2>2. /\ a \in Cards /\ a.rx.hold = s.rx.hold /\ b \in Cards /\ b.rx.hold = s.rx.hold
        /\ c \in Cards /\ c.rx.hold = s.rx.hold
    BY SettingUpdate, Zenon
  <2>3. \E t \in {a, b, c, reset_frame(a), reset_frame(c)} : Become(t)
    BY <1>c, <2>1, Zenon DEF api_hw_filter, api_auto_swap, api_cpu_pixels, forget_frame
  <2> HIDE DEF a, b, c
  <2>4. /\ reset_frame(a) \in Cards /\ reset_frame(a).rx.hold = s.rx.hold
        /\ reset_frame(c) \in Cards /\ reset_frame(c).rx.hold = s.rx.hold
    BY <2>2, ResetFrame DEF SameSettings
  <2>5. PICK t \in {a, b, c, reset_frame(a), reset_frame(c)} : Become(t)
    BY <2>3
  <2>6. t \in Cards /\ t.rx.hold = s.rx.hold
    BY <2>2, <2>4, <2>5, Zenon
  <2> QED BY <1>3, <2>5, <2>6
<1>7. CASE RxSendChunk \/ RxDelayCopy \/ Gateware \/ SendPalette \/ LoseMacPacket \/ TimerTick
           \/ UNCHANGED allVars \/ (\E x \in Strays : StrayPacket(x))
           \/ \E on \in BOOLEAN : api_dma_set(on)
  <2>1. rx' = rx
    BY <1>7 DEF RxSendChunk, RxDelayCopy, Gateware, SendPalette, LoseMacPacket, TimerTick,
         StrayPacket, api_dma_set, cpuVars, allVars
  <2> QED BY <2>1
<1> QED BY <1>1, <1>2, <1>4, <1>5, <1>6, <1>7, Zenon DEF ReceiverNext, Operator

\* A payload in progress goes to the half that is not displayed.
PixBack == fsm = "PIX" => pix.half = 1 - fb_base

\* The gateware never moves its payload to the displayed half, and with the DMA
\* off it does not change the glass.
LEMMA PixBackStep ==
    ASSUME TypeOK, PixBack, [DmaNext]_dmaAll
    PROVE  PixBack' /\ (~enable => fb'[fb_base'] = fb[fb_base])
<1>0. /\ fb_base \in Halves /\ 1 - fb_base \in Halves /\ 1 - fb_base # fb_base
      /\ wire \in Seq(Packets) /\ fb \in [Halves -> [Pixels -> Contents \cup {Torn}]]
  BY OtherHalf DEF TypeOK
<1>1. CASE SameFrameHeader
  BY <1>1 DEF SameFrameHeader, PixBack, BeginPayload, WriteBase
<1>2. CASE NewFrameHeader
  BY <1>2 DEF NewFrameHeader, CommitHeader, PixBack, BeginPayload, WriteBase, write_base_next
<1>3. CASE FinishPayload
  <2>1. pix.half = 1 - fb_base /\ fb_base' = fb_base /\ fsm' = "IDLE"
    BY <1>3 DEF FinishPayload, PixBack
  <2>2. fb'[fb_base] = fb[fb_base]
    BY <1>0, <1>3, <2>1 DEF FinishPayload
  <2> QED BY <2>1, <2>2 DEF PixBack
<1>4. CASE SendChunk \/ LosePacket \/ DelayCopy \/ AbandonPayload \/ IgnorePacket
           \/ (\E on \in BOOLEAN : SetEnable(on)) \/ UNCHANGED dmaAll
  <2>1. UNCHANGED <<fb, fb_base>> /\ (UNCHANGED <<fsm, pix>> \/ fsm' = "IDLE")
    BY <1>4 DEF SendChunk, LosePacket, DelayCopy, AbandonPayload, IgnorePacket, SetEnable,
         dmaVars, dispVars, dmaAll
  <2> QED BY <2>1 DEF PixBack
<1> QED BY <1>1, <1>2, <1>3, <1>4 DEF DmaNext, HardwareNext

\* With the DMA off no handler moves the flip.
LEMMA FlipStays ==
    ASSUME FilterPath, FilterBase, ~enable, [ReceiverNext]_allVars
    PROVE  auto_swap' = auto_swap
<1>0. RxTypeOK /\ TypeOK /\ rx.hw_filter_on /\ mac \in Seq(MacPackets)
  BY DEF FilterBase, RxTypeOK
<1>c. PICK s \in Cards : s = Card /\ s.rx = rx /\ s.auto_swap = auto_swap
  BY <1>0, CardTyped
<1>1. ASSUME NEW t, Become(t), SameDisplay(t, s) PROVE auto_swap' = auto_swap
  BY <1>1, <1>c DEF Become, SameDisplay
<1>2. CASE IsrPacket
  <2>1. mac # <<>>
    BY <1>2 DEF IsrPacket
  <2>2. PICK p \in MacPackets : p = Head(mac) /\ p.kind = "BP"
    BY <1>0, <2>1, MacTail DEF FilterBase
  <2>3. PICK t : t = process_packet(s, p)
    OBVIOUS
  <2>4. SameDisplay(t, s)
    BY <1>0, <2>2, <2>3, Packet
  <2>5. Become(t)
    BY <1>2, <1>c, <2>2, <2>3, Zenon DEF IsrPacket
  <2> QED BY <1>1, <2>4, <2>5
<1>3. CASE bitmap_present_tick \/ bitmap_tick
  <2>1. PICK u \in {present_done_now(s), tick(s)} : Become(AfterPresent(u))
    BY <1>3, <1>c, Zenon DEF bitmap_present_tick, bitmap_tick
  <2>2. present_done_now(s) = s
    BY <1>0, <1>c, DoneFrame DEF present_done_now
  <2>3. u \in Cards /\ SameDisplay(u, s)
    BY <1>0, <1>c, <2>1, <2>2, Tick DEF Kept, SameDisplay
  <2>4. PICK t : t = AfterPresent(u)
    OBVIOUS
  <2>5. SameDisplay(t, u)
    BY <2>3, <2>4, After
  <2> QED BY <1>1, <2>1, <2>3, <2>4, <2>5 DEF SameDisplay
<1>4. CASE \E on \in BOOLEAN : api_cpu_pixels(on)
  <2>1. PICK on \in BOOLEAN : api_cpu_pixels(on)
    BY <1>4
  <2> DEFINE c == [s EXCEPT !.rx.cpu_pixels = on]
  <2>2. c \in Cards /\ SameDisplay(c, s)
    BY SettingUpdate, Zenon
  <2>3. \E t \in {c, reset_frame(c)} : Become(t)
    BY <1>c, <2>1, Zenon DEF api_cpu_pixels, forget_frame
  <2> HIDE DEF c
  <2>4. SameDisplay(reset_frame(c), s)
    BY <2>2, ResetFrame DEF SameDisplay
  <2> QED BY <1>1, <2>2, <2>3, <2>4
<1>5. CASE \E on \in BOOLEAN : api_hw_filter(on) \/ api_auto_swap(on)
  BY <1>5, Zenon DEF api_hw_filter, api_auto_swap, Knob, FilterPath
<1>6. CASE ~CpuHandler
  <2>1. [DmaNext]_dmaAll
    BY <1>0, <1>6, GateSteps DEF GateSide, FilterPath
  <2> QED BY <2>1 DEF DmaNext, HardwareNext, SendChunk, LosePacket, DelayCopy, SameFrameHeader,
         NewFrameHeader, FinishPayload, AbandonPayload, IgnorePacket, SetEnable, csrVars, dmaAll
<1> QED BY <1>2, <1>3, <1>4, <1>5, <1>6, Zenon DEF CpuHandler

\* Nobody but a hold stops or starts the DMA.
LEMMA HoldEnable ==
    ASSUME RxTypeOK, [ReceiverNext]_allVars, "dma" \notin Knobs
    PROVE  enable' = enable \/ enable' = ~rx'.hold
<1>1. CASE \E on \in BOOLEAN : api_hold_set(on)
  <2>1. PICK on \in BOOLEAN : api_hold_set(on)
    BY <1>1
  <2>2. rx \in Receivers
    BY DEF RxTypeOK
  <2> QED BY <2>1, <2>2 DEF api_hold_set, Receivers
<1>2. CASE \E on \in BOOLEAN : api_dma_set(on)
  BY <1>2 DEF api_dma_set, Knob
<1>3. CASE RxSendChunk \/ RxDelayCopy \/ Gateware
  BY <1>3 DEF RxSendChunk, RxDelayCopy, Gateware, SendChunk, DelayCopy, LosePacket, CutPacket,
       HardwareNext, SameFrameHeader, NewFrameHeader, FinishPayload, AbandonPayload, IgnorePacket, csrVars
<1>4. CASE SendPalette \/ LoseMacPacket \/ TimerTick \/ TimePasses \/ UNCHANGED allVars
           \/ \E x \in Strays : StrayPacket(x)
  BY <1>4 DEF SendPalette, LoseMacPacket, TimerTick, TimePasses, StrayPacket, StrayHeader,
       allVars, dmaAll, csrVars
<1>5. CASE CpuHandler
  BY <1>5, CpuSteps DEF CpuSide, dmaRest
<1> QED BY <1>1, <1>2, <1>3, <1>4, <1>5, Zenon DEF ReceiverNext, Operator, CpuHandler

\* "Held means held" in the filter path, nobody turning the DMA back on: a held
\* glass does not change -- whatever was half received or half written when the
\* hold came -- as long as verify_flip has left the flip to the gateware.
THEOREM FilterPathHeld ==
    ASSUME FilterPath, "dma" \notin Knobs
    PROVE  ReceiverSpec => HeldMeansHeld
<1> DEFINE Inv == FilterBase /\ (auto_swap => PixBack) /\ (rx.hold => ~enable)
           Act == rx.hold /\ rx'.hold /\ auto_swap => fb'[fb_base'] = fb[fb_base]
<1>1. ReceiverInit => Inv
  <2> SUFFICES ASSUME ReceiverInit PROVE Inv
    OBVIOUS
  <2>1. fsm = "IDLE"
    BY DEF ReceiverInit, CardInit
  <2>2. rx.hold = FALSE
    BY DEF ReceiverInit
  <2> QED BY <2>1, <2>2, FilterInit DEF PixBack
<1>2. Inv /\ [ReceiverNext]_allVars => Inv' /\ Act
  <2> SUFFICES ASSUME Inv, [ReceiverNext]_allVars PROVE Inv' /\ Act
    OBVIOUS
  <2>1. FilterBase' /\ (auto_swap' => auto_swap /\ [DmaNext]_dmaAll)
    BY FilterStep
  <2>2. RxTypeOK /\ TypeOK
    BY DEF FilterBase, RxTypeOK
  <2>3. rx'.hold => ~enable'
    BY <2>2, HoldStops, HoldEnable
  <2>4. auto_swap' => PixBack' /\ (~enable => fb'[fb_base'] = fb[fb_base])
    BY <2>1, <2>2, PixBackStep
  <2>5. ~enable => auto_swap' = auto_swap
    BY FlipStays
  <2> QED BY <2>1, <2>3, <2>4, <2>5
<1>3. Inv /\ [ReceiverNext]_allVars => Inv'
  BY <1>2
<1>4. Inv /\ [ReceiverNext]_allVars => [Act]_allVars
  BY <1>2
<1> HIDE DEF Inv
<1> QED BY <1>1, <1>3, <1>4, PTL DEF ReceiverSpec, HeldMeansHeld
=============================================================================
