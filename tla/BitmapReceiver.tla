--------------------------- MODULE BitmapReceiver ---------------------------
(***************************************************************************)
(* The CPU's half of the pixel path (firmware, bitmap_udp.rs and hub75.rs) *)
(* composed with the gateware of PixelDma.  The CPU parses the packets its *)
(* MAC lets through, follows the frames the gateware assembles, patches    *)
(* missing chunks, places the buffer flip when the gateware does not, and  *)
(* owns the palette and the output mode.                                   *)
(*                                                                         *)
(* Packet handling runs in the trap handler and the main loop masks        *)
(* interrupts around its calls, so a handler is one step of the CPU.  The  *)
(* gateware runs between handlers.                                         *)
(***************************************************************************)
EXTENDS PixelDma, FiniteSetsExt

CONSTANTS
    PaletteOf,      \* PaletteOf[f]: the palette frame f's indices refer to
    MaxRepair,      \* MAX_REPAIR_CHUNKS
    StuckFrames,    \* STUCK_FRAMES
    MacCap,         \* bound: packets in the CPU's MAC at once
    Knobs,          \* operator requests this instance lets happen
    Strays,         \* packets of frames of another wall's size that arrive here
    MaxKnobs,       \* bound: how many of them
    FilterOn,       \* set_pixel_filter(true) at boot; FALSE is the packet path
    DmaOn,          \* the player has served POST /api/dma/on
    MacLoss,        \* may packets for the CPU get lost
    Overflow        \* may burst_fifo fill up and cut packets short

Palettes == 0 .. NumFrames          \* 0 is the palette RAM after reset
NoId == -1                          \* current_frame_id = u16::MAX
NoBase == -1                        \* last_fb_base = u32::MAX

ASSUME ReceiverAssumption ==
    /\ PaletteOf \in [Frames -> Palettes]
    /\ MaxRepair \in Nat /\ StuckFrames \in Nat \ {0}
    /\ MacCap \in Nat /\ MaxKnobs \in Nat
    /\ Knobs \subseteq {"hold", "dma", "filter", "auto_swap", "cpu_pixels"}
    /\ Strays \subseteq [frame_id : Nat \ {0}, total_chunks : Nat \ {0},
                        chunk : ChunkIds, format : Formats]
    /\ FilterOn \in BOOLEAN /\ DmaOn \in BOOLEAN /\ MacLoss \in BOOLEAN
    /\ Overflow \in BOOLEAN

VARIABLES
    mac,         \* packets that reached the CPU's MAC and await the ISR
    palSent,     \* sender: link.last_palette
    rx,          \* struct BitmapReceiver
    hub,         \* struct Hub75 and the CSRs only it writes
    knobs,       \* operator requests so far
    timer        \* the main loop's 1 ms tick is due

cpuVars == <<mac, palSent, rx, hub, knobs, timer>>
allVars == <<dmaAll, cpuVars>>

MacPackets == [kind : {"pixels"}, frame : Frames, chunk : ChunkIds]
              \cup [kind : {"BP"}, palette : Palettes]
              \cup [kind : {"wrong size"}, format : Formats]

\* struct BitmapReceiver, as far as it is modelled.
Receivers == [current_frame_id : Nat \cup {NoId}, hw_filter_on : BOOLEAN,
              last_done_seq : 0 .. SeqMod - 1, last_fb_base : Halves \cup {NoBase},
              fb_base_stuck : 0 .. StuckFrames - 1, cpu_saw_packet : BOOLEAN,
              cpu_pixels : BOOLEAN, chunk_mask : SUBSET ChunkIds, total_chunks : Nat,
              format : Formats, hold : BOOLEAN, pending_palette : Palettes,
              received : Nat, quiet : 0 .. 2]
\* struct Hub75 and the palette RAM.
Hub75s == [active_buf : Halves, mode : {"FullColor", "Indexed"},
           palette_shadow : Palettes, bank : [Halves -> Palettes],
           current_banks : SUBSET Halves]

\* Type correctness of the CPU side.
RxTypeOK ==
    /\ TypeOK
    /\ mac \in Seq(MacPackets)
    /\ palSent \in Palettes /\ knobs \in 0 .. MaxKnobs
    /\ timer \in BOOLEAN
    /\ rx \in Receivers /\ hub \in Hub75s

\* Firmware after boot: hardware filter and flip on, or the packet path.
ReceiverInit ==
    /\ CardInit(DmaOn, FilterOn)
    /\ mac = <<>> /\ palSent = 0 /\ knobs = 0 /\ timer = FALSE
    /\ rx = [current_frame_id |-> NoId, hw_filter_on |-> FilterOn,
             last_done_seq |-> 0, last_fb_base |-> NoBase, fb_base_stuck |-> 0,
             cpu_saw_packet |-> FALSE, cpu_pixels |-> TRUE, chunk_mask |-> {},
             total_chunks |-> 0, format |-> "BM", hold |-> FALSE,
             pending_palette |-> 0, received |-> 0, quiet |-> 2]
    /\ hub = [active_buf |-> 1, mode |-> "FullColor", palette_shadow |-> 0,
              bank |-> [h \in Halves |-> 0], current_banks |-> Halves]

-----------------------------------------------------------------------------
(* What a handler changes, as one record; each function below is a method  *)
(* of BitmapReceiver or Hub75 taking that record to its next value.        *)
Card == [rx |-> rx, hub |-> hub, fb_base |-> fb_base, auto_swap |-> auto_swap,
         fb |-> fb, presented |-> FALSE]

Become(s) == \E t \in {s} :
    /\ rx' = t.rx /\ hub' = t.hub
    /\ fb_base' = t.fb_base /\ auto_swap' = t.auto_swap /\ fb' = t.fb

\* --- hub75.rs ---

\* The half being drawn into, as the gateware and not active_buf has it.
back_palette_bank(s) == 1 - s.fb_base

swap_buffers(s) ==
    [s EXCEPT !.hub.active_buf = 1 - @, !.fb_base = 1 - s.hub.active_buf]

sync_buffers_from_hw(s) == [s EXCEPT !.hub.active_buf = s.fb_base]

\* New colours go to the bank that is not displayed; the other is now behind.
set_palette(s, p) ==
    [s EXCEPT !.hub.palette_shadow = p,
              !.hub.bank = [s.hub.bank EXCEPT ![back_palette_bank(s)] = p],
              !.hub.current_banks = {back_palette_bank(s)}]

\* Catch up the bank being drawn into with the last palette written.
sync_palette_bank(s) ==
    IF back_palette_bank(s) \in s.hub.current_banks THEN s
    ELSE [s EXCEPT !.hub.bank = [s.hub.bank EXCEPT ![back_palette_bank(s)] = s.hub.palette_shadow],
                   !.hub.current_banks = @ \cup {back_palette_bank(s)}]

set_mode(s, isIndexed) == [s EXCEPT !.hub.mode = IF isIndexed THEN "Indexed" ELSE "FullColor"]

\* CPU pixel writes and repairs go through the software's idea of the halves.
Overwrite(s, Q, content) ==
    LET back == 1 - s.hub.active_buf
    IN [s EXCEPT !.fb = [s.fb EXCEPT ![back] =
            [q \in Pixels |-> IF q \in Q THEN content[q] ELSE s.fb[back][q]]]]

CpuWrite(s, f, c) == Overwrite(s, CoverOf(f, c), [q \in Pixels |-> f])

\* Mutant: nothing is patched.
NoRepair(s, Missing) == s

repair_from_front(s, Missing) == Overwrite(s, Missing, s.fb[s.hub.active_buf])

\* --- bitmap_udp.rs ---

\* Mutant: the arrival mask survives the frame.
ResetKeepsMask(s) ==
    [s EXCEPT !.rx.total_chunks = 0, !.rx.received = 0, !.rx.cpu_saw_packet = FALSE]

\* The frame is forgotten, its current_frame_id is not.
reset_frame(s) ==
    [s EXCEPT !.rx.chunk_mask = {}, !.rx.total_chunks = 0, !.rx.received = 0,
              !.rx.cpu_saw_packet = FALSE]

\* pending_palette = 0: pending_palette_valid is false.
apply_pending_palette(s) ==
    IF s.rx.pending_palette = 0 THEN s
    ELSE [set_palette(s, s.rx.pending_palette) EXCEPT !.rx.pending_palette = 0]

\* Mutant: one more present than StuckFrames is waited for.
StuckTooLate(stuck) == stuck > StuckFrames

FlipStuck(stuck) == stuck >= StuckFrames

\* A flip the gateware reports alternates fb_base_now; StuckFrames presents in
\* a row without a move take the flip back from it.
verify_flip(s) ==
    LET moved == s.fb_base # s.rx.last_fb_base
        stuck == IF moved THEN 0 ELSE s.rx.fb_base_stuck + 1
        seen == [s EXCEPT !.rx.last_fb_base = s.fb_base, !.rx.fb_base_stuck = stuck]
    IN IF FlipStuck(stuck)
         THEN swap_buffers([seen EXCEPT !.auto_swap = FALSE, !.rx.fb_base_stuck = 0])
         ELSE sync_buffers_from_hw(seen)

\* Mutant: the last chunk is never looked at.
MissingButLast(s) ==
    UNION {Cover(s.rx.format, c) : c \in (0 .. s.rx.total_chunks - 2) \ s.rx.chunk_mask}

MissingPixels(s) ==
    UNION {Cover(s.rx.format, c) : c \in (0 .. s.rx.total_chunks - 1) \ s.rx.chunk_mask}

\* Mutant: holes are patched whoever flips.
RepairAlways(s) == TRUE

\* With the gateware flipping, the back half is already the next frame's.
CpuOwnsSwap(s) == ~s.auto_swap

present(s) ==
    LET missing == Max({0, s.rx.total_chunks - s.rx.received})
        patched == IF missing > 0 /\ CpuOwnsSwap(s)
                     THEN repair_from_front(s, MissingPixels(s)) ELSE s
        coloured == apply_pending_palette(patched)
        flipped == IF s.auto_swap THEN verify_flip(coloured) ELSE swap_buffers(coloured)
    IN IF s.rx.total_chunks = 0 THEN s
       ELSE IF missing > MaxRepair THEN reset_frame(s)
       ELSE [reset_frame(flipped) EXCEPT !.presented = TRUE]

\* The wire format of a frame the gateware identified (MAX_CHUNKS_NARROW
\* separates 'BW' from 'BM'; the two have one output mode).
WireFormat(isIndexed, total) ==
    IF isIndexed THEN "BI" ELSE IF total = Total["BM"] THEN "BM" ELSE "BW"

\* From here on the receiver's frame is one the gateware identified.
Follow(s, mask, count, id, total, isIndexed) ==
    set_mode([s EXCEPT !.rx = [s.rx EXCEPT
        !.chunk_mask = mask, !.received = count, !.current_frame_id = id,
        !.total_chunks = total, !.format = WireFormat(isIndexed, total), !.quiet = 0]], isIndexed)

\* Present the frame the gateware latched, unless this snapshot was seen
\* already or the CPU is assembling a frame from packets of its own.
present_done_frame(s) ==
    LET new == enable /\ done.total_chunks # 0 /\ done_seq # s.rx.last_done_seq
        seen == [s EXCEPT !.rx.last_done_seq = done_seq]
        adopted == Follow(seen, done.arrival, Min({Cardinality(done.arrival), done.total_chunks}),
                          done.frame_id, done.total_chunks, done.indexed)
    IN IF ~new THEN s
       ELSE IF s.rx.cpu_saw_packet THEN seen
       ELSE present(adopted)

present_done_now(s) == IF s.rx.hw_filter_on THEN present_done_frame(s) ELSE s

\* Take the identity of the frame in progress from the gateware.
adopt_dma_frame(s) ==
    IF \/ ~enable \/ total_chunks = 0
       \/ frame_id = s.rx.current_frame_id
       \/ s.rx.cpu_saw_packet
    THEN s
    ELSE Follow(present(s), {}, 0, frame_id, total_chunks, indexed)

\* Fold the chunks the hardware wrote into the CPU's own mask.
merge_dma_arrival(s) ==
    LET mask == s.rx.chunk_mask \cup arrival
        merged == Min({Cardinality(mask), s.rx.total_chunks})
    IN IF ~enable \/ frame_id # s.rx.current_frame_id THEN s
       ELSE [s EXCEPT !.rx.chunk_mask = mask, !.rx.received = merged,
                      !.rx.quiet = IF merged > s.rx.received THEN 0 ELSE s.rx.quiet]

\* Mutant: a frame missing its tail waits for the next frame.
NeverStale(s) == s

\* Present what has been quiet for STALE_MS (quiet = 2), if anything arrived.
PresentStale(s) ==
    IF s.rx.received = 0 \/ s.rx.quiet < 2 THEN s ELSE present(s)

\* Mutant: a palette waits for a present that may never come.
PaletteOnPresentOnly(s) == s

\* quiet >= 1: nothing for PALETTE_DEFER_MS.
LatePalette(s) == IF s.rx.quiet >= 1 THEN apply_pending_palette(s) ELSE s

tick(s) ==
    LET shown == present_done_frame(LatePalette(s))
        adopted == adopt_dma_frame(shown)
        merged == merge_dma_arrival(adopted)
    IN IF s.rx.hw_filter_on THEN shown
       ELSE IF adopted.rx.total_chunks = 0 THEN adopted
       ELSE IF merged.rx.received >= merged.rx.total_chunks THEN present(merged)
       ELSE PresentStale(merged)

\* A palette waits for the next present while frames are arriving.
stash_palette(s, p) ==
    LET stashed == [s EXCEPT !.rx.pending_palette = p]
    IN IF s.rx.quiet = 0 THEN stashed ELSE apply_pending_palette(stashed)

\* A chunk of frame f with the frame it belongs to already current.
AcceptChunk(s, f, c) ==
    LET drawn == IF enable THEN s ELSE CpuWrite(s, f, c)
        counted == [drawn EXCEPT !.rx.chunk_mask = s.rx.chunk_mask \cup {c},
                                 !.rx.received = s.rx.received + 1,
                                 !.rx.cpu_saw_packet = TRUE, !.rx.quiet = 0]
        merged == IF counted.rx.received + 1 >= counted.rx.total_chunks
                    THEN merge_dma_arrival(counted) ELSE counted
    IN IF c \in s.rx.chunk_mask THEN [s EXCEPT !.rx.quiet = 0]
       ELSE IF merged.rx.received >= merged.rx.total_chunks THEN present(merged)
       ELSE merged

\* The format and the output mode follow the magic of every pixel packet,
\* before its size is checked and before the outgoing frame is flushed; with
\* cpu_pixels off a pixel packet only counts as a sign of life.
parse_magic(s, m) ==
    IF s.rx.cpu_pixels THEN set_mode([s EXCEPT !.rx.format = m], m = "BI")
    ELSE [s EXCEPT !.rx.quiet = 0]

process_pixels(s, f, c) ==
    LET parsed == parse_magic(s, Format[f])
        change == WireId[f] # s.rx.current_frame_id \/ TotalOf(f) # s.rx.total_chunks
        current == IF change
                     THEN [present(parsed) EXCEPT !.rx.current_frame_id = WireId[f],
                                                  !.rx.total_chunks = TotalOf(f)]
                     ELSE parsed
    IN IF s.rx.cpu_pixels THEN AcceptChunk(current, f, c) ELSE parsed

process_packet(s, p) ==
    CASE s.rx.hold -> s
      [] ~s.rx.hold /\ p.kind = "BP" -> stash_palette(s, p.palette)
      [] ~s.rx.hold /\ p.kind = "wrong size" -> parse_magic(s, p.format)
      [] ~s.rx.hold /\ p.kind = "pixels" -> process_pixels(s, p.frame, p.chunk)

forget_frame(s) == reset_frame(s)

-----------------------------------------------------------------------------
(* Actions.                                                                *)

dmaRest == <<nextFrame, nextChunk, wire, enable, dmaVars>>

\* A pixel packet also travels to the CPU's MAC, unless the gateware filter
\* kills it there or no slot is free.
MacReceives(f, c) ==
    \/ /\ ~rx.hw_filter_on /\ Len(mac) < MacCap
       /\ mac' = Append(mac, [kind |-> "pixels", frame |-> f, chunk |-> c])
    \/ /\ rx.hw_filter_on \/ Len(mac) >= MacCap
       /\ UNCHANGED mac

RxSendChunk ==
    /\ nextFrame \in Frames
    /\ Format[nextFrame] = "BI" => PaletteOf[nextFrame] = palSent
    /\ SendChunk
    /\ MacReceives(nextFrame, nextChunk % TotalOf(nextFrame))
    /\ UNCHANGED <<palSent, rx, hub, knobs, timer>>

RxDelayCopy ==
    /\ DelayCopy
    /\ MacReceives(Head(wire).frame, Head(wire).chunk)
    /\ UNCHANGED <<palSent, rx, hub, knobs, timer>>

\* The player sends a palette ahead of the first frame that needs it.
SendPalette ==
    /\ nextFrame \in Frames /\ nextChunk = 0
    /\ Format[nextFrame] = "BI" /\ PaletteOf[nextFrame] # palSent
    /\ Len(mac) < MacCap
    /\ palSent' = PaletteOf[nextFrame]
    /\ mac' = Append(mac, [kind |-> "BP", palette |-> PaletteOf[nextFrame]])
    /\ UNCHANGED <<dmaAll, rx, hub, knobs, timer>>

\* A packet for the CPU is lost (no free MAC slot, or on the link).
LoseMacPacket ==
    /\ MacLoss /\ mac # <<>>
    /\ mac' = Tail(mac)
    /\ UNCHANGED <<dmaAll, palSent, rx, hub, knobs, timer>>

\* process_raw_bitmap: one packet through the trap handler.
IsrPacket ==
    /\ mac # <<>>
    /\ Become(process_packet(Card, Head(mac)))
    /\ mac' = Tail(mac)
    /\ UNCHANGED <<dmaRest, palSent, knobs, timer>>

AfterPresent(s) == IF s.presented THEN sync_palette_bank(s) ELSE s

\* Every main-loop iteration.
bitmap_present_tick ==
    /\ Become(AfterPresent(present_done_now(Card)))
    /\ UNCHANGED <<dmaRest, mac, palSent, knobs, timer>>

\* The 1 ms timer is due.
TimerTick ==
    /\ ~timer
    /\ timer' = TRUE
    /\ UNCHANGED <<dmaAll, mac, palSent, rx, hub, knobs>>

\* No packet for PALETTE_DEFER_MS, then for STALE_MS.
TimePasses ==
    /\ rx.quiet < 2
    /\ rx' = [rx EXCEPT !.quiet = @ + 1]
    /\ UNCHANGED <<dmaAll, mac, palSent, hub, knobs, timer>>

bitmap_tick ==
    /\ timer
    /\ timer' = FALSE
    /\ Become(AfterPresent(tick(Card)))
    /\ UNCHANGED <<dmaRest, mac, palSent, knobs>>

\* Operator requests, served by the HTTP handlers.
Knob(k) == k \in Knobs /\ knobs < MaxKnobs /\ knobs' = knobs + 1

\* Mutant: the CPU stops listening, the gateware does not.
HoldCpuOnly(on) ==
    /\ Knob("hold") /\ rx.hold # on
    /\ rx' = [rx EXCEPT !.hold = on]
    /\ UNCHANGED <<sendVars, wire, dmaVars, enable, auto_swap, dispVars, mac, palSent, hub, timer>>

\* set_stream_hold: held means nothing else may write the framebuffer.
api_hold_set(on) ==
    /\ Knob("hold") /\ rx.hold # on
    /\ rx' = [rx EXCEPT !.hold = on]
    /\ enable' = ~on
    /\ UNCHANGED <<sendVars, wire, dmaVars, auto_swap, dispVars, mac, palSent, hub, timer>>

api_dma_set(on) ==
    /\ Knob("dma")
    /\ SetEnable(on)
    /\ UNCHANGED <<mac, palSent, rx, hub, timer>>

\* set_pixel_filter: hardware flip and receiver follow the filter.
api_hw_filter(on) ==
    /\ Knob("filter") /\ rx.hw_filter_on # on
    /\ LET s == [Card EXCEPT !.auto_swap = on, !.rx.hw_filter_on = on]
       IN Become(IF on THEN forget_frame(s) ELSE s)
    /\ UNCHANGED <<dmaRest, mac, palSent, timer>>

api_auto_swap(on) ==
    /\ Knob("auto_swap") /\ auto_swap # on
    /\ Become([Card EXCEPT !.auto_swap = on])
    /\ UNCHANGED <<dmaRest, mac, palSent, timer>>

api_cpu_pixels(on) ==
    /\ Knob("cpu_pixels") /\ rx.cpu_pixels # on
    /\ LET s == [Card EXCEPT !.rx.cpu_pixels = on]
       IN Become(IF on THEN s ELSE forget_frame(s))
    /\ UNCHANGED <<dmaRest, mac, palSent, timer>>

\* The gateware checks no size: to its parser a stray is a chunk like any other,
\* and what it draws is no frame of the sender's.  It comes when the link is idle.
StrayPayload(x, h) ==
    /\ fsm' = "PIX"
    /\ pix' = [frame |-> Boot, chunk |-> x.chunk, half |-> h, cut |-> TRUE]
    /\ fb' = [fb EXCEPT ![h] = [q \in Pixels |->
                IF q \in Cover(x.format, x.chunk) THEN Torn ELSE fb[h][q]]]

StrayHeader(x) ==
    /\ fsm = "IDLE" /\ wire = <<>>
    /\ \/ /\ x.frame_id = frame_id
          /\ StrayPayload(x, WriteBase(fb_base))
          /\ UNCHANGED <<frameVars, countVars, fb_base>>
       \/ /\ x.frame_id # frame_id
          /\ StrayPayload(x, write_base_next)
          /\ CommitHeader(x.frame_id, x.total_chunks, x.format = "BI")
    /\ UNCHANGED <<sendVars, wire, csrVars>>

\* A packet of another wall's size from some other sender, for the gateware and,
\* past the filter, for the CPU, which rejects it.  It counts as a knob.
StrayPacket(x) ==
    /\ knobs < MaxKnobs /\ knobs' = knobs + 1
    /\ IF enable THEN StrayHeader(x) ELSE UNCHANGED dmaAll
    /\ \/ /\ ~rx.hw_filter_on /\ Len(mac) < MacCap
          /\ mac' = Append(mac, [kind |-> "wrong size", format |-> x.format])
       \/ /\ rx.hw_filter_on \/ Len(mac) >= MacCap
          /\ UNCHANGED mac
    /\ UNCHANGED <<palSent, rx, hub, timer>>

Gateware ==
    /\ LosePacket \/ (Overflow /\ CutPacket) \/ HardwareNext
    /\ UNCHANGED cpuVars

Operator == \E on \in BOOLEAN :
    api_hold_set(on) \/ api_dma_set(on) \/ api_hw_filter(on) \/ api_auto_swap(on) \/ api_cpu_pixels(on)

ReceiverNext ==
    \/ RxSendChunk \/ RxDelayCopy \/ SendPalette \/ LoseMacPacket
    \/ Gateware
    \/ IsrPacket \/ bitmap_present_tick \/ TimerTick \/ TimePasses \/ bitmap_tick
    \/ Operator
    \/ \E x \in Strays : StrayPacket(x)

ReceiverSpec == ReceiverInit /\ [][ReceiverNext]_allVars

\* The steps fairness speaks of, told by the one variable they change: only
\* bitmap_tick clears the timer, and a packet in the MAC is taken by the trap
\* handler or lost.  (bitmap_tick does all that bitmap_present_tick does.)
TickRuns == timer /\ timer' = FALSE
PacketTaken == mac # <<>> /\ mac' = Tail(mac)

\* The main loop spins and the 1 ms timer keeps firing, interrupts are taken,
\* the gateware consumes what reaches it; a sender that falls silent leaves the
\* clock running.  Nothing is assumed of the sender, the network, the operator.
Fairness ==
    /\ WF_timer(TickRuns) /\ WF_timer(TimerTick) /\ WF_mac(PacketTaken)
    /\ WF_rx(TimePasses)
    /\ WF_dmaAll(HardwareNext)

FairReceiverSpec == ReceiverSpec /\ Fairness

-----------------------------------------------------------------------------
(* Properties.                                                             *)

\* A flip the CPU places shows, at every pixel, the presented frame or what the
\* glass showed before: missing chunks are patched, never left stale.
PatchedFlip ==
    [][~auto_swap /\ fb_base' # fb_base =>
         \E f \in Frames : \A p \in Pixels :
            fb'[fb_base'][p] \in {f, fb[fb_base][p]}]_allVars

\* While the network keeps packets in order no pixel of the glass ever returns
\* to an older frame, whoever places the flips and whatever is repaired.
PixelsNeverGoBack ==
    [][\A p \in Pixels : fb[fb_base][p] \in Frames =>
         fb'[fb_base'][p] >= fb[fb_base][p]]_allVars

\* A frame the CPU is assembling does not stay unfinished: its last chunk, the
\* next frame or the staleness deadline presents or drops it.
InProgress(id) == ~rx.hw_filter_on /\ rx.current_frame_id = id /\ rx.received > 0
FrameResolved ==
    \A id \in {WireId[f] : f \in Frames} : InProgress(id) ~> ~InProgress(id)

\* A palette held back for a swap is applied even if the stream stops.
PaletteApplied == rx.pending_palette # 0 ~> rx.pending_palette = 0

\* `received` is what the arrival mask says, through duplicates, merges with the
\* hardware's bitmap, adoption, forgetting and restarts: completion is judged on
\* the one and repair on the other.  Where merge_dma_arrival cuts the count at
\* total_chunks, the handler has ended the frame before anybody sees the two.
MaskCounts == rx.received = Cardinality(rx.chunk_mask)

\* What counts towards a frame's completion, the CPU's mask and the bitmap the
\* next merge will add, are chunks the frame has: so many as it has are all of
\* them ("`received >= total` stays a completion test rather than a way to
\* present a short frame", merge_dma_arrival).
OnlyOwnChunks ==
    LET merges == enable /\ frame_id = rx.current_frame_id
    IN rx.total_chunks # 0 =>
         rx.chunk_mask \cup (IF merges THEN arrival ELSE {}) \subseteq 0 .. rx.total_chunks - 1

\* "Held means held: nothing else may write the framebuffer": nobody turning the
\* DMA back on, a held glass does not change, whatever was half received or half
\* written when the hold came and whatever arrives meanwhile -- as long as the
\* flip is the gateware's.
HeldMeansHeld ==
    [][rx.hold /\ rx'.hold /\ auto_swap => fb'[fb_base'] = fb[fb_base]]_allVars

\* A frame the gateware has assembled completely reaches the glass, or a newer
\* one does -- also the last one before the sender stops.
WholeFrameShown == \A f \in Frames :
    Current(f) /\ enable /\ received = total_chunks
      ~> \E g \in Frames : g >= f /\ Holds(fb_base, g)

\* With the filter on the CPU has no frame of its own to finish, so nothing
\* keeps it from following the gateware's.
FollowsHardware == rx.hw_filter_on /\ rx.cpu_saw_packet ~> ~(rx.hw_filter_on /\ rx.cpu_saw_packet)

\* With the firmware in the loop -- palettes, ticks, holds, cpu_pixels and the
\* watchdog of verify_flip -- the glass holds one picture for as long as the flip
\* is the gateware's: no handler writes a pixel or moves a buffer under it.
WholeWhileHardware == auto_swap => WholeOnGlass

\* The palette and the pixels that index it are never from different frames.
PaletteOnGlass == \A f \in Frames :
    Holds(fb_base, f) /\ Format[f] = "BI" => hub.bank[fb_base] = PaletteOf[f]
=============================================================================
