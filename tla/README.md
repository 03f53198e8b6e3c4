# TLA+ models of ledwall

ledwall drives LED walls. A server ("marquee", `src/server`) renders shows and
streams frames over UDP to receiver cards; a card is an FPGA whose gateware
(`src/firmware/gateware`) parses pixel packets straight into SDRAM and scans
them out, next to a soft CPU running Rust firmware
(`src/firmware/sw_rust/barsign_disp`) that owns everything else. This directory
holds TLA+ models of that system, TLC instances of them and TLAPS proofs.
`PROJECT.json` maps every definition to the lines it models and lists runs,
mutants, findings, hazards and theorems.

## Inventory

| Component | State | Operations | Hard part |
|---|---|---|---|
| Frame sender (`marquee_core/stream.py`) | `_frame_id` (u16) | `send_frame`, `send_frame_indexed`, `send_palette` | UDP: loss, duplication, reordering; redundant copies under one id; id wrap and restart |
| Pixel parser (`dma_writer.py`) | header registers, 512-bit arrival bitmap, `received`, snapshot registers, FSM | header parse, frame change, payload, stall abort | frame change, flip and address in one cycle; frames that lose chunks |
| Display flip and palette (`hub75.py`) | `fb_base_eff`, `auto_swap`, two palette banks | flip on `swap_req` or CSR write | two parties may flip |
| Gate and classifier (`smoleth.py`) | `burst_fifo`, packet in progress | kill pixel packets for the CPU, cut packets when full | a full fifo in the middle of a packet |
| Bitmap receiver (`bitmap_udp.rs`) | frame in assembly, arrival mask, pending palette, flip watchdog, mode knobs | `process_packet`, `tick`, `present`, adoption and merging of hardware frames | two sources of truth (packets and hardware), four ways to end a frame |
| Framebuffer driver (`hub75.rs`) | `active_buf`, palette shadow, stale bank | swap, repair, palette, CSR snapshots | software's idea of the displayed half against the hardware's |
| Trap handler, main loop (`network.rs`, `main.rs`) | sockets, clock, knobs | packets in the ISR, ticks in the loop, HTTP requests | ISR and loop share all state; interrupts masked around some ticks only |
| Program mode, values (`program.rs`, `values.rs`) | active program, owed repaints, 24-entry value table | program tick, value pushes, start, stop | a repaint spread over ticks that interrupts cut into; display ownership |
| Flash and bitstream update (`flash_write.rs`, `tftp_flash.rs`) | flash, job, TFTP block, sector buffer | erase, program, verify, transfer, reboot | power loss, retransmission, two users of one chip |
| Addresses and configuration (`network.rs`, `tftp_config.rs`, `tftpd.py`, smoltcp's DHCP client) | lease, interface address, filter address, loader | DHCP exchange, fallback, fetch, parse | leases end, blocks repeat, files reach the buffer's size |
| HTTP server (`network.rs`, `http.rs`, smoltcp's TCP socket) | per socket: TCP state, parser, response, two deadlines | receive, answer, close, abort, listen | clients that stall or die; a response larger than the buffer |
| Wall player and supervisor (`player.py`) | frame queue, card links, `DOWN_HOSTS`, last palette, programs | render thread, sender thread, supervisor tick | three threads, cards that reboot, programs and stream as rivals |
| Live sources, bindings, scenes, renderer, fleet API, auth | database, caches | | mostly sequential; not protocol code |

What makes the pixel path correct: the glass never shows a mix of two frames;
what the CPU believes is displayed is displayed; a frame that cannot be
completed is patched or dropped but never shown with holes; a pending palette
and a half-received frame do not wait for ever; operator knobs may be turned at
any moment without corrupting the bookkeeping. Of program mode: what is on the
glass is what the values say, in both halves of the framebuffer. Of updates: a
card can always be updated again. Of the services: what a client or a server is
told is true, and nobody waits for ever. Of the wall: it ends up showing what
the database says.

## Modules

* **Glass** – the abstract promise to a viewer: one whole picture at a time,
  replaced in one step, by a newer frame if the network keeps order. The one
  odd step, `FirstFlip`, is what the code does: `received = total_chunks = 0`
  counts as a whole frame, so the first header after reset flips to the half
  that nobody drew.
* **PixelDma** – sender, link, gate, parser and flip. Frames are numbered in
  sending order, `WireId` gives the id they travel under; a pixel of a
  framebuffer half holds the number of the frame that wrote it, `Torn` while a
  payload over it is incomplete. A payload takes two steps, so everything else
  can happen in the middle of one. `SendChunk` is `_send_chunked`;
  `SameFrameHeader` and `NewFrameHeader` are the two outcomes of the last header
  byte in state HDR (the second with swap request, snapshot latch and commit in
  the same step, as in the RTL); `FinishPayload`, `AbandonPayload` are the exits
  of PIX; `IgnorePacket` is IDLE with the enable bit off (IDLE retests the bit at
  each beat: a packet during which it is turned on is dropped as bad magic, unless
  the bytes that follow read like a header, which the model leaves out);
  `CutPacket` is the gate with a full `burst_fifo`. A packet cut within its headers is a lost one.
  A packet that ends exactly with its header is `NewFrameHeader` or
  `SameFrameHeader` followed by `AbandonPayload` (more pessimistic: its pixels
  are taken as torn).
* **BitmapReceiver** – PixelDma composed with the CPU: the MAC queue, the struct
  `BitmapReceiver` (`rx`), the struct `Hub75` with the palette banks (`hub`),
  the main loop's timer. `StrayPacket` is a packet of another wall's size: the
  CPU rejects it, but the gateware has no size check and takes its header, draws
  its payload (a content that is no frame of the sender's, `Torn`) and marks its
  chunk. Each method is an operator from a record of the card's
  state to the next one, under its source name; each handler is one action,
  because packet handling runs in the trap handler and the loop masks
  interrupts around its ticks. `rx.quiet` stands for the age of the last packet:
  below `PALETTE_DEFER_MS`, below `STALE_MS`, older. Variables of the same name
  as a CSR are the CSR (`frame_id`, `total_chunks`, `arrival`, `done`...); the
  firmware's copies are fields of `rx`.
* **Panel** – program mode on one card. `program_tick` is cut into the steps
  between which the network interrupt can come (`TickBegins`, `TickPalette`,
  `TickClean`, `TickCount`, `TickOwe`, `TickScroll`, `TickPaint`, `TickRepaint`,
  `TickSwap`), the interrupt's requests are the other actions: values, program
  on and off, pattern, DMA, layout. A pixel remembers the program and value it
  was drawn from. `StreamFrame` is the pixel DMA finishing a frame.
* **BootSlot** – what an update promises: the card boots the application, or the
  golden image when the application is not whole, and is never without both.
* **Ota** – the flash in pages, the chip's one operation in progress, region
  checks, background jobs, the TFTP-to-flash loader in the network interrupt,
  the TFTP server, resets and loss of power (which may tear the pages of the
  operation in progress). The same chip command issued while the chip is busy
  is ignored by it. Refines BootSlot.
* **Dhcp** – smoltcp's DHCP client as operators on its socket: `process`,
  `dispatch`, `reset`, `Event` (its `poll`). A reply is one to the client's last
  message, because others fail the transaction id check.
* **Netboot** – Dhcp composed with the network handler's DHCP and TFTP parts and
  the server's transfer. One handler entry is one action, with `iface.poll`,
  `handle_dhcp`, `handle_tftp` and the closing `iface.poll` in the code's order
  and under the code's conditions.
* **Tcp** – the TCP socket's states and calls the HTTP server depends on.
* **Http** – the sockets on port 80 and their clients. `handle_http` follows the
  code from recycling to sending; deadlines are phases (running, grace,
  ceiling).
* **Wall** – one wall: database, supervisor, players with their render and sender
  threads, cards. Each step between two shared accesses is an action; requests
  to a card take one step that is `Delivered` or `Failed`.
* **PixelDmaProofs**, **HttpProofs**, **NetbootProofs**, **OtaProofs**,
  **WallProofs**, **PanelProofs** – the theorems about each module and their
  proofs. **ReceiverProofs** and **PacketPathProofs** are those of
  BitmapReceiver: the first for every configuration and for the filter path, on
  top of PixelDmaProofs; the second for the packet path.
* **MC…** – constants for TLC.

BitmapReceiver composes the pixel path with the CPU; Netboot composes Dhcp with
the handler; Http composes Tcp with it. Panel, Ota, Netboot, Http and
BitmapReceiver all live in the same trap handler and main loop and share little:
each takes the others' requests as inputs that come at any moment (a program
started over HTTP, a stream frame, a slow-path packet). Wall sees a card as the
few facts it exchanges with it.

## Runs

Passing:

| Run | Instance | Shows |
|---|---|---|
| `pixel_dma` | 3 frames (one indexed), 3 pixels, wire of 3, loss, duplication and delay, stalls, DMA toggled | `WholeOnGlass`, `SnapshotOnGlass` and the inductive invariant `IInv` |
| `glass` | 4 frames, 2 copies each, ordered link | `GlassSpec` (refinement of Glass) |
| `packet_path` | 3 frames of 3 chunks, 2 copies, filter and DMA off, loss | `PatchedFlip`, `PixelsNeverGoBack` for flips the CPU places |
| `filter_path` | 4 mixed frames, filter on, delays, `StuckFrames = 2` so that the flip watchdog fires, any two of hold and cpu_pixels requests | `WholeWhileHardware`: with the firmware reacting to the gateware, up to the step in which the watchdog takes the flip; `HeldMeansHeld` |
| `card` | 2 mixed frames, losses on the link and a MAC that overruns, a stray that shares frame 1's id and has another size, one operator request, fairness | `MaskCounts`, `RxTypeOK` (whose one tight bound is the flip watchdog); `FrameResolved`, `PaletteApplied` |
| `ota` | application, golden, marginal and scratch regions of one or two sectors; bitstreams that end within a sector, with one and an empty last block, and beyond the region; a file that is no bitstream; lost packets, jobs beside the transfer, a power cycle or reset | `NeverBricked`, `DoneIsInstalled`, `ProtectedUntouched`; `BootSlotSpec` (refinement); `LoaderEnds` |
| `panel` | 3 rows, 3 programs (one plain, one with an animated and a scrolling row, one with an animated palette), a value table that fills up, 3 requests at any step | `NothingOwedIsCurrent`, `Converges` |
| `wall` | 1 card, 2 players, 2 shows, any 2 faults or edits | `QueueIsCurrent` (of queued frames only; what reaches a link is theorem `PaletteBeforeFrame`), `CardReturns`, `WallConverges`, `StoppedPlayersEnd` |
| `http` | 1 socket, 3 clients in turn, a response larger than the transmit buffer | `OwnAnswer`, `AtMostOnce`, `TailIsSent`, `DeadlinesFree` |
| `netboot` | 2 addresses, files below, at and above the buffer's size, edits during the fetch, loss and repetition | `WholeConfig`, `FilterFollows`, `LeaseHonoured`, `FetchEnds` |

Each module's type invariant is checked with the run of its module; it includes
the bounds that matter (buffers, queues, counters).

Violations, each a disagreement between the code and what the repository says
of it (quotations in `PROJECT.json`):

| Run | Property | What happens |
|---|---|---|
| `overflow` | `WholeOnGlass` | A cut packet ends like a legal short last chunk; PIX counts it as arrived and the frame is shown with a hole. |
| `static_fallback` | `StaticFallback` | Without a DHCP server the card gets an address only if the handler runs its DHCP part in millisecond 10 000; it runs only when a slow-path packet comes. |

### Claims that do not hold, not kept as runs

These are stated in the modules, and TLC finds a counterexample in seconds with
the constants given. They record what the code does not guarantee.

| Property | Constants | What happens |
|---|---|---|
| BitmapReceiver `HeldMeansHeld` without `auto_swap` in it | packet path: `FilterOn = FALSE`, `DmaOn = FALSE`, `Knobs = {"hold"}`, `NumFrames = 1`; or as `filter_path` | A frame half assembled when the stream is held is still presented by the staleness deadline, against `network.rs:2102` "Held means held: nothing else may write the framebuffer." In the filter path it is broken only after the flip watchdog took the flip with a payload in flight. While the gateware flips it holds (`filter_path`, theorem `FilterPathHeld`). |
| `WholeOnGlass` | as `filter_path` (`StuckFrames = 2`, `NumFrames = 4`) | The CPU presents a frame that misses at most `MAX_REPAIR_CHUNKS` chunks, the gateware (`swap_whole_only`) does not flip it, so `fb_base` stays although the flip works. `STUCK_FRAMES` such frames in a row make `present` take the flip back and swap to a half the gateware is writing. `bitmap_udp.rs:604-607` says "With the flip working it alternates every presented frame, so a run of frames where it has not moved means the gateware is not doing it." `WholeWhileHardware` is what is left. |
| `WholeWhileHardware` | as `filter_path`, with `Strays <- MCStrays` | The gateware checks no size: it draws a stray's payload into the half being assembled and counts its chunk, and the frame is flipped to with it. `process_packet` rejects such packets (`bitmap_udp.rs:955-980`), the gateware never did. |
| `OnlyOwnChunks` | as `card` (a stray that shares a frame's id and has another number of chunks) | `merge_dma_arrival` compares only `frame_id`, so chunks of the stray's size count towards the frame. The comment at `bitmap_udp.rs:480-483` has the cut of the count keep "`received >= total`" a completion test "rather than a way to present a short frame"; with such a stray it presents one. With packets that agree on the size it holds (theorem `CompletionIsWhole`). |
| `WholeFrameShown` | `FilterOn = TRUE`, no knobs | With the filter on, the last frame of a stream stays in the back half: `tick` returns early and the flip waits for a header that never comes (`network.rs:4560-4562` says the tick exists for this case). |
| `FollowsHardware` | `FilterOn = FALSE`, `Knobs = {"filter"}` | A packet still in the MAC when the filter is switched on sets `cpu_saw_packet` again; nothing clears it and every snapshot is then skipped. |
| `PaletteOnGlass` | `MCIndexed`, `MCOnePalette`, `NumPixels = 1`, packet path | The packet path flips without `sync_palette_bank`; frame 2 shows through the bank that has the old palette. |
| `PatchedFlip` | `MCMixed`, `NumPixels = 4`, packet path | `process_packet` sets the chunk size of the incoming frame before it repairs the outgoing one. |
| Panel `StartReachesBothHalves` | as `panel` | `PROGRAM_FULL_LEFT -= 1` in the main loop overwrites the count a request set in between; `NothingOwedIsCurrent` and `Converges` therefore speak of histories without that race (`clean`). |
| Panel `ConfigWins` | as `panel` | A configuration that selects the stream leaves a running program in possession of the framebuffer. |
| Panel `StartShowsItsColours` | as `panel`, with `Requests = {"layout"}`, `MaxRequests = 2` | `apply_layout` (`network.rs:882-894`) starts a program and resets both palette banks like `api_program_on`, but does not set `PROGRAM_PALETTE_DIRTY`: a second configuration leaves a program with a static palette in the default colours. With `Requests = {"program"}` the same happens when the request falls between the palette and the clearing of the flag. `clean` is false after a start through a layout, so `NothingOwedIsCurrent` and `Converges` do not speak of one. |
| Netboot `LeaseEnds` | as `netboot` | The lease runs out on a quiet segment: the timer's interrupt does not poll the stack (`network.rs:607, 616`), and of what arrives a card with an address discards foreign ARP, multicast and unwanted UDP before the stack sees it (`network.rs:4412-4466`). It keeps the address until a packet gets through (`LeaseHonoured`); with `SPECIFICATION BusySpec`, under which one does, `LeaseEnds` holds. |
| Wall `PaletteRecovers` | `MaxEvents = 1` | A lost palette packet, or a reboot between two status requests, leaves a card with wrong colours until the palette changes. |
| Http `NeverWedged` | as `http` | A client that dies inside the handshake, or behind a response that does not fit the transmit buffer, holds its socket for ever; `network.rs:1064-1066` speaks of a "hard ceiling so a dead or stalled peer cannot wedge one of the two sockets forever". `DeadlinesFree` states the cases in which it is freed. |

**Bounds.** Pixel path: three frames are the fewest in which a half is reused
(frame 3 goes where frame 1 was), so stale content of two frames ago exists;
four frames with two copies exercise ordering across reuse. Three pixels at one
pixel a chunk allow none, some and all chunks to be missing, with `MaxRepair = 1`
both repair and drop; an indexed frame of three pixels a chunk gives a change of
format and of `total_chunks`. `WireCap` and `MacCap` of 1 to 3 let packets
overtake a handler and let the MAC overrun. `SeqMod = 4` makes `done_seq` wrap.
`StuckFrames = 2` in `card` and `filter_path` brings the watchdog within reach:
with two frames in `card` up to its bound, with four in `filter_path` to its
intervention. `packet_path`, in which the CPU has the flip already, keeps the
code's 8. Copies, delays, knobs and loss are split between runs because their
product is too large, not because they exclude each other.
Ota: sectors of two pages let power fail between the two; two requests let a job
or a second transfer meet the first one; the long file is a bitstream, so it gets
past the preamble check and fails at the page beyond the region. The golden region
starts whole or blank: the card never writes it, and only provisioning over JTAG
could leave it half written. `golden_present` tests the preamble only
(`flash_write.rs:135-159`) and would take such a region for an image;
`NeverBricked` does not speak of that card.
Panel: three rows and a repaint slice of one make every repaint take several
ticks; `MAX_VALUES` is below the number of keys so that the table fills up.
Wall: two events are the two unanswered requests that mark a card down, or a
fault during the recovery from another; two players let one end while the next
starts; `QUEUE = 1` makes a full queue common. With one card a sender never
holds a frame of which another card has already taken its part; two cards with
one event have been checked as well (same configuration, `Cards = {"c1", "c2"}`,
`MaxEvents = 1`).
Http: `handle_http` treats each socket by itself, so one is enough; three
clients make two reuses; requests of two pieces and a receive buffer of two let
a client send more than one request's worth; one answer is larger than
`TxCap = 2`.
Netboot: blocks of two units and a buffer of four; files of three, four and five
units are short of, at and beyond the buffer, the second with an empty last
block; `REQUEST_RETRIES = 1` still distinguishes retry from restart; DHCP runs
without a bound on its events.
No symmetry is used.

**Fairness.** `BitmapReceiver`: the main loop spins and the timer runs
(`TimerTick`, `TickRuns`), the trap handler or the MAC disposes of packets
(`PacketTaken`), the clock advances when nothing arrives (`TimePasses`), and the
gateware consumes what reaches it (`HardwareNext`; the stall watchdog is what
guarantees it). `Ota`: the loader is polled while it is active, the main loop
runs its tick, the chip finishes an operation, deadlines pass. `Panel`: the main
loop. `Wall`: the three kinds of thread, each a loop that does not block for
ever, and a netboot that nobody disturbs (a real BIOS gives up after about 35 s of
lost packets, `player.py:70-74, 700-703`; how long the supervisor lets frames
disturb it is a matter of timing the model leaves out). `Http` and `Netboot`: the
timer interrupt enters the handler (`main.rs:345-360`), the clock runs; during the
fetch the handler then attends to it without any packet (`tftp_active`). Nothing is
assumed of senders, networks, servers, clients or operators. The one exception is
`BusySpec`, for `static_fallback` only: packets that the stack sees keep arriving
(a card without an address discards no ARP, `network.rs:4417-4420`), so the
violation is not that of a silent segment.
Fairness is stated so that TLC evaluates it cheaply, on the variable a step
changes where that is possible. In the handlers of Netboot a chain of singleton
quantifiers stands for the sequence of calls, for the same reason.

Deadlock is checked except in `ota`, `panel` and `wall`, whose systems come to rest
when there is nothing left to do: a loader that is done, a program with nothing
to draw, and, within the bounds, an operator with no more edits.

## Proofs

Each theorem holds for every value of the constants that the module's named
`ASSUME` allows. Every invariant below that is called inductive was first checked
by TLC on the instance of the module's run.

### PixelDmaProofs

For every number of frames and pixels, every chunking that covers the image,
every number of copies and every link:

* `TypeCorrect` – `OverflowSpec => []TypeOK`, without further assumptions
  (`OverflowSpec` allows everything `DmaSpec` does and packets cut by the gate).
* `AssemblyConsistent` – `DmaSpec => []IInv`.
* `OnlyWholeFrames` – `DmaSpec => []WholeOnGlass`.
* `SnapshotsTellTheGlass` – `DmaSpec => []SnapshotOnGlass`.
* `StreamInOrder` – `DmaSpec => []OrderInv`.
* `ImplementsGlass` – `DmaSpec => GlassSpec`.

All but the first are about `DmaSpec`, in which `burst_fifo` never fills up (run
`overflow` shows why that is needed), and assume `SwapWholeOnly` (the CSR's
reset value) and `DistinctIds` (no two frames the card can confuse share a
frame_id: a sender that restarts or wraps while the card still holds an old id
breaks it).

`WholeOnGlass` is not inductive. `IInv` adds why a flip is safe: the arrival
bitmap is a set of chunk numbers below `total_chunks` and `received` is its
cardinality (so equality means all of them, lemma `AllArrived`); every pixel of
an arrived chunk in the written half holds the frame being assembled
(`ArrivalInv`); the payload in progress belongs to that frame and goes to the
half not displayed (`PixInv`), so it can only replace other content there and
never spoil an arrived chunk (`PayloadEffect`, which is where distinct ids
matter); a header register other than 0 belongs to a frame (`HeaderInv`), 0
means untouched halves (`ResetInv`). Since every pixel lies in some chunk, a
complete bitmap means a half of one content (`FrameFillsHalf`). For the order
part of Glass, `OrderInv` says that frames on an undelayed wire are sorted,
none is older than the one being assembled, and the one on the glass is older
still.

### ReceiverProofs

The firmware composed with the gateware, for every stream, chunking, link, set of
operator requests, repair limit and watchdog limit:

* `RxTypes` – `ReceiverSpec => []RxTypeOK`, without further assumptions.
* `MaskIsCounted` – `ReceiverSpec => []MaskCounts`, without further assumptions:
  overflow, strays and every operator request are allowed.
* `CompletionIsWhole` – `ReceiverSpec => []OnlyOwnChunks`, if all packets that
  carry one frame_id, strays the gateware sees included, announce the same number
  of chunks and have chunk numbers below it (`OneTotal`).

`MaskCounts` is not inductive: a merge takes the gateware's bitmap into the CPU's
mask and cuts the count at the CPU's `total_chunks`. The cut makes the two differ
only inside a handler, which then finds the frame complete and resets it;
`WellCounted` says of the card's record that the count is the mask's cardinality.
`OnlyOwnChunks` needs more. `RxInv` adds that chunk numbers on the wire, in the
payload being written and in the MAC are below their frame's size (`GateInv`,
`MacInv`), that the header registers and the receiver's identity were both
announced by a sender or a stray (`Announced`), and that both masks are within
their frame's size (`CountInv`). Under `OneTotal` equal ids mean equal sizes. The
table of claims has the stray that breaks it.

The filter path (`FilterPath`: the filter and the flip are on from boot, as
`main.rs` leaves them, nobody turns either off, `burst_fifo` does not overflow;
hold, DMA and cpu_pixels requests, delays and loss are allowed; strays are not, as
the table of claims shows why):

* `GatewareAlone` – `ReceiverSpec => FirmwareHandsOff`: no step gives the flip
  back to the gateware once it was taken, and a step after which the gateware has
  the flip is one of PixelDma's steps or leaves its variables alone.
* `FilterPathWhole` – `ReceiverSpec => []WholeWhileHardware`.
* `FilterPathImplementsGlass` – `ReceiverSpec /\ []auto_swap => GlassSpec`.
* `FilterPathHeld` – `ReceiverSpec => HeldMeansHeld`, if nobody turns the DMA back
  on during a hold (`"dma" \notin Knobs`).

The second and third also assume `DistinctIds` and `SwapWholeOnly`, as for
PixelDma. The invariant is `FilterInv`: only palettes get into the MAC
(`FilterBase`), and while the gateware has the flip, `IInv` and `OrderInv` hold.
Nothing is known once the watchdog took the flip back, which is why `auto_swap`
is in these statements; the row `WholeOnGlass` of the table above shows that it
cannot be left out. `FilterPathHeld` needs of `IInv` only that a payload under
way goes to the half that is not displayed.

### PacketPathProofs

The packet path (`PacketPath`: filter and DMA off from boot and never turned on,
a wall of one format, strays included; `api_cpu_pixels`, overflow, loss in the MAC
and on the link are allowed), with `DistinctIds`:

* `FlipsArePatched` – `ReceiverSpec => PatchedFlip`.
* `PixelsOnlyAdvance` – `ReceiverSpec => PixelsNeverGoBack`, if the link keeps
  order (`~Delays`).

One format is needed: the table above has the counterexample for a stream that
changes it. `PathInv` is `RxInv` and, for the record every method works on, that
the CPU's `active_buf` agrees with the gateware's `fb_base` and that every pixel
of an arrived chunk in the half being drawn into holds the frame being assembled
(`Drawn`). It is stated of the record and not of the variables because one handler
can present twice (a packet of a new frame that completes it). `repair_from_front`
then turns such a half into frame or glass, pixel by pixel (`DrawnOrMissing`,
`PresentPath`). For the order, `CpuOrder` says that pixel packets wait in the
MAC in frame order (`QueueInv`), none older than the frame being assembled
(`NamedInv`), and that no pixel of the glass is newer than that frame
(`ShownInv`).

### HttpProofs

For any number of sockets and clients, any buffer sizes and lengths of request
and answer, given `HttpAssumption` (nobody is not a client, sizes are positive):

* `BuffersBounded` – `Spec => []HttpTypeOK`.
* `EveryClientItsOwnAnswer` – `Spec => []OwnAnswer`.
* `RequestsOnce` – `Spec => []AtMostOnce`.
* `TailsAreSent` – `Spec => TailIsSent`, an action property.

The danger is what a socket keeps from its last connection. `HttpInv` says of
each socket: one that listens or is in SYN-RECEIVED holds nothing of the last
one (`Fresh`, the reset in recycling); before the request is complete there is
no answer and nothing queued (`Unanswered`); afterwards the request has been
handled once and the answer is that of the socket's peer (`Answered`), and what
is queued is part of that answer (`QueuesAnswer`); an active connection has
somebody at its other end (`Connected`).

### NetbootProofs

For every set of file versions, file length, block size and limit:

* `ConfigFits` – `Spec => []NetbootTypeOK`, with the bound of the
  configuration buffer.
* `LayoutsWhole` – `Spec => []WholeConfig`: a layout that is applied comes
  from one whole version of the file.
* `FilterHasAddress` – `Spec => []FilterFollows`.
* `LeasesHonoured` – `Spec => LeaseHonoured`, an action property.

The inductive `NetbootInv` says that the loader's state is untouched until the
one request it ever sends (`AskedOnce`), and that from then on all of the
server's packets, those in the MAC, the buffer and the layout belong to one
version (`TransferOf`): the buffer holds the units of all blocks before the
expected one, as many as fit, and is marked when it could not take them all
(`Received`, `Partial`). A duplicated, delayed or reordered block does no harm
because it is either the expected one of that version or is not taken.
For the lease, `LeaseInv` says that a client with nothing to report holds, or held
until its time ran out, the address the interface has: every way a lease ends sets
`config_changed` (`ProcessSays`, `DispatchSays`), and a poll resets an expired one
(`Fresh`) before `handle_dhcp` looks.

### OtaProofs

For every placement and size of the flash regions that `OtaAssumption` allows
(in order, disjoint, on sector boundaries, the factory image fitting):

* `OtaInvariant`, `UpdateTypes` – `OtaSpec => []OtaInv`, `[]OtaTypeOK`.
* `CardNeverBricked` – `OtaSpec => []NeverBricked`.
* `GoldenUntouched` – `OtaSpec => ProtectedUntouched`, an action property.
* `BootSlotImplemented` – `OtaSpec => BootSlotSpec`, the refinement.
* `DoneInstalls` – `OtaSpec => []DoneIsInstalled`.

`OtaInv` says where writes can be under way: a full sector in the stage is being
flushed (`StageInv`), pages are programmed only in a sector that the policy
`region_is_writable` allows (`FlushInv`), and so is what the main loop has asked
of the chip, erases starting at a sector (`ChipInv`, `JobInv`). The policy may
change between the check and the write only in the harmless direction, since
nothing ever writes the golden region; so either the golden image is whole, or
there is none and the factory application has not been touched (`FallbackInv`).
For `DoneIsInstalled`, `InstallInv` adds that while nothing but the loader's own
transfer wrote the region (`clean`) all sessions and packets are of the loader's
file (`FromThisFile`), and the blocks taken so far are its first ones, the
flushed sectors of them in flash and the rest in the stage (`TransferInv`).

### WallProofs

For any finite set of cards, any shows, programs, queue length, number of
players and of events:

* `WallInvariant`, `WallTypes` – `WallSpec => []WallInv`, `[]WallTypeOK`.
* `QueuesCurrent` – `WallSpec => []QueueIsCurrent`.
* `PaletteBeforeFrame` – a sender thread about to send a frame has sent the
  frame's palette on that very link, or the link is closed (`PaletteSent`).
* `OneLivePlayer` – of the players that were started, at most one has not been
  told to stop.

`WallInv` has one part per process: the database, cards, supervisor and threads
(`DbInv`, `CardInv`, `SupInv`, `ThreadsInv`); the registered player is the only
one not told to stop (`RegisterInv`); of each player, what the render thread
holds (`RenderInv`), what is queued (`PayloadInv`), the palette (`PaletteSent`)
and the link generations (`GenerationInv`: a new generation costs an edit and
none is used twice, so an equal generation means equal links). The last two
theorems are not properties of a run.

### PanelProofs

For every panel size, repaint slice, set of programs and values:

* `PanelTypes` – `PanelSpec => []PanelTypeOK`.
* `PanelInvariant` – `PanelSpec => []PanelInv`.
* `NothingOwedShowsProgram` – `PanelSpec => []NothingOwedIsCurrent`.

The property speaks of the moment when nothing is owed; the invariant of every
step of a tick, with the interrupt's requests in between. `PanelInv` is the type
invariant and, once a program was started at a moment when no tick was reading
what a start sets, and nobody else has drawn since (`clean`): the tick in progress belongs to the program started
last, knows what was owed when it began, and draws into the hidden half
(`StartInv`); a row that one of the two whole frames owed has reached is the
program's own (`SourceInv`); each row is unreached, owed to the repaint or drawn
from the current value, unless a value has come that no tick has seen
(`ValueInv`); the rows that this frame has drawn are current (`BandInv`); both
palette banks are the program's when they can be displayed (`PaletteInv`).

### Only model-checked so far

Every invariant, action property and refinement of a passing run is also stated
by a theorem. Liveness (`FrameResolved`,
`PaletteApplied`, `LoaderEnds`, `Converges`, `CardReturns`, `WallConverges`,
`StoppedPlayersEnd`, `DeadlinesFree`, `FetchEnds`) needs fairness and
ENABLED, which TLAPS does not prove here; it stays with TLC.

## Not modelled, and what the present model leaves out

* Torn multi-word CSR reads: a handler reads the gateware's registers in one
  step. `dma_done_frame` guards itself with `done_seq`; `dma_frame_identity`
  does not.
* Palette contents and partial palettes: a palette is one value; a palette
  write is one step.
* The beat-level behaviour of the gate (a refused last beat merges two packets).
* Frame ids are compared, never computed: wrap-around and restart appear only as
  the assumption `DistinctIds`.
* Of the wall's reconciliation of links, the replacement of one whose card's
  record changed (`matches`, `player.py:528`) and `wall.enabled`; a link is closed
  and opened again when its card leaves the stream and returns. `RunRead` reads
  the database, drains the queue and closes links in one step: the links are the
  thread's own.
* With the pixel filter off a stream and a program draw into one framebuffer;
  Panel has the filter on, as `main.rs` leaves it.
* What a layout file says (`layout.rs`) is abstracted to whether a version is
  valid; what a program draws to which value it was drawn from.
* The vendored smoltcp, about half of the repository's code, beyond the TCP
  socket states and the DHCP client: wire formats, sequence numbers and
  windows, neighbour cache, IPv6, 6LoWPAN, IGMP. None of it is this project's
  logic, and much of it is compiled out.
* Rendering, providers and bindings, the web front end, authentication, database
  edits of the API (they appear as an operator who may do anything), S-PWM
  waveforms and scan-out timing, test patterns, fonts and other generated
  tables, build scripts and simulators: straight-line code, data or cycle-level
  timing, with no state machine that a model of this kind would check.
* ArtNet, telnet menu, LED control, counters kept for diagnosis, the profiler,
  the DMA throttle.

## Plan

The modules planned at the start are written, and every safety property the runs
check is proved. The claims that do not hold are the place to go on: when the code
behind one changes, its property belongs in a run, and where an assumption of a
theorem names it (`DistinctIds`, one format, `auto_swap`), the assumption goes.
