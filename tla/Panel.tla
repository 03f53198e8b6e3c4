------------------------------- MODULE Panel -------------------------------
(***************************************************************************)
(* Program mode on one card (network.rs, values.rs, hub75.rs): the main    *)
(* loop renders an on-panel program row by row into the half of the        *)
(* framebuffer that is not displayed and then swaps, while the network     *)
(* interrupt, which may come between any two of its steps, pushes values,  *)
(* starts and stops programs, shows a test pattern, applies a layout and   *)
(* switches the pixel DMA.                                                 *)
(*                                                                         *)
(* A pixel remembers what drew it and the value it was drawn from; all     *)
(* pixels of a row are drawn at once, except in a scroll band, where a row *)
(* is last frame's row shifted by one pixel.  The pixel filter is on, as   *)
(* main.rs leaves it, so that the stream reaches the framebuffer through   *)
(* the pixel DMA only.                                                     *)
(***************************************************************************)
EXTENDS Integers, Sequences, FiniteSets

CONSTANTS
    H, W,            \* rows and columns of the canvas
    REPAINT_SLICE,   \* rows of owed repaint a frame may pay
    Programs, First, \* the registry and its first entry
    Dynamic,         \* rows redrawn every frame, of the programs that say so
    Scroll,          \* Scroll[p]: rows in scroll bands
    Palette,         \* Palette[p]: "none", "static" or "animated"
    Reads,           \* Reads[p]: the key program p is drawn from
    MAX_VALUES,      \* slots of the value table
    Values,          \* what a value can be; "-" is what absent looks like
    Requests,        \* kinds of request that arrive
    MaxRequests      \* bound: requests and streamed frames

Rows == 0 .. H - 1
Halves == {0, 1}
Keys == {Reads[p] : p \in Programs}

ASSUME PanelAssumption ==
    /\ H \in Nat \ {0} /\ W \in Nat \ {0} /\ REPAINT_SLICE \in Nat \ {0}
    /\ First \in Programs
    /\ DOMAIN Dynamic \subseteq Programs
    /\ \A p \in DOMAIN Dynamic : Dynamic[p] \subseteq Rows
    /\ Scroll \in [Programs -> SUBSET Rows]
    /\ Palette \in [Programs -> {"none", "static", "animated"}]
    /\ DOMAIN Reads = Programs
    /\ MAX_VALUES \in Nat
    /\ "-" \notin Values
    /\ Programs \cap {"grid", "pattern", "stream", "default", "none"} = {}
    /\ MaxRequests \in Nat

VARIABLES
    PROGRAM_ACTIVE, PROGRAM_FN, PROGRAM_FULL_LEFT, PROGRAM_PRIME_LEFT,
    PROGRAM_PALETTE_DIRTY,
    REPAINT_POS, REPAINT_LEFT,
    VALUES,          \* the value table; a key without a slot has no value
    unseen,          \* VALUES.writes differs from PROGRAM_SEEN_WRITES
    fb,              \* fb[h][y][x]: the two halves
    glass,           \* the half being displayed (fb_base_now)
    active_buf,      \* the half the driver believes is displayed
    bank,            \* bank[h]: palette bank that goes with half h
    auto_swap, dma,
    done,            \* the gateware has finished a frame nobody presented
    tick,            \* where the main loop is inside program_tick()
    requests,
    shown,           \* history: what was asked for last
    clean            \* history: the last start of a program was a request for it,
                     \* not a layout's, and landed where no tick was reading its
                     \* state, and nobody else has drawn since

progVars == <<PROGRAM_ACTIVE, PROGRAM_FN, PROGRAM_FULL_LEFT, PROGRAM_PRIME_LEFT, PROGRAM_PALETTE_DIRTY>>
repaintVars == <<REPAINT_POS, REPAINT_LEFT>>
valueVars == <<VALUES, unseen>>
hub75Vars == <<fb, glass, active_buf, bank, auto_swap, dma, done>>
historyVars == <<requests, shown, clean>>
panelVars == <<progVars, repaintVars, valueVars, hub75Vars, tick, historyVars>>

Sources == Programs \cup {"grid", "pattern", "stream"}
Pixel == [src : Sources, val : Values \cup {"-"}]
Idle == [pc |-> "idle", prog |-> First, buf |-> 0, rows |-> {}, band |-> {},
         scrolling |-> FALSE, budget |-> 0, full |-> 0, prime |-> 0]

Ticks == [pc : {"idle", "palette", "clean", "count", "owe", "scroll", "paint", "repaint", "swap"},
          prog : Programs, buf : Halves, rows : SUBSET Rows, band : SUBSET Rows,
          scrolling : BOOLEAN, budget : 0 .. REPAINT_SLICE, full : 0 .. 2, prime : 0 .. 2]

\* Type correctness of program mode.
PanelTypeOK ==
    /\ PROGRAM_ACTIVE \in BOOLEAN /\ PROGRAM_FN \in Programs \cup {"none"}
    /\ PROGRAM_FULL_LEFT \in 0 .. 2 /\ PROGRAM_PRIME_LEFT \in 0 .. 2
    /\ PROGRAM_PALETTE_DIRTY \in BOOLEAN
    /\ REPAINT_POS \in [Halves -> 0 .. H] /\ REPAINT_LEFT \in [Halves -> 0 .. H]
    /\ \A h \in Halves : REPAINT_LEFT[h] > 0 => REPAINT_POS[h] + REPAINT_LEFT[h] = H
    /\ VALUES \in [Keys -> Values \cup {"-"}] /\ unseen \in BOOLEAN
    /\ fb \in [Halves -> [Rows -> [1 .. W -> Pixel]]]
    /\ glass \in Halves /\ active_buf \in Halves
    /\ bank \in [Halves -> Programs \cup {"default", "stream"}]
    /\ auto_swap \in BOOLEAN /\ dma \in BOOLEAN /\ done \in BOOLEAN
    /\ tick \in Ticks
    /\ requests \in 0 .. MaxRequests
    /\ shown \in Programs \cup {"pattern", "stream", "none", "missing"} /\ clean \in BOOLEAN

-----------------------------------------------------------------------------
(* The value table, the framebuffer and the palette.                       *)

Used == Cardinality({k \in Keys : VALUES[k] # "-"})

\* ValueTable::set(): a new key finds a slot or is ignored.
set(k, v) == IF VALUES[k] # "-" \/ Used < MAX_VALUES THEN [VALUES EXCEPT ![k] = v] ELSE VALUES

Plain(s) == [x \in 1 .. W |-> [src |-> s, val |-> "-"]]
FrameOf(s) == [y \in Rows |-> Plain(s)]

\* A row of program p, from the values as they are now.  A push during the row
\* leaves some of it old, which the repaint it causes makes good like all of it.
render(p) == [x \in 1 .. W |-> [src |-> p, val |-> VALUES[Reads[p]]]]

\* The displayed row moved one pixel, its last pixel drawn by the program.
Shifted(row, p) == [x \in 1 .. W |-> IF x < W THEN row[x + 1] ELSE render(p)[x]]

\* The driver's slice: where a CPU writer draws.
back_buffer == 1 - active_buf
\* The half the gateware does not display.
back_index == 1 - glass

swap_buffers == /\ active_buf' = 1 - active_buf
                /\ glass' = 1 - active_buf

BothBanks(p) == [h \in Halves |-> p]
set_palette(p) == [bank EXCEPT ![back_index] = p]
set_stream_hold(on) == dma' = ~on

Asked(kind) == /\ kind \in Requests /\ requests < MaxRequests
               /\ requests' = requests + 1

\* A card after main.rs has set it up, without a baked configuration.
PanelInit ==
    /\ PROGRAM_ACTIVE = FALSE /\ PROGRAM_FN = "none"
    /\ PROGRAM_FULL_LEFT = 2 /\ PROGRAM_PRIME_LEFT = 0 /\ PROGRAM_PALETTE_DIRTY = TRUE
    /\ REPAINT_POS = [h \in Halves |-> 0] /\ REPAINT_LEFT = [h \in Halves |-> 0]
    /\ VALUES = [k \in Keys |-> "-"] /\ unseen = FALSE
    /\ fb = [h \in Halves |-> FrameOf("grid")]
    /\ glass = 0 /\ active_buf = 0
    /\ bank = BothBanks("stream")
    /\ auto_swap = TRUE /\ dma = FALSE /\ done = FALSE
    /\ tick = Idle
    /\ requests = 0 /\ shown = "stream" /\ clean = FALSE

-----------------------------------------------------------------------------
(* program_tick(), in the main loop with interrupts on.                    *)

Step(pc) == tick' = [tick EXCEPT !.pc = pc]

\* The tick takes hold of the program and takes the swap from the gateware.
TickBegins ==
    /\ tick.pc = "idle" /\ PROGRAM_ACTIVE
    /\ tick' = [Idle EXCEPT !.pc = "palette",
                            !.prog = IF PROGRAM_FN = "none" THEN First ELSE PROGRAM_FN]
    /\ auto_swap' = FALSE
    /\ UNCHANGED <<progVars, repaintVars, valueVars, fb, glass, active_buf, bank, dma, done, historyVars>>

\* An animated palette goes into this frame's bank, a static one into both,
\* once.
TickPalette ==
    /\ tick.pc = "palette"
    /\ LET kind == Palette[tick.prog] IN
       \/ /\ kind = "animated"
          /\ bank' = set_palette(tick.prog)
          /\ Step("count")
       \/ /\ kind = "static" /\ PROGRAM_PALETTE_DIRTY
          /\ bank' = BothBanks(tick.prog)
          /\ Step("clean")
       \/ /\ kind = "none" \/ (kind = "static" /\ ~PROGRAM_PALETTE_DIRTY)
          /\ Step("count")
          /\ UNCHANGED bank
    /\ UNCHANGED <<progVars, repaintVars, valueVars, fb, glass, active_buf, auto_swap, dma, done, historyVars>>

TickClean ==
    /\ tick.pc = "clean"
    /\ PROGRAM_PALETTE_DIRTY' = FALSE
    /\ Step("count")
    /\ UNCHANGED <<PROGRAM_ACTIVE, PROGRAM_FN, PROGRAM_FULL_LEFT, PROGRAM_PRIME_LEFT, repaintVars,
                   valueVars, hub75Vars, historyVars>>

\* Mutant: owed repaint does not keep an idle program awake.
AnimatedWithoutRepaint(left) ==
    \/ Scroll[tick.prog] # {}
    \/ Palette[tick.prog] = "animated"
    \/ PROGRAM_FN \in DOMAIN Dynamic

Animated(left) ==
    \/ Scroll[tick.prog] # {}
    \/ Palette[tick.prog] = "animated"
    \/ PROGRAM_FN \in DOMAIN Dynamic
    \/ \E h \in Halves : left[h] > 0

\* Mutant: a value owes the canvas to the half being drawn only.
RepaintOneHalf ==
    /\ REPAINT_POS' = [REPAINT_POS EXCEPT ![back_index] = 0]
    /\ REPAINT_LEFT' = [REPAINT_LEFT EXCEPT ![back_index] = H]

\* Mutant: the repaint goes on from where the last one stopped.
RepaintFromHere ==
    /\ REPAINT_LEFT' = [h \in Halves |-> H]
    /\ UNCHANGED REPAINT_POS

\* Both halves owe the whole canvas.
RepaintBothHalves ==
    /\ REPAINT_POS' = [h \in Halves |-> 0]
    /\ REPAINT_LEFT' = [h \in Halves |-> H]

\* A value that arrived owes a repaint; without anything to draw the tick ends;
\* the rows of this frame are the band, or all of them while whole frames are
\* owed.
TickCount ==
    /\ tick.pc = "count"
    /\ unseen' = FALSE
    /\ IF unseen THEN RepaintBothHalves ELSE UNCHANGED repaintVars
    /\ \/ /\ PROGRAM_FULL_LEFT = 0 /\ ~Animated(REPAINT_LEFT')
          /\ tick' = Idle
       \/ /\ PROGRAM_FULL_LEFT > 0 \/ Animated(REPAINT_LEFT')
          /\ tick' = [tick EXCEPT !.pc = "owe", !.full = PROGRAM_FULL_LEFT, !.prime = PROGRAM_PRIME_LEFT,
                         !.band = IF PROGRAM_FN \in DOMAIN Dynamic /\ PROGRAM_FULL_LEFT = 0
                                  THEN Dynamic[PROGRAM_FN] ELSE Rows]
    /\ UNCHANGED <<progVars, VALUES, hub75Vars, historyVars>>

\* The counters read above are written back one less, whatever the interrupt
\* stored meanwhile; then the scroll bands come first.
TickOwe ==
    /\ tick.pc = "owe"
    /\ PROGRAM_FULL_LEFT' = IF tick.full > 0 THEN tick.full - 1 ELSE PROGRAM_FULL_LEFT
    /\ PROGRAM_PRIME_LEFT' = IF tick.prime > 0 THEN tick.prime - 1 ELSE PROGRAM_PRIME_LEFT
    /\ LET scrolling == Scroll[tick.prog] # {} /\ tick.prime = 0
       IN tick' = [tick EXCEPT !.pc = "scroll", !.scrolling = scrolling, !.buf = back_buffer,
                               !.rows = IF scrolling THEN Scroll[tick.prog] ELSE {}]
    /\ UNCHANGED <<PROGRAM_ACTIVE, PROGRAM_FN, PROGRAM_PALETTE_DIRTY, repaintVars, valueVars,
                   hub75Vars, historyVars>>

in_scroll(y) == tick.scrolling /\ y \in Scroll[tick.prog]
FirstRow == CHOOSE y \in tick.rows : \A z \in tick.rows : y <= z
Draw(y, row) == fb' = [fb EXCEPT ![tick.buf][y] = row]

\* One row of a scroll band; after the last one the slice is fetched again.
TickScroll ==
    /\ tick.pc = "scroll"
    /\ \/ /\ tick.rows # {}
          /\ Draw(FirstRow, Shifted(fb[1 - tick.buf][FirstRow], tick.prog))
          /\ tick' = [tick EXCEPT !.rows = @ \ {FirstRow}]
       \/ /\ tick.rows = {}
          /\ tick' = [tick EXCEPT !.pc = "paint", !.buf = back_buffer,
                                  !.rows = {y \in tick.band : ~in_scroll(y)}]
          /\ UNCHANGED fb
    /\ UNCHANGED <<progVars, repaintVars, valueVars, glass, active_buf, bank, auto_swap, dma, done, historyVars>>

\* One row of the band.
TickPaint ==
    /\ tick.pc = "paint"
    /\ \/ /\ tick.rows # {}
          /\ Draw(FirstRow, render(tick.prog))
          /\ tick' = [tick EXCEPT !.rows = @ \ {FirstRow}]
       \/ /\ tick.rows = {}
          /\ tick' = [tick EXCEPT !.pc = "repaint", !.buf = back_buffer, !.budget = REPAINT_SLICE]
          /\ UNCHANGED fb
    /\ UNCHANGED <<progVars, repaintVars, valueVars, glass, active_buf, bank, auto_swap, dma, done, historyVars>>

\* One row of what is owed to the half being drawn, rows already drawn or
\* carried by the scroll free of charge.
TickRepaint ==
    /\ tick.pc = "repaint"
    /\ LET bi == back_index
           y == REPAINT_POS[bi]
           free == in_scroll(y) \/ y \in tick.band
       IN \/ /\ tick.budget > 0 /\ REPAINT_LEFT[bi] > 0
             /\ REPAINT_POS' = [REPAINT_POS EXCEPT ![bi] = @ + 1]
             /\ REPAINT_LEFT' = [REPAINT_LEFT EXCEPT ![bi] = @ - 1]
             /\ IF free THEN UNCHANGED <<fb, tick>>
                ELSE /\ Draw(y, render(tick.prog))
                     /\ tick' = [tick EXCEPT !.budget = @ - 1]
          \/ /\ tick.budget = 0 \/ REPAINT_LEFT[bi] = 0
             /\ Step("swap")
             /\ UNCHANGED <<repaintVars, fb>>
    /\ UNCHANGED <<progVars, valueVars, glass, active_buf, bank, auto_swap, dma, done, historyVars>>

\* Interrupts off: the frame goes to the glass if the program still owns it.
TickSwap ==
    /\ tick.pc = "swap"
    /\ tick' = Idle
    /\ \/ PROGRAM_ACTIVE /\ swap_buffers
       \/ ~PROGRAM_ACTIVE /\ UNCHANGED <<glass, active_buf>>
    /\ UNCHANGED <<progVars, repaintVars, valueVars, fb, bank, auto_swap, dma, done, historyVars>>

program_tick == \/ TickBegins \/ TickPalette \/ TickClean \/ TickCount \/ TickOwe
                \/ TickScroll \/ TickPaint \/ TickRepaint \/ TickSwap

\* bitmap_present_tick(): without a program, a finished streamed frame is
\* presented; when the gateware has swapped, the driver only follows it.
bitmap_present_tick ==
    /\ tick.pc = "idle" /\ ~PROGRAM_ACTIVE /\ done
    /\ done' = FALSE
    /\ \/ auto_swap /\ active_buf' = glass /\ UNCHANGED glass
       \/ ~auto_swap /\ swap_buffers
    /\ UNCHANGED <<progVars, repaintVars, valueVars, fb, bank, auto_swap, dma, tick, historyVars>>

\* The gateware writes a streamed frame into the half it does not display and,
\* if told to, displays it.
StreamFrame ==
    /\ dma /\ Asked("frame")
    /\ fb' = [fb EXCEPT ![back_index] = FrameOf("stream")]
    /\ glass' = IF auto_swap THEN back_index ELSE glass
    /\ done' = TRUE
    /\ shown' = IF PROGRAM_ACTIVE THEN shown ELSE "stream"
    /\ clean' = FALSE
    /\ UNCHANGED <<progVars, repaintVars, valueVars, active_buf, bank, auto_swap, dma, tick>>

-----------------------------------------------------------------------------
(* Requests, answered in the network interrupt.                            *)

api_values_set(k, v) ==
    /\ Asked("values")
    /\ VALUES' = set(k, v) /\ unseen' = TRUE
    /\ UNCHANGED <<progVars, repaintVars, hub75Vars, tick, shown, clean>>

\* What every start of a program does.
Start(p) ==
    /\ PROGRAM_ACTIVE' = TRUE /\ PROGRAM_FN' = p
    /\ PROGRAM_FULL_LEFT' = 2 /\ PROGRAM_PRIME_LEFT' = 2

\* The running tick has read the program and not yet written what it owes.
Reading == tick.pc \in {"palette", "clean", "count", "owe"}

\* POST /api/program/on, with or without the name of a program.
api_program_on(name) ==
    /\ Asked("program")
    /\ LET p == IF name # "none" THEN name ELSE IF PROGRAM_FN = "none" THEN First ELSE PROGRAM_FN
       IN /\ Start(p)
          /\ shown' = p
    /\ PROGRAM_PALETTE_DIRTY' = TRUE
    /\ auto_swap' = FALSE
    /\ set_stream_hold(TRUE)
    /\ bank' = BothBanks("default")
    /\ clean' = ~Reading
    /\ UNCHANGED <<repaintVars, valueVars, fb, glass, active_buf, done, tick>>

\* POST /api/program/off.
api_program_off ==
    /\ Asked("program")
    /\ PROGRAM_ACTIVE' = FALSE
    /\ auto_swap' = TRUE
    /\ set_stream_hold(FALSE)
    /\ shown' = "stream" /\ clean' = FALSE
    /\ UNCHANGED <<PROGRAM_FN, PROGRAM_FULL_LEFT, PROGRAM_PRIME_LEFT, PROGRAM_PALETTE_DIRTY,
                   repaintVars, valueVars, fb, glass, active_buf, bank, done, tick>>

\* POST /api/display/pattern.
api_display_pattern ==
    /\ Asked("pattern")
    /\ fb' = [fb EXCEPT ![back_buffer] = FrameOf("pattern")]
    /\ swap_buffers
    /\ PROGRAM_ACTIVE' = FALSE
    /\ set_stream_hold(TRUE)
    /\ shown' = "pattern" /\ clean' = FALSE
    /\ UNCHANGED <<PROGRAM_FN, PROGRAM_FULL_LEFT, PROGRAM_PRIME_LEFT, PROGRAM_PALETTE_DIRTY,
                   repaintVars, valueVars, bank, auto_swap, done, tick>>

\* POST /api/dma/on: the supervisor's, for a card it believes is streaming.
api_dma_set ==
    /\ Asked("dma")
    /\ dma' = TRUE
    /\ UNCHANGED <<progVars, repaintVars, valueVars, fb, glass, active_buf, bank, auto_swap, done,
                   tick, shown, clean>>

\* A configuration arrives; name is a program of this firmware, "none" if the
\* configuration asks for the stream, "missing" if it names an unknown program.
\* It starts the program without PROGRAM_PALETTE_DIRTY (see StartShowsItsColours).
apply_layout(name) ==
    /\ Asked("layout")
    /\ fb' = [fb EXCEPT ![back_buffer] = FrameOf("grid")]
    /\ swap_buffers
    /\ \/ /\ name \in Programs
          /\ Start(name)
          /\ bank' = BothBanks("default")
          /\ set_stream_hold(TRUE)
       \/ /\ name = "missing"
          /\ PROGRAM_ACTIVE' = FALSE
          /\ set_stream_hold(FALSE)
          /\ UNCHANGED <<PROGRAM_FN, PROGRAM_FULL_LEFT, PROGRAM_PRIME_LEFT, bank>>
       \/ /\ name = "none"
          /\ UNCHANGED <<PROGRAM_ACTIVE, PROGRAM_FN, PROGRAM_FULL_LEFT, PROGRAM_PRIME_LEFT, bank, dma>>
    /\ shown' = name /\ clean' = FALSE
    /\ UNCHANGED <<PROGRAM_PALETTE_DIRTY, repaintVars, valueVars, auto_swap, done, tick>>

Request ==
    \/ \E k \in Keys, v \in Values : api_values_set(k, v)
    \/ \E name \in Programs \cup {"none"} : api_program_on(name)
    \/ api_program_off \/ api_display_pattern \/ api_dma_set
    \/ \E name \in Programs \cup {"none", "missing"} : apply_layout(name)

MainLoop == program_tick \/ bitmap_present_tick
PanelNext == MainLoop \/ StreamFrame \/ Request

PanelSpec == PanelInit /\ [][PanelNext]_panelVars
\* The main loop keeps turning.
FairPanelSpec == PanelSpec /\ WF_panelVars(MainLoop)

-----------------------------------------------------------------------------
(* What program mode promises.                                             *)

\* Half h shows the running program, drawn from the values as they are.
Current(h) ==
    /\ \A y \in Rows \ Scroll[PROGRAM_FN] : fb[h][y] = render(PROGRAM_FN)
    /\ \A y \in Scroll[PROGRAM_FN] : \A x \in 1 .. W : fb[h][y][x].src = PROGRAM_FN
    /\ \/ h # glass /\ Palette[PROGRAM_FN] = "animated"     \* written with the next frame
       \/ bank[h] = IF Palette[PROGRAM_FN] = "none" THEN "default" ELSE PROGRAM_FN

\* When nothing is owed any more -- no whole frame, no row of either half, no
\* value unseen -- both halves show the running program from the current values
\* and in its own colours, however value pushes fell between the rows of the
\* frames that got it there (program_tick's owed-frame and owed-row counters).
NothingOwedIsCurrent ==
    PROGRAM_ACTIVE /\ clean /\ tick.pc = "idle" /\ ~unseen /\ PROGRAM_FULL_LEFT = 0
      /\ (\A h \in Halves : REPAINT_LEFT[h] = 0)
    => \A h \in Halves : Current(h)

\* After the last request the glass comes to show the running program from the
\* last values, scroll bands included, or the program was not left alone.
Converges ==
    <>[](PROGRAM_ACTIVE /\ clean =>
           /\ Current(glass)
           /\ \A y \in Rows : fb[glass][y] = render(PROGRAM_FN))

\* "TWO, because the framebuffer is double-buffered: static content must reach
\* BOTH buffers before partial frames are safe" (PROGRAM_FULL_LEFT): once a
\* started program owes no whole frame, no row of either half is another's.
StartReachesBothHalves ==
    PROGRAM_ACTIVE /\ tick.pc = "idle" /\ PROGRAM_FULL_LEFT = 0
    => \A h \in Halves, y \in Rows : fb[h][y][1].src = PROGRAM_FN

\* A program with colours of its own comes to be shown in them, whether a request
\* or a configuration started it.
StartShowsItsColours ==
    <>[](PROGRAM_ACTIVE /\ shown = PROGRAM_FN /\ Palette[PROGRAM_FN] = "static"
           => bank[glass] = PROGRAM_FN)

\* "A TFTP config still wins when one arrives": a configuration that asks for
\* the stream leaves no program running (apply_layout).
ConfigWins == shown = "none" => ~PROGRAM_ACTIVE
=============================================================================
