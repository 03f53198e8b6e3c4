----------------------------- MODULE PanelProofs -----------------------------
(***************************************************************************)
(* Program mode (Panel), for any canvas, registry of programs, values and  *)
(* sequence of requests: when nothing is owed, both halves show the        *)
(* running program from the current values and in its own colours.         *)
(*                                                                         *)
(* The invariant follows a start from the moment it lands (clean): which   *)
(* half the two whole frames have reached, row by row; that no value is    *)
(* newer than a row that is not owed; and that the palette comes before    *)
(* the first whole frame is counted.                                       *)
(***************************************************************************)
EXTENDS Panel, TLAPS, WellFoundedInduction

-----------------------------------------------------------------------------
(* The inductive invariant.                                                *)

Drawing == tick.pc \in {"scroll", "paint", "repaint", "swap"}

\* The tick that runs belongs to the program that was started last, knows what
\* is owed, and draws into the half that is not displayed.
StartInv ==
    /\ PROGRAM_ACTIVE /\ PROGRAM_FN \in Programs
    /\ PROGRAM_FULL_LEFT = PROGRAM_PRIME_LEFT
    /\ Reading => tick.prog = PROGRAM_FN
    /\ tick.pc = "owe" => /\ tick.full = PROGRAM_FULL_LEFT /\ tick.prime = tick.full
                          /\ tick.full > 0 => tick.band = Rows
    /\ Drawing /\ PROGRAM_FULL_LEFT < 2 =>
          /\ tick.prog = PROGRAM_FN /\ tick.buf = 1 - active_buf
          /\ PROGRAM_FULL_LEFT = 1 => tick.full = 2
          /\ PROGRAM_FULL_LEFT = 0 => tick.full \in {0, 1}
          /\ tick.full > 0 => tick.band = Rows /\ ~tick.scrolling
          /\ tick.pc = "scroll" => tick.rows \subseteq Scroll[PROGRAM_FN] /\ (~tick.scrolling => tick.rows = {})
    /\ PROGRAM_FULL_LEFT = 0 \/ (PROGRAM_FULL_LEFT = 1 /\ ~Drawing) => glass = active_buf

\* Row y of half h is still to be reached by one of the two whole frames.
Unreached(h, y) ==
    \/ PROGRAM_FULL_LEFT = 2
    \/ PROGRAM_FULL_LEFT = 1 /\ ~Drawing /\ h # glass
    \/ PROGRAM_FULL_LEFT = 1 /\ Drawing /\ h # tick.buf
    \/ /\ Drawing /\ h = tick.buf /\ tick.full > 0
       /\ tick.pc = "scroll" \/ (tick.pc = "paint" /\ y \in tick.rows)

Owed(h, y) == REPAINT_LEFT[h] > 0 /\ y >= REPAINT_POS[h]

SourceInv ==
    \A h \in Halves, y \in Rows : Unreached(h, y) \/ \A x \in 1 .. W : fb[h][y][x].src = PROGRAM_FN

ValueInv ==
    ~unseen => \A h \in Halves : \A y \in Rows \ Scroll[PROGRAM_FN] :
                  Unreached(h, y) \/ Owed(h, y) \/ fb[h][y] = render(PROGRAM_FN)

\* The rows this frame has drawn itself are current.
BandInv ==
    ~unseen /\ PROGRAM_FULL_LEFT < 2 /\ tick.pc \in {"paint", "repaint", "swap"} =>
        \A y \in tick.band \ Scroll[PROGRAM_FN] :
            (tick.pc = "paint" /\ y \in tick.rows) \/ fb[tick.buf][y] = render(PROGRAM_FN)

PaletteInv ==
    /\ tick.pc = "clean" => Palette[PROGRAM_FN] = "static"
    /\ Palette[PROGRAM_FN] = "none" => bank = BothBanks("default")
    /\ Palette[PROGRAM_FN] = "static" =>
          /\ PROGRAM_PALETTE_DIRTY => PROGRAM_FULL_LEFT = 2 /\ tick.pc \notin {"count", "owe"}
          /\ ~PROGRAM_PALETTE_DIRTY \/ tick.pc = "clean" => bank = BothBanks(PROGRAM_FN)
    /\ Palette[PROGRAM_FN] = "animated" =>
          /\ tick.pc \in {"count", "owe"} \/ (Drawing /\ PROGRAM_FULL_LEFT < 2) => bank[1 - glass] = PROGRAM_FN
          /\ PROGRAM_FULL_LEFT = 0 /\ ~(Drawing /\ tick.full = 1) => bank[glass] = PROGRAM_FN

PanelInv == PanelTypeOK /\ (clean => StartInv /\ SourceInv /\ ValueInv /\ BandInv /\ PaletteInv)

-----------------------------------------------------------------------------
(* The constants, the rows and the framebuffer.                            *)

LEMMA Canvas ==
    /\ H \in Nat /\ H > 0 /\ W \in Nat /\ W > 0 /\ REPAINT_SLICE \in Nat /\ REPAINT_SLICE > 0
    /\ MaxRequests \in Nat /\ First \in Programs /\ Rows \subseteq Nat /\ Halves = {0, 1}
BY PanelAssumption DEF Rows, Halves

LEMMA Registry ==
    /\ \A p \in Programs : /\ Scroll[p] \subseteq Rows /\ Palette[p] \in {"none", "static", "animated"}
                            /\ Reads[p] \in Keys /\ p \notin {"grid", "pattern", "stream", "default", "none"}
    /\ \A p \in DOMAIN Dynamic : Dynamic[p] \subseteq Rows
<1>1. \A p \in Programs : Scroll[p] \subseteq Rows /\ Palette[p] \in {"none", "static", "animated"}
  BY PanelAssumption
<1>2. \A p \in Programs : Reads[p] \in Keys /\ p \notin {"grid", "pattern", "stream", "default", "none"}
  BY PanelAssumption, Zenon DEF Keys
<1>3. \A p \in DOMAIN Dynamic : Dynamic[p] \subseteq Rows
  BY PanelAssumption, Zenon
<1> QED BY <1>1, <1>2, <1>3, Zenon

\* A set of rows has a topmost one.
LEMMA Least ==
    ASSUME NEW T, T \subseteq Nat, T # {}
    PROVE  \E x \in T : \A y \in T : x <= y
<1>1. PICK R : R = OpToRel(<, Nat)
  BY Zenon
<1>2. IsWellFoundedOn(R, Nat)
  BY <1>1, NatLessThanWellFounded, Zenon
<1>3. PICK x \in T : \A y \in T : ~(<<y, x>> \in R)
  BY <1>2, WFMin, Zenon
<1>4. \A u, v \in Nat : v < u => <<v, u>> \in R
  <2> TAKE u \in Nat
  <2> TAKE v \in Nat
  <2> HAVE v < u
  <2>1. <<v, u>> \in Nat \X Nat /\ <<v, u>>[1] = v /\ <<v, u>>[2] = u
    OBVIOUS
  <2>2. <<v, u>>[1] < <<v, u>>[2]
    BY <2>1, Zenon
  <2> QED BY <1>1, <2>1, <2>2, Zenon DEF OpToRel
<1>5. \A y \in T : y \in Nat /\ ~(y < x)
  BY <1>3, <1>4, Zenon
<1>6. \A y \in T : x <= y
  BY <1>5
<1> QED BY <1>6

LEMMA FirstRowIn == ASSUME tick.rows \subseteq Rows, tick.rows # {} PROVE FirstRow \in tick.rows /\ FirstRow \in Rows
<1>1. \E x \in tick.rows : \A y \in tick.rows : x <= y
  BY Canvas, Least, Zenon
<1>2. FirstRow \in tick.rows
  BY <1>1, Zenon DEF FirstRow
<1> QED BY <1>2, Zenon

RowOf == [1 .. W -> Pixel]
Buffers == [Halves -> [Rows -> RowOf]]

LEMMA TickFields ==
    ASSUME tick \in Ticks
    PROVE  /\ tick.pc \in {"idle", "palette", "clean", "count", "owe", "scroll", "paint", "repaint", "swap"}
           /\ tick.prog \in Programs /\ tick.buf \in Halves /\ tick.rows \subseteq Rows /\ tick.band \subseteq Rows
           /\ tick.scrolling \in BOOLEAN /\ tick.budget \in 0 .. REPAINT_SLICE /\ tick.full \in 0 .. 2 /\ tick.prime \in 0 .. 2
BY DEF Ticks

\* A row drawn by a program, and a row shifted by one pixel.
LEMMA Rendered ==
    ASSUME VALUES \in [Keys -> Values \cup {"-"}], NEW p \in Programs
    PROVE  /\ render(p) \in RowOf /\ \A x \in 1 .. W : render(p)[x].src = p
           /\ \A row \in RowOf : Shifted(row, p) \in RowOf
           /\ \A row \in RowOf : (\A x \in 1 .. W : row[x].src = p) => \A x \in 1 .. W : Shifted(row, p)[x].src = p
<1>1. VALUES[Reads[p]] \in Values \cup {"-"} /\ p \in Sources
  BY Registry, Zenon DEF Sources
<1>2. PICK q : q = [src |-> p, val |-> VALUES[Reads[p]]]
  OBVIOUS
<1>3. q \in Pixel /\ q.src = p
  BY <1>1, <1>2 DEF Pixel
<1>4. render(p) = [x \in 1 .. W |-> q]
  BY <1>2, Zenon DEF render
<1>5. render(p) \in RowOf /\ \A x \in 1 .. W : render(p)[x] = q
  BY <1>3, <1>4, Zenon DEF RowOf
<1>6. ASSUME NEW row \in RowOf
      PROVE  /\ Shifted(row, p) \in RowOf
             /\ (\A x \in 1 .. W : row[x].src = p) => \A x \in 1 .. W : Shifted(row, p)[x].src = p
  <2>1. Shifted(row, p) = [x \in 1 .. W |-> IF x < W THEN row[x + 1] ELSE render(p)[x]]
    BY Zenon DEF Shifted
  <2>2. \A x \in 1 .. W : x < W => x + 1 \in 1 .. W
    BY Canvas
  <2>3. \A x \in 1 .. W : row[x] \in Pixel
    BY Zenon DEF RowOf
  <2>4. \A x \in 1 .. W : (IF x < W THEN row[x + 1] ELSE render(p)[x]) \in Pixel
    BY <1>3, <1>5, <2>2, <2>3, Zenon
  <2>5. Shifted(row, p) \in RowOf
    BY <2>1, <2>4, Zenon DEF RowOf
  <2>6. ASSUME \A x \in 1 .. W : row[x].src = p, NEW x \in 1 .. W PROVE Shifted(row, p)[x].src = p
    <3>1. Shifted(row, p)[x] = IF x < W THEN row[x + 1] ELSE render(p)[x]
      BY <2>1, Zenon
    <3> QED BY <1>3, <1>5, <2>2, <2>6, <3>1, Zenon
  <2> QED BY <2>5, <2>6, Zenon
<1> QED BY <1>3, <1>5, <1>6, Zenon

LEMMA PlainFrame == ASSUME NEW s \in Sources PROVE FrameOf(s) \in [Rows -> RowOf]
<1>1. [src |-> s, val |-> "-"] \in Pixel
  BY DEF Pixel
<1> QED BY <1>1, Zenon DEF FrameOf, Plain, RowOf

\* Drawing a row, or a whole half.
LEMMA Drawn ==
    ASSUME fb \in Buffers, tick.buf \in Halves, NEW y \in Rows, NEW row \in RowOf, Draw(y, row)
    PROVE  /\ fb' \in Buffers /\ fb'[tick.buf][y] = row
           /\ \A h \in Halves, z \in Rows : ~(h = tick.buf /\ z = y) => fb'[h][z] = fb[h][z]
<1>1. PICK b : b = tick.buf
  OBVIOUS
<1>2. b \in Halves
  BY <1>1, Zenon
<1>3. fb' = [fb EXCEPT ![b][y] = row]
  BY <1>1 DEF Draw
<1>4. /\ fb' \in Buffers /\ fb'[b][y] = row
      /\ \A h \in Halves, z \in Rows : ~(h = b /\ z = y) => fb'[h][z] = fb[h][z]
  BY <1>2, <1>3 DEF Buffers
<1> QED BY <1>1, <1>4, Zenon

LEMMA HalfDrawn ==
    ASSUME fb \in Buffers, NEW b \in Halves, NEW s \in Sources, fb' = [fb EXCEPT ![b] = FrameOf(s)]
    PROVE  fb' \in Buffers
BY PlainFrame DEF Buffers

LEMMA HalvesFlip ==
    /\ glass \in Halves => 1 - glass \in Halves /\ 1 - (1 - glass) = glass
    /\ active_buf \in Halves => 1 - active_buf \in Halves /\ 1 - (1 - active_buf) = active_buf
    /\ tick.buf \in Halves => 1 - tick.buf \in Halves
BY DEF Halves

-----------------------------------------------------------------------------
(* The tick's record, update by update.                                    *)

TickPCs == {"idle", "palette", "clean", "count", "owe", "scroll", "paint", "repaint", "swap"}

LEMMA IdleTick == Idle \in Ticks /\ Idle.pc = "idle"
BY Canvas DEF Idle, Ticks

LEMMA BegunTick ==
    ASSUME NEW p \in Programs, tick' = [Idle EXCEPT !.pc = "palette", !.prog = p]
    PROVE  tick' \in Ticks /\ tick'.pc = "palette" /\ tick'.prog = p
<1>1. PICK t : t = Idle
  OBVIOUS
<1>2. t \in Ticks /\ tick' = [t EXCEPT !.pc = "palette", !.prog = p]
  BY <1>1, IdleTick, Zenon
<1> QED BY <1>2 DEF Ticks

LEMMA PcTick ==
    ASSUME tick \in Ticks, NEW pc \in TickPCs, tick' = [tick EXCEPT !.pc = pc]
    PROVE  /\ tick' \in Ticks /\ tick'.pc = pc /\ tick'.prog = tick.prog /\ tick'.buf = tick.buf
           /\ tick'.rows = tick.rows /\ tick'.band = tick.band /\ tick'.scrolling = tick.scrolling
           /\ tick'.full = tick.full /\ tick'.prime = tick.prime
BY DEF Ticks, TickPCs

LEMMA CountedTick ==
    ASSUME tick \in Ticks, NEW f \in 0 .. 2, NEW g \in 0 .. 2, NEW b \in SUBSET Rows,
           tick' = [tick EXCEPT !.pc = "owe", !.full = f, !.prime = g, !.band = b]
    PROVE  /\ tick' \in Ticks /\ tick'.pc = "owe" /\ tick'.prog = tick.prog /\ tick'.band = b
           /\ tick'.full = f /\ tick'.prime = g
BY DEF Ticks

LEMMA OwingTick ==
    ASSUME tick \in Ticks, NEW s \in BOOLEAN, NEW b \in Halves, NEW r \in SUBSET Rows,
           tick' = [tick EXCEPT !.pc = "scroll", !.scrolling = s, !.buf = b, !.rows = r]
    PROVE  /\ tick' \in Ticks /\ tick'.pc = "scroll" /\ tick'.prog = tick.prog /\ tick'.buf = b
           /\ tick'.rows = r /\ tick'.band = tick.band /\ tick'.scrolling = s
           /\ tick'.full = tick.full /\ tick'.prime = tick.prime
BY DEF Ticks

LEMMA RowTick ==
    ASSUME tick \in Ticks, NEW y, tick' = [tick EXCEPT !.rows = @ \ {y}]
    PROVE  /\ tick' \in Ticks /\ tick'.pc = tick.pc /\ tick'.prog = tick.prog /\ tick'.buf = tick.buf
           /\ tick'.rows = tick.rows \ {y} /\ tick'.band = tick.band /\ tick'.scrolling = tick.scrolling
           /\ tick'.full = tick.full /\ tick'.prime = tick.prime
BY DEF Ticks

LEMMA PaintTick ==
    ASSUME tick \in Ticks, NEW b \in Halves, NEW r \in SUBSET Rows,
           tick' = [tick EXCEPT !.pc = "paint", !.buf = b, !.rows = r]
    PROVE  /\ tick' \in Ticks /\ tick'.pc = "paint" /\ tick'.prog = tick.prog /\ tick'.buf = b
           /\ tick'.rows = r /\ tick'.band = tick.band /\ tick'.scrolling = tick.scrolling
           /\ tick'.full = tick.full /\ tick'.prime = tick.prime
BY DEF Ticks

LEMMA RepaintTick ==
    ASSUME tick \in Ticks, NEW b \in Halves,
           NEW s \in 0 .. REPAINT_SLICE, tick' = [tick EXCEPT !.pc = "repaint", !.buf = b, !.budget = s]
    PROVE  /\ tick' \in Ticks /\ tick'.pc = "repaint" /\ tick'.prog = tick.prog /\ tick'.buf = b
           /\ tick'.rows = tick.rows /\ tick'.band = tick.band /\ tick'.scrolling = tick.scrolling
           /\ tick'.full = tick.full /\ tick'.prime = tick.prime
BY DEF Ticks

LEMMA PaidTick ==
    ASSUME tick \in Ticks, tick.budget > 0, tick' = [tick EXCEPT !.budget = @ - 1]
    PROVE  /\ tick' \in Ticks /\ tick'.pc = tick.pc /\ tick'.prog = tick.prog /\ tick'.buf = tick.buf
           /\ tick'.rows = tick.rows /\ tick'.band = tick.band /\ tick'.scrolling = tick.scrolling
           /\ tick'.full = tick.full /\ tick'.prime = tick.prime
BY Canvas DEF Ticks

-----------------------------------------------------------------------------
(* What each step of the tick does to the tick and to the buffers.         *)

LEMMA TypeFacts ==
    ASSUME PanelTypeOK
    PROVE  /\ tick \in Ticks /\ fb \in Buffers /\ VALUES \in [Keys -> Values \cup {"-"}] /\ unseen \in BOOLEAN
           /\ glass \in Halves /\ active_buf \in Halves /\ 1 - glass \in Halves /\ 1 - active_buf \in Halves
           /\ PROGRAM_FULL_LEFT \in 0 .. 2 /\ PROGRAM_PRIME_LEFT \in 0 .. 2
           /\ tick.pc \in TickPCs /\ tick.prog \in Programs /\ tick.buf \in Halves /\ 1 - tick.buf \in Halves
           /\ tick.rows \subseteq Rows /\ tick.band \subseteq Rows /\ tick.scrolling \in BOOLEAN
           /\ tick.budget \in 0 .. REPAINT_SLICE /\ tick.full \in 0 .. 2 /\ tick.prime \in 0 .. 2
<1>1. fb \in Buffers
  BY Zenon DEF PanelTypeOK, Buffers, RowOf
<1> QED BY <1>1, TickFields, HalvesFlip, Zenon DEF PanelTypeOK, TickPCs

LEMMA RowType ==
    ASSUME fb \in Buffers, NEW h \in Halves, NEW y \in Rows
    PROVE  fb[h][y] \in RowOf
BY Zenon DEF Buffers

LEMMA BeginsEffect ==
    ASSUME PanelTypeOK, TickBegins
    PROVE  tick' \in Ticks /\ tick'.pc = "palette"
           /\ tick'.prog = IF PROGRAM_FN = "none" THEN First ELSE PROGRAM_FN
<1>1. PICK p : p = IF PROGRAM_FN = "none" THEN First ELSE PROGRAM_FN
  OBVIOUS
<1>2. p \in Programs
  BY <1>1, Canvas, Zenon DEF PanelTypeOK
<1>3. tick' = [Idle EXCEPT !.pc = "palette", !.prog = p]
  BY <1>1, Zenon DEF TickBegins
<1> QED BY <1>1, <1>2, <1>3, BegunTick, Zenon

LEMMA PcEffect ==
    ASSUME PanelTypeOK, NEW pc \in TickPCs, Step(pc)
    PROVE  /\ tick' \in Ticks /\ tick'.pc = pc /\ tick'.prog = tick.prog /\ tick'.buf = tick.buf
           /\ tick'.rows = tick.rows /\ tick'.band = tick.band /\ tick'.scrolling = tick.scrolling
           /\ tick'.full = tick.full /\ tick'.prime = tick.prime
BY TypeFacts, PcTick, Zenon DEF Step

LEMMA CountEffect ==
    ASSUME PanelTypeOK, TickCount
    PROVE  /\ tick' \in Ticks
           /\ \/ PROGRAM_FULL_LEFT = 0 /\ ~Animated(REPAINT_LEFT') /\ tick' = Idle /\ tick'.pc = "idle"
              \/ /\ tick'.pc = "owe" /\ tick'.prog = tick.prog
                 /\ tick'.full = PROGRAM_FULL_LEFT /\ tick'.prime = PROGRAM_PRIME_LEFT
                 /\ PROGRAM_FULL_LEFT > 0 => tick'.band = Rows
<1>1. CASE PROGRAM_FULL_LEFT = 0 /\ ~Animated(REPAINT_LEFT') /\ tick' = Idle
  BY <1>1, IdleTick, Zenon
<1>2. CASE tick' = [tick EXCEPT !.pc = "owe", !.full = PROGRAM_FULL_LEFT, !.prime = PROGRAM_PRIME_LEFT,
                         !.band = IF PROGRAM_FN \in DOMAIN Dynamic /\ PROGRAM_FULL_LEFT = 0
                                  THEN Dynamic[PROGRAM_FN] ELSE Rows]
  <2>1. PICK b : b = IF PROGRAM_FN \in DOMAIN Dynamic /\ PROGRAM_FULL_LEFT = 0 THEN Dynamic[PROGRAM_FN] ELSE Rows
    OBVIOUS
  <2>2. b \in SUBSET Rows
    BY <2>1, Registry, Zenon
  <2>3. PROGRAM_FULL_LEFT > 0 => b = Rows
    BY <2>1, TypeFacts
  <2>4. tick' = [tick EXCEPT !.pc = "owe", !.full = PROGRAM_FULL_LEFT, !.prime = PROGRAM_PRIME_LEFT, !.band = b]
    BY <1>2, <2>1, Zenon
  <2> QED BY <2>2, <2>3, <2>4, TypeFacts, CountedTick, Zenon
<1> QED BY <1>1, <1>2, Zenon DEF TickCount

LEMMA OweEffect ==
    ASSUME PanelTypeOK, TickOwe
    PROVE  /\ tick' \in Ticks /\ tick'.pc = "scroll" /\ tick'.prog = tick.prog /\ tick'.buf = 1 - active_buf
           /\ tick'.band = tick.band /\ tick'.full = tick.full /\ tick'.prime = tick.prime
           /\ tick'.rows \subseteq Scroll[tick.prog] /\ (~tick'.scrolling => tick'.rows = {})
           /\ tick.prime # 0 => ~tick'.scrolling
<1>1. PICK s : s = (Scroll[tick.prog] # {} /\ tick.prime = 0)
  OBVIOUS
<1>2. PICK r : r = IF s THEN Scroll[tick.prog] ELSE {}
  OBVIOUS
<1>3. s \in BOOLEAN /\ (tick.prime # 0 => ~s)
  BY <1>1, Zenon
<1>4. r \in SUBSET Rows /\ r \subseteq Scroll[tick.prog] /\ (~s => r = {})
  BY <1>2, Registry, TypeFacts, Zenon
<1>5. PICK b : b = 1 - active_buf
  OBVIOUS
<1>6. tick' = [tick EXCEPT !.pc = "scroll", !.scrolling = s, !.buf = b, !.rows = r]
  BY <1>1, <1>2, <1>5, Zenon DEF TickOwe, back_buffer
<1>7. b \in Halves
  BY <1>5, TypeFacts, Zenon
<1>8. tick \in Ticks
  BY TypeFacts, Zenon
<1>9. /\ tick' \in Ticks /\ tick'.pc = "scroll" /\ tick'.prog = tick.prog /\ tick'.buf = b
      /\ tick'.rows = r /\ tick'.band = tick.band /\ tick'.scrolling = s
      /\ tick'.full = tick.full /\ tick'.prime = tick.prime
  BY <1>3, <1>4, <1>6, <1>7, <1>8, OwingTick, Zenon
<1> QED BY <1>3, <1>4, <1>5, <1>9, Zenon

\* A step that draws a row of the scroll band, of the band, and a step that
\* has drawn them all.
LEMMA ScrollEffect ==
    ASSUME PanelTypeOK, TickScroll
    PROVE  /\ tick' \in Ticks /\ fb' \in Buffers
           /\ tick'.prog = tick.prog /\ tick'.band = tick.band /\ tick'.scrolling = tick.scrolling
           /\ tick'.full = tick.full /\ tick'.prime = tick.prime
           /\ \/ /\ tick.rows # {} /\ FirstRow \in tick.rows /\ FirstRow \in Rows
                 /\ tick'.pc = "scroll" /\ tick'.buf = tick.buf /\ tick'.rows = tick.rows \ {FirstRow}
                 /\ fb'[tick.buf][FirstRow] = Shifted(fb[1 - tick.buf][FirstRow], tick.prog)
                 /\ \A h \in Halves, z \in Rows : ~(h = tick.buf /\ z = FirstRow) => fb'[h][z] = fb[h][z]
              \/ /\ tick'.pc = "paint" /\ tick'.buf = 1 - active_buf /\ fb' = fb
                 /\ tick'.rows = {y \in tick.band : ~in_scroll(y)}
<1>1. CASE /\ tick.rows # {}
           /\ Draw(FirstRow, Shifted(fb[1 - tick.buf][FirstRow], tick.prog))
           /\ tick' = [tick EXCEPT !.rows = @ \ {FirstRow}]
  <2>1. FirstRow \in tick.rows /\ FirstRow \in Rows
    BY <1>1, FirstRowIn, TypeFacts, Zenon
  <2>2. PICK row : row = Shifted(fb[1 - tick.buf][FirstRow], tick.prog)
    OBVIOUS
  <2>3. row \in RowOf
    BY <2>1, <2>2, RowType, TypeFacts, Rendered, Zenon
  <2>4. PICK y : y = FirstRow
    OBVIOUS
  <2>5. Draw(y, row) /\ tick' = [tick EXCEPT !.rows = @ \ {y}]
    BY <1>1, <2>2, <2>4, Zenon
  <2>6. /\ fb' \in Buffers /\ fb'[tick.buf][y] = row
        /\ \A h \in Halves, z \in Rows : ~(h = tick.buf /\ z = y) => fb'[h][z] = fb[h][z]
    <3>1. fb \in Buffers /\ tick.buf \in Halves /\ y \in Rows
      BY <2>1, <2>4, TypeFacts, Zenon
    <3> QED BY <2>3, <2>5, <3>1, Drawn, Zenon
  <2>7. /\ tick' \in Ticks /\ tick'.pc = tick.pc /\ tick'.prog = tick.prog /\ tick'.buf = tick.buf
        /\ tick'.rows = tick.rows \ {y} /\ tick'.band = tick.band /\ tick'.scrolling = tick.scrolling
        /\ tick'.full = tick.full /\ tick'.prime = tick.prime
    BY <2>5, TypeFacts, RowTick, Zenon
  <2>8. tick.pc = "scroll"
    BY Zenon DEF TickScroll
  <2> QED BY <1>1, <2>1, <2>2, <2>4, <2>6, <2>7, <2>8, Zenon
<1>2. CASE /\ tick' = [tick EXCEPT !.pc = "paint", !.buf = back_buffer,
                                  !.rows = {y \in tick.band : ~in_scroll(y)}]
           /\ fb' = fb
  <2>1. PICK r : r = {y \in tick.band : ~in_scroll(y)}
    OBVIOUS
  <2>2. r \in SUBSET Rows
    BY <2>1, TypeFacts, Zenon
  <2>3. PICK b : b = 1 - active_buf
    OBVIOUS
  <2>4. tick' = [tick EXCEPT !.pc = "paint", !.buf = b, !.rows = r]
    BY <1>2, <2>1, <2>3, Zenon DEF back_buffer
  <2>5. b \in Halves
    BY <2>3, TypeFacts, Zenon
  <2>6. tick \in Ticks /\ fb' \in Buffers
    BY <1>2, TypeFacts, Zenon
  <2>7. /\ tick' \in Ticks /\ tick'.pc = "paint" /\ tick'.prog = tick.prog /\ tick'.buf = b
        /\ tick'.rows = r /\ tick'.band = tick.band /\ tick'.scrolling = tick.scrolling
        /\ tick'.full = tick.full /\ tick'.prime = tick.prime
    BY <2>2, <2>4, <2>5, <2>6, PaintTick, Zenon
  <2> QED BY <1>2, <2>1, <2>3, <2>6, <2>7, Zenon
<1> QED BY <1>1, <1>2, Zenon DEF TickScroll

LEMMA PaintEffect ==
    ASSUME PanelTypeOK, TickPaint
    PROVE  /\ tick' \in Ticks /\ fb' \in Buffers
           /\ tick'.prog = tick.prog /\ tick'.band = tick.band /\ tick'.scrolling = tick.scrolling
           /\ tick'.full = tick.full /\ tick'.prime = tick.prime
           /\ \/ /\ tick.rows # {} /\ FirstRow \in tick.rows /\ FirstRow \in Rows
                 /\ tick'.pc = "paint" /\ tick'.buf = tick.buf /\ tick'.rows = tick.rows \ {FirstRow}
                 /\ fb'[tick.buf][FirstRow] = render(tick.prog)
                 /\ \A h \in Halves, z \in Rows : ~(h = tick.buf /\ z = FirstRow) => fb'[h][z] = fb[h][z]
              \/ /\ tick'.pc = "repaint" /\ tick'.buf = 1 - active_buf /\ fb' = fb /\ tick.rows = {}
<1>1. CASE /\ tick.rows # {}
           /\ Draw(FirstRow, render(tick.prog))
           /\ tick' = [tick EXCEPT !.rows = @ \ {FirstRow}]
  <2>1. FirstRow \in tick.rows /\ FirstRow \in Rows
    BY <1>1, FirstRowIn, TypeFacts, Zenon
  <2>2. PICK row : row = render(tick.prog)
    OBVIOUS
  <2>3. row \in RowOf
    BY <2>1, <2>2, TypeFacts, Rendered, Zenon
  <2>4. PICK y : y = FirstRow
    OBVIOUS
  <2>5. Draw(y, row) /\ tick' = [tick EXCEPT !.rows = @ \ {y}]
    BY <1>1, <2>2, <2>4, Zenon
  <2>6. /\ fb' \in Buffers /\ fb'[tick.buf][y] = row
        /\ \A h \in Halves, z \in Rows : ~(h = tick.buf /\ z = y) => fb'[h][z] = fb[h][z]
    <3>1. fb \in Buffers /\ tick.buf \in Halves /\ y \in Rows
      BY <2>1, <2>4, TypeFacts, Zenon
    <3> QED BY <2>3, <2>5, <3>1, Drawn, Zenon
  <2>7. /\ tick' \in Ticks /\ tick'.pc = tick.pc /\ tick'.prog = tick.prog /\ tick'.buf = tick.buf
        /\ tick'.rows = tick.rows \ {y} /\ tick'.band = tick.band /\ tick'.scrolling = tick.scrolling
        /\ tick'.full = tick.full /\ tick'.prime = tick.prime
    BY <2>5, TypeFacts, RowTick, Zenon
  <2>8. tick.pc = "paint"
    BY Zenon DEF TickPaint
  <2> QED BY <1>1, <2>1, <2>2, <2>4, <2>6, <2>7, <2>8, Zenon
<1>2. CASE /\ tick.rows = {}
           /\ tick' = [tick EXCEPT !.pc = "repaint", !.buf = back_buffer, !.budget = REPAINT_SLICE]
           /\ fb' = fb
  <2>1. PICK b : b = 1 - active_buf
    OBVIOUS
  <2>2. PICK s : s = REPAINT_SLICE
    OBVIOUS
  <2>3. s \in 0 .. REPAINT_SLICE
    BY <2>2, Canvas
  <2>4. tick' = [tick EXCEPT !.pc = "repaint", !.buf = b, !.budget = s]
    BY <1>2, <2>1, <2>2, Zenon DEF back_buffer
  <2>5. b \in Halves
    BY <2>1, TypeFacts, Zenon
  <2> QED BY <1>2, <2>1, <2>3, <2>4, <2>5, TypeFacts, RepaintTick, Zenon
<1> QED BY <1>1, <1>2, Zenon DEF TickPaint

RepaintOK ==
    /\ REPAINT_POS \in [Halves -> 0 .. H] /\ REPAINT_LEFT \in [Halves -> 0 .. H]
    /\ \A h \in Halves : REPAINT_LEFT[h] > 0 => REPAINT_POS[h] + REPAINT_LEFT[h] = H

LEMMA RowPaid ==
    ASSUME RepaintOK, NEW b \in Halves, REPAINT_LEFT[b] > 0,
           REPAINT_POS' = [REPAINT_POS EXCEPT ![b] = @ + 1], REPAINT_LEFT' = [REPAINT_LEFT EXCEPT ![b] = @ - 1]
    PROVE  /\ RepaintOK' /\ REPAINT_POS[b] \in Rows
           /\ REPAINT_POS'[b] = REPAINT_POS[b] + 1 /\ REPAINT_LEFT'[b] = REPAINT_LEFT[b] - 1
           /\ \A h \in Halves \ {b} : REPAINT_POS'[h] = REPAINT_POS[h] /\ REPAINT_LEFT'[h] = REPAINT_LEFT[h]
<1>1. REPAINT_POS[b] \in 0 .. H /\ REPAINT_LEFT[b] \in 0 .. H /\ REPAINT_POS[b] + REPAINT_LEFT[b] = H
  BY Zenon DEF RepaintOK
<1>2. REPAINT_POS[b] + 1 \in 0 .. H /\ REPAINT_LEFT[b] - 1 \in 0 .. H /\ REPAINT_POS[b] \in Rows
      /\ (REPAINT_POS[b] + 1) + (REPAINT_LEFT[b] - 1) = H
  BY <1>1, Canvas DEF Rows
<1>3. REPAINT_POS'[b] = REPAINT_POS[b] + 1 /\ REPAINT_LEFT'[b] = REPAINT_LEFT[b] - 1
  BY Zenon DEF RepaintOK
<1>4. \A h \in Halves \ {b} : REPAINT_POS'[h] = REPAINT_POS[h] /\ REPAINT_LEFT'[h] = REPAINT_LEFT[h]
  BY Zenon DEF RepaintOK
<1>5. REPAINT_POS' \in [Halves -> 0 .. H] /\ REPAINT_LEFT' \in [Halves -> 0 .. H]
  BY <1>2 DEF RepaintOK
<1>6. \A h \in Halves : REPAINT_LEFT'[h] > 0 => REPAINT_POS'[h] + REPAINT_LEFT'[h] = H
  <2>1. \A h \in Halves \ {b} : REPAINT_LEFT'[h] > 0 => REPAINT_POS'[h] + REPAINT_LEFT'[h] = H
    BY <1>4, Zenon DEF RepaintOK
  <2>2. REPAINT_POS'[b] + REPAINT_LEFT'[b] = H
    BY <1>2, <1>3, Zenon
  <2> QED BY <2>1, <2>2, Zenon
<1> QED BY <1>2, <1>3, <1>4, <1>5, <1>6, Zenon DEF RepaintOK

LEMMA BothOwed == ASSUME RepaintBothHalves PROVE RepaintOK' /\ \A h \in Halves : REPAINT_POS'[h] = 0 /\ REPAINT_LEFT'[h] = H
BY Canvas DEF RepaintBothHalves, RepaintOK

LEMMA RepaintEffect ==
    ASSUME PanelTypeOK, TickRepaint
    PROVE  /\ tick' \in Ticks /\ fb' \in Buffers /\ RepaintOK' /\ tick'.buf = tick.buf /\ tick'.rows = tick.rows
           /\ tick'.prog = tick.prog /\ tick'.band = tick.band /\ tick'.scrolling = tick.scrolling
           /\ tick'.full = tick.full /\ tick'.prime = tick.prime
           /\ \/ /\ tick'.pc = "repaint" /\ REPAINT_LEFT[1 - glass] > 0 /\ REPAINT_POS[1 - glass] \in Rows
                 /\ REPAINT_POS'[1 - glass] = REPAINT_POS[1 - glass] + 1
                 /\ REPAINT_LEFT'[1 - glass] = REPAINT_LEFT[1 - glass] - 1
                 /\ \A h \in Halves \ {1 - glass} : REPAINT_POS'[h] = REPAINT_POS[h] /\ REPAINT_LEFT'[h] = REPAINT_LEFT[h]
                 /\ \/ /\ fb' = fb
                       /\ in_scroll(REPAINT_POS[1 - glass]) \/ REPAINT_POS[1 - glass] \in tick.band
                    \/ /\ fb'[tick.buf][REPAINT_POS[1 - glass]] = render(tick.prog)
                       /\ \A h \in Halves, z \in Rows :
                             ~(h = tick.buf /\ z = REPAINT_POS[1 - glass]) => fb'[h][z] = fb[h][z]
              \/ tick'.pc = "swap" /\ fb' = fb /\ REPAINT_POS' = REPAINT_POS /\ REPAINT_LEFT' = REPAINT_LEFT
<1>1. PICK b : b = 1 - glass
  OBVIOUS
<1>2. b \in Halves /\ RepaintOK /\ tick \in Ticks /\ fb \in Buffers /\ tick.buf \in Halves
  BY <1>1, TypeFacts, Zenon DEF PanelTypeOK, RepaintOK
<1>3. tick.pc = "repaint"
  BY Zenon DEF TickRepaint
<1>4. PICK y : y = REPAINT_POS[b]
  OBVIOUS
<1>5. CASE /\ tick.budget > 0 /\ REPAINT_LEFT[b] > 0
           /\ REPAINT_POS' = [REPAINT_POS EXCEPT ![b] = @ + 1]
           /\ REPAINT_LEFT' = [REPAINT_LEFT EXCEPT ![b] = @ - 1]
           /\ \/ (in_scroll(y) \/ y \in tick.band) /\ fb' = fb /\ tick' = tick
              \/ Draw(y, render(tick.prog)) /\ tick' = [tick EXCEPT !.budget = @ - 1]
  <2>1. /\ RepaintOK' /\ REPAINT_POS[b] \in Rows
        /\ REPAINT_POS'[b] = REPAINT_POS[b] + 1 /\ REPAINT_LEFT'[b] = REPAINT_LEFT[b] - 1
        /\ \A h \in Halves \ {b} : REPAINT_POS'[h] = REPAINT_POS[h] /\ REPAINT_LEFT'[h] = REPAINT_LEFT[h]
    BY <1>2, <1>5, RowPaid, Zenon
  <2>2. CASE (in_scroll(y) \/ y \in tick.band) /\ fb' = fb /\ tick' = tick
    BY <1>1, <1>2, <1>3, <1>4, <1>5, <2>1, <2>2, Zenon
  <2>3. CASE Draw(y, render(tick.prog)) /\ tick' = [tick EXCEPT !.budget = @ - 1]
    <3>1. /\ tick' \in Ticks /\ tick'.pc = tick.pc /\ tick'.prog = tick.prog /\ tick'.buf = tick.buf
          /\ tick'.rows = tick.rows /\ tick'.band = tick.band /\ tick'.scrolling = tick.scrolling
          /\ tick'.full = tick.full /\ tick'.prime = tick.prime
      BY <1>2, <1>5, <2>3, PaidTick, Zenon
    <3>2. PICK row : row = render(tick.prog)
      OBVIOUS
    <3>3. row \in RowOf /\ y \in Rows
      BY <1>4, <2>1, <3>2, TypeFacts, Rendered, Zenon
    <3>4. Draw(y, row)
      BY <2>3, <3>2, Zenon
    <3>5. /\ fb' \in Buffers /\ fb'[tick.buf][y] = row
          /\ \A h \in Halves, z \in Rows : ~(h = tick.buf /\ z = y) => fb'[h][z] = fb[h][z]
      BY <1>2, <3>3, <3>4, Drawn, Zenon
    <3> QED BY <1>1, <1>3, <1>4, <1>5, <2>1, <3>1, <3>2, <3>5, Zenon
  <2> QED BY <1>5, <2>2, <2>3, Zenon
<1>6. CASE Step("swap") /\ fb' = fb /\ REPAINT_POS' = REPAINT_POS /\ REPAINT_LEFT' = REPAINT_LEFT
  <2>1. "swap" \in TickPCs
    BY Zenon DEF TickPCs
  <2>2. /\ tick' \in Ticks /\ tick'.pc = "swap" /\ tick'.prog = tick.prog /\ tick'.buf = tick.buf
        /\ tick'.rows = tick.rows /\ tick'.band = tick.band /\ tick'.scrolling = tick.scrolling
        /\ tick'.full = tick.full /\ tick'.prime = tick.prime
    BY <1>6, <2>1, PcEffect, Zenon
  <2>3. RepaintOK'
    BY <1>2, <1>6, Zenon DEF RepaintOK
  <2> QED BY <1>2, <1>6, <2>2, <2>3, Zenon
<1> QED BY <1>1, <1>4, <1>5, <1>6, Zenon DEF TickRepaint, back_index, repaintVars

-----------------------------------------------------------------------------
(* Type correctness.                                                       *)

LEMMA Banks ==
    ASSUME bank \in [Halves -> Programs \cup {"default", "stream"}], glass \in Halves,
           NEW p \in Programs \cup {"default", "stream"}
    PROVE  /\ BothBanks(p) \in [Halves -> Programs \cup {"default", "stream"}] /\ \A h \in Halves : BothBanks(p)[h] = p
           /\ set_palette(p) \in [Halves -> Programs \cup {"default", "stream"}]
           /\ set_palette(p)[1 - glass] = p /\ set_palette(p)[glass] = bank[glass]
BY DEF BothBanks, set_palette, back_index, Halves

LEMMA SetTyped ==
    ASSUME VALUES \in [Keys -> Values \cup {"-"}], NEW k \in Keys, NEW v \in Values
    PROVE  set(k, v) \in [Keys -> Values \cup {"-"}]
BY DEF set

\* The state, but for the tick, the buffers and what is owed.
OthersOK ==
    /\ PROGRAM_ACTIVE \in BOOLEAN /\ PROGRAM_FN \in Programs \cup {"none"}
    /\ PROGRAM_FULL_LEFT \in 0 .. 2 /\ PROGRAM_PRIME_LEFT \in 0 .. 2
    /\ PROGRAM_PALETTE_DIRTY \in BOOLEAN
    /\ VALUES \in [Keys -> Values \cup {"-"}] /\ unseen \in BOOLEAN
    /\ glass \in Halves /\ active_buf \in Halves
    /\ bank \in [Halves -> Programs \cup {"default", "stream"}]
    /\ auto_swap \in BOOLEAN /\ dma \in BOOLEAN /\ done \in BOOLEAN
    /\ requests \in 0 .. MaxRequests
    /\ shown \in Programs \cup {"pattern", "stream", "none", "missing"} /\ clean \in BOOLEAN

LEMMA TypeParts == PanelTypeOK <=> tick \in Ticks /\ fb \in Buffers /\ RepaintOK /\ OthersOK
BY Zenon DEF PanelTypeOK, Buffers, RowOf, RepaintOK, OthersOK

LEMMA TypeJoin == ASSUME tick' \in Ticks, fb' \in Buffers, RepaintOK', OthersOK' PROVE PanelTypeOK'
BY Zenon DEF PanelTypeOK, Buffers, RowOf, RepaintOK, OthersOK

\* The steps of the tick leave most of it alone.
LEMMA OthersKept ==
    ASSUME OthersOK, UNCHANGED <<PROGRAM_ACTIVE, PROGRAM_FN, PROGRAM_PALETTE_DIRTY, VALUES, unseen>>,
           UNCHANGED <<auto_swap, dma, done, requests, shown, clean>>,
           PROGRAM_FULL_LEFT' \in 0 .. 2, PROGRAM_PRIME_LEFT' \in 0 .. 2, glass' \in Halves, active_buf' \in Halves,
           bank' \in [Halves -> Programs \cup {"default", "stream"}]
    PROVE  OthersOK'
<1>1. /\ PROGRAM_ACTIVE' \in BOOLEAN /\ PROGRAM_FN' \in Programs \cup {"none"} /\ PROGRAM_PALETTE_DIRTY' \in BOOLEAN
      /\ VALUES' \in [Keys -> Values \cup {"-"}] /\ unseen' \in BOOLEAN
  BY Zenon DEF OthersOK
<1>2. /\ auto_swap' \in BOOLEAN /\ dma' \in BOOLEAN /\ done' \in BOOLEAN /\ requests' \in 0 .. MaxRequests
      /\ shown' \in Programs \cup {"pattern", "stream", "none", "missing"} /\ clean' \in BOOLEAN
  BY Zenon DEF OthersOK
<1> QED BY <1>1, <1>2, Zenon DEF OthersOK

LEMMA TickTypes ==
    ASSUME PanelTypeOK, program_tick
    PROVE  PanelTypeOK'
<1> USE DEF progVars, repaintVars, valueVars, hub75Vars, historyVars
<1>0. tick \in Ticks /\ fb \in Buffers /\ RepaintOK /\ OthersOK
  BY TypeParts, Zenon
<1>1. CASE TickBegins
  <2>1. tick' \in Ticks
    BY <1>1, BeginsEffect, Zenon
  <2>2. fb' \in Buffers /\ RepaintOK' /\ OthersOK'
    BY <1>0, <1>1, Zenon DEF TickBegins, RepaintOK, OthersOK
  <2> QED BY <2>1, <2>2, TypeJoin, Zenon
<1>2. CASE TickPalette
  <2>1. tick' \in Ticks
    <3>1. "count" \in TickPCs /\ "clean" \in TickPCs
      BY Zenon DEF TickPCs
    <3>2. Step("count") \/ Step("clean")
      BY <1>2, Zenon DEF TickPalette
    <3> QED BY <3>1, <3>2, PcEffect, Zenon
  <2>2. bank' \in [Halves -> Programs \cup {"default", "stream"}]
    <3>1. bank' = set_palette(tick.prog) \/ bank' = BothBanks(tick.prog) \/ bank' = bank
      BY <1>2, Zenon DEF TickPalette
    <3>2. tick.prog \in Programs \cup {"default", "stream"} /\ glass \in Halves
      BY TypeFacts, Zenon
    <3>3. bank \in [Halves -> Programs \cup {"default", "stream"}]
      BY <1>0, Zenon DEF OthersOK
    <3>4. PICK p : p = tick.prog
      OBVIOUS
    <3>5. /\ set_palette(p) \in [Halves -> Programs \cup {"default", "stream"}]
          /\ BothBanks(p) \in [Halves -> Programs \cup {"default", "stream"}]
      BY <3>2, <3>3, <3>4, Banks, Zenon
    <3> QED BY <3>1, <3>3, <3>4, <3>5, Zenon
  <2>3. fb' \in Buffers /\ RepaintOK' /\ OthersOK'
    <3>1. UNCHANGED <<progVars, repaintVars, valueVars, fb, glass, active_buf, auto_swap, dma, done, historyVars>>
      BY <1>2, Zenon DEF TickPalette
    <3>2. RepaintOK'
      BY <1>0, <3>1, Zenon DEF RepaintOK
    <3>3. /\ UNCHANGED <<PROGRAM_ACTIVE, PROGRAM_FN, PROGRAM_PALETTE_DIRTY, VALUES, unseen>>
          /\ UNCHANGED <<auto_swap, dma, done, requests, shown, clean>>
      BY <3>1, Zenon
    <3>4. /\ PROGRAM_FULL_LEFT' \in 0 .. 2 /\ PROGRAM_PRIME_LEFT' \in 0 .. 2 /\ glass' \in Halves /\ active_buf' \in Halves
          /\ bank' \in [Halves -> Programs \cup {"default", "stream"}]
      BY <1>0, <2>2, <3>1, Zenon DEF OthersOK
    <3>5. OthersOK'
      BY <1>0, <3>3, <3>4, OthersKept, Zenon
    <3> QED BY <1>0, <3>1, <3>2, <3>5, Zenon
  <2> QED BY <2>1, <2>3, TypeJoin, Zenon
<1>3. CASE TickClean
  <2>1. tick' \in Ticks
    <3>1. "count" \in TickPCs
      BY Zenon DEF TickPCs
    <3>2. \E pc \in TickPCs : Step(pc)
      BY <1>3, <3>1, Zenon DEF TickClean
    <3> QED BY <3>2, PcEffect, Zenon
  <2>2. fb' \in Buffers /\ RepaintOK' /\ OthersOK'
    BY <1>0, <1>3, Zenon DEF TickClean, RepaintOK, OthersOK
  <2> QED BY <2>1, <2>2, TypeJoin, Zenon
<1>4. CASE TickCount
  <2>1. tick' \in Ticks
    BY <1>4, CountEffect, Zenon
  <2>2. RepaintOK'
    <3>1. RepaintBothHalves \/ (REPAINT_POS' = REPAINT_POS /\ REPAINT_LEFT' = REPAINT_LEFT)
      BY <1>4, Zenon DEF TickCount
    <3> QED BY <1>0, <3>1, BothOwed, Zenon DEF RepaintOK
  <2>3. fb' \in Buffers /\ OthersOK'
    BY <1>0, <1>4, Zenon DEF TickCount, OthersOK
  <2> QED BY <2>1, <2>2, <2>3, TypeJoin, Zenon
<1>5. CASE TickOwe
  <2>1. tick' \in Ticks
    BY <1>5, OweEffect, Zenon
  <2>2. PROGRAM_FULL_LEFT' \in 0 .. 2 /\ PROGRAM_PRIME_LEFT' \in 0 .. 2
    <3>1. /\ PROGRAM_FULL_LEFT' = IF tick.full > 0 THEN tick.full - 1 ELSE PROGRAM_FULL_LEFT
          /\ PROGRAM_PRIME_LEFT' = IF tick.prime > 0 THEN tick.prime - 1 ELSE PROGRAM_PRIME_LEFT
      BY <1>5, Zenon DEF TickOwe
    <3> QED BY <3>1, TypeFacts
  <2>3. fb' \in Buffers /\ RepaintOK' /\ OthersOK'
    <3>1. UNCHANGED <<PROGRAM_ACTIVE, PROGRAM_FN, PROGRAM_PALETTE_DIRTY, repaintVars, valueVars, hub75Vars, historyVars>>
      BY <1>5, Zenon DEF TickOwe
    <3>2. RepaintOK'
      BY <1>0, <3>1, Zenon DEF RepaintOK
    <3>3. /\ UNCHANGED <<PROGRAM_ACTIVE, PROGRAM_FN, PROGRAM_PALETTE_DIRTY, VALUES, unseen>>
          /\ UNCHANGED <<auto_swap, dma, done, requests, shown, clean>>
      BY <3>1, Zenon
    <3>4. /\ PROGRAM_FULL_LEFT' \in 0 .. 2 /\ PROGRAM_PRIME_LEFT' \in 0 .. 2 /\ glass' \in Halves /\ active_buf' \in Halves
          /\ bank' \in [Halves -> Programs \cup {"default", "stream"}]
      BY <1>0, <2>2, <3>1, Zenon DEF OthersOK
    <3>5. OthersOK'
      BY <1>0, <3>3, <3>4, OthersKept, Zenon
    <3> QED BY <1>0, <3>1, <3>2, <3>5, Zenon
  <2> QED BY <2>1, <2>3, TypeJoin, Zenon
<1>6. CASE TickScroll
  <2>1. tick' \in Ticks /\ fb' \in Buffers
    BY <1>6, ScrollEffect, Zenon
  <2>2. RepaintOK' /\ OthersOK'
    <3>1. UNCHANGED <<progVars, repaintVars, valueVars, glass, active_buf, bank, auto_swap, dma, done, historyVars>>
      BY <1>6, Zenon DEF TickScroll
    <3>2. RepaintOK'
      BY <1>0, <3>1, Zenon DEF RepaintOK
    <3>3. /\ UNCHANGED <<PROGRAM_ACTIVE, PROGRAM_FN, PROGRAM_PALETTE_DIRTY, VALUES, unseen>>
          /\ UNCHANGED <<auto_swap, dma, done, requests, shown, clean>>
      BY <3>1, Zenon
    <3>4. /\ PROGRAM_FULL_LEFT' \in 0 .. 2 /\ PROGRAM_PRIME_LEFT' \in 0 .. 2 /\ glass' \in Halves /\ active_buf' \in Halves
          /\ bank' \in [Halves -> Programs \cup {"default", "stream"}]
      BY <1>0, <3>1, Zenon DEF OthersOK
    <3>5. OthersOK'
      BY <1>0, <3>3, <3>4, OthersKept, Zenon
    <3> QED BY <1>0, <3>1, <3>2, <3>5, Zenon
  <2> QED BY <2>1, <2>2, TypeJoin, Zenon
<1>7. CASE TickPaint
  <2>1. tick' \in Ticks /\ fb' \in Buffers
    BY <1>7, PaintEffect, Zenon
  <2>2. RepaintOK' /\ OthersOK'
    <3>1. UNCHANGED <<progVars, repaintVars, valueVars, glass, active_buf, bank, auto_swap, dma, done, historyVars>>
      BY <1>7, Zenon DEF TickPaint
    <3>2. RepaintOK'
      BY <1>0, <3>1, Zenon DEF RepaintOK
    <3>3. /\ UNCHANGED <<PROGRAM_ACTIVE, PROGRAM_FN, PROGRAM_PALETTE_DIRTY, VALUES, unseen>>
          /\ UNCHANGED <<auto_swap, dma, done, requests, shown, clean>>
      BY <3>1, Zenon
    <3>4. /\ PROGRAM_FULL_LEFT' \in 0 .. 2 /\ PROGRAM_PRIME_LEFT' \in 0 .. 2 /\ glass' \in Halves /\ active_buf' \in Halves
          /\ bank' \in [Halves -> Programs \cup {"default", "stream"}]
      BY <1>0, <3>1, Zenon DEF OthersOK
    <3>5. OthersOK'
      BY <1>0, <3>3, <3>4, OthersKept, Zenon
    <3> QED BY <1>0, <3>1, <3>2, <3>5, Zenon
  <2> QED BY <2>1, <2>2, TypeJoin, Zenon
<1>8. CASE TickRepaint
  <2>1. tick' \in Ticks /\ fb' \in Buffers /\ RepaintOK'
    BY <1>8, RepaintEffect, Zenon
  <2>2. OthersOK'
    <3>1. UNCHANGED <<progVars, valueVars, glass, active_buf, bank, auto_swap, dma, done, historyVars>>
      BY <1>8, Zenon DEF TickRepaint
    <3>2. /\ UNCHANGED <<PROGRAM_ACTIVE, PROGRAM_FN, PROGRAM_PALETTE_DIRTY, VALUES, unseen>>
          /\ UNCHANGED <<auto_swap, dma, done, requests, shown, clean>>
      BY <3>1, Zenon
    <3>3. /\ PROGRAM_FULL_LEFT' \in 0 .. 2 /\ PROGRAM_PRIME_LEFT' \in 0 .. 2 /\ glass' \in Halves /\ active_buf' \in Halves
          /\ bank' \in [Halves -> Programs \cup {"default", "stream"}]
      BY <1>0, <3>1, Zenon DEF OthersOK
    <3> QED BY <1>0, <3>2, <3>3, OthersKept, Zenon
  <2> QED BY <2>1, <2>2, TypeJoin, Zenon
<1>9. CASE TickSwap
  <2>1. tick' \in Ticks
    BY <1>9, IdleTick, Zenon DEF TickSwap
  <2>2. glass' \in Halves /\ active_buf' \in Halves
    BY <1>0, <1>9, TypeFacts, Zenon DEF TickSwap, swap_buffers
  <2>3. fb' \in Buffers /\ RepaintOK' /\ OthersOK'
    <3>1. UNCHANGED <<progVars, repaintVars, valueVars, fb, bank, auto_swap, dma, done, historyVars>>
      BY <1>9, Zenon DEF TickSwap
    <3>2. RepaintOK'
      BY <1>0, <3>1, Zenon DEF RepaintOK
    <3>3. /\ UNCHANGED <<PROGRAM_ACTIVE, PROGRAM_FN, PROGRAM_PALETTE_DIRTY, VALUES, unseen>>
          /\ UNCHANGED <<auto_swap, dma, done, requests, shown, clean>>
      BY <3>1, Zenon
    <3>4. /\ PROGRAM_FULL_LEFT' \in 0 .. 2 /\ PROGRAM_PRIME_LEFT' \in 0 .. 2 /\ glass' \in Halves /\ active_buf' \in Halves
          /\ bank' \in [Halves -> Programs \cup {"default", "stream"}]
      BY <1>0, <2>2, <3>1, Zenon DEF OthersOK
    <3>5. OthersOK'
      BY <1>0, <3>3, <3>4, OthersKept, Zenon
    <3> QED BY <1>0, <3>1, <3>2, <3>5, Zenon
  <2> QED BY <2>1, <2>3, TypeJoin, Zenon
<1> QED BY <1>1, <1>2, <1>3, <1>4, <1>5, <1>6, <1>7, <1>8, <1>9, Zenon DEF program_tick

LEMMA OtherTypes ==
    ASSUME PanelTypeOK, bitmap_present_tick \/ StreamFrame \/ Request
    PROVE  PanelTypeOK'
<1> USE DEF progVars, repaintVars, valueVars, hub75Vars, historyVars
<1>0. tick \in Ticks /\ fb \in Buffers /\ RepaintOK /\ OthersOK
  BY TypeParts, Zenon
<1>1. 2 \in 0 .. 2 /\ \A r \in 0 .. MaxRequests : r < MaxRequests => r + 1 \in 0 .. MaxRequests
  BY Canvas
<1>2. \A kind : Asked(kind) => requests' \in 0 .. MaxRequests
  BY <1>0, <1>1, Zenon DEF Asked, OthersOK
<1>3. 1 - glass \in Halves /\ 1 - active_buf \in Halves
  BY TypeFacts, Zenon
<1>4. /\ {"default", "stream"} \subseteq Programs \cup {"default", "stream"}
      /\ \A p \in Programs \cup {"default", "stream"} :
            BothBanks(p) \in [Halves -> Programs \cup {"default", "stream"}]
  BY <1>0, Banks, Zenon DEF OthersOK
<1>5. CASE bitmap_present_tick
  <2>1. tick' \in Ticks /\ fb' \in Buffers /\ RepaintOK' /\ OthersOK'
    BY <1>0, <1>3, <1>5, Zenon DEF bitmap_present_tick, swap_buffers, RepaintOK, OthersOK
  <2> QED BY <2>1, TypeJoin, Zenon
<1>6. CASE StreamFrame
  <2>1. "stream" \in Sources
    BY Zenon DEF Sources
  <2>2. PICK b : b = 1 - glass
    OBVIOUS
  <2>3. fb' = [fb EXCEPT ![b] = FrameOf("stream")] /\ b \in Halves
    BY <1>3, <1>6, <2>2, Zenon DEF StreamFrame, back_index
  <2>4. fb' \in Buffers
    BY <1>0, <2>1, <2>3, HalfDrawn
  <2>5. tick' \in Ticks /\ RepaintOK' /\ OthersOK'
    BY <1>0, <1>2, <1>3, <1>6, Zenon DEF StreamFrame, back_index, RepaintOK, OthersOK
  <2> QED BY <2>4, <2>5, TypeJoin, Zenon
<1>7. CASE \E k \in Keys, v \in Values : api_values_set(k, v)
  <2>1. PICK k \in Keys, v \in Values : api_values_set(k, v)
    BY <1>7, Zenon
  <2>2. VALUES' \in [Keys -> Values \cup {"-"}]
    BY <1>0, <2>1, SetTyped, Zenon DEF api_values_set, OthersOK
  <2>3. tick' \in Ticks /\ fb' \in Buffers /\ RepaintOK' /\ OthersOK'
    BY <1>0, <1>2, <2>1, <2>2, Zenon DEF api_values_set, RepaintOK, OthersOK
  <2> QED BY <2>3, TypeJoin, Zenon
<1>8. CASE \E name \in Programs \cup {"none"} : api_program_on(name)
  <2>1. PICK name \in Programs \cup {"none"} : api_program_on(name)
    BY <1>8, Zenon
  <2>2. PICK p : p = IF name # "none" THEN name ELSE IF PROGRAM_FN = "none" THEN First ELSE PROGRAM_FN
    OBVIOUS
  <2>3. p \in Programs
    BY <1>0, <2>1, <2>2, Canvas, Zenon DEF OthersOK
  <2>4. Start(p) /\ shown' = p
    BY <2>1, <2>2, Zenon DEF api_program_on
  <2>5. bank' \in [Halves -> Programs \cup {"default", "stream"}]
    BY <1>4, <2>1, Zenon DEF api_program_on
  <2>6. tick' \in Ticks /\ fb' \in Buffers /\ RepaintOK' /\ clean' \in BOOLEAN /\ dma' \in BOOLEAN
    BY <1>0, <2>1, Zenon DEF api_program_on, RepaintOK, set_stream_hold
  <2>7. OthersOK'
    BY <1>0, <1>1, <1>2, <2>1, <2>3, <2>4, <2>5, <2>6, Zenon DEF api_program_on, Start, OthersOK
  <2> QED BY <2>6, <2>7, TypeJoin, Zenon
<1>9. CASE api_program_off
  <2>1. tick' \in Ticks /\ fb' \in Buffers /\ RepaintOK' /\ OthersOK'
    BY <1>0, <1>2, <1>9, Zenon DEF api_program_off, set_stream_hold, RepaintOK, OthersOK
  <2> QED BY <2>1, TypeJoin, Zenon
<1>10. CASE api_display_pattern
  <2>1. "pattern" \in Sources
    BY Zenon DEF Sources
  <2>2. PICK b : b = 1 - active_buf
    OBVIOUS
  <2>3. fb' = [fb EXCEPT ![b] = FrameOf("pattern")] /\ b \in Halves
    BY <1>3, <1>10, <2>2, Zenon DEF api_display_pattern, back_buffer
  <2>4. fb' \in Buffers
    BY <1>0, <2>1, <2>3, HalfDrawn
  <2>5. tick' \in Ticks /\ RepaintOK' /\ OthersOK'
    BY <1>0, <1>2, <1>3, <1>10, Zenon DEF api_display_pattern, swap_buffers, set_stream_hold, RepaintOK, OthersOK
  <2> QED BY <2>4, <2>5, TypeJoin, Zenon
<1>11. CASE api_dma_set
  <2>1. tick' \in Ticks /\ fb' \in Buffers /\ RepaintOK' /\ OthersOK'
    BY <1>0, <1>2, <1>11, Zenon DEF api_dma_set, RepaintOK, OthersOK
  <2> QED BY <2>1, TypeJoin, Zenon
<1>12. CASE \E name \in Programs \cup {"none", "missing"} : apply_layout(name)
  <2>1. PICK name \in Programs \cup {"none", "missing"} : apply_layout(name)
    BY <1>12, Zenon
  <2>2. "grid" \in Sources
    BY Zenon DEF Sources
  <2>3. PICK b : b = 1 - active_buf
    OBVIOUS
  <2>4. fb' = [fb EXCEPT ![b] = FrameOf("grid")] /\ b \in Halves
    BY <1>3, <2>1, <2>3, Zenon DEF apply_layout, back_buffer
  <2>5. fb' \in Buffers
    BY <1>0, <2>2, <2>4, HalfDrawn
  <2>6. /\ PROGRAM_ACTIVE' \in BOOLEAN /\ PROGRAM_FN' \in Programs \cup {"none"} /\ dma' \in BOOLEAN
        /\ PROGRAM_FULL_LEFT' \in 0 .. 2 /\ PROGRAM_PRIME_LEFT' \in 0 .. 2
        /\ bank' \in [Halves -> Programs \cup {"default", "stream"}]
    <3>1. CASE Start(name) /\ bank' = BothBanks("default") /\ set_stream_hold(TRUE) /\ name \in Programs
      BY <1>1, <1>4, <3>1, Zenon DEF Start, set_stream_hold
    <3>2. CASE PROGRAM_ACTIVE' = FALSE /\ set_stream_hold(FALSE)
               /\ UNCHANGED <<PROGRAM_FN, PROGRAM_FULL_LEFT, PROGRAM_PRIME_LEFT, bank>>
      BY <1>0, <3>2, Zenon DEF set_stream_hold, OthersOK
    <3>3. CASE UNCHANGED <<PROGRAM_ACTIVE, PROGRAM_FN, PROGRAM_FULL_LEFT, PROGRAM_PRIME_LEFT, bank, dma>>
      BY <1>0, <3>3, Zenon DEF OthersOK
    <3> QED BY <2>1, <3>1, <3>2, <3>3, Zenon DEF apply_layout
  <2>7. tick' \in Ticks /\ RepaintOK' /\ OthersOK'
    BY <1>0, <1>2, <1>3, <2>1, <2>6, Zenon DEF apply_layout, swap_buffers, RepaintOK, OthersOK
  <2> QED BY <2>5, <2>7, TypeJoin, Zenon
<1> QED BY <1>5, <1>6, <1>7, <1>8, <1>9, <1>10, <1>11, <1>12, Zenon DEF Request

LEMMA InitTyped == PanelInit => PanelTypeOK
<1> SUFFICES ASSUME PanelInit PROVE PanelTypeOK
  OBVIOUS
<1>1. tick \in Ticks
  BY IdleTick, Zenon DEF PanelInit
<1>2. fb \in Buffers
  <2>1. "grid" \in Sources
    BY Zenon DEF Sources
  <2> QED BY <2>1, PlainFrame, Zenon DEF PanelInit, Buffers
<1>3. RepaintOK
  BY Canvas DEF PanelInit, RepaintOK
<1>4. bank \in [Halves -> Programs \cup {"default", "stream"}] /\ VALUES \in [Keys -> Values \cup {"-"}]
  BY Zenon DEF PanelInit, BothBanks
<1>5. 0 \in 0 .. 2 /\ 2 \in 0 .. 2 /\ 0 \in 0 .. MaxRequests /\ 0 \in Halves
  BY Canvas
<1>6. OthersOK
  BY <1>4, <1>5, Zenon DEF PanelInit, OthersOK
<1> QED BY <1>1, <1>2, <1>3, <1>6, TypeParts, Zenon

LEMMA PanelStepTyped == ASSUME PanelTypeOK, [PanelNext]_panelVars PROVE PanelTypeOK'
<1>1. CASE UNCHANGED panelVars
  <2>1. UNCHANGED <<PROGRAM_ACTIVE, PROGRAM_FN, PROGRAM_FULL_LEFT, PROGRAM_PRIME_LEFT, PROGRAM_PALETTE_DIRTY,
                    REPAINT_POS, REPAINT_LEFT, VALUES, unseen, fb, glass, active_buf, bank, auto_swap, dma, done,
                    tick, requests, shown, clean>>
    BY <1>1, Zenon DEF panelVars, progVars, repaintVars, valueVars, hub75Vars, historyVars
  <2>2. tick \in Ticks /\ fb \in Buffers /\ RepaintOK /\ OthersOK
    BY TypeParts, Zenon
  <2>3. tick' \in Ticks /\ fb' \in Buffers /\ RepaintOK'
    BY <2>1, <2>2, Zenon DEF RepaintOK
  <2>4. OthersOK'
    <3>1. /\ PROGRAM_FULL_LEFT' \in 0 .. 2 /\ PROGRAM_PRIME_LEFT' \in 0 .. 2 /\ glass' \in Halves /\ active_buf' \in Halves
          /\ bank' \in [Halves -> Programs \cup {"default", "stream"}]
      BY <2>1, <2>2, Zenon DEF OthersOK
    <3> QED BY <2>1, <2>2, <3>1, OthersKept, Zenon
  <2> QED BY <2>3, <2>4, TypeJoin, Zenon
<1>2. CASE PanelNext
  BY <1>2, TickTypes, OtherTypes, Zenon DEF PanelNext, MainLoop
<1> QED BY <1>1, <1>2, Zenon

\* Program mode keeps its types: no counter goes below zero, and no row beyond
\* the canvas is owed or drawn.
THEOREM PanelTypes == PanelSpec => []PanelTypeOK
<1>1. PanelTypeOK /\ [PanelNext]_panelVars => PanelTypeOK'
  BY PanelStepTyped
<1> QED BY InitTyped, <1>1, PTL DEF PanelSpec

-----------------------------------------------------------------------------
(* A start and what it owes, action by action.                             *)

Core == StartInv /\ SourceInv /\ ValueInv /\ BandInv /\ PaletteInv

LEMMA ProgramOnCore ==
    ASSUME PanelTypeOK, NEW name \in Programs \cup {"none"}, api_program_on(name), clean'
    PROVE  Core'
<1>1. PICK p : p = IF name # "none" THEN name ELSE IF PROGRAM_FN = "none" THEN First ELSE PROGRAM_FN
  OBVIOUS
<1>2. p \in Programs
  BY <1>1, Canvas, Zenon DEF PanelTypeOK
<1>3. /\ PROGRAM_ACTIVE' /\ PROGRAM_FN' = p /\ PROGRAM_FULL_LEFT' = 2 /\ PROGRAM_PRIME_LEFT' = 2
      /\ bank' = BothBanks("default") /\ tick' = tick /\ ~Reading
  BY <1>1, Zenon DEF api_program_on, Start
<1>4. tick'.pc \notin {"palette", "clean", "count", "owe"}
  BY <1>3, Zenon DEF Reading
<1>5. PROGRAM_FULL_LEFT' = PROGRAM_PRIME_LEFT' /\ ~(PROGRAM_FULL_LEFT' < 2) /\ PROGRAM_FULL_LEFT' # 0 /\ PROGRAM_FULL_LEFT' # 1
  BY <1>3
<1>6. StartInv'
  BY <1>2, <1>3, <1>4, <1>5, Zenon DEF StartInv, Reading
<1>7. \A h \in Halves, y \in Rows : Unreached(h, y)'
  BY <1>3, Zenon DEF Unreached
<1>8. SourceInv' /\ ValueInv'
  BY <1>7, Zenon DEF SourceInv, ValueInv
<1>9. BandInv'
  BY <1>5, Zenon DEF BandInv
<1>10. PROGRAM_PALETTE_DIRTY'
  BY Zenon DEF api_program_on
<1>11. PaletteInv'
  BY <1>3, <1>4, <1>5, <1>10 DEF PaletteInv, BothBanks
<1> QED BY <1>6, <1>8, <1>9, <1>11, Zenon DEF Core

\* What a step that leaves the program, the tick, the glass and the banks alone
\* leaves true.
LEMMA SameStart ==
    ASSUME StartInv, PROGRAM_ACTIVE' = PROGRAM_ACTIVE, PROGRAM_FN' = PROGRAM_FN,
           PROGRAM_FULL_LEFT' = PROGRAM_FULL_LEFT, PROGRAM_PRIME_LEFT' = PROGRAM_PRIME_LEFT,
           tick' = tick, glass' = glass, active_buf' = active_buf
    PROVE  StartInv'
BY DEF StartInv, Reading, Drawing

LEMMA SamePalette ==
    ASSUME PaletteInv, PROGRAM_FN' = PROGRAM_FN, PROGRAM_FULL_LEFT' = PROGRAM_FULL_LEFT,
           PROGRAM_PALETTE_DIRTY' = PROGRAM_PALETTE_DIRTY, tick' = tick, glass' = glass, bank' = bank
    PROVE  PaletteInv'
BY DEF PaletteInv, Drawing, BothBanks

LEMMA SameRows ==
    ASSUME SourceInv, ValueInv, BandInv, PROGRAM_FN' = PROGRAM_FN, PROGRAM_FULL_LEFT' = PROGRAM_FULL_LEFT,
           REPAINT_POS' = REPAINT_POS, REPAINT_LEFT' = REPAINT_LEFT, VALUES' = VALUES, unseen' = unseen,
           tick' = tick, fb' = fb, glass' = glass
    PROVE  SourceInv' /\ ValueInv' /\ BandInv'
<1>1. \A h \in Halves, y \in Rows : Unreached(h, y) <=> Unreached(h, y)'
  BY Zenon DEF Unreached, Drawing
<1>2. \A h \in Halves, y \in Rows : Owed(h, y) <=> Owed(h, y)'
  BY Zenon DEF Owed
<1>3. render(PROGRAM_FN)' = render(PROGRAM_FN)
  BY Zenon DEF render
<1>4. SourceInv'
  BY <1>1, Zenon DEF SourceInv
<1>5. ValueInv'
  BY <1>1, <1>2, <1>3, Zenon DEF ValueInv
<1>6. BandInv'
  BY <1>3, Zenon DEF BandInv
<1> QED BY <1>4, <1>5, <1>6, Zenon

LEMMA ValuesCore ==
    ASSUME Core, NEW k, NEW v, api_values_set(k, v)
    PROVE  Core'
<1>1. UNCHANGED <<progVars, repaintVars, hub75Vars, tick>> /\ unseen'
  BY Zenon DEF api_values_set
<1>2. StartInv' /\ PaletteInv'
  BY <1>1, SameStart, SamePalette, Zenon DEF Core, progVars, hub75Vars
<1>3. SourceInv'
  BY <1>1, Zenon DEF Core, SourceInv, Unreached, Drawing, progVars, hub75Vars
<1>4. ValueInv' /\ BandInv'
  BY <1>1, Zenon DEF ValueInv, BandInv
<1> QED BY <1>2, <1>3, <1>4, Zenon DEF Core

LEMMA DmaCore == ASSUME Core, api_dma_set PROVE Core'
<1>1. UNCHANGED <<progVars, repaintVars, valueVars, fb, glass, active_buf, bank, tick>>
  BY Zenon DEF api_dma_set
<1>2. StartInv' /\ PaletteInv'
  BY <1>1, SameStart, SamePalette, Zenon DEF Core, progVars
<1>3. SourceInv' /\ ValueInv' /\ BandInv'
  BY <1>1, SameRows, Zenon DEF Core, progVars, repaintVars, valueVars
<1> QED BY <1>2, <1>3, Zenon DEF Core

\* Between two frames no row is drawn and none becomes unreached.
LEMMA QuietRows ==
    ASSUME SourceInv, ~Drawing, tick'.pc \in {"idle", "palette", "clean", "count", "owe"},
           PROGRAM_FN' = PROGRAM_FN, PROGRAM_FULL_LEFT' = PROGRAM_FULL_LEFT, fb' = fb, glass' = glass
    PROVE  /\ \A h \in Halves, y \in Rows : Unreached(h, y) <=> Unreached(h, y)'
           /\ SourceInv' /\ BandInv'
<1>1. tick'.pc \notin {"scroll", "paint", "repaint", "swap"}
  OBVIOUS
<1>2. ~Drawing' /\ BandInv'
  BY <1>1, Zenon DEF Drawing, BandInv
<1>3. \A h \in Halves, y \in Rows : Unreached(h, y) <=> Unreached(h, y)'
  BY <1>2, Zenon DEF Unreached
<1>4. SourceInv'
  BY <1>3, Zenon DEF SourceInv
<1> QED BY <1>2, <1>3, <1>4, Zenon

LEMMA QuietValues ==
    ASSUME ValueInv, \A h \in Halves, y \in Rows : Unreached(h, y) <=> Unreached(h, y)',
           PROGRAM_FN' = PROGRAM_FN, fb' = fb, VALUES' = VALUES, unseen' = unseen,
           REPAINT_POS' = REPAINT_POS, REPAINT_LEFT' = REPAINT_LEFT
    PROVE  ValueInv'
<1>1. render(PROGRAM_FN)' = render(PROGRAM_FN)
  BY Zenon DEF render
<1>2. \A h \in Halves, y \in Rows : Owed(h, y)' <=> Owed(h, y)
  BY Zenon DEF Owed
<1> QED BY <1>1, <1>2, Zenon DEF ValueInv

\* StartInv after a step that is not drawing.
LEMMA QuietStart ==
    ASSUME StartInv, ~Drawing, tick'.pc \in {"idle", "palette", "clean", "count", "owe"},
           PROGRAM_ACTIVE' = PROGRAM_ACTIVE, PROGRAM_FN' = PROGRAM_FN,
           PROGRAM_FULL_LEFT' = PROGRAM_FULL_LEFT, PROGRAM_PRIME_LEFT' = PROGRAM_PRIME_LEFT,
           glass' = glass, active_buf' = active_buf,
           tick'.pc # "idle" => tick'.prog = PROGRAM_FN,
           tick'.pc = "owe" => /\ tick'.full = PROGRAM_FULL_LEFT /\ tick'.prime = tick'.full
                               /\ tick'.full > 0 => tick'.band = Rows
    PROVE  StartInv'
BY DEF StartInv, Reading, Drawing

LEMMA BeginsCore == ASSUME PanelTypeOK, Core, TickBegins PROVE Core'
<1> USE DEF Core
<1>1. /\ UNCHANGED <<progVars, repaintVars, valueVars, fb, glass, active_buf, bank>> /\ tick.pc = "idle"
  BY Zenon DEF TickBegins
<1>2. tick'.pc = "palette" /\ tick'.prog = PROGRAM_FN
  <2>1. PROGRAM_FN # "none"
    BY Registry, Zenon DEF StartInv
  <2> QED BY <2>1, BeginsEffect, Zenon
<1>3. ~Drawing /\ tick'.pc \in {"idle", "palette", "clean", "count", "owe"} /\ tick'.pc # "owe"
  BY <1>1, <1>2 DEF Drawing
<1>4. StartInv'
  BY <1>1, <1>2, <1>3, QuietStart, Zenon DEF progVars
<1>5. SourceInv' /\ BandInv' /\ \A h \in Halves, y \in Rows : Unreached(h, y) <=> Unreached(h, y)'
  BY <1>1, <1>3, QuietRows, Zenon DEF progVars
<1>6. ValueInv'
  BY <1>1, <1>5, QuietValues, Zenon DEF progVars, valueVars, repaintVars
<1>7. PaletteInv'
  <2>1. PROGRAM_FN' = PROGRAM_FN /\ PROGRAM_FULL_LEFT' = PROGRAM_FULL_LEFT
        /\ PROGRAM_PALETTE_DIRTY' = PROGRAM_PALETTE_DIRTY /\ glass' = glass /\ bank' = bank
    BY <1>1, Zenon DEF progVars
  <2> QED BY <1>1, <1>2, <2>1 DEF PaletteInv, Drawing, BothBanks
<1> QED BY <1>4, <1>5, <1>6, <1>7, Zenon

LEMMA PaletteCore == ASSUME PanelTypeOK, Core, TickPalette PROVE Core'
<1> USE DEF Core
<1>1. UNCHANGED <<progVars, repaintVars, valueVars, fb, glass, active_buf>> /\ tick.pc = "palette"
  BY Zenon DEF TickPalette
<1>2. tick.prog = PROGRAM_FN /\ PROGRAM_FN \in Programs
  BY <1>1, Zenon DEF StartInv, Reading
<1>3. \/ Palette[PROGRAM_FN] = "animated" /\ bank' = set_palette(PROGRAM_FN) /\ Step("count")
      \/ Palette[PROGRAM_FN] = "static" /\ PROGRAM_PALETTE_DIRTY /\ bank' = BothBanks(PROGRAM_FN) /\ Step("clean")
      \/ /\ Palette[PROGRAM_FN] = "none" \/ (Palette[PROGRAM_FN] = "static" /\ ~PROGRAM_PALETTE_DIRTY)
         /\ Step("count") /\ bank' = bank
  BY <1>2, Zenon DEF TickPalette
<1>4. /\ Step("count") => tick'.pc = "count" /\ tick'.prog = tick.prog
      /\ Step("clean") => tick'.pc = "clean" /\ tick'.prog = tick.prog
  <2>1. "count" \in TickPCs /\ "clean" \in TickPCs
    BY Zenon DEF TickPCs
  <2> QED BY <2>1, PcEffect, Zenon
<1>5. tick'.pc \in {"count", "clean"} /\ tick'.prog = PROGRAM_FN
  BY <1>2, <1>3, <1>4, Zenon
<1>6. ~Drawing /\ tick'.pc \in {"idle", "palette", "clean", "count", "owe"} /\ tick'.pc # "owe"
  BY <1>1, <1>5 DEF Drawing
<1>7. StartInv'
  BY <1>1, <1>5, <1>6, QuietStart, Zenon DEF progVars
<1>8. SourceInv' /\ BandInv' /\ \A h \in Halves, y \in Rows : Unreached(h, y) <=> Unreached(h, y)'
  BY <1>1, <1>6, QuietRows, Zenon DEF progVars
<1>9. ValueInv'
  BY <1>1, <1>8, QuietValues, Zenon DEF progVars, valueVars, repaintVars
<1>10. PaletteInv'
  <2>1. /\ PROGRAM_FN' = PROGRAM_FN /\ PROGRAM_FULL_LEFT' = PROGRAM_FULL_LEFT
        /\ PROGRAM_PALETTE_DIRTY' = PROGRAM_PALETTE_DIRTY /\ glass' = glass
    BY <1>1, Zenon DEF progVars
  <2>2. set_palette(PROGRAM_FN)[1 - glass] = PROGRAM_FN /\ set_palette(PROGRAM_FN)[glass] = bank[glass]
    <3>1. /\ PROGRAM_FN \in Programs \cup {"default", "stream"} /\ glass \in Halves
          /\ bank \in [Halves -> Programs \cup {"default", "stream"}]
      BY <1>2, Zenon DEF PanelTypeOK
    <3> QED BY <3>1, Banks, Zenon
  <2>3. CASE Palette[PROGRAM_FN] = "animated"
    BY <1>1, <1>3, <1>4, <1>6, <2>1, <2>2, <2>3 DEF PaletteInv, Drawing
  <2>4. CASE Palette[PROGRAM_FN] = "static"
    <3>1. tick'.pc = "clean" => bank' = BothBanks(PROGRAM_FN)
      BY <1>3, <1>4, <2>4
    <3>2. tick'.pc = "count" => ~PROGRAM_PALETTE_DIRTY /\ bank' = bank
      BY <1>3, <1>4, <2>4
    <3>3. bank' = bank \/ (PROGRAM_PALETTE_DIRTY /\ tick'.pc = "clean")
      BY <1>3, <1>4, <2>4
    <3> QED BY <1>1, <1>5, <2>1, <2>4, <3>1, <3>2, <3>3 DEF PaletteInv, BothBanks
  <2>5. CASE Palette[PROGRAM_FN] = "none"
    BY <1>3, <1>4, <2>1, <2>5 DEF PaletteInv, BothBanks
  <2> QED BY <1>2, <2>3, <2>4, <2>5, Registry, Zenon
<1> QED BY <1>7, <1>8, <1>9, <1>10, Zenon

LEMMA CleanCore == ASSUME PanelTypeOK, Core, TickClean PROVE Core'
<1> USE DEF Core
<1>1. /\ PROGRAM_ACTIVE' = PROGRAM_ACTIVE /\ PROGRAM_FN' = PROGRAM_FN /\ PROGRAM_FULL_LEFT' = PROGRAM_FULL_LEFT
      /\ PROGRAM_PRIME_LEFT' = PROGRAM_PRIME_LEFT /\ ~PROGRAM_PALETTE_DIRTY'
      /\ UNCHANGED <<REPAINT_POS, REPAINT_LEFT, VALUES, unseen, fb, glass, active_buf, bank>> /\ tick.pc = "clean"
  BY Zenon DEF TickClean, repaintVars, valueVars, hub75Vars
<1>2. tick'.pc = "count" /\ tick'.prog = PROGRAM_FN
  <2>1. "count" \in TickPCs
    BY Zenon DEF TickPCs
  <2>2. Step("count")
    BY Zenon DEF TickClean
  <2>3. tick.prog = PROGRAM_FN
    BY <1>1, Zenon DEF StartInv, Reading
  <2> QED BY <2>1, <2>2, <2>3, PcEffect, Zenon
<1>3. ~Drawing /\ tick'.pc \in {"idle", "palette", "clean", "count", "owe"} /\ tick'.pc # "owe"
  BY <1>1, <1>2 DEF Drawing
<1>4. StartInv'
  BY <1>1, <1>2, <1>3, QuietStart, Zenon
<1>5. SourceInv' /\ BandInv' /\ \A h \in Halves, y \in Rows : Unreached(h, y) <=> Unreached(h, y)'
  BY <1>1, <1>3, QuietRows, Zenon
<1>6. ValueInv'
  BY <1>1, <1>5, QuietValues, Zenon
<1>7. PaletteInv'
  BY <1>1, <1>2 DEF PaletteInv, BothBanks
<1> QED BY <1>4, <1>5, <1>6, <1>7, Zenon

\* A value that was not seen is owed to every row, or nothing changed.
LEMMA CountCore == ASSUME PanelTypeOK, Core, TickCount PROVE Core'
<1> USE DEF Core
<1>1. /\ UNCHANGED <<progVars, VALUES, fb, glass, active_buf, bank>> /\ tick.pc = "count" /\ unseen' = FALSE
      /\ IF unseen THEN RepaintBothHalves ELSE REPAINT_POS' = REPAINT_POS /\ REPAINT_LEFT' = REPAINT_LEFT
  BY Zenon DEF TickCount, hub75Vars, repaintVars
<1>2. /\ PROGRAM_FN' = PROGRAM_FN /\ PROGRAM_FULL_LEFT' = PROGRAM_FULL_LEFT /\ PROGRAM_PRIME_LEFT' = PROGRAM_PRIME_LEFT
      /\ PROGRAM_ACTIVE' = PROGRAM_ACTIVE /\ PROGRAM_PALETTE_DIRTY' = PROGRAM_PALETTE_DIRTY
  BY <1>1, Zenon DEF progVars
<1>3. tick.prog = PROGRAM_FN /\ PROGRAM_FULL_LEFT = PROGRAM_PRIME_LEFT
  BY <1>1, Zenon DEF StartInv, Reading
<1>4. tick'.pc \in {"idle", "owe"} /\ (tick'.pc # "idle" => tick'.prog = PROGRAM_FN)
  BY <1>3, CountEffect, Zenon
<1>5. tick'.pc = "owe" => /\ tick'.full = PROGRAM_FULL_LEFT /\ tick'.prime = tick'.full
                          /\ tick'.full > 0 => tick'.band = Rows
  <2>1. "owe" # "idle"
    OBVIOUS
  <2> QED BY <1>3, <2>1, CountEffect, Zenon
<1>6. ~Drawing /\ tick'.pc \in {"idle", "palette", "clean", "count", "owe"}
  BY <1>1, <1>4 DEF Drawing
<1>7. StartInv'
  BY <1>1, <1>2, <1>4, <1>5, <1>6, QuietStart, Zenon
<1>8. SourceInv' /\ BandInv' /\ \A h \in Halves, y \in Rows : Unreached(h, y) <=> Unreached(h, y)'
  BY <1>1, <1>2, <1>6, QuietRows, Zenon
<1>9. ValueInv'
  <2>1. CASE unseen
    <3>1. \A h \in Halves : REPAINT_POS'[h] = 0 /\ REPAINT_LEFT'[h] = H
      BY <1>1, <2>1, BothOwed, Zenon
    <3>2. \A y \in Rows : H > 0 /\ y >= 0
      BY Canvas
    <3>3. \A h \in Halves, y \in Rows : Owed(h, y)'
      BY <3>1, <3>2, Zenon DEF Owed
    <3> QED BY <3>3, Zenon DEF ValueInv
  <2>2. CASE ~unseen
    <3>1. unseen' = unseen
      BY <1>1, <2>2, TypeFacts, Zenon
    <3> QED BY <1>1, <1>2, <1>8, <2>2, <3>1, QuietValues, Zenon
  <2> QED BY <2>1, <2>2, Zenon
<1>10. PaletteInv'
  BY <1>1, <1>2, <1>4, <1>6 DEF PaletteInv, Drawing, BothBanks
<1> QED BY <1>7, <1>8, <1>9, <1>10, Zenon

\* The first whole frame has reached nothing yet; the second has one half, the
\* displayed one, behind it.
LEMMA OweCore == ASSUME PanelTypeOK, Core, TickOwe PROVE Core'
<1> USE DEF Core
<1>1. /\ tick.pc = "owe" /\ UNCHANGED <<PROGRAM_ACTIVE, PROGRAM_FN, PROGRAM_PALETTE_DIRTY>>
      /\ UNCHANGED <<REPAINT_POS, REPAINT_LEFT, VALUES, unseen, fb, glass, active_buf, bank>>
      /\ PROGRAM_FULL_LEFT' = IF tick.full > 0 THEN tick.full - 1 ELSE PROGRAM_FULL_LEFT
      /\ PROGRAM_PRIME_LEFT' = IF tick.prime > 0 THEN tick.prime - 1 ELSE PROGRAM_PRIME_LEFT
  BY Zenon DEF TickOwe, hub75Vars, repaintVars, valueVars
<1>2. /\ tick.prog = PROGRAM_FN /\ PROGRAM_FN \in Programs /\ PROGRAM_FULL_LEFT = PROGRAM_PRIME_LEFT /\ PROGRAM_ACTIVE
      /\ tick.full = PROGRAM_FULL_LEFT /\ tick.prime = tick.full /\ (tick.full > 0 => tick.band = Rows)
  BY <1>1, Zenon DEF StartInv, Reading
<1>3. ~Drawing
  BY <1>1 DEF Drawing
<1>4. PROGRAM_FULL_LEFT = 0 \/ PROGRAM_FULL_LEFT = 1 => glass = active_buf
  BY <1>3, Zenon DEF StartInv
<1>5. /\ tick'.pc = "scroll" /\ tick'.prog = PROGRAM_FN /\ tick'.buf = 1 - active_buf
      /\ tick'.band = tick.band /\ tick'.full = tick.full
      /\ tick'.rows \subseteq Scroll[PROGRAM_FN] /\ (~tick'.scrolling => tick'.rows = {})
      /\ tick.prime # 0 => ~tick'.scrolling
  BY <1>2, OweEffect, Zenon
<1>6. tick'.pc \notin {"palette", "clean", "count", "owe"} /\ Drawing' /\ tick'.pc \notin {"paint", "repaint", "swap"}
  BY <1>5 DEF Drawing
<1>7. /\ PROGRAM_FULL_LEFT' = PROGRAM_PRIME_LEFT'
      /\ \/ PROGRAM_FULL_LEFT = 2 /\ PROGRAM_FULL_LEFT' = 1 /\ tick'.full = 2
         \/ PROGRAM_FULL_LEFT = 1 /\ PROGRAM_FULL_LEFT' = 0 /\ tick'.full = 1
         \/ PROGRAM_FULL_LEFT = 0 /\ PROGRAM_FULL_LEFT' = 0 /\ tick'.full = 0
  BY <1>1, <1>2, <1>5, TypeFacts
<1>8. StartInv'
  <2>1. tick'.full > 0 => tick'.band = Rows /\ ~tick'.scrolling
    BY <1>2, <1>5, <1>7
  <2>2. PROGRAM_ACTIVE' /\ PROGRAM_FN' \in Programs /\ PROGRAM_FN' = PROGRAM_FN
    BY <1>1, <1>2, Zenon
  <2>3. PROGRAM_FULL_LEFT' = 0 => glass' = active_buf'
    BY <1>1, <1>4, <1>7
  <2>4. tick'.buf = 1 - active_buf'
    BY <1>1, <1>5, Zenon
  <2> QED BY <1>5, <1>6, <1>7, <2>1, <2>2, <2>3, <2>4 DEF StartInv, Reading, Drawing
<1>9. \A h \in Halves, y \in Rows : Unreached(h, y) => Unreached(h, y)'
  <2> SUFFICES ASSUME NEW h \in Halves, NEW y \in Rows, Unreached(h, y) PROVE Unreached(h, y)'
    OBVIOUS
  <2>1. CASE PROGRAM_FULL_LEFT = 2
    BY <1>5, <1>6, <1>7, <2>1 DEF Unreached
  <2>2. CASE PROGRAM_FULL_LEFT = 1 /\ h # glass
    <3>1. h = tick'.buf
      BY <1>4, <1>5, <2>2, TypeFacts DEF Halves
    <3> QED BY <1>5, <1>6, <1>7, <2>2, <3>1 DEF Unreached
  <2> QED BY <1>3, <2>1, <2>2, Zenon DEF Unreached
<1>10. SourceInv'
  BY <1>1, <1>9, Zenon DEF SourceInv
<1>11. ValueInv'
  <2>1. render(PROGRAM_FN)' = render(PROGRAM_FN)
    BY <1>1, Zenon DEF render
  <2>2. \A h \in Halves, y \in Rows : Owed(h, y)' <=> Owed(h, y)
    BY <1>1, Zenon DEF Owed
  <2> QED BY <1>1, <1>9, <2>1, <2>2, Zenon DEF ValueInv
<1>12. BandInv'
  BY <1>6, Zenon DEF BandInv
<1>13. PaletteInv'
  BY <1>1, <1>2, <1>5, <1>6, <1>7 DEF PaletteInv, BothBanks
<1> QED BY <1>8, <1>10, <1>11, <1>12, <1>13, Zenon

\* The banks while a frame is being drawn.
LEMMA DrawingPalette ==
    ASSUME PaletteInv, tick.pc \in {"scroll", "paint", "repaint"}, tick'.pc \in {"scroll", "paint", "repaint", "swap"},
           tick'.full = tick.full, PROGRAM_FN' = PROGRAM_FN, PROGRAM_FULL_LEFT' = PROGRAM_FULL_LEFT,
           PROGRAM_PALETTE_DIRTY' = PROGRAM_PALETTE_DIRTY, glass' = glass, bank' = bank
    PROVE  PaletteInv'
BY DEF PaletteInv, Drawing, BothBanks

\* The tick of a frame being drawn.
LEMMA DrawingStart ==
    ASSUME StartInv, tick.pc \in {"scroll", "paint", "repaint"}, tick'.pc \in {"scroll", "paint", "repaint", "swap"},
           tick'.prog = tick.prog, tick'.full = tick.full, tick'.band = tick.band, tick'.scrolling = tick.scrolling,
           tick'.buf = tick.buf \/ tick'.buf = 1 - active_buf,
           tick'.pc = "scroll" => tick.pc = "scroll" /\ tick'.rows \subseteq tick.rows,
           PROGRAM_ACTIVE' = PROGRAM_ACTIVE, PROGRAM_FN' = PROGRAM_FN,
           PROGRAM_FULL_LEFT' = PROGRAM_FULL_LEFT, PROGRAM_PRIME_LEFT' = PROGRAM_PRIME_LEFT,
           glass' = glass, active_buf' = active_buf
    PROVE  StartInv'
<1>1. Drawing /\ Drawing' /\ tick'.pc \notin {"palette", "clean", "count", "owe"}
  BY DEF Drawing
<1>2. tick'.pc = "scroll" /\ tick.rows \subseteq Scroll[PROGRAM_FN] /\ (~tick.scrolling => tick.rows = {})
      => tick'.rows \subseteq Scroll[PROGRAM_FN] /\ (~tick.scrolling => tick'.rows = {})
  BY Zenon
<1>3. PROGRAM_FULL_LEFT < 2 =>
          /\ tick.prog = PROGRAM_FN /\ tick.buf = 1 - active_buf
          /\ PROGRAM_FULL_LEFT = 1 => tick.full = 2
          /\ PROGRAM_FULL_LEFT = 0 => tick.full \in {0, 1}
          /\ tick.full > 0 => tick.band = Rows /\ ~tick.scrolling
          /\ tick.pc = "scroll" => tick.rows \subseteq Scroll[PROGRAM_FN] /\ (~tick.scrolling => tick.rows = {})
  BY <1>1, Zenon DEF StartInv
<1>4. Drawing' /\ PROGRAM_FULL_LEFT' < 2 =>
          /\ tick'.prog = PROGRAM_FN' /\ tick'.buf = 1 - active_buf'
          /\ PROGRAM_FULL_LEFT' = 1 => tick'.full = 2
          /\ PROGRAM_FULL_LEFT' = 0 => tick'.full \in {0, 1}
          /\ tick'.full > 0 => tick'.band = Rows /\ ~tick'.scrolling
          /\ tick'.pc = "scroll" => tick'.rows \subseteq Scroll[PROGRAM_FN'] /\ (~tick'.scrolling => tick'.rows = {})
  BY <1>2, <1>3, Zenon
<1>5. /\ PROGRAM_ACTIVE' /\ PROGRAM_FN' \in Programs /\ PROGRAM_FULL_LEFT' = PROGRAM_PRIME_LEFT'
      /\ PROGRAM_FULL_LEFT' = 0 => glass' = active_buf'
  BY Zenon DEF StartInv
<1> QED BY <1>1, <1>4, <1>5, Zenon DEF StartInv, Reading

\* While two whole frames are owed, no row has been reached.
LEMMA NothingReached ==
    ASSUME PROGRAM_FULL_LEFT' = 2
    PROVE  SourceInv' /\ ValueInv' /\ BandInv'
<1>1. \A h \in Halves, y \in Rows : Unreached(h, y)'
  BY Zenon DEF Unreached
<1>2. ~(PROGRAM_FULL_LEFT' < 2)
  OBVIOUS
<1> QED BY <1>1, <1>2, Zenon DEF SourceInv, ValueInv, BandInv

\* The frame being drawn, once its program owes less than two whole frames.
LEMMA DrawingFacts ==
    ASSUME PanelTypeOK, StartInv, tick.pc \in {"scroll", "paint", "repaint", "swap"}, PROGRAM_FULL_LEFT # 2
    PROVE  /\ Drawing /\ PROGRAM_FULL_LEFT < 2 /\ tick.prog = PROGRAM_FN /\ PROGRAM_FN \in Programs /\ tick.buf = 1 - active_buf
           /\ \/ PROGRAM_FULL_LEFT = 1 /\ tick.full = 2 /\ tick.full > 0
              \/ PROGRAM_FULL_LEFT = 0 /\ tick.full = 1 /\ tick.full > 0 /\ glass = active_buf /\ tick.buf = 1 - glass
              \/ PROGRAM_FULL_LEFT = 0 /\ tick.full = 0 /\ ~(tick.full > 0) /\ glass = active_buf /\ tick.buf = 1 - glass
           /\ tick.full > 0 => tick.band = Rows /\ ~tick.scrolling
           /\ tick.pc = "scroll" => tick.rows \subseteq Scroll[PROGRAM_FN] /\ (~tick.scrolling => tick.rows = {})
<1>1. PROGRAM_FULL_LEFT < 2
  BY TypeFacts
<1>2. Drawing
  BY Zenon DEF Drawing
<1>3. PROGRAM_FULL_LEFT = 0 \/ PROGRAM_FULL_LEFT = 1
  BY TypeFacts
<1>4. /\ tick.prog = PROGRAM_FN /\ PROGRAM_FN \in Programs /\ tick.buf = 1 - active_buf
      /\ PROGRAM_FULL_LEFT = 1 => tick.full = 2
      /\ PROGRAM_FULL_LEFT = 0 => tick.full \in {0, 1}
      /\ tick.full > 0 => tick.band = Rows /\ ~tick.scrolling
      /\ tick.pc = "scroll" => tick.rows \subseteq Scroll[PROGRAM_FN] /\ (~tick.scrolling => tick.rows = {})
      /\ PROGRAM_FULL_LEFT = 0 => glass = active_buf
  BY <1>1, <1>2, Zenon DEF StartInv
<1>5. 2 > 0 /\ 1 > 0 /\ ~(0 > 0)
  OBVIOUS
<1> QED BY <1>1, <1>2, <1>3, <1>4, <1>5, Zenon

LEMMA ScrollCore == ASSUME PanelTypeOK, Core, TickScroll PROVE Core'
<1> USE DEF Core
<1>1. /\ tick.pc = "scroll" /\ UNCHANGED <<progVars, repaintVars, valueVars, glass, active_buf, bank>>
  BY Zenon DEF TickScroll
<1>2. /\ PROGRAM_FN' = PROGRAM_FN /\ PROGRAM_FULL_LEFT' = PROGRAM_FULL_LEFT /\ PROGRAM_PRIME_LEFT' = PROGRAM_PRIME_LEFT
      /\ PROGRAM_ACTIVE' = PROGRAM_ACTIVE /\ PROGRAM_PALETTE_DIRTY' = PROGRAM_PALETTE_DIRTY
      /\ VALUES' = VALUES /\ unseen' = unseen /\ REPAINT_POS' = REPAINT_POS /\ REPAINT_LEFT' = REPAINT_LEFT
  BY <1>1, Zenon DEF progVars, valueVars, repaintVars
<1>3. tick.pc \in {"scroll", "paint", "repaint"} /\ tick.pc \in {"scroll", "paint", "repaint", "swap"}
  BY <1>1, Zenon
<1>4. tick'.pc \in {"scroll", "paint"} /\ tick'.pc \in {"scroll", "paint", "repaint", "swap"}
  BY ScrollEffect, Zenon
<1>5. "scroll" # "paint"
  OBVIOUS
<1>6. StartInv'
  <2>1. /\ tick'.prog = tick.prog /\ tick'.full = tick.full /\ tick'.band = tick.band /\ tick'.scrolling = tick.scrolling
        /\ tick'.buf = tick.buf \/ tick'.buf = 1 - active_buf
        /\ tick'.pc = "scroll" => tick'.rows \subseteq tick.rows
    BY <1>5, ScrollEffect, Zenon
  <2> QED BY <1>1, <1>2, <1>3, <1>4, <2>1, DrawingStart, Zenon
<1>7. PaletteInv'
  BY <1>1, <1>2, <1>3, <1>4, ScrollEffect, DrawingPalette, Zenon
<1>8. SourceInv' /\ ValueInv' /\ BandInv'
  <2>1. CASE PROGRAM_FULL_LEFT = 2
    BY <1>2, <2>1, NothingReached, Zenon
  <2>2. CASE PROGRAM_FULL_LEFT # 2
    <3>1. /\ Drawing /\ PROGRAM_FULL_LEFT < 2 /\ tick.prog = PROGRAM_FN /\ PROGRAM_FN \in Programs /\ tick.buf = 1 - active_buf
          /\ \/ PROGRAM_FULL_LEFT = 1 /\ tick.full = 2 /\ tick.full > 0
             \/ PROGRAM_FULL_LEFT = 0 /\ tick.full = 1 /\ tick.full > 0 /\ glass = active_buf /\ tick.buf = 1 - glass
             \/ PROGRAM_FULL_LEFT = 0 /\ tick.full = 0 /\ ~(tick.full > 0) /\ glass = active_buf /\ tick.buf = 1 - glass
          /\ tick.full > 0 => tick.band = Rows /\ ~tick.scrolling
          /\ tick.rows \subseteq Scroll[PROGRAM_FN] /\ (~tick.scrolling => tick.rows = {})
      BY <1>1, <1>3, <2>2, DrawingFacts, Zenon
    <3>2. render(PROGRAM_FN)' = render(PROGRAM_FN)
      BY <1>2, Zenon DEF render
    <3>3. \A h \in Halves, y \in Rows : Owed(h, y)' <=> Owed(h, y)
      BY <1>2, Zenon DEF Owed
    <3>4. CASE /\ tick.rows # {} /\ FirstRow \in tick.rows /\ FirstRow \in Rows
               /\ tick'.pc = "scroll" /\ tick'.buf = tick.buf /\ tick'.rows = tick.rows \ {FirstRow}
               /\ fb'[tick.buf][FirstRow] = Shifted(fb[1 - tick.buf][FirstRow], tick.prog)
               /\ \A h \in Halves, z \in Rows : ~(h = tick.buf /\ z = FirstRow) => fb'[h][z] = fb[h][z]
      <4>1. ~(tick.full > 0) /\ PROGRAM_FULL_LEFT = 0
        BY <3>1, <3>4, Zenon
      <4>2. 0 # 1 /\ 0 # 2
        OBVIOUS
      <4>3. \A h \in Halves, y \in Rows : ~Unreached(h, y)
        BY <4>1, <4>2, Zenon DEF Unreached
      <4>4. \A h \in Halves, y \in Rows : \A x \in 1 .. W : fb[h][y][x].src = PROGRAM_FN
        BY <4>3, Zenon DEF SourceInv
      <4>5. \A x \in 1 .. W : fb'[tick.buf][FirstRow][x].src = PROGRAM_FN
        <5>1. PICK row : row = fb[1 - tick.buf][FirstRow]
          OBVIOUS
        <5>2. FirstRow \in Rows /\ fb \in Buffers /\ 1 - tick.buf \in Halves /\ VALUES \in [Keys -> Values \cup {"-"}]
          BY <3>4, TypeFacts, Zenon
        <5>3. row \in RowOf /\ \A x \in 1 .. W : row[x].src = PROGRAM_FN
          BY <4>4, <5>1, <5>2, RowType, Zenon
        <5>4. PROGRAM_FN \in Programs
          BY <3>1, Zenon
        <5>5. \A x \in 1 .. W : Shifted(row, PROGRAM_FN)[x].src = PROGRAM_FN
          BY <5>2, <5>3, <5>4, Rendered, Zenon
        <5>6. fb'[tick.buf][FirstRow] = Shifted(row, PROGRAM_FN)
          BY <3>1, <3>4, <5>1, Zenon
        <5> QED BY <5>5, <5>6, Zenon
      <4>6. SourceInv'
        <5>1. ASSUME NEW h \in Halves, NEW y \in Rows PROVE \A x \in 1 .. W : fb'[h][y][x].src = PROGRAM_FN
          <6>1. CASE h = tick.buf /\ y = FirstRow
            BY <4>5, <6>1, Zenon
          <6>2. CASE ~(h = tick.buf /\ y = FirstRow)
            <7>1. fb'[h][y] = fb[h][y]
              BY <3>4, <6>2, Zenon
            <7> QED BY <4>4, <7>1, Zenon
          <6> QED BY <6>1, <6>2, Zenon
        <5> QED BY <1>2, <5>1, Zenon DEF SourceInv
      <4>7. \A h \in Halves : \A y \in Rows \ Scroll[PROGRAM_FN] : fb'[h][y] = fb[h][y]
        BY <3>1, <3>4, Zenon
      <4>8. ValueInv'
        BY <1>2, <3>2, <3>3, <4>3, <4>7, Zenon DEF ValueInv
      <4>9. tick'.pc \notin {"paint", "repaint", "swap"}
        BY <3>4
      <4>10. BandInv'
        BY <4>9, Zenon DEF BandInv
      <4> QED BY <4>6, <4>8, <4>10, Zenon
    <3>5. CASE /\ tick'.pc = "paint" /\ tick'.buf = 1 - active_buf /\ fb' = fb
               /\ tick'.rows = {y \in tick.band : ~in_scroll(y)}
      <4>1. tick.full > 0 => tick'.rows = Rows
        BY <3>1, <3>5, Zenon DEF in_scroll
      <4>2. Drawing' /\ tick'.buf = tick.buf /\ tick'.full = tick.full
        BY <1>4, <3>1, <3>5, ScrollEffect, Zenon DEF Drawing
      <4>3. \A h \in Halves, y \in Rows : Unreached(h, y) => Unreached(h, y)'
        BY <1>2, <3>1, <3>5, <4>1, <4>2, Zenon DEF Unreached
      <4>4. SourceInv'
        BY <1>2, <3>5, <4>3, Zenon DEF SourceInv
      <4>5. ValueInv'
        BY <1>2, <3>2, <3>3, <3>5, <4>3, Zenon DEF ValueInv
      <4>6. tick'.band = tick.band /\ \A y \in tick.band \ Scroll[PROGRAM_FN] : y \in tick'.rows
        BY <3>1, <3>5, ScrollEffect, Zenon DEF in_scroll
      <4>7. BandInv'
        BY <1>2, <3>5, <4>6, Zenon DEF BandInv
      <4> QED BY <4>4, <4>5, <4>7, Zenon
    <3> QED BY <3>4, <3>5, ScrollEffect, Zenon
  <2> QED BY <2>1, <2>2, Zenon
<1> QED BY <1>6, <1>7, <1>8, Zenon

LEMMA PaintCore == ASSUME PanelTypeOK, Core, TickPaint PROVE Core'
<1> USE DEF Core
<1>1. /\ tick.pc = "paint" /\ UNCHANGED <<progVars, repaintVars, valueVars, glass, active_buf, bank>>
  BY Zenon DEF TickPaint
<1>2. /\ PROGRAM_FN' = PROGRAM_FN /\ PROGRAM_FULL_LEFT' = PROGRAM_FULL_LEFT /\ PROGRAM_PRIME_LEFT' = PROGRAM_PRIME_LEFT
      /\ PROGRAM_ACTIVE' = PROGRAM_ACTIVE /\ PROGRAM_PALETTE_DIRTY' = PROGRAM_PALETTE_DIRTY
      /\ VALUES' = VALUES /\ unseen' = unseen /\ REPAINT_POS' = REPAINT_POS /\ REPAINT_LEFT' = REPAINT_LEFT
  BY <1>1, Zenon DEF progVars, valueVars, repaintVars
<1>3. tick.pc \in {"scroll", "paint", "repaint"} /\ tick.pc \in {"scroll", "paint", "repaint", "swap"}
  BY <1>1, Zenon
<1>4. tick'.pc \in {"paint", "repaint"} /\ tick'.pc \in {"scroll", "paint", "repaint", "swap"}
  BY PaintEffect, Zenon
<1>5. tick'.pc # "scroll" /\ tick.pc # "scroll"
  BY <1>1, <1>4
<1>6. StartInv'
  <2>1. /\ tick'.prog = tick.prog /\ tick'.full = tick.full /\ tick'.band = tick.band /\ tick'.scrolling = tick.scrolling
        /\ tick'.buf = tick.buf \/ tick'.buf = 1 - active_buf
    BY PaintEffect, Zenon
  <2> QED BY <1>1, <1>2, <1>3, <1>4, <1>5, <2>1, DrawingStart, Zenon
<1>7. PaletteInv'
  BY <1>1, <1>2, <1>3, <1>4, PaintEffect, DrawingPalette, Zenon
<1>8. SourceInv' /\ ValueInv' /\ BandInv'
  <2>1. CASE PROGRAM_FULL_LEFT = 2
    BY <1>2, <2>1, NothingReached, Zenon
  <2>2. CASE PROGRAM_FULL_LEFT # 2
    <3>1. Drawing /\ PROGRAM_FULL_LEFT < 2 /\ tick.prog = PROGRAM_FN /\ PROGRAM_FN \in Programs /\ tick.buf = 1 - active_buf
      BY <1>3, <2>2, DrawingFacts, Zenon
    <3>2. render(PROGRAM_FN)' = render(PROGRAM_FN)
      BY <1>2, Zenon DEF render
    <3>3. \A h \in Halves, y \in Rows : Owed(h, y)' <=> Owed(h, y)
      BY <1>2, Zenon DEF Owed
    <3>4. Drawing' /\ tick'.full = tick.full /\ tick'.buf = tick.buf /\ tick'.band = tick.band
      BY <1>4, <3>1, PaintEffect, Zenon DEF Drawing
    <3>5. CASE /\ tick.rows # {} /\ FirstRow \in tick.rows /\ FirstRow \in Rows
               /\ tick'.pc = "paint" /\ tick'.buf = tick.buf /\ tick'.rows = tick.rows \ {FirstRow}
               /\ fb'[tick.buf][FirstRow] = render(tick.prog)
               /\ \A h \in Halves, z \in Rows : ~(h = tick.buf /\ z = FirstRow) => fb'[h][z] = fb[h][z]
      <4>1. \A h \in Halves, y \in Rows : Unreached(h, y) /\ ~(h = tick.buf /\ y = FirstRow) => Unreached(h, y)'
        BY <1>1, <1>2, <1>5, <3>1, <3>4, <3>5, Zenon DEF Unreached
      <4>2. \A x \in 1 .. W : fb'[tick.buf][FirstRow][x].src = PROGRAM_FN
        <5>1. fb'[tick.buf][FirstRow] = render(PROGRAM_FN)
          BY <3>1, <3>5, Zenon
        <5>2. \A x \in 1 .. W : render(PROGRAM_FN)[x].src = PROGRAM_FN
          BY <3>1, TypeFacts, Rendered, Zenon
        <5> QED BY <5>1, <5>2, Zenon
      <4>3. SourceInv'
        <5>1. ASSUME NEW h \in Halves, NEW y \in Rows
              PROVE  Unreached(h, y)' \/ \A x \in 1 .. W : fb'[h][y][x].src = PROGRAM_FN
          <6>1. CASE h = tick.buf /\ y = FirstRow
            BY <4>2, <6>1, Zenon
          <6>2. CASE ~(h = tick.buf /\ y = FirstRow)
            <7>1. fb'[h][y] = fb[h][y]
              BY <3>5, <6>2, Zenon
            <7>2. Unreached(h, y) \/ \A x \in 1 .. W : fb[h][y][x].src = PROGRAM_FN
              BY Zenon DEF SourceInv
            <7> QED BY <4>1, <6>2, <7>1, <7>2, Zenon
          <6> QED BY <6>1, <6>2, Zenon
        <5> QED BY <1>2, <5>1, Zenon DEF SourceInv
      <4>4. ValueInv'
        <5> SUFFICES ASSUME ~unseen, NEW h \in Halves, NEW y \in Rows \ Scroll[PROGRAM_FN]
                     PROVE  Unreached(h, y)' \/ Owed(h, y)' \/ fb'[h][y] = render(PROGRAM_FN)
          BY <1>2, <3>2, Zenon DEF ValueInv
        <5>1. CASE h = tick.buf /\ y = FirstRow
          BY <3>1, <3>5, <5>1, Zenon
        <5>2. CASE ~(h = tick.buf /\ y = FirstRow)
          <6>1. Unreached(h, y) \/ Owed(h, y) \/ fb[h][y] = render(PROGRAM_FN)
            BY Zenon DEF ValueInv
          <6>2. fb'[h][y] = fb[h][y]
            BY <3>5, <5>2, Zenon
          <6> QED BY <3>3, <4>1, <5>2, <6>1, <6>2, Zenon
        <5> QED BY <5>1, <5>2, Zenon
      <4>5. tick.buf \in Halves /\ tick.band \subseteq Rows
        BY TypeFacts, Zenon
      <4>6. BandInv'
        <5>1. unseen \/ \A y \in tick.band \ Scroll[PROGRAM_FN] : y \in tick.rows \/ fb[tick.buf][y] = render(PROGRAM_FN)
          BY <1>1, <3>1, Zenon DEF BandInv
        <5>2. ASSUME ~unseen, NEW y \in tick.band \ Scroll[PROGRAM_FN]
              PROVE  y \in tick'.rows \/ fb'[tick.buf][y] = render(PROGRAM_FN)
          <6>1. CASE y = FirstRow
            BY <3>1, <3>5, <6>1, Zenon
          <6>2. CASE y # FirstRow
            <7>1. fb'[tick.buf][y] = fb[tick.buf][y]
              BY <3>5, <4>5, <6>2, Zenon
            <7>2. y \in tick.rows => y \in tick'.rows
              BY <3>5, <6>2, Zenon
            <7> QED BY <5>1, <5>2, <7>1, <7>2, Zenon
          <6> QED BY <6>1, <6>2, Zenon
        <5> QED BY <1>2, <3>2, <3>4, <3>5, <5>2, Zenon DEF BandInv
      <4> QED BY <4>3, <4>4, <4>6, Zenon
    <3>6. CASE tick'.pc = "repaint" /\ fb' = fb /\ tick.rows = {}
      <4>1. \A h \in Halves, y \in Rows : Unreached(h, y) => Unreached(h, y)'
        BY <1>2, <1>5, <3>1, <3>4, <3>6, Zenon DEF Unreached
      <4>2. SourceInv'
        BY <1>2, <3>6, <4>1, Zenon DEF SourceInv
      <4>3. ValueInv'
        BY <1>2, <3>2, <3>3, <3>6, <4>1, Zenon DEF ValueInv
      <4>4. unseen \/ \A y \in tick.band \ Scroll[PROGRAM_FN] : fb[tick.buf][y] = render(PROGRAM_FN)
        BY <1>1, <3>1, <3>6, Zenon DEF BandInv
      <4>5. BandInv'
        BY <1>2, <3>2, <3>4, <3>6, <4>4, Zenon DEF BandInv
      <4> QED BY <4>2, <4>3, <4>5, Zenon
    <3> QED BY <3>5, <3>6, PaintEffect, Zenon
  <2> QED BY <2>1, <2>2, Zenon
<1> QED BY <1>6, <1>7, <1>8, Zenon

\* Paying one row takes only that row off what is owed.
LEMMA OneRowPaid ==
    ASSUME PanelTypeOK, NEW b \in Halves, REPAINT_LEFT[b] > 0,
           REPAINT_POS'[b] = REPAINT_POS[b] + 1, REPAINT_LEFT'[b] = REPAINT_LEFT[b] - 1,
           \A h \in Halves \ {b} : REPAINT_POS'[h] = REPAINT_POS[h] /\ REPAINT_LEFT'[h] = REPAINT_LEFT[h]
    PROVE  \A h \in Halves, y \in Rows : Owed(h, y) /\ ~(h = b /\ y = REPAINT_POS[b]) => Owed(h, y)'
<1>1. REPAINT_POS[b] \in 0 .. H /\ REPAINT_LEFT[b] \in 0 .. H /\ REPAINT_POS[b] + REPAINT_LEFT[b] = H
  BY Zenon DEF PanelTypeOK
<1>2. \A y \in Rows : y >= REPAINT_POS[b] /\ y # REPAINT_POS[b] => REPAINT_LEFT[b] - 1 > 0 /\ y >= REPAINT_POS[b] + 1
  BY <1>1, Canvas DEF Rows
<1>3. \A y \in Rows : Owed(b, y) /\ y # REPAINT_POS[b] => Owed(b, y)'
  BY <1>2, Zenon DEF Owed
<1>4. \A h \in Halves \ {b}, y \in Rows : Owed(h, y) => Owed(h, y)'
  BY Zenon DEF Owed
<1> QED BY <1>3, <1>4, Zenon

LEMMA RepaintCore == ASSUME PanelTypeOK, Core, TickRepaint PROVE Core'
<1> USE DEF Core
<1>1. /\ tick.pc = "repaint" /\ UNCHANGED <<progVars, valueVars, glass, active_buf, bank>>
  BY Zenon DEF TickRepaint
<1>2. /\ PROGRAM_FN' = PROGRAM_FN /\ PROGRAM_FULL_LEFT' = PROGRAM_FULL_LEFT /\ PROGRAM_PRIME_LEFT' = PROGRAM_PRIME_LEFT
      /\ PROGRAM_ACTIVE' = PROGRAM_ACTIVE /\ PROGRAM_PALETTE_DIRTY' = PROGRAM_PALETTE_DIRTY
      /\ VALUES' = VALUES /\ unseen' = unseen
  BY <1>1, Zenon DEF progVars, valueVars
<1>3. tick.pc \in {"scroll", "paint", "repaint"} /\ tick.pc \in {"scroll", "paint", "repaint", "swap"}
      /\ tick.pc \in {"paint", "repaint", "swap"}
  BY <1>1, Zenon
<1>4. tick'.pc \in {"repaint", "swap"} /\ tick'.pc \in {"scroll", "paint", "repaint", "swap"}
  BY RepaintEffect, Zenon
<1>5. tick'.pc # "scroll" /\ tick.pc # "scroll" /\ tick'.pc # "paint" /\ tick.pc # "paint"
  BY <1>1, <1>4
<1>6. StartInv'
  <2>1. /\ tick'.prog = tick.prog /\ tick'.full = tick.full /\ tick'.band = tick.band /\ tick'.scrolling = tick.scrolling
        /\ tick'.buf = tick.buf \/ tick'.buf = 1 - active_buf
    BY RepaintEffect, Zenon
  <2> QED BY <1>1, <1>2, <1>3, <1>4, <1>5, <2>1, DrawingStart, Zenon
<1>7. PaletteInv'
  BY <1>1, <1>2, <1>3, <1>4, RepaintEffect, DrawingPalette, Zenon
<1>8. SourceInv' /\ ValueInv' /\ BandInv'
  <2>1. CASE PROGRAM_FULL_LEFT = 2
    BY <1>2, <2>1, NothingReached, Zenon
  <2>2. CASE PROGRAM_FULL_LEFT # 2
    <3>1. /\ Drawing /\ PROGRAM_FULL_LEFT < 2 /\ tick.prog = PROGRAM_FN /\ PROGRAM_FN \in Programs
          /\ \/ PROGRAM_FULL_LEFT = 1 /\ tick.band = Rows
             \/ PROGRAM_FULL_LEFT = 0 /\ tick.buf = 1 - glass
      BY <1>3, <2>2, DrawingFacts, Zenon
    <3>2. render(PROGRAM_FN)' = render(PROGRAM_FN)
      BY <1>2, Zenon DEF render
    <3>3. Drawing' /\ tick'.full = tick.full /\ tick'.buf = tick.buf /\ tick'.band = tick.band
      BY <1>4, RepaintEffect, Zenon DEF Drawing
    <3>4. \A h \in Halves, y \in Rows : Unreached(h, y) <=> Unreached(h, y)'
      BY <1>2, <1>5, <3>1, <3>3, Zenon DEF Unreached
    <3>5. unseen \/ \A y \in tick.band \ Scroll[PROGRAM_FN] : fb[tick.buf][y] = render(PROGRAM_FN)
      BY <1>3, <1>5, <3>1, Zenon DEF BandInv
    <3>6. tick.buf \in Halves /\ tick.band \subseteq Rows /\ 1 - glass \in Halves
      BY TypeFacts, Zenon
    <3>7. CASE tick'.pc = "swap" /\ fb' = fb /\ REPAINT_POS' = REPAINT_POS /\ REPAINT_LEFT' = REPAINT_LEFT
      <4>1. SourceInv'
        BY <1>2, <3>4, <3>7, Zenon DEF SourceInv
      <4>2. ValueInv'
        BY <1>2, <3>4, <3>7, QuietValues, Zenon
      <4>3. BandInv'
        BY <1>2, <3>2, <3>3, <3>5, <3>7, Zenon DEF BandInv
      <4> QED BY <4>1, <4>2, <4>3, Zenon
    <3>8. CASE /\ tick'.pc = "repaint" /\ REPAINT_LEFT[1 - glass] > 0 /\ REPAINT_POS[1 - glass] \in Rows
               /\ REPAINT_POS'[1 - glass] = REPAINT_POS[1 - glass] + 1
               /\ REPAINT_LEFT'[1 - glass] = REPAINT_LEFT[1 - glass] - 1
               /\ \A h \in Halves \ {1 - glass} : REPAINT_POS'[h] = REPAINT_POS[h] /\ REPAINT_LEFT'[h] = REPAINT_LEFT[h]
               /\ \/ /\ fb' = fb
                     /\ in_scroll(REPAINT_POS[1 - glass]) \/ REPAINT_POS[1 - glass] \in tick.band
                  \/ /\ fb'[tick.buf][REPAINT_POS[1 - glass]] = render(tick.prog)
                     /\ \A h \in Halves, z \in Rows :
                           ~(h = tick.buf /\ z = REPAINT_POS[1 - glass]) => fb'[h][z] = fb[h][z]
      <4>1. PICK b : b = 1 - glass
        OBVIOUS
      <4>2. PICK r : r = REPAINT_POS[b]
        OBVIOUS
      <4>3. r \in Rows /\ b \in Halves
        BY <3>6, <3>8, <4>1, <4>2, Zenon
      <4>4. \A h \in Halves, y \in Rows : Owed(h, y) /\ ~(h = b /\ y = r) => Owed(h, y)'
        BY <3>8, <4>1, <4>2, <4>3, OneRowPaid, Zenon
      <4>5. \/ fb' = fb /\ (in_scroll(r) \/ r \in tick.band)
            \/ /\ fb'[tick.buf][r] = render(PROGRAM_FN)
               /\ \A h \in Halves, z \in Rows : ~(h = tick.buf /\ z = r) => fb'[h][z] = fb[h][z]
        BY <3>1, <3>8, <4>1, <4>2, Zenon
      <4>6. \A h \in Halves, y \in Rows : fb'[h][y] = fb[h][y] \/ fb'[h][y] = render(PROGRAM_FN)
        BY <4>5, Zenon
      <4>7. SourceInv'
        <5>1. \A x \in 1 .. W : render(PROGRAM_FN)[x].src = PROGRAM_FN
          BY <3>1, TypeFacts, Rendered, Zenon
        <5>2. ASSUME NEW h \in Halves, NEW y \in Rows
              PROVE  Unreached(h, y)' \/ \A x \in 1 .. W : fb'[h][y][x].src = PROGRAM_FN
          <6>1. CASE fb'[h][y] = fb[h][y]
            BY <3>4, <6>1, Zenon DEF SourceInv
          <6>2. CASE fb'[h][y] = render(PROGRAM_FN)
            BY <5>1, <6>2, Zenon
          <6> QED BY <4>6, <6>1, <6>2, Zenon
        <5> QED BY <1>2, <5>2, Zenon DEF SourceInv
      <4>8. BandInv'
        <5>1. unseen \/ \A y \in tick.band \ Scroll[PROGRAM_FN] : fb'[tick.buf][y] = render(PROGRAM_FN)
          <6>1. ASSUME NEW y \in tick.band \ Scroll[PROGRAM_FN], fb[tick.buf][y] = render(PROGRAM_FN)
                PROVE  fb'[tick.buf][y] = render(PROGRAM_FN)
            <7>1. fb'[tick.buf][y] = fb[tick.buf][y] \/ fb'[tick.buf][y] = render(PROGRAM_FN)
              BY <3>6, <4>6, Zenon
            <7> QED BY <6>1, <7>1, Zenon
          <6> QED BY <3>5, <6>1, Zenon
        <5> QED BY <1>2, <3>2, <3>3, <5>1, Zenon DEF BandInv
      <4>9. \* The row that is paid is current, or its half is still to be reached.
            ~unseen /\ r \notin Scroll[PROGRAM_FN] => Unreached(b, r) \/ fb'[b][r] = render(PROGRAM_FN)
        <5> SUFFICES ASSUME ~unseen, r \notin Scroll[PROGRAM_FN] PROVE Unreached(b, r) \/ fb'[b][r] = render(PROGRAM_FN)
          BY Zenon
        <5>1. CASE b = tick.buf
          <6>1. ~in_scroll(r)
            BY <3>1, Zenon DEF in_scroll
          <6>2. CASE fb' = fb /\ r \in tick.band
            BY <3>5, <5>1, <6>2, Zenon
          <6> QED BY <4>5, <5>1, <6>1, <6>2, Zenon
        <5>2. CASE b # tick.buf
          <6>1. PROGRAM_FULL_LEFT = 1
            BY <3>1, <4>1, <5>2, Zenon
          <6> QED BY <3>1, <5>2, <6>1, Zenon DEF Unreached
        <5> QED BY <5>1, <5>2, Zenon
      <4>10. ValueInv'
        <5> SUFFICES ASSUME ~unseen, NEW h \in Halves, NEW y \in Rows \ Scroll[PROGRAM_FN]
                     PROVE  Unreached(h, y)' \/ Owed(h, y)' \/ fb'[h][y] = render(PROGRAM_FN)
          BY <1>2, <3>2, Zenon DEF ValueInv
        <5>1. CASE h = b /\ y = r
          BY <3>4, <4>3, <4>9, <5>1, Zenon
        <5>2. CASE ~(h = b /\ y = r)
          <6>1. Unreached(h, y) \/ Owed(h, y) \/ fb[h][y] = render(PROGRAM_FN)
            BY Zenon DEF ValueInv
          <6> QED BY <3>4, <4>4, <4>6, <5>2, <6>1, Zenon
        <5> QED BY <5>1, <5>2, Zenon
      <4> QED BY <4>7, <4>8, <4>10, Zenon
    <3> QED BY <3>7, <3>8, RepaintEffect, Zenon
  <2> QED BY <2>1, <2>2, Zenon
<1> QED BY <1>6, <1>7, <1>8, Zenon

\* The swap displays the half that was drawn, which is where the driver
\* believes it to be.
LEMMA SwapCore == ASSUME PanelTypeOK, Core, TickSwap PROVE Core'
<1> USE DEF Core
<1>1. /\ tick.pc = "swap" /\ UNCHANGED <<progVars, repaintVars, valueVars, fb, bank>>
      /\ tick'.pc = "idle"
  BY IdleTick, Zenon DEF TickSwap
<1>2. /\ PROGRAM_FN' = PROGRAM_FN /\ PROGRAM_FULL_LEFT' = PROGRAM_FULL_LEFT /\ PROGRAM_PRIME_LEFT' = PROGRAM_PRIME_LEFT
      /\ PROGRAM_ACTIVE' = PROGRAM_ACTIVE /\ PROGRAM_PALETTE_DIRTY' = PROGRAM_PALETTE_DIRTY
      /\ VALUES' = VALUES /\ unseen' = unseen /\ REPAINT_POS' = REPAINT_POS /\ REPAINT_LEFT' = REPAINT_LEFT
  BY <1>1, Zenon DEF progVars, valueVars, repaintVars
<1>3. glass' = 1 - active_buf /\ active_buf' = 1 - active_buf /\ PROGRAM_ACTIVE
  BY Zenon DEF TickSwap, swap_buffers, StartInv
<1>4. /\ tick'.pc \notin {"scroll", "paint", "repaint", "swap"} /\ tick'.pc \notin {"palette", "clean", "count", "owe"}
      /\ tick'.pc \notin {"paint", "repaint", "swap"} /\ tick'.pc # "owe" /\ tick.pc \in {"scroll", "paint", "repaint", "swap"}
      /\ tick.pc # "scroll" /\ tick.pc # "paint" /\ tick'.pc # "clean"
  BY <1>1
<1>5. ~Drawing' /\ BandInv'
  BY <1>4, Zenon DEF Drawing, BandInv
<1>6. StartInv'
  BY <1>2, <1>3, <1>4, <1>5, Zenon DEF StartInv, Reading
<1>7. PaletteInv'
  <2>1. Palette[PROGRAM_FN] = "animated" /\ PROGRAM_FULL_LEFT = 0 => bank[glass'] = PROGRAM_FN
    <3> SUFFICES ASSUME Palette[PROGRAM_FN] = "animated", PROGRAM_FULL_LEFT = 0 PROVE bank[glass'] = PROGRAM_FN
      BY Zenon
    <3>1. PROGRAM_FULL_LEFT < 2
      OBVIOUS
    <3>2. Drawing
      BY <1>4, Zenon DEF Drawing
    <3>3. bank[1 - glass] = PROGRAM_FN
      BY <3>1, <3>2, Zenon DEF PaletteInv
    <3>4. glass = active_buf
      BY Zenon DEF StartInv
    <3> QED BY <1>3, <3>3, <3>4, Zenon
  <2>2. bank' = bank
    BY <1>1, Zenon
  <2> QED BY <1>1, <1>2, <1>4, <1>5, <2>1, <2>2 DEF PaletteInv, BothBanks
<1>8. SourceInv' /\ ValueInv'
  <2>1. CASE PROGRAM_FULL_LEFT = 2
    BY <1>2, <2>1, NothingReached, Zenon
  <2>2. CASE PROGRAM_FULL_LEFT # 2
    <3>1. /\ Drawing /\ PROGRAM_FULL_LEFT \in {0, 1} /\ tick.buf = glass'
      BY <1>3, <1>4, <2>2, DrawingFacts, Zenon
    <3>2. \A h \in Halves, y \in Rows : Unreached(h, y) <=> Unreached(h, y)'
      BY <1>2, <1>4, <1>5, <2>2, <3>1, Zenon DEF Unreached
    <3>3. fb' = fb
      BY <1>1, Zenon
    <3>4. SourceInv'
      BY <1>2, <3>2, <3>3, Zenon DEF SourceInv
    <3> QED BY <1>2, <3>2, <3>3, <3>4, QuietValues, Zenon
  <2> QED BY <2>1, <2>2, Zenon
<1> QED BY <1>5, <1>6, <1>7, <1>8, Zenon

-----------------------------------------------------------------------------
(* The theorems.                                                           *)

LEMMA PanelStep == ASSUME PanelInv, [PanelNext]_panelVars PROVE PanelInv'
<1>1. PanelTypeOK /\ PanelTypeOK' /\ (clean => Core)
  BY PanelStepTyped, Zenon DEF PanelInv, Core
<1>2. SUFFICES ASSUME clean' PROVE Core'
  BY <1>1, Zenon DEF PanelInv, Core
<1>3. CASE UNCHANGED panelVars
  <2>1. UNCHANGED <<progVars, repaintVars, valueVars, hub75Vars, tick>> /\ clean
    BY <1>2, <1>3, Zenon DEF panelVars, historyVars
  <2>2. StartInv' /\ PaletteInv'
    BY <1>1, <2>1, SameStart, SamePalette, Zenon DEF Core, progVars, hub75Vars
  <2>3. SourceInv' /\ ValueInv' /\ BandInv'
    BY <1>1, <2>1, SameRows, Zenon DEF Core, progVars, repaintVars, valueVars, hub75Vars
  <2> QED BY <2>2, <2>3, Zenon DEF Core
<1>4. CASE program_tick
  <2>1. clean
    BY <1>2, <1>4, Zenon DEF program_tick, TickBegins, TickPalette, TickClean, TickCount, TickOwe,
                             TickScroll, TickPaint, TickRepaint, TickSwap, historyVars
  <2> QED BY <1>1, <1>4, <2>1, BeginsCore, PaletteCore, CleanCore, CountCore, OweCore,
             ScrollCore, PaintCore, RepaintCore, SwapCore, Zenon DEF program_tick
<1>5. CASE bitmap_present_tick
  BY <1>1, <1>2, <1>5, Zenon DEF bitmap_present_tick, historyVars, Core, StartInv
<1>6. CASE StreamFrame
  BY <1>2, <1>6, Zenon DEF StreamFrame
<1>7. CASE Request
  <2>1. CASE \E k \in Keys, v \in Values : api_values_set(k, v)
    <3>1. clean
      BY <1>2, <2>1, Zenon DEF api_values_set
    <3> QED BY <1>1, <2>1, <3>1, ValuesCore, Zenon
  <2>2. CASE \E name \in Programs \cup {"none"} : api_program_on(name)
    BY <1>1, <1>2, <2>2, ProgramOnCore, Zenon
  <2>3. CASE api_program_off
    BY <1>2, <2>3, Zenon DEF api_program_off
  <2>4. CASE api_display_pattern
    BY <1>2, <2>4, Zenon DEF api_display_pattern
  <2>5. CASE api_dma_set
    <3>1. clean
      BY <1>2, <2>5, Zenon DEF api_dma_set
    <3> QED BY <1>1, <2>5, <3>1, DmaCore, Zenon
  <2>6. CASE \E name \in Programs \cup {"none", "missing"} : apply_layout(name)
    BY <1>2, <2>6, Zenon DEF apply_layout
  <2> QED BY <1>7, <2>1, <2>2, <2>3, <2>4, <2>5, <2>6, Zenon DEF Request
<1> QED BY <1>3, <1>4, <1>5, <1>6, <1>7, Zenon DEF PanelNext, MainLoop

\* The invariant holds in every reachable state.
THEOREM PanelInvariant == PanelSpec => []PanelInv
<1>1. PanelInit => PanelInv
  BY InitTyped, Zenon DEF PanelInit, PanelInv
<1>2. PanelInv /\ [PanelNext]_panelVars => PanelInv'
  BY PanelStep
<1> QED BY <1>1, <1>2, PTL DEF PanelSpec

LEMMA NothingOwed == PanelInv => NothingOwedIsCurrent
<1> SUFFICES ASSUME PanelInv, PROGRAM_ACTIVE, clean, tick.pc = "idle", ~unseen, PROGRAM_FULL_LEFT = 0,
                    \A h \in Halves : REPAINT_LEFT[h] = 0, NEW h \in Halves
             PROVE  Current(h)
  BY Zenon DEF NothingOwedIsCurrent
<1>1. PanelTypeOK /\ StartInv /\ SourceInv /\ ValueInv /\ PaletteInv
  BY Zenon DEF PanelInv
<1>2. ~Drawing /\ 0 # 1 /\ 0 # 2 /\ ~(0 > 0)
  BY DEF Drawing
<1>3. \A y \in Rows : ~Unreached(h, y) /\ ~Owed(h, y)
  BY <1>2, Zenon DEF Unreached, Owed
<1>4. \A y \in Rows \ Scroll[PROGRAM_FN] : fb[h][y] = render(PROGRAM_FN)
  BY <1>1, <1>3, Zenon DEF ValueInv
<1>5. Scroll[PROGRAM_FN] \subseteq Rows /\ Palette[PROGRAM_FN] \in {"none", "static", "animated"}
  BY <1>1, Registry, Zenon DEF StartInv
<1>6. \A y \in Scroll[PROGRAM_FN] : \A x \in 1 .. W : fb[h][y][x].src = PROGRAM_FN
  BY <1>1, <1>3, <1>5, Zenon DEF SourceInv
<1>7. \/ h # glass /\ Palette[PROGRAM_FN] = "animated"
      \/ bank[h] = IF Palette[PROGRAM_FN] = "none" THEN "default" ELSE PROGRAM_FN
  <2>1. CASE Palette[PROGRAM_FN] = "none"
    <3>1. bank = BothBanks("default")
      BY <1>1, <2>1, Zenon DEF PaletteInv
    <3> QED BY <2>1, <3>1, Zenon DEF BothBanks
  <2>2. CASE Palette[PROGRAM_FN] = "static"
    <3>1. "static" # "none"
      OBVIOUS
    <3>2. bank = BothBanks(PROGRAM_FN)
      BY <1>1, <1>2, <2>2, Zenon DEF PaletteInv
    <3> QED BY <2>2, <3>1, <3>2, Zenon DEF BothBanks
  <2>3. CASE Palette[PROGRAM_FN] = "animated"
    <3>1. "animated" # "none"
      OBVIOUS
    <3>2. bank[glass] = PROGRAM_FN
      BY <1>1, <1>2, <2>3, Zenon DEF PaletteInv
    <3> QED BY <2>3, <3>1, <3>2, Zenon
  <2> QED BY <1>5, <2>1, <2>2, <2>3, Zenon
<1> QED BY <1>4, <1>6, <1>7, Zenon DEF Current

\* When nothing is owed any more, both halves show the running program from
\* the current values and in its own colours, wherever the value pushes and the
\* start fell between the rows of the frames that got it there.
THEOREM NothingOwedShowsProgram == PanelSpec => []NothingOwedIsCurrent
BY PanelInvariant, NothingOwed, PTL
=============================================================================
