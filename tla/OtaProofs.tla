----------------------------- MODULE OtaProofs -----------------------------
(* Theorems of Ota for every flash geometry, set of files, server and      *)
(* number of requests and faults.                                          *)
EXTENDS Ota, SequenceTheorems, TLAPS

-----------------------------------------------------------------------------
(* The inductive invariant.                                                *)

\* The first page of the sector of page a.
SectorBase(a) == a - (a % SECTOR)

\* The staging buffer has room for a block whenever one is awaited, and only a
\* heard session is acknowledged.
StageInv ==
    /\ flush = 0 => Len(LOADER.stage) < SECTOR
    /\ flush > 0 => LOADER.tid # 0
\* Pages are programmed only in a sector the policy allows.
FlushInv == flush >= 2 => region_is_writable(FlushAddr, SECTOR)
\* So is what the main loop has asked the chip for; an erase starts at a sector.
ChipInv ==
    /\ chip.busy => chip.op # "none"
    /\ chip.op # "none" => job_pending /\ region_is_writable(SectorBase(chip.addr), SECTOR)
    /\ chip.op = "erase" => chip.addr % SECTOR = 0
    /\ chip.op = "program" => JOB.kind # "Erase"
JobInv == JOB.kind = "Erase" => (JOB.addr + JOB.cursor) % SECTOR = 0
\* Either the golden image is whole, or the factory image was never touched.
GoldenWhole == \A p \in GoldenPages : flash[p] = Fixed(p)
FallbackInv ==
    /\ golden_present => GoldenWhole
    /\ ~golden_present => AppHolds(Factory)

OtaInv ==
    /\ OtaTypeOK /\ StageInv /\ FlushInv /\ ChipInv /\ JobInv /\ FallbackInv
    /\ running # "none"

-----------------------------------------------------------------------------
(* Sectors and regions.                                                    *)

\* The constants are numbers.
LEMMA Geometry ==
    /\ SECTOR \in Nat \ {0} /\ APP_LEN \in Nat \ {0} /\ FLASH_SIZE \in Nat
    /\ GOLDEN_BASE \in Nat /\ GOLDEN_LEN \in Nat \ {0}
    /\ MARGINAL_BASE \in Nat /\ MARGINAL_LEN \in Nat
    /\ SCRATCH_BASE \in Nat /\ SCRATCH_LEN \in Nat
    /\ APP_LEN <= GOLDEN_BASE /\ GOLDEN_BASE + GOLDEN_LEN <= MARGINAL_BASE
    /\ MARGINAL_BASE + MARGINAL_LEN <= SCRATCH_BASE /\ SCRATCH_BASE + SCRATCH_LEN <= FLASH_SIZE
    /\ NetCap \in Nat /\ MaxRequests \in Nat /\ MaxFaults \in Nat
BY OtaAssumption

\* A page and the sector it lies in.
LEMMA SectorFacts ==
    ASSUME NEW a \in Nat
    PROVE  /\ a % SECTOR \in 0 .. SECTOR - 1
           /\ SectorBase(a) \in Nat /\ a \in SectorOf(SectorBase(a))
           /\ a % SECTOR = 0 => SectorBase(a) = a
<1>1. SECTOR \in Nat \ {0}
  BY Geometry
<1>2. a % SECTOR \in 0 .. SECTOR - 1 /\ a % SECTOR <= a
  BY <1>1
<1> QED BY <1>1, <1>2 DEF SectorBase, SectorOf

\* Division with remainder.
LEMMA Quotient ==
    ASSUME NEW n \in Nat \ {0}, NEW a \in Nat
    PROVE  a = n * (a \div n) + (a % n) /\ a \div n \in Nat /\ a % n \in 0 .. n - 1
OBVIOUS

\* No multiple of n but 0 is within n of 0.
LEMMA SmallMultiple ==
    ASSUME NEW n \in Nat \ {0}, NEW d \in Int, n * d \in (1 - n) .. 0
    PROVE  d = 0
<1>1. CASE d >= 1
  <2>1. n * d >= n
    BY <1>1
  <2> QED BY <2>1
<1>2. CASE d <= 0 - 1
  <2>1. n * d <= 0 - n
    BY <1>2
  <2> QED BY <2>1
<1> QED BY <1>1, <1>2

\* The next sector starts at a sector's end.
LEMMA NextSector ==
    ASSUME NEW n \in Nat \ {0}, NEW a \in Nat, a % n = 0
    PROVE  (a + n) % n = 0
<1>1. a = n * (a \div n) /\ a \div n \in Nat
  BY Quotient
<1>2. PICK b \in Nat : b = a + n
  OBVIOUS
<1>3. b = n * (b \div n) + (b % n) /\ b \div n \in Nat /\ b % n \in 0 .. n - 1
  BY Quotient
<1>4. PICK q \in Nat, r \in Nat : q = a \div n /\ r = b \div n
  BY <1>1, <1>3
<1>5. PICK d \in Int : d = r - q - 1
  OBVIOUS
<1>6. n * d = n * r - n * q - n
  BY <1>5
<1>7. n * d = 0 - (b % n)
  BY <1>1, <1>2, <1>3, <1>4, <1>6
<1>8. d = 0
  BY <1>7, <1>3, SmallMultiple
<1> QED BY <1>7, <1>8, <1>2, <1>3

\* A page that may be written at all.
MayWrite(p) == (p \in AppPages /\ golden_present) \/ p \in ScratchPages

\* The policy lets through the application region, with a golden image to fall
\* back on, and scratch.
LEMMA WritablePages ==
    ASSUME NEW a \in Nat, NEW n \in Nat, region_is_writable(a, n), NEW p \in a .. a + n - 1
    PROVE  p \in Pages /\ MayWrite(p)
BY Geometry DEF region_is_writable, MayWrite, Pages, AppPages, ScratchPages

\* The regions are apart.
LEMMA RegionsApart ==
    /\ GOLDEN_BASE \in GoldenPages /\ GoldenPages \subseteq Pages /\ AppPages \subseteq Pages
    /\ \A p \in GoldenPages : p \notin AppPages /\ p \notin ScratchPages
    /\ \A p \in AppPages : p \notin ScratchPages
BY Geometry DEF GoldenPages, AppPages, ScratchPages, Pages

\* What a file is in flash.
LEMMA FileFacts ==
    /\ \A f \in Files : PagesOf(f) \in Nat
    /\ \A f \in Bitstreams : f \in Files /\ PagesOf(f) # 0
    /\ \A f \in Files, k \in Nat : Block(f, k) \in Content /\ Block(f, k) \notin {Blank, Garbage}
    /\ Factory \in Bitstreams /\ PagesOf(Factory) <= APP_LEN
    /\ "none" \notin Bitstreams /\ "golden" \notin Bitstreams /\ "broken" \notin Bitstreams
    /\ Blank \in Content /\ Garbage \in Content /\ SelfTestPage \in Content
    /\ \A a \in Nat : Fixed(a) \in Content /\ Fixed(a) # Blank
<1>1. \A f \in Files : Blocks[f] \in Nat \ {0}
  BY OtaAssumption
<1>2. \A f \in Files : PagesOf(f) \in Nat
  BY <1>1 DEF PagesOf
<1>3. \A f \in Bitstreams : f \in Files /\ PagesOf(f) # 0
  BY <1>1, OtaAssumption DEF PagesOf
<1>4. \A f \in Files : f \notin {"blank", "garbage", "selftest", "fixed", "golden", "none", "broken"}
  BY OtaAssumption
<1>5. \A f \in Files, k \in Nat : Block(f, k) \in Content /\ Block(f, k) \notin {Blank, Garbage}
  BY <1>4 DEF Block, Content, Blank, Garbage
<1>6. Factory \in Bitstreams /\ PagesOf(Factory) <= APP_LEN
  BY <1>1, OtaAssumption DEF PagesOf
<1>7. "none" \notin Bitstreams /\ "golden" \notin Bitstreams /\ "broken" \notin Bitstreams
  BY <1>3, <1>4
<1>8. /\ Blank \in Content /\ Garbage \in Content /\ SelfTestPage \in Content
      /\ \A a \in Nat : Fixed(a) \in Content /\ Fixed(a) # Blank
  BY DEF Blank, Garbage, SelfTestPage, Content, Fixed
<1> QED BY <1>2, <1>3, <1>5, <1>6, <1>7, <1>8

-----------------------------------------------------------------------------
(* What one step may do to the flash.                                      *)

\* Flash fl is what the flash may become in one step: only pages the policy
\* allows differ, and a page that held something is blank or garbage now.
MayBecome(fl) ==
    /\ fl \in [Pages -> Content]
    /\ \A p \in Pages : \/ fl[p] = flash[p]
                        \/ MayWrite(p) /\ (flash[p] = Blank \/ fl[p] \in {Blank, Garbage})

\* An erase of a sector the policy allows.
LEMMA EraseAllowed ==
    ASSUME flash \in [Pages -> Content], NEW a \in Nat, region_is_writable(a, SECTOR)
    PROVE  MayBecome(Erased(flash, a))
<1>1. \A p \in SectorOf(a) : p \in Pages /\ MayWrite(p)
  BY WritablePages, Geometry DEF SectorOf
<1> QED BY <1>1, FileFacts, Zenon DEF MayBecome, Erased

\* A program of one page the policy allows, whether it takes or not.
LEMMA ProgramAllowed ==
    ASSUME flash \in [Pages -> Content], NEW a \in Pages, MayWrite(a), NEW c \in Content
    PROVE  MayBecome(Programmed(flash, a, c)) /\ MayBecome([flash EXCEPT ![a] = Garbage])
<1>1. PICK v \in Content : /\ v = IF flash[a] = Blank THEN c ELSE IF flash[a] = c THEN c ELSE Garbage
                           /\ flash[a] = Blank \/ v = Garbage \/ v = flash[a]
  BY FileFacts, Zenon
<1>2. Programmed(flash, a, c) = [flash EXCEPT ![a] = v]
  BY <1>1, Zenon DEF Programmed
<1>3. MayBecome([flash EXCEPT ![a] = v])
  BY <1>1, Zenon DEF MayBecome
<1>4. MayBecome([flash EXCEPT ![a] = Garbage])
  BY FileFacts, Zenon DEF MayBecome
<1> QED BY <1>2, <1>3, <1>4, Zenon

\* The sector the loader flushes to is an address.
LEMMA FlushAddress == OtaTypeOK => FlushAddr \in Nat
<1>1. OtaTypeOK => LOADER.sectors \in Nat
  BY DEF OtaTypeOK, Loaders
<1>2. \A m, n \in Nat : m * n \in Nat
  OBVIOUS
<1> QED BY <1>1, <1>2, Geometry DEF FlushAddr

\* The page or the sector the main loop has asked the chip for.
LEMMA ChipPages ==
    ASSUME OtaTypeOK, ChipInv, chip.op # "none"
    PROVE  /\ chip.addr \in Pages /\ MayWrite(chip.addr)
           /\ \A p \in SectorOf(SectorBase(chip.addr)) : p \in Pages /\ MayWrite(p)
           /\ chip.op = "erase" => region_is_writable(chip.addr, SECTOR)
<1>1. chip.addr \in Nat
  BY DEF OtaTypeOK, ChipOps
<1>2. region_is_writable(SectorBase(chip.addr), SECTOR) /\ (chip.op = "erase" => chip.addr % SECTOR = 0)
  BY DEF ChipInv
<1>3. /\ SectorBase(chip.addr) \in Nat /\ chip.addr \in SectorOf(SectorBase(chip.addr))
      /\ chip.addr % SECTOR = 0 => SectorBase(chip.addr) = chip.addr
  BY <1>1, SectorFacts
<1>4. \A p \in SectorOf(SectorBase(chip.addr)) : p \in Pages /\ MayWrite(p)
  BY <1>2, <1>3, WritablePages, Geometry DEF SectorOf
<1> QED BY <1>2, <1>3, <1>4, Zenon

\* What the main loop's operation does when it completes.
LEMMA ChipAllowed ==
    ASSUME OtaTypeOK, ChipInv
    PROVE  MayBecome(ChipDone(flash))
<1>1. flash \in [Pages -> Content] /\ chip.addr \in Nat
  BY DEF OtaTypeOK, ChipOps
<1>2. CASE chip.busy /\ chip.op = "erase"
  <2>1. ChipDone(flash) = Erased(flash, chip.addr)
    BY <1>2 DEF ChipDone
  <2> QED BY <2>1, <1>1, <1>2, ChipPages, EraseAllowed
<1>3. CASE chip.busy /\ chip.op = "program"
  <2>1. ChipDone(flash) = Programmed(flash, chip.addr, SelfTestPage)
    BY <1>3 DEF ChipDone
  <2> QED BY <2>1, <1>1, <1>3, ChipPages, ProgramAllowed, FileFacts
<1>4. CASE ~(chip.busy /\ chip.op = "erase") /\ ~(chip.busy /\ chip.op = "program")
  <2>1. ChipDone(flash) = flash
    BY <1>4 DEF ChipDone
  <2> QED BY <2>1, <1>1 DEF MayBecome
<1> QED BY <1>2, <1>3, <1>4

\* Power that goes away in the middle of an erase or a program.
LEMMA TornAllowed ==
    ASSUME OtaTypeOK, ChipInv, flush > 0 => region_is_writable(FlushAddr, SECTOR)
    PROVE  MayBecome([p \in Pages |-> IF p \in TornPages THEN Garbage ELSE flash[p]])
<1>1. chip.busy => \A p \in SectorOf(chip.addr - (chip.addr % SECTOR)) : MayWrite(p)
  BY ChipPages DEF ChipInv, SectorBase
<1>2. flush > 0 => \A p \in SectorOf(FlushAddr) : MayWrite(p)
  BY FlushAddress, WritablePages, Geometry DEF SectorOf
<1>3. \A p \in TornPages : MayWrite(p)
  BY <1>1, <1>2, Zenon DEF TornPages
<1>4. flash \in [Pages -> Content]
  BY DEF OtaTypeOK
<1> QED BY <1>3, <1>4, FileFacts, Zenon DEF MayBecome

\* The erase of a flush, or the operation of the main loop it waits for.
LEMMA FlushEraseEffect == OtaInv /\ FlushErase => MayBecome(flash')
<1> SUFFICES ASSUME OtaInv, FlushErase PROVE MayBecome(flash')
  OBVIOUS
<1>1. OtaTypeOK /\ ChipInv /\ flash \in [Pages -> Content]
  BY DEF OtaInv, OtaTypeOK
<1>2. CASE UNCHANGED flash
  BY <1>1, <1>2 DEF MayBecome
<1>3. CASE /\ region_is_writable(FlushAddr, SECTOR)
           /\ flash' = IF chip.busy THEN ChipDone(flash) ELSE Erased(flash, FlushAddr)
  BY <1>1, <1>3, ChipAllowed, EraseAllowed, FlushAddress
<1> QED BY <1>2, <1>3, Zenon DEF FlushErase

\* The programming of one page of a flush.
LEMMA FlushPageEffect == OtaInv /\ FlushPage => MayBecome(flash')
<1> SUFFICES ASSUME OtaInv, FlushPage PROVE MayBecome(flash')
  OBVIOUS
<1>1. OtaTypeOK /\ flash \in [Pages -> Content] /\ flush \in Nat /\ LOADER.stage \in Seq(Content)
  BY Geometry DEF OtaInv, OtaTypeOK, Loaders
<1>2. CASE UNCHANGED flash
  BY <1>1, <1>2 DEF MayBecome
<1>3. flush \in 2 .. SECTOR + 1 /\ region_is_writable(FlushAddr, SECTOR)
  BY Geometry DEF FlushPage, OtaInv, FlushInv
<1>4. PICK a \in Nat : a = FlushAddr + flush - 2
  BY <1>1, <1>3, FlushAddress
<1>5. a \in FlushAddr .. FlushAddr + SECTOR - 1
  BY <1>1, <1>3, <1>4, FlushAddress, Geometry
<1>6. a \in Pages /\ MayWrite(a)
  BY <1>1, <1>3, <1>5, FlushAddress, WritablePages, Geometry
<1>7. StagePage(flush - 1) \in Content
  BY <1>1, <1>3, Geometry, FileFacts DEF StagePage
<1>8. CASE flash' \in {Programmed(flash, a, StagePage(flush - 1)), [flash EXCEPT ![a] = Garbage]}
  <2>1. /\ MayBecome(Programmed(flash, a, StagePage(flush - 1)))
        /\ MayBecome([flash EXCEPT ![a] = Garbage])
    BY <1>1, <1>6, <1>7, ProgramAllowed
  <2> QED BY <1>8, <2>1, Zenon
<1> QED BY <1>2, <1>4, <1>8, Zenon DEF FlushPage

\* Power comes back over the flash as it was, or with the torn pages.
LEMMA PowerCycleEffect == OtaInv /\ PowerCycle => MayBecome(flash')
<1> SUFFICES ASSUME OtaInv, PowerCycle PROVE MayBecome(flash')
  OBVIOUS
<1>1. OtaTypeOK /\ ChipInv /\ flash \in [Pages -> Content]
  BY DEF OtaInv, OtaTypeOK
<1>2. CASE UNCHANGED flash
  BY <1>1, <1>2 DEF MayBecome
<1>3. CASE /\ flush > 0 => region_is_writable(FlushAddr, SECTOR)
           /\ flash' = [p \in Pages |-> IF p \in TornPages THEN Garbage ELSE flash[p]]
  BY <1>1, <1>3, TornAllowed
<1> QED BY <1>2, <1>3, Zenon DEF PowerCycle

\* No other step changes the flash, nor what the FPGA runs.
LEMMA OtherSteps ==
    OtaNext => \/ FlushErase \/ FlushPage \/ TickEnds \/ PowerCycle
               \/ UNCHANGED <<flash, running>>
<1> SUFFICES ASSUME OtaNext
             PROVE  \/ FlushErase \/ FlushPage \/ TickEnds \/ PowerCycle
                    \/ flash' = flash /\ running' = running
  OBVIOUS
<1>1. CASE \E s \in Sessions : ServerSends(s) \/ ServerGivesUp(s)
  BY <1>1, Zenon DEF ServerSends, ServerGivesUp, flashVars
<1>2. CASE \E m \in net : LosePacket(m)
  BY <1>2, Zenon DEF LosePacket, flashVars
<1>3. CASE DeadlinePasses
  BY <1>3, Zenon DEF DeadlinePasses, flashVars
<1>4. CASE SendRrq \/ PollTimeout \/ FlushVerify
  BY <1>4, Zenon DEF SendRrq, PollTimeout, FlushVerify, flashVars
<1>5. CASE \E m \in net : PollError(m) \/ PollDrop(m) \/ PollBlock(m)
  BY <1>5, Zenon DEF PollError, PollDrop, PollBlock, flashVars
<1>6. CASE TickBegins \/ TickDone \/ reboot_tick
  BY <1>6, Zenon DEF TickBegins, TickDone, reboot_tick, flashVars
<1>7. CASE \E kind \in {"Erase", "SelfTest"}, addr \in Pages, len \in 1 .. FLASH_SIZE : queue(kind, addr, len)
  BY <1>7, Zenon DEF queue, flashVars
<1>8. CASE \E f \in Files : api_flash_bitstream_post(f)
  BY <1>8, Zenon DEF api_flash_bitstream_post, flashVars
<1> QED BY <1>1, <1>2, <1>3, <1>4, <1>5, <1>6, <1>7, <1>8, Zenon DEF OtaNext, LoaderNext, JobNext

\* Every step keeps to what the policy allows.
LEMMA FlashEffect == OtaInv /\ [OtaNext]_otaVars => MayBecome(flash')
<1> SUFFICES ASSUME OtaInv, [OtaNext]_otaVars PROVE MayBecome(flash')
  OBVIOUS
<1>1. OtaTypeOK /\ ChipInv /\ flash \in [Pages -> Content]
  BY DEF OtaInv, OtaTypeOK
<1>2. CASE UNCHANGED flash
  BY <1>1, <1>2 DEF MayBecome
<1>3. CASE TickEnds
  BY <1>1, <1>3, ChipAllowed, Zenon DEF TickEnds
<1> QED BY <1>2, <1>3, FlushEraseEffect, FlushPageEffect, PowerCycleEffect, OtherSteps, Zenon DEF otaVars

\* Hence the policy stays what it was, and so does the image to fall back on.
LEMMA PolicyKept ==
    ASSUME FallbackInv, MayBecome(flash')
    PROVE  /\ golden_present' = golden_present
           /\ \A p \in Pages : ~MayWrite(p) => flash'[p] = flash[p]
           /\ \A a, n \in Nat : region_is_writable(a, n)' = region_is_writable(a, n)
           /\ FallbackInv'
<1>1. \A p \in Pages : ~MayWrite(p) => flash'[p] = flash[p]
  BY Zenon DEF MayBecome
<1>2. \A p \in GoldenPages : p \in Pages /\ flash'[p] = flash[p]
  BY <1>1, RegionsApart, Zenon DEF MayWrite
<1>3. golden_present' = golden_present
  BY <1>2, RegionsApart, Zenon DEF golden_present
<1>4. \A a, n \in Nat : region_is_writable(a, n)' = region_is_writable(a, n)
  BY <1>3, Zenon DEF region_is_writable
<1>5. GoldenWhole => GoldenWhole'
  BY <1>2, Zenon DEF GoldenWhole
<1>6. ASSUME ~golden_present, AppHolds(Factory) PROVE AppHolds(Factory)'
  <2>1. \A p \in AppPages : flash'[p] = flash[p]
    BY <1>1, <1>6, RegionsApart, Zenon DEF MayWrite
  <2>2. \A k \in 1 .. PagesOf(Factory) : k - 1 \in AppPages
    BY FileFacts, Geometry DEF AppPages
  <2> QED BY <1>6, <2>1, <2>2, Zenon DEF AppHolds
<1> QED BY <1>1, <1>3, <1>4, <1>5, <1>6, Zenon DEF FallbackInv

-----------------------------------------------------------------------------
(* The invariant is inductive, one lemma per part of the state.            *)

\* The loader and where the interrupt is in its flush.
LoaderInv ==
    /\ LOADER \in Loaders /\ Len(LOADER.stage) <= SECTOR
    /\ expired \in BOOLEAN /\ flush \in 0 .. SECTOR + 2
    /\ StageInv /\ FlushInv
\* The background job and the chip.
BackgroundInv == JOB \in Jobs /\ chip \in ChipOps /\ ChipInv /\ JobInv
\* The TFTP server, the network and the counters.
WorldInv ==
    /\ session \in [Sessions -> [file : Files, cur : Nat]]
    /\ net \subseteq [sess : Sessions, blk : Nat]
    /\ requests \in 0 .. MaxRequests /\ faults \in 0 .. MaxFaults /\ clean \in BOOLEAN

\* The invariant by parts.
LEMMA OtaInvParts ==
    OtaInv <=> /\ LoaderInv /\ BackgroundInv /\ WorldInv /\ FallbackInv
               /\ flash \in [Pages -> Content]
               /\ running \in Bitstreams \cup {"golden", "none"} /\ running # "none"
BY Zenon DEF OtaInv, OtaTypeOK, LoaderInv, BackgroundInv, WorldInv

\* A loader that is not transferring has an empty staging buffer.
LEMMA IdleLoaderFacts == IdleLoader \in Loaders /\ IdleLoader.stage = <<>> /\ Len(IdleLoader.stage) = 0
<1>1. Factory \in Files /\ MaxRequests \in Nat /\ <<>> \in Seq(Content) /\ Len(<<>>) = 0
  BY FileFacts, Geometry
<1>2. IdleLoader \in Loaders
  BY <1>1 DEF IdleLoader, Loaders
<1>3. IdleLoader.stage = <<>>
  BY DEF IdleLoader
<1> QED BY <1>1, <1>2, <1>3, Zenon

\* Nor has one that starts, is done or has failed.
LEMMA RestingLoader ==
    ASSUME NEW f \in Files, NEW st \in {"SendRrq", "Done", "Failed"}
    PROVE  /\ [IdleLoader EXCEPT !.state = st, !.file = f] \in Loaders
           /\ [IdleLoader EXCEPT !.state = st, !.file = f].stage = <<>>
           /\ [IdleLoader EXCEPT !.state = st, !.file = f, !.block = 1] \in Loaders
           /\ [IdleLoader EXCEPT !.state = st, !.file = f, !.block = 1].stage = <<>>
<1>1. st \in {"Idle", "SendRrq", "WaitData", "Done", "Failed"} /\ 1 \in Nat
  OBVIOUS
<1>2. IdleLoader \in Loaders /\ IdleLoader.stage = <<>>
  BY IdleLoaderFacts
<1>3. /\ [IdleLoader EXCEPT !.state = st, !.file = f, !.block = 1] \in Loaders
      /\ [IdleLoader EXCEPT !.state = st, !.file = f] \in Loaders
  BY <1>1, <1>2, Zenon DEF Loaders
<1>4. /\ [IdleLoader EXCEPT !.state = st, !.file = f, !.block = 1].stage = IdleLoader.stage
      /\ [IdleLoader EXCEPT !.state = st, !.file = f].stage = IdleLoader.stage
  BY <1>2 DEF Loaders
<1> QED BY <1>2, <1>3, <1>4, Zenon

\* After a transfer has failed.
LEMMA FailsResult ==
    ASSUME LOADER \in Loaders, Fails PROVE LOADER' \in Loaders /\ LOADER'.stage = <<>>
<1>1. LOADER.file \in Files
  BY DEF Loaders
<1>2. /\ [IdleLoader EXCEPT !.state = "Failed", !.file = LOADER.file] \in Loaders
      /\ [IdleLoader EXCEPT !.state = "Failed", !.file = LOADER.file].stage = <<>>
  BY <1>1, RestingLoader
<1> QED BY <1>2, Zenon DEF Fails

\* After a block has been acknowledged.
LEMMA AcknowledgeResult ==
    ASSUME NEW L \in Loaders, L.tid # 0, Len(L.stage) < SECTOR, Acknowledge(L),
           session \in [Sessions -> [file : Files, cur : Nat]]
    PROVE  /\ LOADER' \in Loaders /\ Len(LOADER'.stage) < SECTOR /\ expired' \in BOOLEAN
           /\ session' \in [Sessions -> [file : Files, cur : Nat]]
<1>1. /\ L.tid \in Sessions /\ L.file \in Files /\ L.block \in Nat /\ L.last \in BOOLEAN
      /\ L.stage \in Seq(Content)
  BY Geometry DEF Loaders, Sessions
<1>2. ASSUME L.last PROVE LOADER' \in Loaders /\ Len(LOADER'.stage) < SECTOR
  <2>1. /\ [IdleLoader EXCEPT !.state = "Done", !.file = L.file] \in Loaders
        /\ [IdleLoader EXCEPT !.state = "Done", !.file = L.file].stage = <<>>
    BY <1>1, RestingLoader
  <2>2. LOADER' \in Loaders /\ LOADER'.stage = <<>>
    BY <1>2, <2>1, Zenon DEF Acknowledge
  <2>3. Len(LOADER'.stage) < SECTOR
    BY <2>2, Geometry
  <2> QED BY <2>2, <2>3
<1>3. ASSUME ~L.last PROVE LOADER' \in Loaders /\ Len(LOADER'.stage) < SECTOR
  <2>1. L.block + 1 \in Nat
    BY <1>1
  <2>2. LOADER' = [L EXCEPT !.block = L.block + 1]
    BY <1>3, Zenon DEF Acknowledge
  <2>3. [L EXCEPT !.block = L.block + 1] \in Loaders
    BY <2>1, Zenon DEF Loaders
  <2>4. [L EXCEPT !.block = L.block + 1].stage = L.stage
    BY DEF Loaders
  <2> QED BY <2>2, <2>3, <2>4, Zenon
<1>4. session' \in [Sessions -> [file : Files, cur : Nat]]
  <2>1. session[L.tid].cur + 1 \in Nat
    BY <1>1
  <2> QED BY <1>1, <2>1 DEF Acknowledge
<1>5. expired' \in BOOLEAN
  BY DEF Acknowledge
<1> QED BY <1>2, <1>3, <1>4, <1>5

\* A step that leaves the loader alone keeps its invariant.
LEMMA LoaderStays ==
    ASSUME OtaInv, LOADER' = LOADER, flush' = flush, expired' \in BOOLEAN,
           MayBecome(flash')
    PROVE  LoaderInv'
<1>1. LoaderInv /\ FallbackInv /\ FlushAddr \in Nat
  BY OtaInvParts, FlushAddress DEF OtaInv
<1>2. FlushAddr' = FlushAddr /\ region_is_writable(FlushAddr, SECTOR)' = region_is_writable(FlushAddr, SECTOR)
  BY <1>1, PolicyKept, Geometry DEF FlushAddr
<1> QED BY <1>1, <1>2, Zenon DEF LoaderInv, StageInv, FlushInv

\* So does one that ends outside a flush, with room for a block.
LEMMA LoaderRests ==
    ASSUME LOADER' \in Loaders, Len(LOADER'.stage) < SECTOR, flush' = 0, expired' \in BOOLEAN
    PROVE  LoaderInv'
<1>1. LOADER'.stage \in Seq(Content) /\ Len(LOADER'.stage) \in Nat
  BY DEF Loaders
<1> QED BY <1>1, Geometry DEF LoaderInv, StageInv, FlushInv

\* In particular one that fails, ...
LEMMA LoaderFails ==
    ASSUME OtaInv, Fails, flush' = 0, expired' \in BOOLEAN
    PROVE  LoaderInv'
<1>1. LOADER' \in Loaders /\ LOADER'.stage = <<>>
  BY FailsResult DEF OtaInv, OtaTypeOK
<1>2. Len(LOADER'.stage) < SECTOR
  BY <1>1, Geometry
<1> QED BY <1>1, <1>2, LoaderRests

\* ... and one that begins.
LEMMA LoaderBegins ==
    ASSUME NEW f \in Files, StartLoader(f), flush' = 0
    PROVE  LoaderInv'
<1>1. /\ [IdleLoader EXCEPT !.state = "SendRrq", !.file = f, !.block = 1] \in Loaders
      /\ [IdleLoader EXCEPT !.state = "SendRrq", !.file = f, !.block = 1].stage = <<>>
  BY RestingLoader
<1>2. LOADER' \in Loaders /\ LOADER'.stage = <<>> /\ expired' = FALSE
  BY <1>1, Zenon DEF StartLoader
<1>3. Len(LOADER'.stage) < SECTOR
  BY <1>2, Geometry
<1> QED BY <1>2, <1>3, LoaderRests

\* poll(), SendRrq.
LEMMA LoaderInvSendRrq ==
    ASSUME OtaInv, SendRrq PROVE LoaderInv'
<1>1. LOADER \in Loaders /\ flush = 0 /\ Len(LOADER.stage) < SECTOR
  BY DEF OtaInv, OtaTypeOK, StageInv, SendRrq, Isr
<1>2. LOADER' \in Loaders
  BY <1>1, Zenon DEF SendRrq, Loaders
<1>3. LOADER'.stage = LOADER.stage
  BY <1>1 DEF SendRrq, Loaders
<1>4. flush' = 0 /\ expired' = FALSE
  BY <1>1, Zenon DEF SendRrq
<1> QED BY <1>1, <1>2, <1>3, <1>4, LoaderRests

\* What a DATA packet carries: one page or nothing.
LEMMA PayloadFacts ==
    ASSUME NEW f \in Files, NEW k \in Nat
    PROVE  Payload(f, k) \in Seq(Content) /\ Len(Payload(f, k)) \in {0, 1}
<1>1. Block(f, k) \in Content
  BY FileFacts
<1>2. <<Block(f, k)>> \in Seq(Content) /\ Len(<<Block(f, k)>>) = 1 /\ <<>> \in Seq(Content) /\ Len(<<>>) = 0
  BY <1>1
<1> QED BY <1>2, Zenon DEF Payload

\* The loader once packet m is staged.
StagedLoader(m) ==
    LET f == session[m.sess].file
        data == Payload(f, m.blk)
    IN [LOADER EXCEPT !.tid = IF @ = 0 THEN m.sess ELSE @,
                      !.stage = @ \o data, !.written = @ + Len(data),
                      !.last = (m.blk = Blocks[f])]

\* It has heard a session, and the block fits the staging buffer.
LEMMA Staged ==
    ASSUME OtaInv, flush = 0, NEW m \in net
    PROVE  /\ StagedLoader(m) \in Loaders /\ StagedLoader(m).tid # 0
           /\ Len(StagedLoader(m).stage) <= SECTOR
<1>1. /\ LOADER \in Loaders /\ Len(LOADER.stage) < SECTOR
      /\ m.sess \in Sessions /\ m.blk \in Nat
      /\ session[m.sess].file \in Files
  BY DEF OtaInv, OtaTypeOK, StageInv
<1>2. PICK f \in Files, data \in Seq(Content) :
        /\ f = session[m.sess].file /\ data = Payload(f, m.blk) /\ Len(data) \in {0, 1}
  BY <1>1, PayloadFacts
<1>3. LOADER.stage \in Seq(Content) /\ LOADER.written \in Nat /\ LOADER.tid \in 0 .. MaxRequests
  BY <1>1 DEF Loaders
<1>4. PICK t, st, w : /\ t = IF LOADER.tid = 0 THEN m.sess ELSE LOADER.tid
                      /\ st = LOADER.stage \o data /\ w = LOADER.written + Len(data)
  OBVIOUS
<1>5. t \in 0 .. MaxRequests /\ t # 0 /\ w \in Nat
  <2>1. w \in Nat
    BY <1>2, <1>3, <1>4
  <2>2. m.sess \in 1 .. MaxRequests
    BY <1>1 DEF Sessions
  <2> QED BY <2>1, <2>2, <1>3, <1>4, Geometry
<1>6. st \in Seq(Content) /\ Len(st) = Len(LOADER.stage) + Len(data)
  BY <1>2, <1>3, <1>4, ConcatProperties, Zenon
<1>7. PICK b \in BOOLEAN : b = (m.blk = Blocks[f])
  OBVIOUS
<1>8. StagedLoader(m) = [LOADER EXCEPT !.tid = t, !.stage = st, !.written = w, !.last = b]
  BY <1>2, <1>4, <1>7, Zenon DEF StagedLoader
<1>9. [LOADER EXCEPT !.tid = t, !.stage = st, !.written = w, !.last = b] \in Loaders
  BY <1>1, <1>5, <1>6, <1>7, Zenon DEF Loaders
<1>10. StagedLoader(m).tid = t /\ StagedLoader(m).stage = st
  <2>1. /\ [LOADER EXCEPT !.tid = t, !.stage = st, !.written = w, !.last = b].tid = t
        /\ [LOADER EXCEPT !.tid = t, !.stage = st, !.written = w, !.last = b].stage = st
    BY <1>1 DEF Loaders
  <2> QED BY <2>1, <1>8, Zenon
<1>11. Len(st) <= SECTOR
  <2>1. Len(LOADER.stage) \in Nat
    BY <1>3
  <2>2. PICK i \in Nat, j \in {0, 1} : i = Len(LOADER.stage) /\ j = Len(data)
    BY <2>1, <1>2
  <2>3. i < SECTOR /\ Len(st) = i + j
    BY <1>1, <1>6, <2>2
  <2>4. i + j <= SECTOR
    BY <2>3, Geometry
  <2> QED BY <2>3, <2>4, Zenon
<1> QED BY <1>5, <1>8, <1>9, <1>10, <1>11, Zenon

\* The ways poll() leaves a DATA packet.
LEMMA PollBlockWays ==
    ASSUME NEW m \in net, PollBlock(m)
    PROVE  /\ flush = 0
           /\ \/ Fails /\ expired' = expired /\ flush' = 0 /\ session' = session
              \/ /\ LOADER' = StagedLoader(m) /\ flush' = 1
                 /\ expired' = expired /\ session' = session
              \/ /\ StagedLoader(m).stage = <<>> \/ Len(StagedLoader(m).stage) # SECTOR
                 /\ Acknowledge(StagedLoader(m)) /\ flush' = 0
BY Zenon DEF PollBlock, StagedLoader, Isr

\* poll(), WaitData, with the block waited for.
LEMMA LoaderInvPollBlock ==
    ASSUME OtaInv, NEW m \in net, PollBlock(m)
    PROVE  LoaderInv' /\ session' \in [Sessions -> [file : Files, cur : Nat]]
<1>1. /\ flush = 0 /\ expired \in BOOLEAN /\ session \in [Sessions -> [file : Files, cur : Nat]]
      /\ LOADER \in Loaders
  BY PollBlockWays DEF OtaInv, OtaTypeOK
<1>2. PICK L : L = StagedLoader(m)
  OBVIOUS
<1>3. L \in Loaders /\ L.tid # 0 /\ Len(L.stage) <= SECTOR
  BY <1>1, <1>2, Staged, Zenon
<1>4. CASE Fails /\ expired' = expired /\ flush' = 0 /\ session' = session
  BY <1>1, <1>4, LoaderFails
<1>5. CASE LOADER' = L /\ flush' = 1 /\ expired' = expired /\ session' = session
  <2>1. flush' \in 0 .. SECTOR + 2 /\ ~(flush' = 0) /\ ~(flush' >= 2) /\ ~(1 >= 2)
    BY <1>5, Geometry
  <2> QED BY <1>1, <1>3, <1>5, <2>1, Zenon DEF LoaderInv, StageInv, FlushInv
<1>6. CASE (L.stage = <<>> \/ Len(L.stage) # SECTOR) /\ Acknowledge(L) /\ flush' = 0
  <2>1. L.stage \in Seq(Content) /\ Len(L.stage) \in Nat
    BY <1>3 DEF Loaders
  <2>2. Len(L.stage) < SECTOR
    BY <1>3, <1>6, <2>1, Geometry
  <2>3. /\ LOADER' \in Loaders /\ Len(LOADER'.stage) < SECTOR /\ expired' \in BOOLEAN
        /\ session' \in [Sessions -> [file : Files, cur : Nat]]
    BY <1>1, <1>3, <1>6, <2>2, AcknowledgeResult
  <2> QED BY <1>6, <2>3, LoaderRests
<1> QED BY <1>2, <1>4, <1>5, <1>6, PollBlockWays, Zenon

\* The erase of a flush.
LEMMA LoaderInvFlushErase ==
    ASSUME OtaInv, FlushErase PROVE LoaderInv' /\ session' = session
<1>1. MayBecome(flash') /\ LoaderInv /\ FallbackInv /\ FlushAddr \in Nat
  BY FlushEraseEffect, OtaInvParts, FlushAddress DEF OtaInv
<1>2. CASE FlushFails
  BY <1>1, <1>2, LoaderFails, Zenon DEF FlushFails, LoaderInv
<1>3. CASE /\ region_is_writable(FlushAddr, SECTOR) /\ flush' = 2
           /\ UNCHANGED <<LOADER, expired, session>>
  <2>1. FlushAddr' = FlushAddr /\ region_is_writable(FlushAddr, SECTOR)'
    BY <1>1, <1>3, PolicyKept, Geometry DEF FlushAddr
  <2>2. flush = 1 /\ flush' \in 0 .. SECTOR + 2 /\ flush' # 0 /\ flush > 0
    BY <1>3, Geometry DEF FlushErase
  <2> QED BY <1>1, <1>3, <2>1, <2>2, Zenon DEF LoaderInv, StageInv, FlushInv
<1> QED BY <1>2, <1>3, Zenon DEF FlushErase

\* The programming of one page of a flush.
LEMMA LoaderInvFlushPage ==
    ASSUME OtaInv, FlushPage PROVE LoaderInv' /\ session' = session
<1>1. MayBecome(flash') /\ LoaderInv /\ FallbackInv /\ FlushAddr \in Nat
  BY FlushPageEffect, OtaInvParts, FlushAddress DEF OtaInv
<1>2. CASE FlushFails
  BY <1>1, <1>2, LoaderFails, Zenon DEF FlushFails, LoaderInv
<1>3. CASE flush' = flush + 1 /\ UNCHANGED <<LOADER, expired, session>>
  <2>1. flush \in 2 .. SECTOR + 1
    BY DEF FlushPage
  <2>2. /\ flush >= 2 /\ flush > 0
        /\ flush' \in 0 .. SECTOR + 2 /\ flush' # 0
    BY <1>3, <2>1, Geometry
  <2>3. region_is_writable(FlushAddr, SECTOR)
    BY <1>1, <2>2 DEF LoaderInv, FlushInv
  <2>4. FlushAddr' = FlushAddr /\ region_is_writable(FlushAddr, SECTOR)'
    BY <1>1, <1>3, <2>3, PolicyKept, Geometry DEF FlushAddr
  <2> QED BY <1>1, <1>3, <2>2, <2>4, Zenon DEF LoaderInv, StageInv, FlushInv
<1> QED BY <1>2, <1>3, Zenon DEF FlushPage

\* The read-back of a flush.
LEMMA LoaderInvFlushVerify ==
    ASSUME OtaInv, FlushVerify
    PROVE  LoaderInv' /\ session' \in [Sessions -> [file : Files, cur : Nat]]
<1>1. /\ LOADER \in Loaders /\ expired \in BOOLEAN
      /\ session \in [Sessions -> [file : Files, cur : Nat]]
  BY DEF OtaInv, OtaTypeOK
<1>2. CASE FlushFails
  BY <1>1, <1>2, LoaderFails, Zenon DEF FlushFails
<1>3. CASE /\ flush' = 0
           /\ Acknowledge([LOADER EXCEPT !.sectors = @ + 1, !.stage = <<>>])
  <2>1. LOADER.tid # 0 /\ LOADER.sectors + 1 \in Nat /\ <<>> \in Seq(Content)
    <3>1. flush > 0
      BY Geometry DEF FlushVerify
    <3>2. LOADER.tid # 0
      BY <3>1, Zenon DEF OtaInv, StageInv
    <3> QED BY <1>1, <3>2 DEF Loaders
  <2>2. PICK L : L = [LOADER EXCEPT !.sectors = LOADER.sectors + 1, !.stage = <<>>]
    OBVIOUS
  <2>3. L \in Loaders
    BY <1>1, <2>1, <2>2, Zenon DEF Loaders
  <2>4. L.tid = LOADER.tid /\ L.stage = <<>>
    <3>1. /\ [LOADER EXCEPT !.sectors = LOADER.sectors + 1, !.stage = <<>>].tid = LOADER.tid
          /\ [LOADER EXCEPT !.sectors = LOADER.sectors + 1, !.stage = <<>>].stage = <<>>
      BY <1>1 DEF Loaders
    <3> QED BY <2>2, <3>1, Zenon
  <2>5. Len(L.stage) < SECTOR
    BY <2>4, Geometry
  <2>6. Acknowledge(L)
    BY <1>3, <2>2, Zenon
  <2>7. /\ LOADER' \in Loaders /\ Len(LOADER'.stage) < SECTOR /\ expired' \in BOOLEAN
        /\ session' \in [Sessions -> [file : Files, cur : Nat]]
    BY <1>1, <2>1, <2>3, <2>4, <2>5, <2>6, AcknowledgeResult
  <2> QED BY <1>3, <2>7, LoaderRests
<1> QED BY <1>2, <1>3, Zenon DEF FlushVerify

\* The loader's part of the invariant after every step.
LEMMA LoaderInvStep == OtaInv /\ OtaNext => LoaderInv'
<1> SUFFICES ASSUME OtaInv, OtaNext PROVE LoaderInv'
  OBVIOUS
<1>1. MayBecome(flash') /\ expired \in BOOLEAN
  BY FlashEffect DEF OtaInv, OtaTypeOK
<1>2. CASE LOADER' = LOADER /\ flush' = flush /\ expired' \in BOOLEAN
  BY <1>1, <1>2, LoaderStays
<1>3. CASE \E s \in Sessions : ServerSends(s) \/ ServerGivesUp(s)
  BY <1>1, <1>2, <1>3, Zenon DEF ServerSends, ServerGivesUp, loaderVars
<1>4. CASE (\E m \in net : LosePacket(m)) \/ DeadlinePasses
  BY <1>1, <1>2, <1>4, Zenon DEF LosePacket, DeadlinePasses, loaderVars
<1>5. CASE PollTimeout
  BY <1>1, <1>5, LoaderFails, Zenon DEF PollTimeout, Isr
<1>6. CASE \E m \in net : PollError(m)
  BY <1>1, <1>6, LoaderFails, Zenon DEF PollError, Isr
<1>7. CASE \E m \in net : PollDrop(m)
  BY <1>1, <1>2, <1>7, Zenon DEF PollDrop, loaderVars
<1>8. CASE JobNext
  BY <1>1, <1>2, <1>8, Zenon DEF JobNext, TickBegins, TickEnds, TickDone, loaderVars
<1>9. CASE \E kind \in {"Erase", "SelfTest"}, addr \in Pages, len \in 1 .. FLASH_SIZE : queue(kind, addr, len)
  BY <1>1, <1>2, <1>9, Zenon DEF queue, loaderVars
<1>10. CASE reboot_tick \/ PowerCycle
  <2>1. LOADER' = IdleLoader /\ expired' = FALSE /\ flush' = 0
    BY <1>10, Zenon DEF reboot_tick, PowerCycle, ForgetRam
  <2>2. LOADER' \in Loaders /\ Len(LOADER'.stage) < SECTOR
    BY <2>1, IdleLoaderFacts, Geometry
  <2> QED BY <2>1, <2>2, LoaderRests
<1>11. CASE \E f \in Files : api_flash_bitstream_post(f)
  BY <1>11, LoaderBegins, Zenon DEF api_flash_bitstream_post, Isr
<1> QED BY <1>3, <1>4, <1>5, <1>6, <1>7, <1>8, <1>9, <1>10, <1>11, LoaderInvSendRrq, LoaderInvPollBlock,
           LoaderInvFlushErase, LoaderInvFlushPage, LoaderInvFlushVerify, Zenon
        DEF OtaNext, LoaderNext

\* The server, the network and the counters after every step.
LEMMA WorldInvStep == OtaInv /\ OtaNext => WorldInv'
<1> SUFFICES ASSUME OtaInv, OtaNext PROVE WorldInv'
  OBVIOUS
<1> DEFINE SessionOK == session \in [Sessions -> [file : Files, cur : Nat]]
           NetOK == net \subseteq [sess : Sessions, blk : Nat]
           CountOK == requests \in 0 .. MaxRequests /\ faults \in 0 .. MaxFaults
<1>1. /\ SessionOK /\ NetOK /\ CountOK /\ clean \in BOOLEAN /\ LOADER \in Loaders
      /\ LOADER.file \in Files
  BY DEF OtaInv, OtaTypeOK, Loaders
<1>2. \A s \in Sessions : session[s].file \in Files /\ session[s].cur \in Nat /\ Blocks[session[s].file] \in Nat
  BY <1>1, OtaAssumption
<1>3. \A s \in Sessions, k \in Nat : [sess |-> s, blk |-> k] \in [sess : Sessions, blk : Nat]
  OBVIOUS
<1>5. CASE \E s \in Sessions : ServerSends(s)
  <2>1. PICK s \in Sessions : ServerSends(s)
    BY <1>5
  <2>2. NetOK' /\ UNCHANGED <<session, requests, faults, clean>>
    BY <1>1, <1>2, <1>3, <2>1, Zenon DEF ServerSends, jobVars
  <2> QED BY <1>1, <2>2, Zenon DEF WorldInv
<1>6. CASE \E s \in Sessions : ServerGivesUp(s)
  <2>1. PICK s \in Sessions : ServerGivesUp(s)
    BY <1>6
  <2>2. SessionOK'
    <3>1. Blocks[session[s].file] + 1 \in Nat
      BY <1>2
    <3>2. session' = [session EXCEPT ![s].cur = Blocks[session[s].file] + 1]
      BY <2>1, Zenon DEF ServerGivesUp
    <3> QED BY <1>1, <3>1, <3>2
  <2>3. NetOK' /\ UNCHANGED <<requests, faults, clean>>
    <3>1. [sess |-> s, blk |-> 0] \in [sess : Sessions, blk : Nat]
      OBVIOUS
    <3> QED BY <1>1, <3>1, <2>1, Zenon DEF ServerGivesUp, jobVars
  <2> QED BY <1>1, <2>2, <2>3, Zenon DEF WorldInv
<1>7. CASE \E m \in net : LosePacket(m) \/ PollError(m) \/ PollDrop(m)
  <2>1. NetOK' /\ UNCHANGED <<session, requests, faults, clean>>
    BY <1>1, <1>7, Zenon DEF LosePacket, PollError, PollDrop, jobVars
  <2> QED BY <1>1, <2>1, Zenon DEF WorldInv
<1>8. CASE DeadlinePasses \/ PollTimeout
  BY <1>1, <1>8, Zenon DEF DeadlinePasses, PollTimeout, netVars, jobVars, WorldInv
<1>9. CASE SendRrq
  <2>1. SessionOK'
    <3>1. CASE UNCHANGED session
      BY <1>1, <3>1
    <3>2. CASE \E s \in NextSession : session' = [session EXCEPT ![s] = [file |-> LOADER.file, cur |-> 1]]
      <4>1. [file |-> LOADER.file, cur |-> 1] \in [file : Files, cur : Nat]
        BY <1>1
      <4> QED BY <1>1, <3>2, <4>1, Zenon DEF NextSession
    <3> QED BY <1>9, <3>1, <3>2, Zenon DEF SendRrq
  <2> QED BY <1>1, <1>9, <2>1, Zenon DEF SendRrq, jobVars, WorldInv
<1>10. CASE \E m \in net : PollBlock(m)
  <2>1. PICK m \in net : PollBlock(m)
    BY <1>10
  <2>2. SessionOK'
    BY <1>1, <2>1, LoaderInvPollBlock, Zenon
  <2>3. net' \in {net \ {m}, net} /\ UNCHANGED <<requests, faults, clean>>
    BY <2>1, Zenon DEF PollBlock, jobVars
  <2> QED BY <1>1, <2>2, <2>3, Zenon DEF WorldInv
<1>11. CASE FlushErase
  <2>1. /\ SessionOK' /\ UNCHANGED <<net, requests, faults>>
        /\ clean' \in BOOLEAN
    BY <1>1, <1>11, LoaderInvFlushErase, Zenon DEF FlushErase
  <2> QED BY <1>1, <2>1, Zenon DEF WorldInv
<1>12. CASE FlushPage \/ FlushVerify
  <2>1. SessionOK' /\ UNCHANGED <<net, requests, faults, clean>>
    BY <1>1, <1>12, LoaderInvFlushPage, LoaderInvFlushVerify, Zenon DEF FlushPage, FlushVerify, jobVars
  <2> QED BY <1>1, <2>1, Zenon DEF WorldInv
<1>13. CASE JobNext
  <2>1. UNCHANGED <<session, net, requests, faults>> /\ clean' \in BOOLEAN
    BY <1>1, <1>13, Zenon DEF JobNext, TickBegins, TickEnds, TickDone, netVars
  <2> QED BY <1>1, <2>1, Zenon DEF WorldInv
<1>14. CASE \E kind \in {"Erase", "SelfTest"}, addr \in Pages, len \in 1 .. FLASH_SIZE : queue(kind, addr, len)
  <2>1. requests < MaxRequests /\ requests' = requests + 1 /\ UNCHANGED <<session, net, faults, clean>>
    BY <1>14, Zenon DEF queue, netVars
  <2>2. requests' \in 0 .. MaxRequests
    BY <1>1, <2>1, Geometry
  <2> QED BY <1>1, <2>1, <2>2, Zenon DEF WorldInv
<1>15. CASE reboot_tick \/ PowerCycle
  <2>1. /\ faults < MaxFaults /\ faults' = faults + 1 /\ UNCHANGED <<session, net, requests>>
        /\ clean' \in BOOLEAN
    BY <1>1, <1>15, Zenon DEF reboot_tick, PowerCycle, ForgetRam, netVars
  <2>2. faults' \in 0 .. MaxFaults
    BY <1>1, <2>1, Geometry
  <2> QED BY <1>1, <2>1, <2>2, Zenon DEF WorldInv
<1>16. CASE \E f \in Files : api_flash_bitstream_post(f)
  <2>1. /\ requests < MaxRequests /\ requests' = requests + 1 /\ UNCHANGED <<session, net, faults>>
        /\ clean' \in BOOLEAN
    BY <1>16, Zenon DEF api_flash_bitstream_post, StartLoader, netVars, Quiet
  <2>2. requests' \in 0 .. MaxRequests
    BY <1>1, <2>1, Geometry
  <2> QED BY <1>1, <2>1, <2>2, Zenon DEF WorldInv
<1> QED BY <1>5, <1>6, <1>7, <1>8, <1>9, <1>10, <1>11, <1>12, <1>13, <1>14, <1>15, <1>16, Zenon
        DEF OtaNext, LoaderNext

\* A step that leaves the job and the chip alone.
LEMMA BackgroundStays ==
    ASSUME OtaInv, JOB' = JOB, chip' \in ChipOps, chip'.op = chip.op, chip'.addr = chip.addr,
           chip'.busy => chip.busy, MayBecome(flash')
    PROVE  BackgroundInv'
<1>1. BackgroundInv /\ FallbackInv /\ chip.addr \in Nat
  BY OtaInvParts DEF OtaInv, OtaTypeOK, ChipOps
<1>2. SectorBase(chip.addr) \in Nat /\ SectorBase(chip.addr)' = SectorBase(chip.addr)
  BY <1>1, SectorFacts, Zenon DEF SectorBase
<1>3. region_is_writable(SectorBase(chip.addr), SECTOR)' = region_is_writable(SectorBase(chip.addr), SECTOR)
  BY <1>1, <1>2, PolicyKept, Geometry
<1> QED BY <1>1, <1>3, Zenon DEF BackgroundInv, ChipInv, JobInv, job_pending

\* A job is queued only when none is pending, and starts at a sector.
LEMMA BackgroundQueue ==
    ASSUME OtaInv, NEW kind \in {"Erase", "SelfTest"}, NEW addr \in Pages, NEW len \in 1 .. FLASH_SIZE,
           queue(kind, addr, len)
    PROVE  BackgroundInv'
<1>0. chip \in ChipOps /\ ~job_pending /\ ChipInv /\ chip' = chip
  BY Zenon DEF OtaInv, OtaTypeOK, queue
<1>1. /\ chip \in ChipOps /\ ~job_pending /\ ChipInv /\ chip' = chip
      /\ addr \in Nat /\ len \in Nat
  BY <1>0, Geometry DEF Pages
<1>2. chip'.op = "none" /\ chip'.busy = FALSE /\ chip' \in ChipOps
  BY <1>1 DEF ChipInv, ChipOps
<1>3. JOB' = [kind |-> kind, state |-> "Queued", addr |-> addr, len |-> len, cursor |-> 0, erased |-> FALSE]
  BY DEF queue, NoJob
<1>4. JOB' \in Jobs /\ JOB'.addr + JOB'.cursor = addr
  BY <1>1, <1>3 DEF Jobs
<1>5. addr % SECTOR = 0
  BY DEF queue, region_is_writable
<1> QED BY <1>2, <1>4, <1>5, Zenon DEF BackgroundInv, ChipInv, JobInv

\* The fields of a job after tick() has changed its state.
LEMMA JobState ==
    ASSUME JOB \in Jobs, NEW st \in {"Running", "Done", "Failed"}, JOB' = [JOB EXCEPT !.state = st]
    PROVE  /\ JOB' \in Jobs /\ JOB'.state = st /\ JOB'.kind = JOB.kind
           /\ JOB'.addr = JOB.addr /\ JOB'.cursor = JOB.cursor
<1>1. st \in {"Idle", "Queued", "Running", "Done", "Failed"}
  OBVIOUS
<1>2. JOB' \in Jobs
  BY <1>1, Zenon DEF Jobs
<1>3. /\ JOB'.state = st /\ JOB'.kind = JOB.kind
      /\ JOB'.addr = JOB.addr /\ JOB'.cursor = JOB.cursor
  BY DEF Jobs
<1> QED BY <1>2, <1>3

\* Nothing is asked of the chip.
LEMMA BackgroundIdle ==
    ASSUME JOB' \in Jobs, chip' \in ChipOps, chip'.op = "none", chip'.busy = FALSE, JobInv'
    PROVE  BackgroundInv'
BY Zenon DEF BackgroundInv, ChipInv

\* tick(): the operation is started in a sector the policy allows.
LEMMA BackgroundTickBegins ==
    ASSUME OtaInv, TickBegins PROVE BackgroundInv'
<1>1. /\ BackgroundInv /\ JOB \in Jobs /\ chip \in ChipOps /\ chip.op = "none" /\ JobInv /\ ~chip.busy
      /\ chip.busy \in BOOLEAN /\ FallbackInv
  BY OtaInvParts DEF BackgroundInv, ChipInv, TickBegins, ChipOps
<1>2. JOB.addr \in Nat /\ JOB.cursor \in Nat
  BY <1>1 DEF Jobs
<1>3. PICK addr \in Nat : addr = JOB.addr + JOB.cursor
  BY <1>2
<1>4. CASE JobFails /\ UNCHANGED chip
  <2>1. JOB' \in Jobs /\ JOB'.kind = JOB.kind /\ JOB'.addr = JOB.addr /\ JOB'.cursor = JOB.cursor
    BY <1>1, <1>4, JobState DEF JobFails
  <2>2. JobInv'
    BY <1>1, <2>1, Zenon DEF JobInv
  <2>3. chip' \in ChipOps /\ chip'.op = "none" /\ chip'.busy = FALSE
    BY <1>1, <1>4
  <2> QED BY <2>1, <2>2, <2>3, BackgroundIdle
<1>5. ASSUME NEW erase \in BOOLEAN, erase = (JOB.kind = "Erase" \/ (addr % SECTOR = 0 /\ ~JOB.erased)),
             region_is_writable(addr - (addr % SECTOR), SECTOR),
             chip' = [op |-> IF erase THEN "erase" ELSE "program", addr |-> addr, busy |-> TRUE],
             JOB' = [JOB EXCEPT !.state = "Running"]
      PROVE  BackgroundInv'
  <2>1. /\ JOB' \in Jobs /\ JOB'.state = "Running" /\ JOB'.kind = JOB.kind
        /\ JOB'.addr = JOB.addr /\ JOB'.cursor = JOB.cursor
    BY <1>1, <1>5, JobState
  <2>2. JobInv' /\ job_pending'
    BY <1>1, <2>1, Zenon DEF JobInv, job_pending
  <2>3. flash' = flash
    BY Zenon DEF TickBegins, flashVars
  <2>4. chip' \in ChipOps /\ chip'.addr = addr /\ (chip'.op = "erase" <=> erase) /\ chip'.op \in {"erase", "program"}
    BY <1>5 DEF ChipOps
  <2>5. region_is_writable(SectorBase(addr), SECTOR)'
    BY <1>5, <2>3, Zenon DEF SectorBase, region_is_writable, golden_present
  <2>6. erase => addr % SECTOR = 0
    BY <1>1, <1>3, <1>5 DEF JobInv
  <2>7. ~erase => JOB'.kind # "Erase"
    BY <1>5, <2>1
  <2>8. ChipInv'
    BY <2>2, <2>4, <2>5, <2>6, <2>7, Zenon DEF ChipInv, SectorBase
  <2> QED BY <2>1, <2>2, <2>4, <2>8, Zenon DEF BackgroundInv
<1> QED BY <1>3, <1>4, <1>5, Zenon DEF TickBegins

\* tick(): the operation is done and the job moves on.
LEMMA BackgroundTickEnds ==
    ASSUME OtaInv, TickEnds PROVE BackgroundInv'
<1>1. /\ JOB \in Jobs /\ JobInv /\ ChipInv /\ chip \in ChipOps
      /\ chip.op # "none"
  BY DEF OtaInv, OtaTypeOK, TickEnds
<1>2. JOB.addr \in Nat /\ JOB.cursor \in Nat /\ JOB.cursor + SECTOR \in Nat /\ JOB.cursor + 1 \in Nat
  BY <1>1, Geometry DEF Jobs
<1>3. chip' \in ChipOps /\ chip'.op = "none" /\ chip'.busy = FALSE
  BY DEF TickEnds, NoOp, ChipOps
<1>4. CASE JobFails
  <2>1. JOB' \in Jobs /\ JOB'.kind = JOB.kind /\ JOB'.addr = JOB.addr /\ JOB'.cursor = JOB.cursor
    BY <1>1, <1>4, JobState DEF JobFails
  <2>2. JobInv'
    BY <1>1, <2>1, Zenon DEF JobInv
  <2> QED BY <1>3, <2>1, <2>2, BackgroundIdle
<1>5. CASE JOB.kind = "Erase" /\ JOB' = [JOB EXCEPT !.cursor = JOB.cursor + SECTOR]
  <2>1. JOB' \in Jobs
    BY <1>1, <1>2, <1>5, Zenon DEF Jobs
  <2>2. JOB'.addr = JOB.addr /\ JOB'.cursor = JOB.cursor + SECTOR
    BY <1>1, <1>5 DEF Jobs
  <2>3. PICK a \in Nat : a = JOB.addr + JOB.cursor /\ a % SECTOR = 0
    BY <1>1, <1>2, <1>5 DEF JobInv
  <2>4. (a + SECTOR) % SECTOR = 0
    BY <2>3, NextSector, Geometry
  <2>5. JOB'.addr + JOB'.cursor = a + SECTOR
    BY <1>2, <2>2, <2>3, Geometry
  <2>6. JobInv'
    BY <2>4, <2>5, Zenon DEF JobInv
  <2> QED BY <1>3, <2>1, <2>6, BackgroundIdle
<1>6. CASE JOB.kind # "Erase" /\ JOB' = [JOB EXCEPT !.erased = TRUE]
  <2>1. JOB' \in Jobs
    BY <1>1, <1>6, Zenon DEF Jobs
  <2>2. JOB'.kind # "Erase"
    BY <1>1, <1>6 DEF Jobs
  <2> QED BY <1>3, <2>1, <2>2, BackgroundIdle DEF JobInv
<1>7. ASSUME NEW e \in BOOLEAN, chip.op = "program", JOB' = [JOB EXCEPT !.cursor = JOB.cursor + 1, !.erased = e]
      PROVE  BackgroundInv'
  <2>1. JOB' \in Jobs
    BY <1>1, <1>2, <1>7, Zenon DEF Jobs
  <2>2. JOB'.kind = JOB.kind
    BY <1>1, <1>7 DEF Jobs
  <2>3. JOB.kind # "Erase"
    BY <1>1, <1>7 DEF ChipInv
  <2> QED BY <1>3, <2>1, <2>2, <2>3, BackgroundIdle DEF JobInv
<1>8. JOB.erased \in BOOLEAN
  BY <1>1 DEF Jobs
<1>9. PICK e \in BOOLEAN : e = IF (chip.addr + 1) % SECTOR = 0 THEN FALSE ELSE JOB.erased
  BY <1>8, Zenon
<1> QED BY <1>4, <1>5, <1>6, <1>7, <1>9, Zenon DEF TickEnds

\* The job's and the chip's part of the invariant after every step.
LEMMA BackgroundInvStep == OtaInv /\ OtaNext => BackgroundInv'
<1> SUFFICES ASSUME OtaInv, OtaNext PROVE BackgroundInv'
  OBVIOUS
<1>1. /\ MayBecome(flash') /\ JOB \in Jobs /\ chip \in ChipOps /\ JobInv /\ ChipInv
  BY FlashEffect DEF OtaInv, OtaTypeOK
<1>2. CASE UNCHANGED <<JOB, chip>>
  BY <1>1, <1>2, BackgroundStays
<1>3. CASE \E s \in Sessions : ServerSends(s) \/ ServerGivesUp(s)
  BY <1>2, <1>3, Zenon DEF ServerSends, ServerGivesUp, jobVars
<1>4. CASE (\E m \in net : LosePacket(m)) \/ DeadlinePasses
  BY <1>2, <1>4, Zenon DEF LosePacket, DeadlinePasses, jobVars
<1>5. CASE SendRrq \/ PollTimeout \/ FlushPage \/ FlushVerify
  BY <1>2, <1>5, Zenon DEF SendRrq, PollTimeout, FlushPage, FlushVerify, jobVars
<1>6. CASE \E m \in net : PollError(m) \/ PollDrop(m) \/ PollBlock(m)
  BY <1>2, <1>6, Zenon DEF PollError, PollDrop, PollBlock, jobVars
<1>7. CASE FlushErase
  <2>1. CASE UNCHANGED chip
    BY <1>1, <1>2, <1>7, <2>1, Zenon DEF FlushErase
  <2>2. CASE chip' = [chip EXCEPT !.busy = FALSE]
    <3>1. chip' \in ChipOps
      BY <1>1, <2>2, Zenon DEF ChipOps
    <3>2. chip'.op = chip.op /\ chip'.addr = chip.addr /\ chip'.busy = FALSE
      BY <1>1, <2>2 DEF ChipOps
    <3>3. JOB' = JOB
      BY <1>7, Zenon DEF FlushErase
    <3> QED BY <1>1, <3>1, <3>2, <3>3, BackgroundStays
  <2> QED BY <1>7, <2>1, <2>2, Zenon DEF FlushErase
<1>8. CASE TickDone
  <2>1. /\ JOB' \in Jobs /\ JOB'.kind = JOB.kind /\ JOB'.addr = JOB.addr /\ JOB'.cursor = JOB.cursor
    BY <1>1, <1>8, JobState DEF TickDone
  <2>2. JobInv'
    BY <1>1, <2>1, Zenon DEF JobInv
  <2>3. chip' \in ChipOps /\ chip'.op = "none" /\ chip'.busy = FALSE
    BY <1>1, <1>8 DEF TickDone, ChipOps, ChipInv
  <2> QED BY <2>1, <2>2, <2>3, BackgroundIdle
<1>9. CASE reboot_tick \/ PowerCycle
  <2>1. JOB' = NoJob /\ chip' = NoOp
    BY <1>9, Zenon DEF reboot_tick, PowerCycle, ForgetRam
  <2>2. JOB' \in Jobs /\ JOB'.kind = "None" /\ chip' \in ChipOps /\ chip'.op = "none" /\ chip'.busy = FALSE
    BY <2>1 DEF NoJob, NoOp, Jobs, ChipOps
  <2> QED BY <2>2, BackgroundIdle DEF JobInv
<1>10. CASE \E f \in Files : api_flash_bitstream_post(f)
  BY <1>2, <1>10, Zenon DEF api_flash_bitstream_post
<1> QED BY <1>3, <1>4, <1>5, <1>6, <1>7, <1>8, <1>9, <1>10, BackgroundQueue, BackgroundTickBegins,
           BackgroundTickEnds, Zenon
        DEF OtaNext, LoaderNext, JobNext

\* The image at offset 0, if it configures, or the golden one.
LEMMA ConfigureFinds ==
    ASSUME FallbackInv
    PROVE  /\ Configure(flash) = IF \E f \in Bitstreams : AppHolds(f)
                                 THEN CHOOSE f \in Bitstreams : AppHolds(f) ELSE "golden"
           /\ Configure(flash) \in Bitstreams \cup {"golden"} /\ Configure(flash) # "none"
<1>1. Configure(flash) = IF \E f \in Bitstreams : AppHolds(f) THEN CHOOSE f \in Bitstreams : AppHolds(f)
                         ELSE IF GoldenWhole THEN "golden" ELSE "none"
  BY Zenon DEF Configure, AppHolds, GoldenWhole
<1>2. (\E f \in Bitstreams : AppHolds(f)) \/ GoldenWhole
  BY FileFacts, Zenon DEF FallbackInv
<1>3. CASE \E f \in Bitstreams : AppHolds(f)
  <2>1. (CHOOSE f \in Bitstreams : AppHolds(f)) \in Bitstreams
    BY <1>3, Zenon
  <2> QED BY <1>1, <1>3, <2>1, FileFacts, Zenon
<1>4. CASE (~\E f \in Bitstreams : AppHolds(f)) /\ GoldenWhole
  BY <1>1, <1>4
<1> QED BY <1>2, <1>3, <1>4

\* The card off the bench.
LEMMA OtaInvInit == OtaInit => OtaInv
<1> SUFFICES ASSUME OtaInit PROVE OtaInv
  OBVIOUS
<1>1. PICK provisioned \in BOOLEAN :
        flash = [p \in Pages |-> IF p < PagesOf(Factory) THEN Block(Factory, p + 1)
                                 ELSE IF p \in AppPages \cup ScratchPages THEN Blank
                                 ELSE IF p \in GoldenPages /\ ~provisioned THEN Blank
                                 ELSE Fixed(p)]
  BY Zenon DEF OtaInit
<1>2. Factory \in Bitstreams /\ Factory \in Files /\ PagesOf(Factory) \in Nat /\ PagesOf(Factory) <= APP_LEN
  BY FileFacts
<1>3. \A p \in Pages : p \in Nat /\ p + 1 \in Nat
  BY Geometry DEF Pages
<1>4. flash \in [Pages -> Content]
  <2>1. \A p \in Pages : Block(Factory, p + 1) \in Content /\ Blank \in Content /\ Fixed(p) \in Content
    BY <1>2, <1>3, FileFacts
  <2> QED BY <1>1, <2>1, Zenon
<1>5. \A p \in GoldenPages : /\ p \in Pages /\ ~(p < PagesOf(Factory))
                             /\ p \notin AppPages \cup ScratchPages /\ Fixed(p) # Blank
  <2>1. \A p \in GoldenPages : p \in Pages /\ p \notin AppPages \cup ScratchPages
    BY RegionsApart, Zenon
  <2>2. \A p \in Pages : p \notin AppPages => ~(p < PagesOf(Factory))
    BY <1>2, Geometry DEF AppPages, Pages
  <2> QED BY <1>3, <2>1, <2>2, FileFacts, Zenon
<1>6. golden_present => GoldenWhole
  <2>1. CASE provisioned
    <3>1. \A p \in GoldenPages : flash[p] = Fixed(p)
      BY <1>1, <1>5, <2>1, Zenon
    <3> QED BY <3>1, Zenon DEF GoldenWhole
  <2>2. CASE ~provisioned
    <3>1. flash[GOLDEN_BASE] = Blank
      BY <1>1, <1>5, <2>2, RegionsApart, Zenon
    <3> QED BY <1>5, <3>1, RegionsApart, Zenon DEF golden_present
  <2> QED BY <2>1, <2>2
<1>7. AppHolds(Factory)
  <2>1. \A k \in 1 .. PagesOf(Factory) : /\ k - 1 \in Pages /\ k - 1 < PagesOf(Factory)
                                         /\ (k - 1) + 1 = k
    BY <1>2, Geometry DEF Pages
  <2> QED BY <1>1, <1>2, <2>1, Zenon DEF AppHolds
<1>8. LoaderInv
  <2>1. LOADER = IdleLoader /\ expired = FALSE /\ flush = 0
    BY Zenon DEF OtaInit
  <2>2. /\ 0 < SECTOR /\ 0 <= SECTOR /\ 0 \in 0 .. SECTOR + 2 /\ ~(0 > 0) /\ ~(0 >= 2)
    BY Geometry
  <2> QED BY <2>1, <2>2, IdleLoaderFacts, Zenon DEF LoaderInv, StageInv, FlushInv
<1>9. BackgroundInv
  <2>1. JOB = NoJob /\ chip = NoOp
    BY Zenon DEF OtaInit
  <2>2. JOB \in Jobs /\ JOB.kind = "None" /\ chip \in ChipOps /\ chip.op = "none" /\ chip.busy = FALSE
    BY <2>1 DEF NoJob, NoOp, Jobs, ChipOps
  <2> QED BY <2>2, Zenon DEF BackgroundInv, ChipInv, JobInv
<1>10. WorldInv
  <2>1. [file |-> Factory, cur |-> 0] \in [file : Files, cur : Nat]
    BY <1>2
  <2>2. requests = 0 /\ faults = 0 /\ 0 \in 0 .. MaxRequests /\ 0 \in 0 .. MaxFaults
    BY Geometry DEF OtaInit
  <2> QED BY <2>1, <2>2, Zenon DEF OtaInit, WorldInv
<1>11. running = Factory
  BY DEF OtaInit
<1> QED BY <1>2, <1>4, <1>6, <1>7, <1>8, <1>9, <1>10, <1>11, OtaInvParts, FileFacts, Zenon DEF FallbackInv

\* What the FPGA runs changes only when power comes back.
LEMMA RunningStep ==
    ASSUME OtaInv, [OtaNext]_otaVars
    PROVE  running' \in Bitstreams \cup {"golden"} /\ running' # "none"
<1>1. MayBecome(flash') /\ FallbackInv /\ running \in Bitstreams \cup {"golden"} /\ running # "none"
  BY FlashEffect, Zenon DEF OtaInv, OtaTypeOK
<1>2. CASE running' = running
  BY <1>1, <1>2
<1>3. CASE PowerCycle
  <2>1. FallbackInv'
    BY <1>1, PolicyKept
  <2>2. (Configure(flash) \in Bitstreams \cup {"golden"} /\ Configure(flash) # "none")'
    BY <2>1, ConfigureFinds, PTL
  <2>3. running' = Configure(flash)'
    BY <1>3, Zenon DEF PowerCycle, Configure
  <2> QED BY <2>2, <2>3, Zenon
<1>4. CASE FlushErase \/ FlushPage \/ TickEnds
  BY <1>1, <1>4, Zenon DEF FlushErase, FlushPage, TickEnds
<1> QED BY <1>2, <1>3, <1>4, OtherSteps, Zenon DEF otaVars

\* The invariant is inductive.
LEMMA OtaInvStep == OtaInv /\ [OtaNext]_otaVars => OtaInv'
<1> SUFFICES ASSUME OtaInv, [OtaNext]_otaVars PROVE OtaInv'
  OBVIOUS
<1>1. CASE OtaNext
  <2>1. LoaderInv' /\ WorldInv' /\ BackgroundInv'
    BY <1>1, LoaderInvStep, WorldInvStep, BackgroundInvStep
  <2>2. FallbackInv' /\ flash' \in [Pages -> Content]
    BY FlashEffect, PolicyKept, Zenon DEF OtaInv, MayBecome
  <2>3. running' \in Bitstreams \cup {"golden", "none"} /\ running' # "none"
    BY RunningStep, Zenon
  <2> QED BY <2>1, <2>2, <2>3, Zenon DEF OtaInv, OtaTypeOK, LoaderInv, BackgroundInv, WorldInv
<1>2. CASE UNCHANGED otaVars
  BY <1>2 DEF otaVars, OtaInv, OtaTypeOK, StageInv, FlushInv, ChipInv, JobInv, FallbackInv, GoldenWhole,
     golden_present, AppHolds, region_is_writable, FlushAddr, job_pending
<1> QED BY <1>1, <1>2

-----------------------------------------------------------------------------
(* The theorems.                                                           *)

\* The invariant holds throughout.
THEOREM OtaInvariant == OtaSpec => []OtaInv
BY OtaInvInit, OtaInvStep, PTL DEF OtaSpec

\* The staging buffer never overflows, the loader only acknowledges a session
\* it has heard, and every counter keeps its range.
THEOREM UpdateTypes == OtaSpec => []OtaTypeOK
<1>1. OtaInv => OtaTypeOK
  BY DEF OtaInv
<1> QED BY <1>1, OtaInvariant, PTL

\* Whatever fails, is lost or is cut off by power on the way, every power-up
\* finds an image, whatever the geometry, the files and the number of faults.
THEOREM CardNeverBricked == OtaSpec => []NeverBricked
<1>1. OtaInv => NeverBricked
  BY ConfigureFinds, Zenon DEF OtaInv, NeverBricked
<1> QED BY <1>1, OtaInvariant, PTL

\* Nothing outside the application and scratch regions is ever written,
\* whatever address, length or file a request names.
THEOREM GoldenUntouched == OtaSpec => ProtectedUntouched
<1>1. OtaInv /\ [OtaNext]_otaVars =>
        [\A p \in Pages \ (AppPages \cup ScratchPages) : flash'[p] = flash[p]]_otaVars
  <2> SUFFICES ASSUME OtaInv, [OtaNext]_otaVars, NEW p \in Pages \ (AppPages \cup ScratchPages)
               PROVE  flash'[p] = flash[p]
    BY Zenon
  <2> QED BY FlashEffect, Zenon DEF MayBecome, MayWrite
<1> QED BY <1>1, OtaInvariant, PTL DEF OtaSpec, ProtectedUntouched

-----------------------------------------------------------------------------
(* The flash implements the boot slot.                                     *)

\* The slot is the bitstream the application region holds, and what the FPGA
\* configures from is the slot or the golden image.
SlotIsImage ==
    /\ Slot \in Bitstreams => AppHolds(Slot)
    /\ \A f \in Bitstreams : AppHolds(f) => Slot = f
    /\ Slot \in Bitstreams \cup {"broken"}
    /\ Configure(flash) = IF \E f \in Bitstreams : AppHolds(f) THEN Slot
                          ELSE IF GoldenWhole THEN "golden" ELSE "none"
    /\ (\E f \in Bitstreams : AppHolds(f)) <=> Slot # "broken"

\* The application region holds at most one bitstream.
LEMMA SlotHolds == SlotIsImage
<1>1. ASSUME NEW f \in Bitstreams, NEW g \in Bitstreams, AppHolds(f), AppHolds(g) PROVE f = g
  <2>1. 1 \in 1 .. PagesOf(f) /\ 1 \in 1 .. PagesOf(g)
    BY FileFacts
  <2>2. Block(f, 1) = Block(g, 1)
    BY <1>1, <2>1, Zenon DEF AppHolds
  <2>3. Block(f, 1).src = f /\ Block(g, 1).src = g
    BY DEF Block
  <2> QED BY <2>2, <2>3, Zenon
<1>2. CASE \E f \in Bitstreams : AppHolds(f)
  <2>1. Slot = CHOOSE f \in Bitstreams : AppHolds(f)
    BY <1>2, Zenon DEF Slot
  <2>2. Slot \in Bitstreams /\ AppHolds(Slot)
    BY <1>2, <2>1, Zenon
  <2>3. Slot # "broken"
    BY <2>2, FileFacts, Zenon
  <2>4. Configure(flash) = Slot
    BY <1>2, <2>1, Zenon DEF Configure, AppHolds
  <2> QED BY <1>1, <1>2, <2>2, <2>3, <2>4, Zenon DEF SlotIsImage
<1>3. CASE ~\E f \in Bitstreams : AppHolds(f)
  <2>1. Slot = "broken"
    BY <1>3, Zenon DEF Slot
  <2>2. "broken" \notin Bitstreams
    BY FileFacts
  <2>3. Configure(flash) = IF GoldenWhole THEN "golden" ELSE "none"
    BY <1>3, Zenon DEF Configure, AppHolds, GoldenWhole
  <2> QED BY <1>3, <2>1, <2>2, <2>3, Zenon DEF SlotIsImage
<1> QED BY <1>2, <1>3

\* The pages a bitstream fills, the first one among them.
LEMMA ImagePages ==
    ASSUME NEW f \in Bitstreams, PagesOf(f) <= APP_LEN
    PROVE  /\ \A k \in 1 .. PagesOf(f) : k - 1 \in AppPages /\ k - 1 \in Pages /\ k \in Nat
           /\ 1 \in 1 .. PagesOf(f) /\ 0 \in Pages /\ 1 - 1 = 0
<1>1. PagesOf(f) \in Nat \ {0}
  BY FileFacts
<1> QED BY <1>1, Geometry DEF AppPages, Pages

\* One step leaves the slot as it is, or breaks or fills it with a golden
\* image present.
LEMMA SlotStep ==
    ASSUME OtaInv, MayBecome(flash')
    PROVE  Slot' = Slot \/ (golden_present /\ (Slot = "broken" \/ Slot' = "broken"))
<1>1. \A p \in Pages : \/ flash'[p] = flash[p]
                       \/ MayWrite(p) /\ (flash[p] = Blank \/ flash'[p] \in {Blank, Garbage})
  BY Zenon DEF MayBecome
<1>0. SlotIsImage /\ SlotIsImage'
  BY SlotHolds, PTL
<1>2. Slot' \in Bitstreams \cup {"broken"} /\ (Slot' \in Bitstreams => AppHolds(Slot)')
  BY <1>0, Zenon DEF SlotIsImage
<1>3. CASE ~golden_present
  <2>1. \A p \in AppPages : flash'[p] = flash[p]
    BY <1>1, <1>3, RegionsApart, Zenon DEF MayWrite
  <2>2. ASSUME NEW f \in Bitstreams PROVE AppHolds(f)' <=> AppHolds(f)
    BY <2>1, ImagePages, Zenon DEF AppHolds
  <2>3. Slot' = Slot
    <3>1. Slot \in Bitstreams => AppHolds(Slot)
      BY <1>0, Zenon DEF SlotIsImage
    <3>2. \A f \in Bitstreams : AppHolds(f)' => Slot' = f
      BY <1>0, Zenon DEF SlotIsImage, AppHolds
    <3>3. \A f \in Bitstreams : AppHolds(f) => Slot = f
      BY <1>0, Zenon DEF SlotIsImage
    <3>4. Slot \in Bitstreams \cup {"broken"}
      BY <1>0, Zenon DEF SlotIsImage
    <3>5. ASSUME NEW i \in Bitstreams, Slot = i PROVE Slot' = i
      BY <3>1, <3>2, <3>5, <2>2, Zenon
    <3>6. ASSUME NEW j \in Bitstreams, Slot' = j PROVE Slot = j
      <4>1. AppHolds(j)'
        BY <1>2, <3>6, Zenon DEF AppHolds
      <4> QED BY <4>1, <2>2, <3>3, Zenon
    <3> QED BY <1>2, <3>4, <3>5, <3>6, Zenon
  <2> QED BY <2>3
<1>4. ASSUME NEW i \in Bitstreams, NEW j \in Bitstreams, Slot = i, Slot' = j PROVE i = j
  <2>1. AppHolds(i) /\ AppHolds(j)'
    BY <1>0, <1>2, <1>4, Zenon DEF SlotIsImage, AppHolds
  <2>2. 0 \in Pages /\ flash[0] = Block(i, 1) /\ flash'[0] = Block(j, 1)
    BY <2>1, ImagePages DEF AppHolds
  <2>3. i \in Files /\ j \in Files
    BY FileFacts
  <2>4. Block(i, 1) \notin {Blank, Garbage} /\ Block(j, 1) \notin {Blank, Garbage}
    BY <2>3, FileFacts
  <2>5. Block(i, 1) = Block(j, 1)
    BY <1>1, <2>2, <2>4, Zenon
  <2>6. Block(i, 1).src = i /\ Block(j, 1).src = j
    BY DEF Block
  <2> QED BY <2>5, <2>6, Zenon
<1>5. Slot \in Bitstreams \cup {"broken"}
  BY <1>0, Zenon DEF SlotIsImage
<1> QED BY <1>2, <1>3, <1>4, <1>5, Zenon

\* Power that comes back finds the slot as it was, or broken by a torn write.
LEMMA SlotPowerCycle ==
    ASSUME OtaInv, PowerCycle
    PROVE  /\ Slot' = Slot \/ (golden_present /\ Slot' = "broken")
           /\ running' = IF Slot' = "broken" THEN "golden" ELSE Slot'
<1>1. MayBecome(flash') /\ FallbackInv
  BY PowerCycleEffect DEF OtaInv
<1>2. FallbackInv'
  BY <1>1, PolicyKept
<1>3. SlotIsImage /\ SlotIsImage'
  BY SlotHolds, PTL
<1>4. running' = IF Slot' = "broken" THEN "golden" ELSE Slot'
  <2>1. running' = Configure(flash)'
    BY Zenon DEF PowerCycle, Configure
  <2>2. (Configure(flash) # "none")'
    BY <1>2, ConfigureFinds, PTL
  <2> QED BY <1>3, <2>1, <2>2, Zenon DEF SlotIsImage
<1>5. ASSUME NEW j \in Bitstreams, Slot' = j PROVE Slot = j
  <2>1. AppHolds(j)'
    BY <1>3, <1>5, Zenon DEF SlotIsImage, AppHolds
  <2>2. \A p \in Pages : flash'[p] = flash[p] \/ flash'[p] = Garbage
    BY Zenon DEF PowerCycle
  <2>3. \A k \in 1 .. PagesOf(j) : k - 1 \in Pages /\ Block(j, k) # Garbage
    BY <2>1, ImagePages, FileFacts DEF AppHolds
  <2>4. AppHolds(j)
    BY <2>1, <2>2, <2>3, Zenon DEF AppHolds
  <2> QED BY <1>3, <2>4, Zenon DEF SlotIsImage
<1>6. Slot' \in Bitstreams \cup {"broken"}
  BY <1>3, Zenon DEF SlotIsImage
<1> QED BY <1>1, <1>4, <1>5, <1>6, SlotStep, Zenon

\* Every step is a step of the boot slot or leaves it alone.
LEMMA SlotRefines == OtaInv /\ [OtaNext]_otaVars => [B!Next]_<<Slot, running, golden_present>>
<1> SUFFICES ASSUME OtaInv, [OtaNext]_otaVars PROVE [B!Next]_<<Slot, running, golden_present>>
  OBVIOUS
<1>1. MayBecome(flash') /\ FallbackInv
  BY FlashEffect DEF OtaInv
<1>2. golden_present' = golden_present
  BY <1>1, PolicyKept
<1>3. CASE PowerCycle
  BY <1>2, <1>3, SlotPowerCycle, Zenon DEF B!Next, B!PowerCycle
<1>4. CASE running' = running
  <2>1. SlotIsImage'
    BY SlotHolds, PTL
  <2>2. Slot' \in Bitstreams \cup {"broken"}
    BY <2>1, Zenon DEF SlotIsImage
  <2> QED BY <1>1, <1>2, <1>4, <2>2, SlotStep, Zenon DEF B!Next, B!Break, B!Install
<1>5. CASE FlushErase \/ FlushPage \/ TickEnds
  BY <1>4, <1>5, Zenon DEF FlushErase, FlushPage, TickEnds
<1> QED BY <1>3, <1>4, <1>5, OtherSteps, Zenon DEF otaVars

\* The card off the bench is an initial state of the boot slot.
LEMMA SlotInit == OtaInit => B!Init
<1> SUFFICES ASSUME OtaInit PROVE B!Init
  OBVIOUS
<1>1. AppHolds(Factory)
  <2>1. PICK provisioned \in BOOLEAN :
          flash = [p \in Pages |-> IF p < PagesOf(Factory) THEN Block(Factory, p + 1)
                                   ELSE IF p \in AppPages \cup ScratchPages THEN Blank
                                   ELSE IF p \in GoldenPages /\ ~provisioned THEN Blank
                                   ELSE Fixed(p)]
    BY Zenon DEF OtaInit
  <2>2. PagesOf(Factory) \in Nat /\ PagesOf(Factory) <= APP_LEN
    BY FileFacts
  <2>3. \A k \in 1 .. PagesOf(Factory) : k - 1 \in Pages /\ k - 1 < PagesOf(Factory) /\ (k - 1) + 1 = k
    BY <2>2, Geometry DEF Pages
  <2> QED BY <2>1, <2>2, <2>3, Zenon DEF AppHolds
<1>2. Slot = Factory
  BY <1>1, SlotHolds, FileFacts, Zenon DEF SlotIsImage
<1> QED BY <1>2, Zenon DEF OtaInit, B!Init, golden_present

\* An update gives up the old image before it installs the new one, only with
\* a golden image present, and only a power-up changes what is running: the
\* flash implements BootSlot for every geometry.
THEOREM BootSlotImplemented == OtaSpec => BootSlotSpec
BY OtaInvariant, SlotInit, SlotRefines, PTL DEF OtaSpec, BootSlotSpec, B!Spec

-----------------------------------------------------------------------------
(* A transfer that nothing disturbs installs its file block for block.     *)

\* Packets come from sessions that were opened, with blocks of their file; as
\* long as the transfer is clean, all of them serve the loader's file.
FromThisFile ==
    /\ \A m \in net : /\ session[m.sess].cur > 0
                      /\ m.blk <= Blocks[session[m.sess].file]
    /\ clean /\ is_active =>
         /\ \A s \in Sessions : Live(s) => session[s].file = LOADER.file
         /\ \A m \in net : session[m.sess].file = LOADER.file

\* The flushed sectors and the staging buffer hold the first blocks of the
\* file, one after the other.
Gathered(fl, L) ==
    /\ L.block \in 1 .. Blocks[L.file]
    /\ L.written = L.sectors * SECTOR + Len(L.stage)
    /\ \A i \in 1 .. Len(L.stage) : L.stage[i] = Block(L.file, L.sectors * SECTOR + i)
    /\ \A k \in 1 .. L.sectors * SECTOR : fl[k - 1] = Block(L.file, k)
\* The block counted is still to come, or among those gathered.
Awaited(L) == L.written = L.block - 1
Arrived(L) ==
    /\ L.last = (L.block = Blocks[L.file])
    /\ L.written = (L.block - 1) + Len(Payload(L.file, L.block))

Progress ==
    /\ Gathered(flash, LOADER) /\ LOADER.written <= APP_LEN
    /\ flush = 0 => Awaited(LOADER)
    /\ flush > 0 => Arrived(LOADER) /\ (~LOADER.last => Len(LOADER.stage) = SECTOR)

TransferInv ==
    /\ flush > 0 => LOADER.state = "WaitData"
    /\ clean /\ is_active => Progress
    /\ DoneIsInstalled

InstallInv == FromThisFile /\ TransferInv

\* A step that opens no session and sends no packet.
LEMMA NothingSent ==
    ASSUME FromThisFile, net \subseteq [sess : Sessions, blk : Nat], net' \subseteq net,
           \A s \in Sessions : /\ session'[s].file = session[s].file
                               /\ session[s].cur > 0 => session'[s].cur > 0
                               /\ Live(s)' => Live(s),
           clean' /\ is_active' => clean /\ is_active /\ LOADER'.file = LOADER.file
    PROVE  FromThisFile'
<1>1. \A m \in net' : m \in net /\ m.sess \in Sessions
  OBVIOUS
<1> QED BY <1>1, Zenon DEF FromThisFile

\* Nor does an acknowledgement.
LEMMA AcknowledgeSends ==
    ASSUME NEW L \in Loaders, L.tid # 0, Acknowledge(L),
           session \in [Sessions -> [file : Files, cur : Nat]], NEW s \in Sessions
    PROVE  /\ session'[s].file = session[s].file
           /\ session[s].cur > 0 => session'[s].cur > 0
           /\ Live(s)' => Live(s)
<1>1. L.tid \in Sessions
  BY Geometry DEF Loaders, Sessions
<1>2. CASE UNCHANGED session
  BY <1>2, Zenon DEF Live
<1>3. CASE Live(L.tid) /\ session' = [session EXCEPT ![L.tid].cur = session[L.tid].cur + 1]
  <2>1. CASE s = L.tid
    <3>1. session'[s].file = session[s].file /\ session'[s].cur = session[s].cur + 1
      BY <1>1, <1>3, <2>1
    <3>2. session[s].cur \in Nat
      OBVIOUS
    <3> QED BY <1>3, <2>1, <3>1, <3>2 DEF Live
  <2>2. CASE s # L.tid
    <3>1. session'[s] = session[s]
      BY <1>1, <1>3, <2>2
    <3> QED BY <3>1, Zenon DEF Live
  <2> QED BY <2>1, <2>2
<1> QED BY <1>2, <1>3, Zenon DEF Acknowledge

\* An acknowledgement keeps the loader's file.
LEMMA AcknowledgeFile ==
    ASSUME NEW L \in Loaders, Acknowledge(L) PROVE LOADER'.file = L.file
<1>1. L.file \in Files /\ IdleLoader \in Loaders
  BY IdleLoaderFacts DEF Loaders
<1>2. [IdleLoader EXCEPT !.state = "Done", !.file = L.file].file = L.file
  BY <1>1 DEF Loaders
<1>3. [L EXCEPT !.block = L.block + 1].file = L.file
  BY DEF Loaders
<1> QED BY <1>2, <1>3, Zenon DEF Acknowledge

\* Staging a packet changes only the session heard, the buffer, its count and
\* the mark of the last block.
LEMMA StagedFields ==
    ASSUME LOADER \in Loaders, NEW m
    PROVE  /\ StagedLoader(m).file = LOADER.file /\ StagedLoader(m).state = LOADER.state
           /\ StagedLoader(m).block = LOADER.block /\ StagedLoader(m).sectors = LOADER.sectors
           /\ StagedLoader(m).stage = LOADER.stage \o Payload(session[m.sess].file, m.blk)
           /\ StagedLoader(m).written = LOADER.written + Len(Payload(session[m.sess].file, m.blk))
           /\ StagedLoader(m).last = (m.blk = Blocks[session[m.sess].file])
<1>1. PICK t, st, w, b : /\ t = IF LOADER.tid = 0 THEN m.sess ELSE LOADER.tid
                         /\ st = LOADER.stage \o Payload(session[m.sess].file, m.blk)
                         /\ w = LOADER.written + Len(Payload(session[m.sess].file, m.blk))
                         /\ b = (m.blk = Blocks[session[m.sess].file])
  BY Zenon
<1>2. StagedLoader(m) = [LOADER EXCEPT !.tid = t, !.stage = st, !.written = w, !.last = b]
  BY <1>1, Zenon DEF StagedLoader
<1>3. LET L == [LOADER EXCEPT !.tid = t, !.stage = st, !.written = w, !.last = b]
      IN /\ L.file = LOADER.file /\ L.state = LOADER.state /\ L.block = LOADER.block
         /\ L.sectors = LOADER.sectors /\ L.stage = st /\ L.written = w /\ L.last = b
  BY DEF Loaders
<1> QED BY <1>1, <1>2, <1>3, Zenon

\* A loader at rest is not active.
LEMMA RestingState ==
    /\ Fails => LOADER'.state = "Failed" /\ ~is_active'
    /\ LOADER' = IdleLoader => LOADER'.state = "Idle" /\ ~is_active'
    /\ \A L \in Loaders : Acknowledge(L) /\ L.last => LOADER'.state = "Done" /\ ~is_active'
<1>1. IdleLoader.state = "Idle"
  BY DEF IdleLoader
<1>2. \A f, st : [IdleLoader EXCEPT !.state = st, !.file = f].state = st
  <2> TAKE f, st
  <2> QED BY DEF IdleLoader
<1>3. "Failed" \notin {"SendRrq", "WaitData"} /\ "Idle" \notin {"SendRrq", "WaitData"} /\ "Done" \notin {"SendRrq", "WaitData"}
  OBVIOUS
<1>4. Fails => LOADER'.state = "Failed"
  BY <1>2, Zenon DEF Fails
<1>5. \A L \in Loaders : Acknowledge(L) /\ L.last => LOADER'.state = "Done"
  <2> SUFFICES ASSUME NEW L \in Loaders, Acknowledge(L), L.last PROVE LOADER'.state = "Done"
    OBVIOUS
  <2>1. LOADER' = [IdleLoader EXCEPT !.state = "Done", !.file = L.file]
    BY DEF Acknowledge
  <2> QED BY <1>2, <2>1, Zenon
<1> QED BY <1>1, <1>3, <1>4, <1>5, Zenon DEF is_active

\* Only sessions for the loader's file are heard while the transfer is clean.
LEMMA FromThisFileStep == OtaInv /\ InstallInv /\ OtaNext => FromThisFile'
<1> SUFFICES ASSUME OtaInv, InstallInv, OtaNext PROVE FromThisFile'
  OBVIOUS
<1>1. /\ FromThisFile /\ net \subseteq [sess : Sessions, blk : Nat] /\ LOADER \in Loaders
      /\ session \in [Sessions -> [file : Files, cur : Nat]] /\ clean \in BOOLEAN
  BY DEF TransferInv, InstallInv, OtaInv, OtaTypeOK
<1>2. \A s \in Sessions : session[s].file \in Files /\ session[s].cur \in Nat /\ Blocks[session[s].file] \in Nat \ {0}
  BY <1>1, OtaAssumption
<1>3. CASE /\ net' \subseteq net /\ session' = session
           /\ clean' /\ is_active' => clean /\ is_active /\ LOADER'.file = LOADER.file
  BY <1>1, <1>3, NothingSent, Zenon DEF Live
<1>4. ASSUME NEW s \in Sessions, ServerSends(s) PROVE FromThisFile'
  <2>1. Live(s) /\ net' = net \cup {[sess |-> s, blk |-> session[s].cur]}
        /\ session' = session /\ LOADER' = LOADER /\ clean' = clean
    BY <1>4, Zenon DEF ServerSends, loaderVars
  <2>2. session[s].cur > 0 /\ session[s].cur <= Blocks[session[s].file]
    BY <1>2, <2>1 DEF Live
  <2>3. PICK m : m = [sess |-> s, blk |-> session[s].cur]
    OBVIOUS
  <2>4. m.sess = s /\ m.blk = session[s].cur
    BY <2>3
  <2> QED BY <1>1, <2>1, <2>2, <2>3, <2>4, Zenon DEF FromThisFile, is_active, Live
<1>5. ASSUME NEW s \in Sessions, ServerGivesUp(s) PROVE FromThisFile'
  <2>1. /\ Live(s) /\ session' = [session EXCEPT ![s].cur = Blocks[session[s].file] + 1]
        /\ net' \subseteq net \cup {[sess |-> s, blk |-> 0]}
        /\ LOADER' = LOADER /\ clean' = clean
    BY <1>5, Zenon DEF ServerGivesUp, loaderVars
  <2>2. \A r \in Sessions : /\ session'[r].file = session[r].file
                            /\ session[r].cur > 0 => session'[r].cur > 0
                            /\ Live(r)' => Live(r)
    <3> SUFFICES ASSUME NEW r \in Sessions
                 PROVE  /\ session'[r].file = session[r].file
                        /\ session[r].cur > 0 => session'[r].cur > 0
                        /\ Live(r)' => Live(r)
      OBVIOUS
    <3>1. CASE r = s
      <4>1. session'[r].file = session[r].file /\ session'[r].cur = Blocks[session[r].file] + 1
        BY <1>1, <2>1, <3>1
      <4> QED BY <1>2, <2>1, <3>1, <4>1 DEF Live
    <3>2. CASE r # s
      <4>1. session'[r] = session[r]
        BY <1>1, <2>1, <3>2
      <4> QED BY <4>1, Zenon DEF Live
    <3> QED BY <3>1, <3>2
  <2>3. PICK m : m = [sess |-> s, blk |-> 0]
    OBVIOUS
  <2>4. m.sess = s /\ m.blk = 0
    BY <2>3
  <2>5. session'[s].cur > 0 /\ 0 <= Blocks[session'[s].file] /\ (clean /\ is_active => session'[s].file = LOADER.file)
    <3>1. session[s].cur > 0
      BY <1>2, <2>1 DEF Live
    <3>2. 0 <= Blocks[session[s].file]
      BY <1>2
    <3> QED BY <1>1, <2>1, <2>2, <3>1, <3>2, Zenon DEF FromThisFile
  <2>6. \A q \in net : q.sess \in Sessions
    BY <1>1
  <2>7. \A q \in net' : q \in net \/ q = m
    BY <2>1, <2>3, Zenon
  <2>8. \A q \in net' : session'[q.sess].cur > 0 /\ q.blk <= Blocks[session'[q.sess].file]
    BY <1>1, <2>2, <2>4, <2>5, <2>6, <2>7, Zenon DEF FromThisFile
  <2>9. clean' /\ is_active' => clean /\ is_active /\ LOADER'.file = LOADER.file
    BY <2>1, Zenon DEF is_active
  <2>10. clean /\ is_active => \A q \in net' : session'[q.sess].file = LOADER.file
    BY <1>1, <2>2, <2>4, <2>5, <2>6, <2>7, Zenon DEF FromThisFile
  <2>11. clean /\ is_active => \A r \in Sessions : Live(r)' => session'[r].file = LOADER.file
    BY <1>1, <2>2, Zenon DEF FromThisFile
  <2> QED BY <2>8, <2>9, <2>10, <2>11, Zenon DEF FromThisFile
<1>6. CASE \E m \in net : LosePacket(m) \/ PollDrop(m)
  <2>1. net' \subseteq net /\ session' = session /\ LOADER' = LOADER /\ clean' = clean
    BY <1>6, Zenon DEF LosePacket, PollDrop, loaderVars
  <2> QED BY <1>3, <2>1, Zenon DEF is_active
<1>7. CASE DeadlinePasses \/ FlushErase
  <2>1. session' = session /\ net' = net
    BY <1>7, Zenon DEF DeadlinePasses, FlushErase, FlushFails, netVars
  <2>2. (LOADER' = LOADER \/ Fails) /\ (clean' => clean)
    <3>1. CASE DeadlinePasses
      BY <3>1, Zenon DEF DeadlinePasses
    <3>2. CASE FlushErase
      <4>1. LOADER' = LOADER \/ Fails
        BY <3>2, Zenon DEF FlushErase, FlushFails
      <4>2. clean' = clean \/ clean' = (clean /\ ~(chip.busy /\ chip.addr \in AppPages))
        BY <3>2, Zenon DEF FlushErase
      <4>3. clean' => clean
        <5>1. CASE clean' = clean
          BY <5>1
        <5>2. CASE clean' = (clean /\ ~(chip.busy /\ chip.addr \in AppPages))
          BY <5>2
        <5> QED BY <4>2, <5>1, <5>2
      <4> QED BY <4>1, <4>3, Zenon
    <3> QED BY <1>7, <3>1, <3>2
  <2> QED BY <1>3, <2>1, <2>2, RestingState, Zenon DEF is_active
<1>8. CASE PollTimeout \/ \E m \in net : PollError(m)
  <2>1. session' = session /\ net' \subseteq net /\ Fails
    BY <1>8, Zenon DEF PollTimeout, PollError, netVars
  <2> QED BY <1>3, <2>1, RestingState, Zenon
<1>9. CASE SendRrq
  <2>1. /\ LOADER' = [LOADER EXCEPT !.state = "WaitData"] /\ LOADER.state = "SendRrq" /\ net' = net /\ clean' = clean
    BY <1>9, Zenon DEF SendRrq
  <2>2. LOADER'.file = LOADER.file /\ is_active
    BY <1>1, <2>1 DEF Loaders, is_active
  <2>3. CASE UNCHANGED session
    BY <1>3, <2>1, <2>2, <2>3, Zenon
  <2>4. ASSUME NEW s \in NextSession, session' = [session EXCEPT ![s] = [file |-> LOADER.file, cur |-> 1]]
        PROVE  FromThisFile'
    <3>1. s \in Sessions /\ session[s].cur = 0
      BY Zenon DEF NextSession
    <3>2. session'[s].file = LOADER.file
      BY <1>1, <2>4, <3>1
    <3>3. \A r \in Sessions : r # s => session'[r] = session[r]
      BY <1>1, <2>4, <3>1, Zenon
    <3>4. \A m \in net : m.sess \in Sessions /\ m.sess # s
      BY <1>1, <3>1 DEF FromThisFile
    <3> QED BY <1>1, <2>1, <2>2, <3>1, <3>2, <3>3, <3>4, Zenon DEF FromThisFile, Live
  <2> QED BY <1>9, <2>3, <2>4, Zenon DEF SendRrq
<1>10. ASSUME NEW m \in net, PollBlock(m) PROVE FromThisFile'
  <2>1. net' \subseteq net /\ clean' = clean /\ LOADER.state = "WaitData"
    BY <1>10, Zenon DEF PollBlock
  <2>2. StagedLoader(m) \in Loaders /\ StagedLoader(m).tid # 0 /\ StagedLoader(m).file = LOADER.file
    BY <1>1, <1>10, PollBlockWays, Staged, StagedFields, Zenon
  <2>3. is_active
    BY <2>1, Zenon DEF is_active
  <2>4. CASE Fails /\ session' = session
    BY <1>3, <2>1, <2>4, RestingState, Zenon
  <2>5. CASE LOADER' = StagedLoader(m) /\ session' = session
    BY <1>3, <2>1, <2>2, <2>3, <2>5, Zenon
  <2>6. CASE Acknowledge(StagedLoader(m))
    <3>1. LOADER'.file = LOADER.file
      BY <2>2, <2>6, AcknowledgeFile, Zenon
    <3>2. \A s \in Sessions : /\ session'[s].file = session[s].file
                              /\ session[s].cur > 0 => session'[s].cur > 0
                              /\ Live(s)' => Live(s)
      BY <1>1, <2>2, <2>6, AcknowledgeSends, Zenon
    <3> QED BY <1>1, <2>1, <2>3, <3>1, <3>2, NothingSent, Zenon
  <2> QED BY <1>10, <2>4, <2>5, <2>6, PollBlockWays, Zenon
<1>11. CASE FlushPage
  <2>1. session' = session /\ net' = net /\ clean' = clean /\ (LOADER' = LOADER \/ Fails)
    BY <1>11, Zenon DEF FlushPage, FlushFails
  <2> QED BY <1>3, <2>1, RestingState, Zenon DEF is_active
<1>12. CASE FlushVerify
  <2>1. net' = net /\ clean' = clean /\ flush > 0
    BY <1>12, Geometry DEF FlushVerify
  <2>2. CASE FlushFails
    BY <1>3, <2>1, <2>2, RestingState, Zenon DEF FlushFails
  <2>3. CASE Acknowledge([LOADER EXCEPT !.sectors = @ + 1, !.stage = <<>>])
    <3>1. LOADER.tid # 0 /\ LOADER.sectors + 1 \in Nat /\ <<>> \in Seq(Content) /\ is_active
      BY <1>1, <2>1 DEF TransferInv, OtaInv, StageInv, InstallInv, Loaders, is_active
    <3>2. PICK L : L = [LOADER EXCEPT !.sectors = LOADER.sectors + 1, !.stage = <<>>]
      OBVIOUS
    <3>3. L \in Loaders
      BY <1>1, <3>1, <3>2, Zenon DEF Loaders
    <3>4. L.tid = LOADER.tid /\ L.file = LOADER.file
      <4>1. /\ [LOADER EXCEPT !.sectors = LOADER.sectors + 1, !.stage = <<>>].tid = LOADER.tid
            /\ [LOADER EXCEPT !.sectors = LOADER.sectors + 1, !.stage = <<>>].file = LOADER.file
        BY <1>1 DEF Loaders
      <4> QED BY <3>2, <4>1, Zenon
    <3>5. LOADER'.file = LOADER.file
      BY <2>3, <3>2, <3>3, <3>4, AcknowledgeFile, Zenon
    <3>6. \A s \in Sessions : /\ session'[s].file = session[s].file
                              /\ session[s].cur > 0 => session'[s].cur > 0
                              /\ Live(s)' => Live(s)
      BY <1>1, <2>3, <3>1, <3>2, <3>3, <3>4, AcknowledgeSends, Zenon
    <3> QED BY <1>1, <2>1, <3>1, <3>5, <3>6, NothingSent, Zenon
  <2> QED BY <1>12, <2>2, <2>3, Zenon DEF FlushVerify
<1>13. CASE JobNext \/ \E kind \in {"Erase", "SelfTest"}, addr \in Pages, len \in 1 .. FLASH_SIZE :
                         queue(kind, addr, len)
  <2>1. session' = session /\ net' = net /\ LOADER' = LOADER /\ (clean' => clean)
    <3>1. session' = session /\ net' = net /\ LOADER' = LOADER
      BY <1>13, Zenon DEF JobNext, TickBegins, TickEnds, TickDone, queue, netVars, loaderVars
    <3>2. clean' = clean \/ clean' = (clean /\ ~(chip.busy /\ chip.addr \in AppPages))
      BY <1>13, Zenon DEF JobNext, TickBegins, TickEnds, TickDone, queue
    <3>3. clean' => clean
      <4>1. CASE clean' = clean
        BY <4>1
      <4>2. CASE clean' = (clean /\ ~(chip.busy /\ chip.addr \in AppPages))
        BY <4>2
      <4> QED BY <3>2, <4>1, <4>2
    <3> QED BY <3>1, <3>3, Zenon
  <2> QED BY <1>3, <2>1, Zenon DEF is_active
<1>14. CASE reboot_tick \/ PowerCycle
  <2>1. session' = session /\ net' = net /\ LOADER' = IdleLoader
    BY <1>14, Zenon DEF reboot_tick, PowerCycle, ForgetRam, netVars
  <2> QED BY <1>3, <2>1, RestingState, Zenon
<1>15. CASE \E f \in Files : api_flash_bitstream_post(f)
  <2>1. session' = session /\ net' = net /\ clean' = Quiet
    BY <1>15, Zenon DEF api_flash_bitstream_post, StartLoader, netVars
  <2> QED BY <1>1, <2>1, Zenon DEF FromThisFile, Quiet, Live
<1> QED BY <1>4, <1>5, <1>6, <1>7, <1>8, <1>9, <1>10, <1>11, <1>12, <1>13, <1>14, <1>15, Zenon
        DEF OtaNext, LoaderNext

\* What the main loop's operation leaves alone when it is not in the
\* application region.
LEMMA ChipElsewhere ==
    ASSUME OtaTypeOK, ChipInv, ~(chip.busy /\ chip.addr \in AppPages)
    PROVE  \A p \in AppPages : ChipDone(flash)[p] = flash[p]
<1>1. flash \in [Pages -> Content] /\ chip.addr \in Nat /\ AppPages \subseteq Pages
  BY RegionsApart DEF OtaTypeOK, ChipOps
<1>2. CASE chip.busy /\ chip.op = "erase"
  <2>1. ChipDone(flash) = Erased(flash, chip.addr) /\ region_is_writable(chip.addr, SECTOR)
    BY <1>2, ChipPages DEF ChipDone
  <2>2. chip.addr \notin AppPages
    BY <1>2
  <2>3. \A p \in AppPages : p \notin SectorOf(chip.addr)
    BY <1>1, <2>1, <2>2, Geometry DEF region_is_writable, AppPages, SectorOf
  <2> QED BY <1>1, <2>1, <2>3, Zenon DEF Erased
<1>3. CASE chip.busy /\ chip.op = "program"
  <2>1. ChipDone(flash) = Programmed(flash, chip.addr, SelfTestPage) /\ chip.addr \notin AppPages
    BY <1>3 DEF ChipDone
  <2> QED BY <1>1, <2>1, Zenon DEF Programmed
<1>4. CASE ~(chip.busy /\ chip.op = "erase") /\ ~(chip.busy /\ chip.op = "program")
  <2>1. ChipDone(flash) = flash
    BY <1>4 DEF ChipDone
  <2> QED BY <2>1
<1> QED BY <1>2, <1>3, <1>4

\* What is gathered stays gathered as long as the flushed sectors do.
LEMMA GatheredKept ==
    ASSUME NEW fl, NEW gl, NEW L, Gathered(fl, L), \A k \in 1 .. L.sectors * SECTOR : gl[k - 1] = fl[k - 1]
    PROVE  Gathered(gl, L)
BY Zenon DEF Gathered

\* The flushed sectors lie in the application region.
LEMMA FlushedPages ==
    ASSUME NEW L \in Loaders, L.written = L.sectors * SECTOR + Len(L.stage), L.written <= APP_LEN
    PROVE  /\ L.sectors * SECTOR \in Nat /\ Len(L.stage) \in Nat /\ L.sectors * SECTOR <= APP_LEN
           /\ \A k \in 1 .. L.sectors * SECTOR : k - 1 \in AppPages
<1>1. L.sectors \in Nat /\ L.stage \in Seq(Content)
  BY DEF Loaders
<1>2. Len(L.stage) \in Nat
  BY <1>1
<1>3. \A i, j \in Nat : i * j \in Nat
  OBVIOUS
<1>4. PICK n \in Nat : n = L.sectors * SECTOR
  BY <1>1, <1>3, Geometry
<1>5. n <= APP_LEN
  BY <1>2, <1>4, Geometry
<1>6. \A k \in 1 .. n : k - 1 \in AppPages
  BY <1>5, Geometry DEF AppPages
<1> QED BY <1>2, <1>4, <1>5, <1>6

\* A block that is not the last fills its page; the last one may be empty.
LEMMA PayloadPages ==
    ASSUME NEW f \in Files, NEW k \in 1 .. Blocks[f]
    PROVE  /\ k # Blocks[f] => Payload(f, k) = <<Block(f, k)>>
           /\ Payload(f, k) = <<>> \/ Payload(f, k) = <<Block(f, k)>>
           /\ k = Blocks[f] => (k - 1) + Len(Payload(f, k)) = PagesOf(f)
<1>1. Blocks[f] \in Nat \ {0} /\ k \in Nat
  BY OtaAssumption
<1>2. Len(<<>>) = 0 /\ Len(<<Block(f, k)>>) = 1
  OBVIOUS
<1>3. CASE k = Blocks[f] /\ f \in EmptyTail
  <2>1. Payload(f, k) = <<>> /\ PagesOf(f) = Blocks[f] - 1
    BY <1>3, Zenon DEF Payload, PagesOf
  <2> QED BY <1>1, <1>2, <1>3, <2>1
<1>4. CASE ~(k = Blocks[f] /\ f \in EmptyTail)
  <2>1. Payload(f, k) = <<Block(f, k)>> /\ (k = Blocks[f] => PagesOf(f) = Blocks[f])
    BY <1>4, Zenon DEF Payload, PagesOf
  <2> QED BY <1>1, <1>2, <2>1
<1> QED BY <1>3, <1>4

\* The block waited for is staged behind the ones before it.
LEMMA BlockStaged ==
    ASSUME OtaInv, Progress, flush = 0, NEW m \in net, m.blk = LOADER.block,
           session[m.sess].file = LOADER.file
    PROVE  Gathered(flash, StagedLoader(m)) /\ Arrived(StagedLoader(m))
<1>1. LOADER \in Loaders /\ Gathered(flash, LOADER) /\ LOADER.written = LOADER.block - 1 /\ LOADER.written <= APP_LEN
  BY DEF OtaInv, OtaTypeOK, Progress, Awaited
<1>2. LOADER.file \in Files /\ LOADER.stage \in Seq(Content) /\ LOADER.block \in 1 .. Blocks[LOADER.file]
  BY <1>1 DEF Loaders, Gathered
<1>3. PICK f, b, n, d : /\ f = LOADER.file /\ f \in Files /\ b = LOADER.block /\ b \in 1 .. Blocks[f]
                        /\ n = LOADER.sectors * SECTOR /\ d = Payload(f, b)
  BY <1>2, Zenon
<1>4. /\ n \in Nat /\ Len(LOADER.stage) \in Nat /\ LOADER.written = n + Len(LOADER.stage)
  BY <1>1, <1>3, FlushedPages, Zenon DEF Gathered
<1>5. PICK L : L = StagedLoader(m)
  OBVIOUS
<1>6. /\ L.file = f /\ L.block = b /\ L.sectors = LOADER.sectors
      /\ L.stage = LOADER.stage \o d /\ L.written = LOADER.written + Len(d)
      /\ L.last = (b = Blocks[f])
  <2>1. /\ L.file = LOADER.file /\ L.block = LOADER.block /\ L.sectors = LOADER.sectors
        /\ L.stage = LOADER.stage \o Payload(session[m.sess].file, m.blk)
        /\ L.written = LOADER.written + Len(Payload(session[m.sess].file, m.blk))
        /\ L.last = (m.blk = Blocks[session[m.sess].file])
    BY <1>1, <1>5, StagedFields, Zenon
  <2> QED BY <1>3, <2>1, Zenon
<1>7. b \in Nat /\ Blocks[f] \in Nat /\ Block(f, b) \in Content /\ n + Len(LOADER.stage) = b - 1
  <2>1. Blocks[f] \in Nat
    BY <1>3, OtaAssumption
  <2>2. b \in Nat
    BY <1>3, <2>1
  <2>3. n + Len(LOADER.stage) = b - 1
    BY <1>1, <1>3, <1>4, Zenon
  <2> QED BY <1>3, <2>1, <2>2, <2>3, FileFacts, Zenon
<1>8. Gathered(flash, L)
  <2>1. L.sectors * SECTOR = n
    BY <1>3, <1>6, Zenon
  <2>2. CASE d = <<>>
    <3>1. L.stage = LOADER.stage /\ L.written = LOADER.written
      BY <1>2, <1>4, <1>6, <2>2
    <3> QED BY <1>1, <1>3, <1>6, <2>1, <3>1, Zenon DEF Gathered
  <2>3. CASE d = <<Block(f, b)>>
    <3>1. PICK j \in Nat : j = Len(LOADER.stage)
      BY <1>4
    <3>2. /\ Len(L.stage) = j + 1 /\ L.stage[j + 1] = Block(f, b)
          /\ \A i \in 1 .. j : L.stage[i] = LOADER.stage[i]
      <4>1. L.stage = Append(LOADER.stage, Block(f, b))
        BY <1>2, <1>6, <1>7, <2>3
      <4> QED BY <1>2, <1>7, <3>1, <4>1
    <3>3. \A i \in 1 .. j : LOADER.stage[i] = Block(f, n + i)
      BY <1>1, <1>3, <3>1, Zenon DEF Gathered
    <3>4. b = n + (j + 1)
      BY <1>4, <1>7, <3>1
    <3>5. \A i \in 1 .. j + 1 : i \in 1 .. j \/ i = j + 1
      BY <3>1
    <3>6. \A i \in 1 .. Len(L.stage) : L.stage[i] = Block(f, n + i)
      BY <3>2, <3>3, <3>4, <3>5, Zenon
    <3>7. L.written = n + Len(L.stage)
      <4>1. Len(d) = 1
        BY <2>3
      <4> QED BY <1>4, <1>6, <3>1, <3>2, <4>1
    <3> QED BY <1>1, <1>3, <1>6, <2>1, <3>6, <3>7, Zenon DEF Gathered
  <2> QED BY <1>3, <2>2, <2>3, PayloadPages, Zenon
<1>9. Arrived(L)
  BY <1>1, <1>3, <1>6, Zenon DEF Arrived
<1> QED BY <1>5, <1>8, <1>9, Zenon

\* Acknowledging a block that is not the last: the next one is awaited.
LEMMA AcknowledgeNext ==
    ASSUME NEW L \in Loaders, Gathered(flash, L), Arrived(L), L.written <= APP_LEN, ~L.last,
           Acknowledge(L), flash' = flash, flush' = 0
    PROVE  Progress' /\ LOADER'.state = L.state
<1>1. /\ L.file \in Files /\ L.block \in 1 .. Blocks[L.file] /\ L.block # Blocks[L.file]
      /\ Blocks[L.file] \in Nat
  BY OtaAssumption DEF Loaders, Gathered, Arrived
<1>2. L.block \in Nat /\ L.block + 1 \in 1 .. Blocks[L.file]
  BY <1>1
<1>3. Payload(L.file, L.block) = <<Block(L.file, L.block)>>
  BY <1>1, PayloadPages, Zenon
<1>4. L.written = (L.block + 1) - 1
  <2>1. Len(Payload(L.file, L.block)) = 1
    BY <1>3
  <2> QED BY <1>2, <2>1 DEF Arrived
<1>5. PICK M : M = [L EXCEPT !.block = L.block + 1]
  OBVIOUS
<1>6. LOADER' = M
  BY <1>5, Zenon DEF Acknowledge
<1>7. /\ M.block = L.block + 1 /\ M.file = L.file /\ M.written = L.written /\ M.sectors = L.sectors
      /\ M.stage = L.stage /\ M.state = L.state
  <2>1. LET N == [L EXCEPT !.block = L.block + 1]
        IN /\ N.block = L.block + 1 /\ N.file = L.file /\ N.written = L.written /\ N.sectors = L.sectors
           /\ N.stage = L.stage /\ N.state = L.state
    BY DEF Loaders
  <2> QED BY <1>5, <2>1, Zenon
<1>8. Gathered(flash, M)
  BY <1>2, <1>7, Zenon DEF Gathered
<1>9. Awaited(M) /\ M.written <= APP_LEN
  BY <1>4, <1>7, Zenon DEF Awaited
<1>10. ~(0 > 0)
  OBVIOUS
<1> QED BY <1>6, <1>7, <1>8, <1>9, <1>10, Zenon DEF Progress

\* Acknowledging the last one: the file is installed.
LEMMA AcknowledgeLast ==
    ASSUME NEW L \in Loaders, Arrived(L), L.written <= APP_LEN, L.last, L.block \in 1 .. Blocks[L.file],
           \A k \in 1 .. L.written : flash[k - 1] = Block(L.file, k),
           Acknowledge(L), flash' = flash
    PROVE  AppHolds(LOADER.file)' /\ ~is_active'
<1>1. L.file \in Files
  BY DEF Loaders
<1>2. L.written = PagesOf(L.file)
  BY <1>1, PayloadPages, Zenon DEF Arrived
<1>3. LOADER'.file = L.file
  BY AcknowledgeFile
<1>4. ~is_active'
  BY RestingState
<1> QED BY <1>2, <1>3, <1>4, Zenon DEF AppHolds

\* A block that does not complete a sector is acknowledged at once.
LEMMA InstallPollBlock ==
    ASSUME OtaInv, InstallInv, NEW m \in net, PollBlock(m)
    PROVE  TransferInv'
<1>1. /\ LOADER.state = "WaitData" /\ is_active /\ m.blk = LOADER.block /\ clean' = clean /\ flash' = flash
      /\ flush = 0 /\ LOADER \in Loaders
  BY PollBlockWays, Zenon DEF PollBlock, Expected, flashVars, is_active, OtaInv, OtaTypeOK
<1>2. PICK L : L = StagedLoader(m)
  OBVIOUS
<1>3. L \in Loaders /\ L.tid # 0 /\ Len(L.stage) <= SECTOR /\ L.state = "WaitData"
  BY <1>1, <1>2, Staged, StagedFields, Zenon
<1>4. clean => Gathered(flash, L) /\ Arrived(L)
  BY <1>1, <1>2, BlockStaged, Zenon DEF TransferInv, InstallInv, FromThisFile
<1>5. ~(0 > 0) /\ 1 > 0 /\ ~(1 = 0) /\ "WaitData" # "Done" /\ "Failed" # "Done"
  OBVIOUS
<1>6. \/ Fails /\ flush' = 0
      \/ /\ LOADER' = L /\ flush' = 1 /\ L.written <= APP_LEN
         /\ Len(L.stage) = SECTOR \/ L.last
      \/ /\ L.stage = <<>> \/ (Len(L.stage) # SECTOR /\ ~L.last)
         /\ L.written <= APP_LEN /\ Acknowledge(L) /\ flush' = 0
  BY <1>2, Zenon DEF PollBlock, StagedLoader, Isr
<1>7. CASE Fails /\ flush' = 0
  BY <1>5, <1>7, RestingState, Zenon DEF TransferInv, DoneIsInstalled
<1>8. CASE LOADER' = L /\ flush' = 1 /\ L.written <= APP_LEN /\ (Len(L.stage) = SECTOR \/ L.last)
  BY <1>1, <1>3, <1>4, <1>5, <1>8, Zenon DEF TransferInv, DoneIsInstalled, Progress
<1>9. CASE /\ L.stage = <<>> \/ (Len(L.stage) # SECTOR /\ ~L.last)
           /\ L.written <= APP_LEN /\ Acknowledge(L) /\ flush' = 0
  <2>1. CASE L.last
    <3>1. ASSUME clean PROVE AppHolds(LOADER.file)' /\ ~is_active'
      <4>1. Len(L.stage) = 0
        BY <1>9, <2>1
      <4>2. /\ Gathered(flash, L) /\ L.block \in 1 .. Blocks[L.file]
            /\ L.written = L.sectors * SECTOR + Len(L.stage)
        BY <1>4, <3>1 DEF Gathered
      <4>3. L.sectors * SECTOR \in Nat
        BY <1>3, <1>9, <4>2, FlushedPages
      <4>4. L.written = L.sectors * SECTOR
        BY <4>1, <4>2, <4>3
      <4>5. \A k \in 1 .. L.written : flash[k - 1] = Block(L.file, k)
        BY <4>2, <4>4, Zenon DEF Gathered
      <4> QED BY <1>1, <1>3, <1>4, <1>9, <2>1, <3>1, <4>2, <4>5, AcknowledgeLast
    <3> QED BY <1>1, <1>5, <1>9, <3>1, Zenon DEF TransferInv, DoneIsInstalled
  <2>2. CASE ~L.last
    <3>1. clean => Progress' /\ LOADER'.state = "WaitData"
      BY <1>1, <1>3, <1>4, <1>9, <2>2, AcknowledgeNext, Zenon
    <3> QED BY <1>1, <1>5, <1>9, <3>1, Zenon DEF TransferInv, DoneIsInstalled
  <2> QED BY <2>1, <2>2
<1> QED BY <1>6, <1>7, <1>8, <1>9

\* The sector read back is what was staged: it joins the flushed ones.
LEMMA InstallFlushVerify ==
    ASSUME OtaInv, InstallInv, FlushVerify
    PROVE  TransferInv'
<1>1. /\ LOADER \in Loaders /\ flush > 0 /\ flush' = 0 /\ clean' = clean /\ flash' = flash
  <2>1. LOADER \in Loaders /\ flush = SECTOR + 2 /\ flush' = 0 /\ clean' = clean /\ flash' = flash
    BY Zenon DEF FlushVerify, FlushFails, flashVars, OtaInv, OtaTypeOK
  <2> QED BY <2>1, Geometry
<1>2. LOADER.state = "WaitData" /\ is_active
  BY <1>1, Zenon DEF TransferInv, InstallInv, is_active
<1>3. ~(0 > 0) /\ "WaitData" # "Done" /\ "Failed" # "Done"
  OBVIOUS
<1>4. CASE FlushFails
  BY <1>1, <1>3, <1>4, RestingState, Zenon DEF TransferInv, DoneIsInstalled, FlushFails
<1>5. CASE Verified /\ Acknowledge([LOADER EXCEPT !.sectors = @ + 1, !.stage = <<>>])
  <2>1. PICK L : L = [LOADER EXCEPT !.sectors = LOADER.sectors + 1, !.stage = <<>>]
    OBVIOUS
  <2>2. /\ LOADER.sectors \in Nat /\ LOADER.sectors + 1 \in Nat /\ <<>> \in Seq(Content)
    BY <1>1 DEF Loaders
  <2>3. L \in Loaders /\ Acknowledge(L)
    <3>1. L \in Loaders
      BY <1>1, <2>1, <2>2, Zenon DEF Loaders
    <3> QED BY <1>5, <2>1, <3>1, Zenon
  <2>4. /\ L.file = LOADER.file /\ L.block = LOADER.block /\ L.written = LOADER.written /\ L.last = LOADER.last
        /\ L.sectors = LOADER.sectors + 1 /\ L.stage = <<>> /\ L.state = LOADER.state
    <3>1. LET N == [LOADER EXCEPT !.sectors = LOADER.sectors + 1, !.stage = <<>>]
          IN /\ N.file = LOADER.file /\ N.block = LOADER.block /\ N.written = LOADER.written /\ N.last = LOADER.last
             /\ N.sectors = LOADER.sectors + 1 /\ N.stage = <<>> /\ N.state = LOADER.state
      BY <1>1 DEF Loaders
    <3> QED BY <2>1, <3>1, Zenon
  <2>5. ASSUME clean
        PROVE  /\ Arrived(L) /\ L.written <= APP_LEN /\ L.block \in 1 .. Blocks[L.file]
               /\ \A k \in 1 .. L.written : flash[k - 1] = Block(L.file, k)
               /\ ~L.last => Gathered(flash, L)
    <3>1. /\ Gathered(flash, LOADER) /\ Arrived(LOADER) /\ LOADER.written <= APP_LEN
          /\ ~LOADER.last => Len(LOADER.stage) = SECTOR
      BY <1>1, <1>2, <2>5, Zenon DEF TransferInv, InstallInv, Progress
    <3>2. LOADER.written = LOADER.sectors * SECTOR + Len(LOADER.stage)
      BY <3>1 DEF Gathered
    <3>3. PICK n, j \in Nat : n = LOADER.sectors * SECTOR /\ j = Len(LOADER.stage)
      BY <1>1, <3>1, <3>2, FlushedPages
    <3>4. \A k \in 1 .. n + j : k \in 1 .. n \/ (k - n \in 1 .. j /\ n + (k - n) = k /\ n + (k - n) - 1 = k - 1)
      BY <3>3
    <3>5. \A i \in 1 .. j : flash[n + i - 1] = Block(LOADER.file, n + i)
      BY <1>5, <3>1, <3>3, Zenon DEF Verified, FlushAddr, Gathered
    <3>6. \A k \in 1 .. n : flash[k - 1] = Block(LOADER.file, k)
      BY <3>1, <3>3, Zenon DEF Gathered
    <3>7. \A k \in 1 .. n + j : flash[k - 1] = Block(LOADER.file, k)
      BY <3>4, <3>5, <3>6, Zenon
    <3>8. \A k \in 1 .. L.written : flash[k - 1] = Block(L.file, k)
      BY <2>4, <3>2, <3>3, <3>7, Zenon
    <3>9. Arrived(L) /\ L.written <= APP_LEN /\ L.block \in 1 .. Blocks[L.file]
      BY <2>4, <3>1, Zenon DEF Arrived, Gathered
    <3>10. ASSUME ~L.last PROVE Gathered(flash, L)
      <4>1. L.sectors * SECTOR = n + SECTOR
        BY <2>2, <2>4, <3>3, Geometry
      <4>2. j = SECTOR /\ Len(L.stage) = 0
        BY <2>4, <3>1, <3>3, <3>10
      <4>3. L.written = L.sectors * SECTOR + Len(L.stage) /\ L.written = L.sectors * SECTOR
        BY <2>4, <3>2, <3>3, <4>1, <4>2
      <4>4. \A i \in 1 .. Len(L.stage) : FALSE
        BY <4>2
      <4> QED BY <3>8, <3>9, <4>3, <4>4, Zenon DEF Gathered
    <3> QED BY <3>8, <3>9, <3>10
  <2>6. CASE L.last
    <3>1. clean => AppHolds(LOADER.file)' /\ ~is_active'
      BY <1>1, <2>3, <2>5, <2>6, AcknowledgeLast, Zenon
    <3> QED BY <1>1, <1>3, <3>1, Zenon DEF TransferInv, DoneIsInstalled
  <2>7. CASE ~L.last
    <3>1. clean => Progress' /\ LOADER'.state = "WaitData"
      BY <1>1, <1>2, <2>3, <2>4, <2>5, <2>7, AcknowledgeNext, Zenon
    <3> QED BY <1>1, <1>3, <3>1, Zenon DEF TransferInv, DoneIsInstalled
  <2> QED BY <2>6, <2>7
<1> QED BY <1>4, <1>5, Zenon DEF FlushVerify

\* A step that leaves the transfer and the flushed sectors alone.
LEMMA InstallStays ==
    ASSUME OtaInv, InstallInv, LOADER' = LOADER, flush' = flush, clean' => clean,
           clean' => \A p \in AppPages : flash'[p] = flash[p]
    PROVE  TransferInv'
<1>1. LOADER \in Loaders
  BY DEF OtaInv, OtaTypeOK
<1>2. ASSUME clean', is_active' PROVE Progress'
  <2>1. Progress /\ \A p \in AppPages : flash'[p] = flash[p]
    BY <1>2, Zenon DEF TransferInv, InstallInv, is_active
  <2>2. Gathered(flash, LOADER) /\ LOADER.written <= APP_LEN /\ LOADER.written = LOADER.sectors * SECTOR + Len(LOADER.stage)
    BY <2>1, Zenon DEF Progress, Gathered
  <2>3. \A k \in 1 .. LOADER.sectors * SECTOR : flash'[k - 1] = flash[k - 1]
    BY <1>1, <2>1, <2>2, FlushedPages
  <2>4. Gathered(flash', LOADER)
    BY <2>2, <2>3, GatheredKept, Zenon
  <2> QED BY <2>1, <2>4, Zenon DEF Progress
<1>3. ASSUME LOADER'.state = "Done", clean' PROVE AppHolds(LOADER.file)'
  <2>1. AppHolds(LOADER.file) /\ \A p \in AppPages : flash'[p] = flash[p]
    BY <1>3, Zenon DEF TransferInv, InstallInv, DoneIsInstalled
  <2>2. PagesOf(LOADER.file) \in Nat
    BY <1>1, FileFacts DEF Loaders
  <2>3. \A k \in 1 .. PagesOf(LOADER.file) : k - 1 \in AppPages
    BY <2>1, <2>2, Geometry DEF AppHolds, AppPages
  <2> QED BY <2>1, <2>3, Zenon DEF AppHolds
<1>4. flush' > 0 => LOADER'.state = "WaitData"
  BY Zenon DEF TransferInv, InstallInv
<1> QED BY <1>2, <1>3, <1>4, Zenon DEF TransferInv, DoneIsInstalled

\* A step after which no transfer is under way or done.
LEMMA InstallEnds ==
    ASSUME LOADER'.state \in {"Idle", "Failed"}, flush' = 0
    PROVE  TransferInv'
<1>1. ~is_active' /\ LOADER'.state # "Done" /\ ~(flush' > 0)
  BY DEF is_active
<1> QED BY <1>1, Zenon DEF TransferInv, DoneIsInstalled

\* A transfer begins with nothing gathered.
LEMMA InstallBegins ==
    ASSUME NEW f \in Files, StartLoader(f), flush' = 0
    PROVE  TransferInv'
<1>1. LOADER' = [IdleLoader EXCEPT !.state = "SendRrq", !.file = f, !.block = 1]
  BY Zenon DEF StartLoader
<1>2. LET L == [IdleLoader EXCEPT !.state = "SendRrq", !.file = f, !.block = 1]
      IN /\ L.state = "SendRrq" /\ L.file = f /\ L.block = 1 /\ L.written = IdleLoader.written
         /\ L.sectors = IdleLoader.sectors /\ L.stage = IdleLoader.stage
  BY IdleLoaderFacts DEF Loaders
<1>3. IdleLoader.written = 0 /\ IdleLoader.sectors = 0 /\ IdleLoader.stage = <<>>
  BY DEF IdleLoader
<1>4. PICK L : L = LOADER'
  OBVIOUS
<1>5. /\ L.state = "SendRrq" /\ L.file = f /\ L.block = 1 /\ L.written = 0
      /\ L.sectors = 0 /\ L.stage = <<>>
  BY <1>1, <1>2, <1>3, <1>4, Zenon
<1>6. L.sectors * SECTOR = 0 /\ Len(L.stage) = 0
  BY <1>5, Geometry
<1>7. 1 \in 1 .. Blocks[f] /\ 0 = 0 + 0 /\ 0 = 1 - 1 /\ 0 <= APP_LEN /\ 1 .. 0 = {} /\ ~(0 > 0)
  BY OtaAssumption, Geometry
<1>8. Gathered(flash', L)
  BY <1>5, <1>6, <1>7, Zenon DEF Gathered
<1>9. Progress'
  BY <1>4, <1>5, <1>7, <1>8, Zenon DEF Progress, Awaited
<1>10. LOADER'.state # "Done"
  BY <1>4, <1>5
<1> QED BY <1>7, <1>9, <1>10, Zenon DEF TransferInv, DoneIsInstalled

\* The request leaves what is gathered alone: nothing.
LEMMA InstallSendRrq ==
    ASSUME OtaInv, InstallInv, SendRrq
    PROVE  TransferInv'
<1>1. /\ LOADER \in Loaders /\ LOADER.state = "SendRrq" /\ LOADER' = [LOADER EXCEPT !.state = "WaitData"]
      /\ flush = 0 /\ flush' = 0 /\ flash' = flash /\ clean' = clean
  BY Zenon DEF SendRrq, Isr, flashVars, OtaInv, OtaTypeOK
<1>2. PICK L : L = LOADER'
  OBVIOUS
<1>3. /\ L.state = "WaitData" /\ L.file = LOADER.file /\ L.block = LOADER.block /\ L.written = LOADER.written
      /\ L.sectors = LOADER.sectors /\ L.stage = LOADER.stage
  <2>1. LET N == [LOADER EXCEPT !.state = "WaitData"]
        IN /\ N.state = "WaitData" /\ N.file = LOADER.file /\ N.block = LOADER.block /\ N.written = LOADER.written
           /\ N.sectors = LOADER.sectors /\ N.stage = LOADER.stage
    BY <1>1 DEF Loaders
  <2> QED BY <1>1, <1>2, <2>1, Zenon
<1>4. ~(0 > 0) /\ "WaitData" # "Done"
  OBVIOUS
<1>5. is_active
  BY <1>1, Zenon DEF is_active
<1>6. clean => Gathered(flash, L) /\ L.written <= APP_LEN /\ Awaited(L)
  BY <1>1, <1>3, <1>5, Zenon DEF TransferInv, InstallInv, Progress, Gathered, Awaited
<1> QED BY <1>1, <1>2, <1>3, <1>4, <1>6, Zenon DEF TransferInv, DoneIsInstalled, Progress

\* A step inside a flush that leaves the flushed sectors alone.
LEMMA InstallFlushes ==
    ASSUME OtaInv, InstallInv, LOADER' = LOADER, flush > 0, flush' > 0, flush' # 0, clean' => clean,
           clean' => \A k \in 1 .. FlushAddr : flash'[k - 1] = flash[k - 1]
    PROVE  TransferInv'
<1>1. LOADER.state = "WaitData" /\ LOADER'.state # "Done"
  BY DEF TransferInv, InstallInv
<1>2. ASSUME clean', is_active' PROVE Progress'
  <2>1. /\ Progress /\ Gathered(flash, LOADER)
        /\ \A k \in 1 .. LOADER.sectors * SECTOR : flash'[k - 1] = flash[k - 1]
    BY <1>2, Zenon DEF TransferInv, InstallInv, is_active, Progress, FlushAddr
  <2>2. Gathered(flash', LOADER)
    BY <2>1, GatheredKept, Zenon
  <2> QED BY <2>1, <2>2, Zenon DEF Progress
<1> QED BY <1>1, <1>2, Zenon DEF TransferInv, DoneIsInstalled

\* The erase of a flush.
LEMMA InstallFlushErase ==
    ASSUME OtaInv, InstallInv, FlushErase
    PROVE  TransferInv'
<1>1. OtaTypeOK /\ ChipInv /\ flash \in [Pages -> Content] /\ FlushAddr \in Nat /\ flush = 1
  BY FlushAddress DEF OtaInv, OtaTypeOK, FlushErase
<1>2. CASE FlushFails
  BY <1>2, RestingState, InstallEnds DEF FlushFails
<1>3. CASE /\ region_is_writable(FlushAddr, SECTOR)
           /\ flash' = IF chip.busy THEN ChipDone(flash) ELSE Erased(flash, FlushAddr)
           /\ clean' = (clean /\ ~(chip.busy /\ chip.addr \in AppPages))
           /\ flush' = 2 /\ UNCHANGED LOADER
  <2>1. (clean' => clean) /\ (clean' => ~(chip.busy /\ chip.addr \in AppPages))
    BY <1>3
  <2>2. FlushAddr <= APP_LEN \/ FlushAddr >= SCRATCH_BASE
    BY <1>1, <1>3, Geometry DEF region_is_writable
  <2>3. ASSUME clean' PROVE \A k \in 1 .. FlushAddr : flash'[k - 1] = flash[k - 1]
    <3>1. Progress
      BY <1>1, <2>1, <2>3 DEF TransferInv, InstallInv, is_active
    <3>2. \A k \in 1 .. FlushAddr : k - 1 \in AppPages
      BY <1>1, <3>1, FlushedPages DEF Progress, Gathered, FlushAddr, OtaTypeOK
    <3>3. CASE chip.busy
      BY <1>1, <1>3, <2>1, <2>3, <3>2, <3>3, ChipElsewhere, Zenon
    <3>4. CASE ~chip.busy
      <4>1. flash' = Erased(flash, FlushAddr)
        BY <1>3, <3>4
      <4>2. \A k \in 1 .. FlushAddr : k - 1 \notin SectorOf(FlushAddr)
        BY <1>1, Geometry DEF SectorOf
      <4> QED BY <1>1, <3>2, <4>1, <4>2, RegionsApart, Zenon DEF Erased
    <3> QED BY <3>3, <3>4
  <2>4. flush > 0 /\ flush' > 0 /\ flush' # 0
    BY <1>1, <1>3
  <2> QED BY <1>3, <2>1, <2>3, <2>4, InstallFlushes
<1> QED BY <1>2, <1>3, Zenon DEF FlushErase

\* The programming of one page of a flush.
LEMMA InstallFlushPage ==
    ASSUME OtaInv, InstallInv, FlushPage
    PROVE  TransferInv'
<1>1. flash \in [Pages -> Content] /\ FlushAddr \in Nat /\ flush \in 2 .. SECTOR + 1 /\ clean' = clean
  BY FlushAddress DEF OtaInv, OtaTypeOK, FlushPage
<1>2. CASE FlushFails
  BY <1>2, RestingState, InstallEnds DEF FlushFails
<1>3. ASSUME NEW a, a = FlushAddr + flush - 2, NEW c,
             flash' \in {Programmed(flash, a, c), [flash EXCEPT ![a] = Garbage]},
             flush' = flush + 1, LOADER' = LOADER
      PROVE  TransferInv'
  <2>1. \A k \in 1 .. FlushAddr : k - 1 # a
    BY <1>1, <1>3, Geometry
  <2>2. \A p \in Pages : p # a => flash'[p] = flash[p]
    BY <1>1, <1>3, Zenon DEF Programmed
  <2>3. ASSUME clean' PROVE \A k \in 1 .. FlushAddr : flash'[k - 1] = flash[k - 1]
    <3>1. flush > 0
      BY <1>1, Geometry
    <3>2. Progress
      BY <1>1, <2>3, <3>1, Zenon DEF TransferInv, InstallInv, is_active
    <3>3. \A k \in 1 .. FlushAddr : k - 1 \in AppPages
      BY <1>1, <3>2, FlushedPages DEF Progress, Gathered, FlushAddr, OtaTypeOK, OtaInv
    <3> QED BY <2>1, <2>2, <3>3, RegionsApart, Zenon
  <2>4. flush > 0 /\ flush' > 0 /\ flush' # 0
    BY <1>1, <1>3, Geometry
  <2> QED BY <1>1, <1>3, <2>3, <2>4, InstallFlushes
<1>4. PICK a, c : a = FlushAddr + flush - 2 /\ c = StagePage(flush - 1)
  OBVIOUS
<1>5. \/ FlushFails
      \/ /\ flash' \in {Programmed(flash, a, c), [flash EXCEPT ![a] = Garbage]}
         /\ flush' = flush + 1 /\ LOADER' = LOADER
  BY <1>4, Zenon DEF FlushPage
<1> QED BY <1>2, <1>3, <1>4, <1>5

\* A job that ends, in the application region or elsewhere.
LEMMA InstallTickEnds ==
    ASSUME OtaInv, InstallInv, TickEnds
    PROVE  TransferInv'
<1>1. /\ flash' = ChipDone(flash) /\ clean' = (clean /\ ~(chip.busy /\ chip.addr \in AppPages))
      /\ LOADER' = LOADER /\ flush' = flush /\ OtaTypeOK /\ ChipInv
  BY Zenon DEF TickEnds, loaderVars, OtaInv
<1>2. (clean' => clean) /\ (clean' => ~(chip.busy /\ chip.addr \in AppPages))
  BY <1>1
<1>3. clean' => \A p \in AppPages : flash'[p] = flash[p]
  BY <1>1, <1>2, ChipElsewhere, Zenon
<1> QED BY <1>1, <1>2, <1>3, InstallStays

\* The invariant of an installation is inductive.
LEMMA InstallStep == OtaInv /\ InstallInv /\ [OtaNext]_otaVars => InstallInv'
<1> SUFFICES ASSUME OtaInv, InstallInv, [OtaNext]_otaVars PROVE InstallInv'
  OBVIOUS
<1>1. CASE UNCHANGED otaVars
  BY <1>1 DEF TransferInv, otaVars, InstallInv, FromThisFile, Progress, DoneIsInstalled, is_active, Live, AppHolds, FlushAddr
<1>2. CASE OtaNext
  <2> SUFFICES TransferInv'
    BY <1>2, FromThisFileStep DEF InstallInv
  <2>2. CASE LOADER' = LOADER /\ flush' = flush /\ flash' = flash /\ clean' = clean
    BY <2>2, InstallStays, Zenon
  <2>3. CASE \E s \in Sessions : ServerSends(s) \/ ServerGivesUp(s)
    BY <2>2, <2>3, Zenon DEF ServerSends, ServerGivesUp, loaderVars, flashVars
  <2>4. CASE (\E m \in net : LosePacket(m) \/ PollDrop(m)) \/ DeadlinePasses
    BY <2>2, <2>4, Zenon DEF LosePacket, PollDrop, DeadlinePasses, loaderVars, flashVars
  <2>5. CASE TickBegins \/ TickDone
    BY <2>2, <2>5, Zenon DEF TickBegins, TickDone, loaderVars, flashVars
  <2>6. CASE \E kind \in {"Erase", "SelfTest"}, addr \in Pages, len \in 1 .. FLASH_SIZE : queue(kind, addr, len)
    BY <2>2, <2>6, Zenon DEF queue, loaderVars, flashVars
  <2>7. CASE PollTimeout \/ \E m \in net : PollError(m)
    <3>1. Fails /\ flush' = 0
      BY <2>7, Zenon DEF PollTimeout, PollError, Isr
    <3> QED BY <3>1, RestingState, InstallEnds, Zenon
  <2>8. CASE reboot_tick \/ PowerCycle
    <3>1. LOADER' = IdleLoader /\ flush' = 0
      BY <2>8, Zenon DEF reboot_tick, PowerCycle, ForgetRam
    <3> QED BY <3>1, RestingState, InstallEnds, Zenon
  <2>9. CASE \E f \in Files : api_flash_bitstream_post(f)
    <3>1. flush' = 0 /\ \E f \in Files : StartLoader(f)
      BY <2>9, Zenon DEF api_flash_bitstream_post, Isr
    <3> QED BY <3>1, InstallBegins, Zenon
  <2> QED
    BY <1>2, <2>3, <2>4, <2>5, <2>6, <2>7, <2>8, <2>9, InstallSendRrq, InstallPollBlock, InstallFlushErase,
       InstallFlushPage, InstallFlushVerify, InstallTickEnds, Zenon
    DEF OtaNext, LoaderNext, JobNext
<1> QED BY <1>1, <1>2

\* "done" means the whole file is in flash, block for block: repeated, lost and
\* late packets, failed transfers before it, resets and jobs elsewhere in the
\* flash leave no hole and no shifted block, whatever the size of a sector and
\* the length of the file.
THEOREM DoneInstalls == OtaSpec => []DoneIsInstalled
<1>1. OtaInit => InstallInv
  <2> SUFFICES ASSUME OtaInit PROVE InstallInv
    OBVIOUS
  <2>1. net = {} /\ flush = 0 /\ LOADER.state = "Idle" /\ ~(0 > 0)
    BY DEF OtaInit, IdleLoader
  <2>2. ~is_active /\ LOADER.state # "Done"
    BY <2>1 DEF is_active
  <2> QED BY <2>1, <2>2, Zenon DEF TransferInv, InstallInv, FromThisFile, DoneIsInstalled
<1>2. InstallInv => DoneIsInstalled
  BY DEF TransferInv, InstallInv
<1> QED BY <1>1, <1>2, InstallStep, OtaInvariant, PTL DEF OtaSpec
=============================================================================
