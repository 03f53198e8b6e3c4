-------------------------------- MODULE Ota --------------------------------
(***************************************************************************)
(* Over-the-air bitstream updates of one card: the SPI flash and its       *)
(* writable regions and background jobs (flash_write.rs), the TFTP-to-     *)
(* flash loader that runs in the network interrupt (tftp_flash.rs), the    *)
(* request handlers that start both (network.rs) and the TFTP server that  *)
(* serves the files.                                                       *)
(*                                                                         *)
(* Flash is addressed in pages; a TFTP block fills one page.  A page       *)
(* remembers which block of which file it holds.                           *)
(***************************************************************************)
EXTENDS Integers, Sequences, FiniteSets

CONSTANTS
    SECTOR,        \* pages in a sector
    APP_LEN,       \* the application region starts at page 0
    GOLDEN_BASE, GOLDEN_LEN,
    MARGINAL_BASE, MARGINAL_LEN,
    SCRATCH_BASE, SCRATCH_LEN,
    FLASH_SIZE,
    Files,         \* what the TFTP server can serve
    Blocks,        \* Blocks[f]: DATA packets of file f; the last one is short
    EmptyTail,     \* files whose last packet carries no byte
    Bitstreams,    \* files that begin with an ECP5 preamble
    Factory,       \* the bitstream in the application region at first
    NetCap,        \* bound: packets under way
    MaxRequests,   \* bound: transfers and background jobs accepted
    MaxFaults      \* bound: power cycles and resets

ASSUME OtaAssumption ==
    /\ SECTOR \in Nat \ {0}
    /\ {APP_LEN, GOLDEN_BASE, GOLDEN_LEN, MARGINAL_BASE, MARGINAL_LEN,
        SCRATCH_BASE, SCRATCH_LEN, FLASH_SIZE} \subseteq Nat
    /\ APP_LEN > 0 /\ APP_LEN <= GOLDEN_BASE /\ GOLDEN_LEN > 0
    /\ APP_LEN <= MARGINAL_BASE /\ GOLDEN_BASE + GOLDEN_LEN <= MARGINAL_BASE
    /\ MARGINAL_BASE + MARGINAL_LEN <= SCRATCH_BASE
    /\ SCRATCH_BASE + SCRATCH_LEN <= FLASH_SIZE
    /\ \A b \in {APP_LEN, GOLDEN_BASE, MARGINAL_BASE, SCRATCH_BASE, FLASH_SIZE} :
         b % SECTOR = 0
    /\ Blocks \in [Files -> Nat \ {0}]
    /\ EmptyTail \subseteq Files /\ Bitstreams \subseteq Files
    /\ Factory \in Bitstreams /\ Blocks[Factory] <= APP_LEN
    /\ \A f \in Bitstreams : f \in EmptyTail => Blocks[f] > 1
    /\ Files \cap {"blank", "garbage", "selftest", "fixed", "golden", "none", "broken"} = {}
    /\ {NetCap, MaxRequests, MaxFaults} \subseteq Nat

Pages == 0 .. FLASH_SIZE - 1
Sessions == 1 .. MaxRequests
Content == [src : Files \cup {"blank", "garbage", "selftest", "fixed"}, blk : Nat]
Blank == [src |-> "blank", blk |-> 0]
Garbage == [src |-> "garbage", blk |-> 0]
SelfTestPage == [src |-> "selftest", blk |-> 0]
Fixed(a) == [src |-> "fixed", blk |-> a]     \* never written by the card
Block(f, k) == [src |-> f, blk |-> k]

SectorOf(a) == a .. a + SECTOR - 1
AppPages == 0 .. APP_LEN - 1
GoldenPages == GOLDEN_BASE .. GOLDEN_BASE + GOLDEN_LEN - 1
ScratchPages == SCRATCH_BASE .. SCRATCH_BASE + SCRATCH_LEN - 1

\* What DATA packet k of file f carries, as a sequence of at most one page.
Payload(f, k) ==
    IF k = Blocks[f] /\ f \in EmptyTail THEN <<>> ELSE <<Block(f, k)>>
PagesOf(f) == IF f \in EmptyTail THEN Blocks[f] - 1 ELSE Blocks[f]

VARIABLES
    flash,      \* flash[a]: content of page a
    running,    \* the image the FPGA was configured from at the last power-up
    LOADER,     \* BitstreamLoader
    expired,    \* its deadline has passed
    flush,      \* where the interrupt is inside flush(): 0 outside, 1 at the
                \* erase, 1 + k at page k of the sector, SECTOR + 2 at the check
    JOB,        \* the background job
    chip,       \* flash operation the main loop is waiting for
    session,    \* session[s]: file and last block sent by TFTP session s
    net,        \* DATA (blk > 0) and ERROR (blk = 0) packets under way
    requests, faults,
    clean       \* history: nothing but the loader's own transfer wrote the
                \* application region since it started, no older session lives

flashVars == <<flash, running>>
loaderVars == <<LOADER, expired, flush>>
jobVars == <<JOB, chip, requests>>
netVars == <<session, net>>
otaVars == <<flash, running, LOADER, expired, flush, JOB, chip, session,
             net, requests, faults, clean>>

IdleLoader == [state |-> "Idle", file |-> Factory, tid |-> 0, block |-> 0,
               written |-> 0, sectors |-> 0, stage |-> <<>>, last |-> FALSE]
NoJob == [kind |-> "None", state |-> "Idle", addr |-> 0, len |-> 0, cursor |-> 0,
          erased |-> FALSE]
NoOp == [op |-> "none", addr |-> 0, busy |-> FALSE]

Loaders ==
    [state : {"Idle", "SendRrq", "WaitData", "Done", "Failed"}, file : Files,
     tid : 0 .. MaxRequests, block : Nat, written : Nat, sectors : Nat,
     stage : Seq(Content), last : BOOLEAN]
Jobs ==
    [kind : {"None", "Erase", "SelfTest"}, state : {"Idle", "Queued", "Running", "Done", "Failed"},
     addr : Nat, len : Nat, cursor : Nat, erased : BOOLEAN]
ChipOps == [op : {"none", "erase", "program"}, addr : Nat, busy : BOOLEAN]

\* Type correctness of the update path.
OtaTypeOK ==
    /\ flash \in [Pages -> Content]
    /\ running \in Bitstreams \cup {"golden", "none"}
    /\ LOADER \in Loaders
    /\ expired \in BOOLEAN
    /\ flush \in 0 .. SECTOR + 2
    /\ JOB \in Jobs /\ chip \in ChipOps
    /\ session \in [Sessions -> [file : Files, cur : Nat]]
    /\ net \subseteq [sess : Sessions, blk : Nat]
    /\ requests \in 0 .. MaxRequests /\ faults \in 0 .. MaxFaults
    /\ clean \in BOOLEAN
    /\ Len(LOADER.stage) <= SECTOR

-----------------------------------------------------------------------------
(* Flash.                                                                  *)

\* The application region holds all of file f.
AppHolds(f) == /\ PagesOf(f) <= APP_LEN
               /\ \A k \in 1 .. PagesOf(f) : flash[k - 1] = Block(f, k)

\* The golden region begins with a preamble.
golden_present == flash[GOLDEN_BASE] = Fixed(GOLDEN_BASE)

\* Mutant: the golden region is protected, its absence is not noticed.
WritableWithoutNet(addr, len) ==
    LET end == addr + len IN
    /\ end <= FLASH_SIZE /\ len > 0
    /\ addr % SECTOR = 0 /\ len % SECTOR = 0
    /\ ~(addr < GOLDEN_BASE + GOLDEN_LEN /\ end > GOLDEN_BASE)
    /\ ~(addr < MARGINAL_BASE + MARGINAL_LEN /\ end > MARGINAL_BASE)
    /\ \/ end <= APP_LEN
       \/ addr >= SCRATCH_BASE /\ end <= SCRATCH_BASE + SCRATCH_LEN

\* Mutant: only the first page of a request is looked at.
WritableByStart(addr, len) ==
    /\ len > 0 /\ addr % SECTOR = 0
    /\ \/ addr <= APP_LEN /\ golden_present
       \/ addr \in ScratchPages

\* The one policy decision: golden and marginal never, the application region
\* only with a golden image to fall back on, scratch always.
region_is_writable(addr, len) ==
    LET end == addr + len IN
    /\ end <= FLASH_SIZE /\ len > 0
    /\ addr % SECTOR = 0 /\ len % SECTOR = 0
    /\ ~(addr < GOLDEN_BASE + GOLDEN_LEN /\ end > GOLDEN_BASE)
    /\ ~(addr < MARGINAL_BASE + MARGINAL_LEN /\ end > MARGINAL_BASE)
    /\ \/ end <= APP_LEN /\ golden_present
       \/ addr >= SCRATCH_BASE /\ end <= SCRATCH_BASE + SCRATCH_LEN

Erased(fl, a) == [p \in Pages |-> IF p \in SectorOf(a) THEN Blank ELSE fl[p]]

\* Programming a page that is not blank leaves neither content.
Programmed(fl, a, c) ==
    [fl EXCEPT ![a] = IF fl[a] = Blank THEN c ELSE IF fl[a] = c THEN c ELSE Garbage]

\* What the operation the main loop started, if it is still going on, does.
ChipDone(fl) ==
    CASE chip.busy /\ chip.op = "erase" -> Erased(fl, chip.addr)
      [] chip.busy /\ chip.op = "program" -> Programmed(fl, chip.addr, SelfTestPage)
      [] OTHER -> fl

\* A card off the bench, with or without its golden image.
OtaInit ==
    /\ \E provisioned \in BOOLEAN : flash = [p \in Pages |-> IF p < PagesOf(Factory) THEN Block(Factory, p + 1)
                               ELSE IF p \in AppPages \cup ScratchPages THEN Blank
                               ELSE IF p \in GoldenPages /\ ~provisioned THEN Blank
                               ELSE Fixed(p)]
    /\ running = Factory
    /\ LOADER = IdleLoader /\ expired = FALSE /\ flush = 0
    /\ JOB = NoJob /\ chip = NoOp
    /\ session = [s \in Sessions |-> [file |-> Factory, cur |-> 0]]
    /\ net = {}
    /\ requests = 0 /\ faults = 0
    /\ clean = TRUE

-----------------------------------------------------------------------------
(* TFTP server.  A session sends a block, repeats it until it is           *)
(* acknowledged, and gives up after a while; packets get lost on both ways.*)

Live(s) == session[s].cur \in 1 .. Blocks[session[s].file]
Quiet == /\ \A s \in Sessions : ~Live(s)
         /\ net = {}
NextSession == {s \in Sessions : session[s].cur = 0 /\ \A r \in 1 .. s - 1 : session[r].cur > 0}

ServerSends(s) ==
    /\ Live(s) /\ Cardinality(net) < NetCap
    /\ net' = net \cup {[sess |-> s, blk |-> session[s].cur]}
    /\ UNCHANGED <<flashVars, loaderVars, jobVars, session, faults, clean>>

\* The file is gone, or the retries are used up.
ServerGivesUp(s) ==
    /\ Live(s)
    /\ session' = [session EXCEPT ![s].cur = Blocks[session[s].file] + 1]
    /\ \/ /\ Cardinality(net) < NetCap
          /\ net' = net \cup {[sess |-> s, blk |-> 0]}
       \/ UNCHANGED net
    /\ UNCHANGED <<flashVars, loaderVars, jobVars, faults, clean>>

LosePacket(m) ==
    /\ net' = net \ {m}
    /\ UNCHANGED <<flashVars, loaderVars, jobVars, session, faults, clean>>

-----------------------------------------------------------------------------
(* The loader, polled from the network interrupt.                          *)

Up == running # "none"
\* The interrupt can be taken: it is not already inside a flush.
Isr == Up /\ flush = 0
is_active == LOADER.state \in {"SendRrq", "WaitData"}

\* start(), called by the request that names file f.
StartLoader(f) ==
    /\ region_is_writable(0, APP_LEN)
    /\ LOADER' = [IdleLoader EXCEPT !.state = "SendRrq", !.file = f, !.block = 1]
    /\ expired' = FALSE
    /\ clean' = Quiet

\* poll(), SendRrq: the request reaches the server, or it does not.
SendRrq ==
    /\ Isr /\ LOADER.state = "SendRrq"
    /\ LOADER' = [LOADER EXCEPT !.state = "WaitData"]
    /\ expired' = FALSE
    /\ \/ UNCHANGED session
       \/ \E s \in NextSession : session' = [session EXCEPT ![s] = [file |-> LOADER.file, cur |-> 1]]
    /\ UNCHANGED <<flashVars, flush, jobVars, net, faults, clean>>

\* The deadline passes, at any time the network is slow.
DeadlinePasses ==
    /\ Up /\ LOADER.state = "WaitData" /\ ~expired
    /\ expired' = TRUE
    /\ UNCHANGED <<flashVars, LOADER, flush, jobVars, netVars, faults, clean>>

\* What a failed transfer leaves in the other fields is read by nobody: start()
\* sets them all.
Fails == LOADER' = [IdleLoader EXCEPT !.state = "Failed", !.file = LOADER.file]

\* Mutant: the deadline is only looked at when there is a packet to read.
TimeoutIfHeard ==
    /\ Isr /\ LOADER.state = "WaitData" /\ expired /\ net # {}
    /\ Fails
    /\ UNCHANGED <<flashVars, expired, flush, jobVars, netVars, faults, clean>>

\* poll(), WaitData, after the deadline.
PollTimeout ==
    /\ Isr /\ LOADER.state = "WaitData" /\ expired
    /\ Fails
    /\ UNCHANGED <<flashVars, expired, flush, jobVars, netVars, faults, clean>>

\* An ERROR packet ends the transfer, whoever sent it.
PollError(m) ==
    /\ Isr /\ LOADER.state = "WaitData" /\ ~expired
    /\ m \in net /\ m.blk = 0
    /\ net' = net \ {m}
    /\ Fails
    /\ UNCHANGED <<flashVars, expired, flush, jobVars, session, faults, clean>>

\* The block waited for, whichever session sends it.
Expected(m) == m.blk = LOADER.block

\* Any other block than the one waited for is dropped and not acknowledged;
\* nobody reads the socket while no transfer is running.
PollDrop(m) ==
    /\ Isr /\ m \in net
    /\ LOADER.state = "WaitData" /\ ~expired /\ m.blk > 0 => ~Expected(m)
    /\ is_active => LOADER.state = "WaitData" /\ ~expired /\ m.blk > 0
    /\ net' = net \ {m}
    /\ UNCHANGED <<flashVars, loaderVars, jobVars, session, faults, clean>>

\* The ACK goes to the first port heard, which need not be the sender's.  It is
\* lost, or the session takes it for the block it sent last and moves on.
Acknowledge(L) ==
    /\ \/ UNCHANGED session
       \/ /\ Live(L.tid) /\ session[L.tid].cur = L.block
          /\ session' = [session EXCEPT ![L.tid].cur = @ + 1]
    /\ LOADER' = IF L.last THEN [IdleLoader EXCEPT !.state = "Done", !.file = L.file] ELSE [L EXCEPT !.block = @ + 1]
    /\ expired' = FALSE

\* The block waited for, from whichever session.
PollBlock(m) ==
    /\ Isr /\ LOADER.state = "WaitData" /\ ~expired
    /\ m \in net /\ Expected(m)
    /\ net' \in {net \ {m}, net}       \* the network may deliver it again
    /\ LET f == session[m.sess].file
           data == Payload(f, m.blk)
           L == [LOADER EXCEPT !.tid = IF @ = 0 THEN m.sess ELSE @,
                               !.stage = @ \o data, !.written = @ + Len(data),
                               !.last = (m.blk = Blocks[f])]
           sync == LOADER.written = 0 => f \in Bitstreams
           fits == L.written <= APP_LEN
           full == L.stage # <<>> /\ (Len(L.stage) = SECTOR \/ L.last)
       IN \/ /\ ~sync \/ ~fits
             /\ Fails
             /\ UNCHANGED <<expired, flush, session>>
          \/ /\ sync /\ fits /\ full
             /\ LOADER' = L
             /\ flush' = 1
             /\ UNCHANGED <<expired, session>>
          \/ /\ sync /\ fits /\ ~full
             /\ Acknowledge(L)
             /\ UNCHANGED flush
    /\ UNCHANGED <<flashVars, jobVars, faults, clean>>

FlushAddr == LOADER.sectors * SECTOR
StagePage(k) == IF k <= Len(LOADER.stage) THEN LOADER.stage[k] ELSE Blank

FlushFails == /\ Fails
              /\ flush' = 0
              /\ UNCHANGED <<expired, session>>

\* erase_sector(): a chip busy with the main loop's operation finishes that one
\* and never hears this one; the blank check tells.
FlushErase ==
    /\ Up /\ flush = 1
    /\ \/ /\ region_is_writable(FlushAddr, SECTOR)
          /\ flash' = IF chip.busy THEN ChipDone(flash) ELSE Erased(flash, FlushAddr)
          /\ chip' = [chip EXCEPT !.busy = FALSE]
          /\ clean' = (clean /\ ~(chip.busy /\ chip.addr \in AppPages))
          /\ \/ /\ \A p \in SectorOf(FlushAddr) : flash'[p] = Blank
                /\ flush' = 2
                /\ UNCHANGED <<LOADER, expired, session>>
             \/ /\ \E p \in SectorOf(FlushAddr) : flash'[p] # Blank
                /\ FlushFails
       \/ /\ FlushFails          \* forbidden, or the chip stays busy
          /\ UNCHANGED <<flash, chip, clean>>
    /\ UNCHANGED <<running, JOB, requests, net, faults>>

\* program_page(), padding the sector with 0xFF; it checks one byte only, so a
\* page that did not take goes on to the read-back of the whole sector.
FlushPage ==
    /\ Up /\ flush \in 2 .. SECTOR + 1
    /\ \/ /\ LET a == FlushAddr + flush - 2
             IN flash' \in {Programmed(flash, a, StagePage(flush - 1)), [flash EXCEPT ![a] = Garbage]}
          /\ flush' = flush + 1
          /\ UNCHANGED <<LOADER, expired, session>>
       \/ FlushFails /\ UNCHANGED flash
    /\ UNCHANGED <<running, jobVars, net, faults, clean>>

\* Mutant: the sector is taken for written without reading it back.
NoReadBack == TRUE

\* The sector read back through the memory map is what was staged.
Verified ==
    \A k \in 1 .. Len(LOADER.stage) : flash[FlushAddr + k - 1] = LOADER.stage[k]

\* Mutant: the staging buffer is not emptied.
VerifyKeepsStage ==
    /\ Up /\ flush = SECTOR + 2
    /\ Verified
    /\ Acknowledge([LOADER EXCEPT !.sectors = @ + 1])
    /\ flush' = 0
    /\ UNCHANGED <<flashVars, jobVars, net, faults, clean>>

FlushVerify ==
    /\ Up /\ flush = SECTOR + 2
    /\ \/ /\ Verified
          /\ Acknowledge([LOADER EXCEPT !.sectors = @ + 1, !.stage = <<>>])
          /\ flush' = 0
       \/ ~Verified /\ FlushFails
    /\ UNCHANGED <<flashVars, jobVars, net, faults, clean>>

-----------------------------------------------------------------------------
(* Background jobs: queued by a request, done one unit at a time in the    *)
(* main loop, which the network interrupt preempts anywhere.               *)

job_pending == JOB.state \in {"Queued", "Running"}

queue(kind, addr, len) ==
    /\ Isr /\ requests < MaxRequests
    /\ region_is_writable(addr, len)
    /\ ~job_pending
    /\ JOB' = [NoJob EXCEPT !.kind = kind, !.state = "Queued", !.addr = addr, !.len = len]
    /\ requests' = requests + 1
    /\ UNCHANGED <<flashVars, loaderVars, chip, netVars, faults, clean>>

JobFails == JOB' = [JOB EXCEPT !.state = "Failed"]

\* tick() up to the wait for the chip: a sector erase or one page.
TickBegins ==
    /\ Isr /\ job_pending /\ chip.op = "none" /\ JOB.cursor < JOB.len
    /\ LET addr == JOB.addr + JOB.cursor
           erase == JOB.kind = "Erase" \/ (addr % SECTOR = 0 /\ ~JOB.erased)
       IN \/ /\ region_is_writable(addr - (addr % SECTOR), SECTOR)
             /\ chip' = [op |-> IF erase THEN "erase" ELSE "program", addr |-> addr, busy |-> TRUE]
             /\ JOB' = [JOB EXCEPT !.state = "Running"]
          \/ JobFails /\ UNCHANGED chip
    /\ UNCHANGED <<flashVars, loaderVars, requests, netVars, faults, clean>>

\* The rest of tick(): the chip is done, or was when the interrupt needed it.
TickEnds ==
    /\ Isr /\ chip.op # "none"
    /\ flash' = ChipDone(flash)
    /\ clean' = (clean /\ ~(chip.busy /\ chip.addr \in AppPages))
    /\ chip' = NoOp
    /\ LET a == chip.addr
           blank == \A p \in SectorOf(a) : flash'[p] = Blank
       IN \/ /\ chip.op = "erase" /\ blank
             /\ JOB' = IF JOB.kind = "Erase" THEN [JOB EXCEPT !.cursor = @ + SECTOR]
                                             ELSE [JOB EXCEPT !.erased = TRUE]
          \/ /\ chip.op = "program" /\ flash'[a] = SelfTestPage
             /\ JOB' = [JOB EXCEPT !.cursor = @ + 1,
                                   !.erased = IF (a + 1) % SECTOR = 0 THEN FALSE ELSE @]
          \/ /\ \/ chip.op = "erase" /\ ~blank
                \/ chip.op = "program" /\ flash'[a] # SelfTestPage
             /\ JobFails
    /\ UNCHANGED <<running, loaderVars, requests, netVars, faults>>

TickDone ==
    /\ Isr /\ job_pending /\ chip.op = "none" /\ JOB.cursor >= JOB.len
    /\ JOB' = [JOB EXCEPT !.state = "Done"]
    /\ UNCHANGED <<flashVars, loaderVars, chip, requests, netVars, faults, clean>>

-----------------------------------------------------------------------------
(* Resets, power and requests.                                             *)

ForgetRam ==
    /\ LOADER' = IdleLoader /\ expired' = FALSE /\ flush' = 0
    /\ JOB' = NoJob /\ chip' = NoOp
    /\ faults' = faults + 1
    /\ UNCHANGED <<requests, netVars>>

\* 300 ms after a request the main loop resets the SoC, between two of its calls; the FPGA keeps its
\* configuration and the flash what it holds.
reboot_tick ==
    /\ Isr /\ chip.op = "none" /\ faults < MaxFaults
    /\ ForgetRam
    /\ UNCHANGED <<flashVars, clean>>

\* The ECP5 takes the image at offset 0 if it configures, else the golden one.
Configure(fl) ==
    IF \E f \in Bitstreams : /\ PagesOf(f) <= APP_LEN
                             /\ \A k \in 1 .. PagesOf(f) : fl[k - 1] = Block(f, k)
      THEN CHOOSE f \in Bitstreams : /\ PagesOf(f) <= APP_LEN
                                     /\ \A k \in 1 .. PagesOf(f) : fl[k - 1] = Block(f, k)
    ELSE IF \A p \in GoldenPages : fl[p] = Fixed(p) THEN "golden"
    ELSE "none"

\* The sector under the erase or program that power interrupts.
TornPages ==
    (IF chip.busy THEN SectorOf(chip.addr - (chip.addr % SECTOR)) ELSE {}) \cup
    (IF flush > 0 THEN SectorOf(FlushAddr) ELSE {})

PowerCycle ==
    /\ faults < MaxFaults
    /\ \/ UNCHANGED flash
       \/ /\ TornPages # {} /\ (flush > 0 => region_is_writable(FlushAddr, SECTOR))
          /\ flash' = [p \in Pages |-> IF p \in TornPages THEN Garbage ELSE flash[p]]
    /\ running' = Configure(flash')
    /\ clean' = FALSE
    /\ ForgetRam

\* A request made to the card directly, naming any file.
api_flash_bitstream_post(f) ==
    /\ Isr /\ ~is_active /\ requests < MaxRequests
    /\ StartLoader(f)
    /\ requests' = requests + 1
    /\ UNCHANGED <<flashVars, flush, JOB, chip, netVars, faults>>

-----------------------------------------------------------------------------
LoaderNext ==
    \/ SendRrq \/ PollTimeout
    \/ \E m \in net : PollError(m) \/ PollDrop(m) \/ PollBlock(m)
    \/ FlushErase \/ FlushPage \/ FlushVerify

JobNext == TickBegins \/ TickEnds \/ TickDone

OtaNext ==
    \/ \E s \in Sessions : ServerSends(s) \/ ServerGivesUp(s)
    \/ \E m \in net : LosePacket(m)
    \/ DeadlinePasses
    \/ LoaderNext
    \/ JobNext
    \/ \E kind \in {"Erase", "SelfTest"}, addr \in Pages, len \in 1 .. FLASH_SIZE :
         queue(kind, addr, len)
    \/ reboot_tick \/ PowerCycle
    \/ \E f \in Files : api_flash_bitstream_post(f)

OtaSpec == OtaInit /\ [][OtaNext]_otaVars

\* Time passes; the network interrupt polls the loader as long as packets of
\* any kind arrive; the main loop runs.
OtaFairness ==
    /\ WF_otaVars(DeadlinePasses)
    /\ WF_otaVars(LoaderNext)
    /\ WF_otaVars(JobNext)

FairOtaSpec == OtaSpec /\ OtaFairness

-----------------------------------------------------------------------------
(* Properties.                                                             *)

\* Whatever fails, is lost or is cut off by power on the way, every power-up
\* finds an image: the application, or the golden one.  Without a golden image
\* the application region is never touched.
NeverBricked == running # "none" /\ Configure(flash) # "none"

\* "NOTHING may ever write the golden region" (flash_write.rs), nor anything
\* else outside the application and scratch regions, whatever address, length
\* or file a request names.
ProtectedUntouched ==
    [][\A p \in Pages \ (AppPages \cup ScratchPages) : flash'[p] = flash[p]]_otaVars

\* "done" means the whole file is in flash, block for block: repeated, lost and
\* late packets, failed transfers before it and jobs elsewhere in the flash
\* leave no hole and no shifted block.
DoneIsInstalled == LOADER.state = "Done" /\ clean => AppHolds(LOADER.file)

\* A transfer ends, done or failed, whatever the server and the link do: a
\* block that was not acknowledged must not leave the loader waiting.
LoaderEnds == is_active ~> ~is_active

\* The flash implements a boot slot that is whole or broken.
Slot == IF \E f \in Bitstreams : AppHolds(f) THEN CHOOSE f \in Bitstreams : AppHolds(f) ELSE "broken"
B == INSTANCE BootSlot WITH Images <- Bitstreams, Golden <- "golden", Broken <- "broken",
                            slot <- Slot, golden <- golden_present
\* An update gives up the old image before it installs the new one, only with
\* a golden image present, and only a power-up changes what is running.
BootSlotSpec == B!Spec
=============================================================================
