-------------------------------- MODULE Wall --------------------------------
(***************************************************************************)
(* The player service keeping one wall of cards alight (player.py): the    *)
(* supervisor thread starts and stops the wall's player, marks cards that  *)
(* do not answer, re-enables their pixel DMA and reconciles their          *)
(* programs; a player's render thread reads the database, keeps one link   *)
(* per card and queues frames; its sender thread transmits them.  Cards    *)
(* reboot, requests go unanswered, packets get lost and the operator edits *)
(* the database at any moment.                                             *)
(*                                                                         *)
(* A frame is the show it belongs to; every show is indexed and has a      *)
(* palette of its own.                                                     *)
(***************************************************************************)
EXTENDS Integers, Sequences, FiniteSets

CONSTANTS
    Cards, Programs, Shows,
    QUEUE,           \* frames the queue between the two threads holds
    FULL_EVERY,      \* supervisor ticks from one full tick to the next
    BOOT_STEPS,      \* undisturbed steps a netboot takes
    MaxPlayers,      \* bound: players ever started
    MaxEvents        \* bound: edits of the database, reboots, programs started by
                     \* hand, unanswered requests, lost packets

ASSUME WallAssumption ==
    /\ IsFiniteSet(Cards) /\ Cards # {} /\ Shows # {}
    /\ {QUEUE, FULL_EVERY, BOOT_STEPS, MaxPlayers} \subseteq Nat \ {0}
    /\ MaxEvents \in Nat
    /\ Programs \cap {"none", "stream", "off"} = {} /\ "none" \notin Shows

VARIABLES
    mode, show,      \* the database: a card is "off", "stream" or runs a program
    up, boot,        \* a card's firmware is running; how far its netboot got
    program, dma, palette, glass,   \* of each card
    DOWN_HOSTS, misses,
    phase,           \* ticks since the last full one
    sup,             \* the supervisor inside tick()
    player,          \* the registered player, 0 if none
    run, sender, link, queue,       \* of each player
    events

dbVars == <<mode, show>>
cardVars == <<up, boot, program, dma, palette, glass>>
supVars == <<DOWN_HOSTS, misses, phase, sup, player>>
playerVars == <<run, sender, link, queue>>
wallVars == <<dbVars, cardVars, supVars, playerVars, events>>

Players == 1 .. MaxPlayers
Modes == {"off", "stream"} \cup Programs
\* What the firmware has on the glass: nothing of ours, or a show's frame
\* looked up in a palette.
Dark == [show |-> "none", palette |-> "none"]
NoLink == [gen |-> 0, open |-> FALSE, palette |-> "none"]
Gens == 0 .. MaxEvents + 1
\* What a thread's locals are worth when it does not need them.
Asleep == [pc |-> "sleep", todo |-> {}, mode |-> [c \in Cards |-> "off"], full |-> FALSE]
Waiting == [pc |-> "get", show |-> "none", gens |-> [c \in Cards |-> 0], todo |-> {}]

Sups == [pc : {"sleep", "ask", "stop", "status", "dma", "start"}, todo : SUBSET Cards,
         mode : [Cards -> Modes], full : BOOLEAN]
Runs == [pc : {"unborn", "read", "links", "put", "ended"}, stop : BOOLEAN,
         show : Shows \cup {"none"}, cards : SUBSET Cards]
Senders == [pc : {"unborn", "get", "check", "palette", "frame", "ended"},
            show : Shows \cup {"none"}, gens : [Cards -> Gens], todo : SUBSET Cards]
Links == [gen : Gens, open : BOOLEAN, palette : Shows \cup {"none"}]
Frames == [show : Shows \cup {"none"}, gens : [Cards -> Gens]]

\* Type correctness of the player service; a link's generation counts how often
\* a card was taken up again.
WallTypeOK ==
    /\ mode \in [Cards -> Modes] /\ show \in Shows
    /\ up \in [Cards -> BOOLEAN] /\ boot \in [Cards -> 0 .. BOOT_STEPS - 1]
    /\ program \in [Cards -> Programs \cup {"none"}] /\ dma \in [Cards -> BOOLEAN]
    /\ palette \in [Cards -> Shows \cup {"none"}]
    /\ glass \in [Cards -> [show : Shows \cup {"none"}, palette : Shows \cup {"none"}]]
    /\ DOWN_HOSTS \subseteq Cards /\ misses \in [Cards -> 0 .. 2]
    /\ phase \in 0 .. FULL_EVERY - 1
    /\ sup \in Sups /\ player \in 0 .. MaxPlayers
    /\ run \in [Players -> Runs] /\ sender \in [Players -> Senders]
    /\ link \in [Players -> [Cards -> Links]]
    /\ queue \in [Players -> Seq(Frames)] /\ \A i \in Players : Len(queue[i]) <= QUEUE
    /\ events \in 0 .. MaxEvents

Streams(c) == mode[c] = "stream"
Event == events < MaxEvents /\ events' = events + 1
\* A request reaches a card that is up, unless the network or a busy card fails
\* it; nobody answers for a card that is down.
Delivered(c) == up[c] /\ UNCHANGED events
Failed(c) == \/ ~up[c] /\ UNCHANGED events
             \/ up[c] /\ Event

WallInit ==
    /\ mode \in [Cards -> {"stream"} \cup Programs] /\ show = CHOOSE s \in Shows : TRUE
    /\ up = [c \in Cards |-> TRUE] /\ boot = [c \in Cards |-> 0]
    /\ program = [c \in Cards |-> "none"] /\ dma = [c \in Cards |-> FALSE]
    /\ palette = [c \in Cards |-> "none"] /\ glass = [c \in Cards |-> Dark]
    /\ DOWN_HOSTS = {} /\ misses = [c \in Cards |-> 0] /\ phase = 0
    /\ sup = Asleep
    /\ player = 0
    /\ run = [i \in Players |-> [pc |-> "unborn", stop |-> FALSE, show |-> "none", cards |-> {}]]
    /\ sender = [i \in Players |-> [Waiting EXCEPT !.pc = "unborn"]]
    /\ link = [i \in Players |-> [c \in Cards |-> NoLink]]
    /\ queue = [i \in Players |-> <<>>]
    /\ events = 0

-----------------------------------------------------------------------------
(* The operator and the cards.                                             *)

SetMode(c, m) ==
    /\ Event /\ m # mode[c]
    /\ mode' = [mode EXCEPT ![c] = m]
    /\ UNCHANGED <<show, cardVars, supVars, playerVars>>

SetShow(s) ==
    /\ Event /\ s # show
    /\ show' = s
    /\ UNCHANGED <<mode, cardVars, supVars, playerVars>>

\* A program is started by hand on the card's own API: it holds the stream.
StartByHand(c, p) ==
    /\ Event /\ up[c]
    /\ program' = [program EXCEPT ![c] = p] /\ dma' = [dma EXCEPT ![c] = FALSE]
    /\ UNCHANGED <<dbVars, up, boot, palette, glass, supVars, playerVars>>

Reboot(c) ==
    /\ Event /\ up[c]
    /\ up' = [up EXCEPT ![c] = FALSE] /\ boot' = [boot EXCEPT ![c] = 0]
    /\ glass' = [glass EXCEPT ![c] = Dark]
    /\ UNCHANGED <<dbVars, program, dma, palette, supVars, playerVars>>

\* The BIOS fetches the firmware; the firmware comes up with the DMA off, no
\* palette, and the program its boot configuration names, if it got one.
BootStep(c) ==
    /\ ~up[c]
    /\ \/ /\ boot[c] < BOOT_STEPS - 1
          /\ boot' = [boot EXCEPT ![c] = @ + 1]
          /\ UNCHANGED <<up, program, dma, palette>>
       \/ /\ boot[c] = BOOT_STEPS - 1
          /\ up' = [up EXCEPT ![c] = TRUE]
          /\ program' \in {[program EXCEPT ![c] = p] :
                             p \in {"none"} \cup (Programs \cap {mode[c]})}
          /\ dma' = [dma EXCEPT ![c] = FALSE]
          /\ palette' = [palette EXCEPT ![c] = "none"]
          /\ UNCHANGED boot
    /\ UNCHANGED <<dbVars, glass, supVars, playerVars, events>>

-----------------------------------------------------------------------------
(* Supervisor.tick().                                                      *)

Streamable(m) == \E c \in Cards : m[c] = "stream"

\* The walls are read once; a player is started if there is a card to stream
\* to, and told to stop otherwise.
TickBegins ==
    /\ sup.pc = "sleep"
    /\ phase' = (phase + 1) % FULL_EVERY
    /\ sup' = [pc |-> "ask", todo |-> Cards, mode |-> mode, full |-> phase = 0]
    /\ \/ /\ Streamable(mode) /\ player = 0
          /\ \E i \in Players :
               /\ run[i].pc = "unborn" /\ \A j \in 1 .. i - 1 : run[j].pc # "unborn"
               /\ player' = i
               /\ run' = [run EXCEPT ![i].pc = "read"]
               /\ sender' = [sender EXCEPT ![i].pc = "get"]
       \/ /\ ~Streamable(mode) /\ player # 0
          /\ run' = [run EXCEPT ![player].stop = TRUE]
          /\ player' = 0
          /\ UNCHANGED sender
       \/ /\ Streamable(mode) <=> player # 0
          /\ UNCHANGED <<player, run, sender>>
    /\ UNCHANGED <<dbVars, cardVars, DOWN_HOSTS, misses, link, queue, events>>

\* The cards are gone through in some order.
SupCard == CHOOSE c \in sup.todo : TRUE
NextCard == sup' = IF sup.todo = {SupCard} THEN Asleep
                   ELSE [sup EXCEPT !.pc = "ask", !.todo = @ \ {SupCard}]
SupStep(pc) == sup' = [sup EXCEPT !.pc = pc]

\* GET /api/programs, on a full tick: what runs that should not, or does not
\* and should.
AskProgram ==
    /\ sup.pc = "ask"
    /\ LET c == SupCard
           m == sup.mode[c]
       IN \/ /\ ~sup.full \/ m = "off"
             /\ IF m = "stream" THEN SupStep("status") ELSE NextCard
             /\ UNCHANGED events
          \/ /\ sup.full /\ m # "off" /\ Delivered(c)
             /\ IF m = "stream" THEN SupStep(IF program[c] # "none" THEN "stop" ELSE "status")
                ELSE IF program[c] # m THEN SupStep("start") ELSE NextCard
          \/ /\ sup.full /\ m # "off" /\ Failed(c)
             /\ IF m = "stream" THEN SupStep("status") ELSE NextCard
    /\ UNCHANGED <<dbVars, cardVars, DOWN_HOSTS, misses, phase, player, playerVars>>

\* POST /api/program/off: the stream has the framebuffer again.
StopProgram ==
    /\ sup.pc = "stop"
    /\ \/ /\ Delivered(SupCard)
          /\ program' = [program EXCEPT ![SupCard] = "none"]
          /\ dma' = [dma EXCEPT ![SupCard] = TRUE]
       \/ Failed(SupCard) /\ UNCHANGED <<program, dma>>
    /\ SupStep("status")
    /\ UNCHANGED <<dbVars, up, boot, palette, glass, DOWN_HOSTS, misses, phase, player, playerVars>>

\* POST /api/program/on: the program owns the framebuffer.
StartProgram ==
    /\ sup.pc = "start"
    /\ \/ /\ Delivered(SupCard)
          /\ program' = [program EXCEPT ![SupCard] = sup.mode[SupCard]]
          /\ dma' = [dma EXCEPT ![SupCard] = FALSE]
       \/ Failed(SupCard) /\ UNCHANGED <<program, dma>>
    /\ NextCard
    /\ UNCHANGED <<dbVars, up, boot, palette, glass, DOWN_HOSTS, misses, phase, player, playerVars>>

\* Mutant: a card that answers again is not taken off the list.
AnsweredStaysDown(c) ==
    /\ misses' = [misses EXCEPT ![c] = 0]
    /\ UNCHANGED DOWN_HOSTS

Answered(c) ==
    /\ misses' = [misses EXCEPT ![c] = 0]
    /\ DOWN_HOSTS' = DOWN_HOSTS \ {c}

\* Mutant: missed answers are counted but never acted upon.
MissedNeverDown(c) ==
    /\ misses' = [misses EXCEPT ![c] = IF @ < 2 THEN @ + 1 ELSE @]
    /\ UNCHANGED DOWN_HOSTS

\* Two strikes; the count is looked at up to two only.
Missed(c) ==
    /\ misses' = [misses EXCEPT ![c] = IF @ < 2 THEN @ + 1 ELSE @]
    /\ DOWN_HOSTS' = IF misses[c] >= 1 THEN DOWN_HOSTS \cup {c} ELSE DOWN_HOSTS

\* GET /api/status of a card that should be streaming.
AskStatus ==
    /\ sup.pc = "status"
    /\ LET c == SupCard
       IN \/ /\ Delivered(c) /\ Answered(c)
             /\ IF dma[c] THEN NextCard ELSE SupStep("dma")
          \/ /\ Failed(c) /\ Missed(c)
             /\ NextCard
    /\ UNCHANGED <<dbVars, cardVars, phase, player, playerVars>>

\* POST /api/dma/on, which the card obeys whatever it is running.
EnableDma(c) ==
    \/ Delivered(c) /\ dma' = [dma EXCEPT ![c] = TRUE]
    \/ Failed(c) /\ UNCHANGED dma

ReenableDma ==
    /\ sup.pc = "dma"
    /\ EnableDma(SupCard)
    /\ NextCard
    /\ UNCHANGED <<dbVars, up, boot, program, palette, glass, DOWN_HOSTS, misses, phase, player, playerVars>>

Supervise == TickBegins \/ AskProgram \/ StopProgram \/ StartProgram \/ AskStatus \/ ReenableDma

-----------------------------------------------------------------------------
(* WallPlayer.run(): the render thread.                                    *)

StreamCards == {c \in Cards : Streams(c)}
Closed(i, c, g) == ~(link[i][c].open /\ link[i][c].gen = g)
CloseLinks(i, cs) ==
    [link EXCEPT ![i] = [c \in Cards |-> IF c \in cs THEN [@[c] EXCEPT !.open = FALSE, !.palette = "none"] ELSE @[c]]]

NewCards(i, cs) == {c \in cs : ~link[i][c].open}

\* Mutant: frames of the old show stay queued.
NothingDrained(i) == queue[i]

\* On a change of show what is still queued for the old one is dropped.
Drained(i) == IF run[i].show # show THEN <<>> ELSE queue[i]

\* One look at the database: the show, the cards to stream to; links of cards
\* that left are retired, unless there is no card left at all.
RunRead(i) ==
    /\ run[i].pc = "read" /\ ~run[i].stop
    /\ queue' = [queue EXCEPT ![i] = Drained(i)]
    /\ run' = [run EXCEPT ![i] = [@ EXCEPT !.show = show, !.cards = StreamCards,
                                            !.pc = IF StreamCards = {} THEN "read"
                                                   ELSE IF NewCards(i, StreamCards) = {} THEN "put" ELSE "links"]]
    /\ link' = IF StreamCards = {} THEN link ELSE CloseLinks(i, Cards \ StreamCards)
    /\ UNCHANGED <<dbVars, cardVars, supVars, sender, events>>

\* A new link turns the card's pixel DMA on.
RunLink(i) ==
    /\ run[i].pc = "links"
    /\ LET new == NewCards(i, run[i].cards)
           c == CHOOSE c \in new : TRUE
       IN /\ link' = [link EXCEPT ![i][c] = [gen |-> @.gen + 1, open |-> TRUE, palette |-> "none"]]
          /\ EnableDma(c)
          /\ run' = [run EXCEPT ![i].pc = IF new = {c} THEN "put" ELSE "links"]
    /\ UNCHANGED <<dbVars, up, boot, program, palette, glass, supVars, sender, queue>>

\* Mutant: the queue has no limit.
PutWithoutLimit(i) ==
    /\ run[i].pc = "put" /\ ~run[i].stop
    /\ queue' = [queue EXCEPT ![i] = Append(@,
                   [show |-> run[i].show,
                    gens |-> [c \in Cards |-> IF c \in run[i].cards THEN link[i][c].gen ELSE 0]])]
    /\ run' = [run EXCEPT ![i].pc = "read", ![i].cards = {}]
    /\ UNCHANGED <<dbVars, cardVars, supVars, sender, link, events>>

\* The frame is rendered and queued, as soon as there is room.
RunPut(i) ==
    /\ run[i].pc = "put" /\ ~run[i].stop /\ Len(queue[i]) < QUEUE
    /\ queue' = [queue EXCEPT ![i] = Append(@,
                   [show |-> run[i].show,
                    gens |-> [c \in Cards |-> IF c \in run[i].cards THEN link[i][c].gen ELSE 0]])]
    /\ run' = [run EXCEPT ![i].pc = "read", ![i].cards = {}]
    /\ UNCHANGED <<dbVars, cardVars, supVars, sender, link, events>>

\* Mutant: a full queue is waited for whatever the stop flag says.
EndsUnlessPutting(i) ==
    /\ run[i].stop /\ run[i].pc = "read"
    /\ run' = [run EXCEPT ![i].pc = "ended"]
    /\ link' = CloseLinks(i, Cards)
    /\ UNCHANGED <<dbVars, cardVars, supVars, sender, queue, events>>

RunEnds(i) ==
    /\ run[i].stop /\ run[i].pc \in {"read", "put"}
    /\ run' = [run EXCEPT ![i].pc = "ended", ![i].cards = {}]
    /\ link' = CloseLinks(i, Cards)
    /\ UNCHANGED <<dbVars, cardVars, supVars, sender, queue, events>>

Run(i) == RunRead(i) \/ RunLink(i) \/ RunPut(i) \/ RunEnds(i)

-----------------------------------------------------------------------------
(* WallPlayer._sender(): the sending thread.                               *)

SendCard(i) == CHOOSE c \in sender[i].todo : TRUE
NextPayload(i) ==
    sender' = [sender EXCEPT ![i] = IF sender[i].todo = {SendCard(i)} THEN Waiting
                                    ELSE [sender[i] EXCEPT !.todo = @ \ {SendCard(i)}, !.pc = "check"]]

SenderGet(i) ==
    /\ sender[i].pc = "get"
    /\ \/ /\ run[i].stop
          /\ sender' = [sender EXCEPT ![i].pc = "ended"]
          /\ UNCHANGED queue
       \/ /\ ~run[i].stop /\ queue[i] # <<>>
          /\ LET p == Head(queue[i])
             IN sender' = [sender EXCEPT ![i] = [pc |-> "check", show |-> p.show, gens |-> p.gens,
                                                 todo |-> {c \in Cards : p.gens[c] > 0}]]
          /\ queue' = [queue EXCEPT ![i] = Tail(@)]
    /\ UNCHANGED <<dbVars, cardVars, supVars, run, link, events>>

\* A retired link and a card that is down are passed over; the palette goes out
\* first if it is another one.
SenderCheck(i) ==
    /\ sender[i].pc = "check"
    /\ LET c == SendCard(i)
           skip == Closed(i, c, sender[i].gens[c]) \/ c \in DOWN_HOSTS
       IN \/ skip /\ NextPayload(i)
          \/ /\ ~skip
             /\ sender' = [sender EXCEPT ![i].pc =
                             IF link[i][c].palette # sender[i].show THEN "palette" ELSE "frame"]
    /\ UNCHANGED <<dbVars, cardVars, supVars, run, link, queue, events>>

\* send_palette(): one packet, and the link remembers it as sent.
SendPalette(i) ==
    /\ sender[i].pc = "palette"
    /\ LET c == SendCard(i)
       IN \/ /\ Closed(i, c, sender[i].gens[c])       \* the socket is gone
             /\ NextPayload(i)
             /\ UNCHANGED <<palette, link, events>>
          \/ /\ ~Closed(i, c, sender[i].gens[c])
             /\ \/ Delivered(c) /\ palette' = [palette EXCEPT ![c] = sender[i].show]
                \/ Failed(c) /\ UNCHANGED palette
             /\ link' = [link EXCEPT ![i][c].palette = sender[i].show]
             /\ sender' = [sender EXCEPT ![i].pc = "frame"]
    /\ UNCHANGED <<dbVars, up, boot, program, dma, glass, supVars, run, queue>>

\* send_frame_indexed(): shown by a card whose DMA is on and that runs no
\* program; a card in its BIOS loses its netboot to it.
SendFrame(i) ==
    /\ sender[i].pc = "frame"
    /\ LET c == SendCard(i)
           shows == up[c] /\ dma[c] /\ program[c] = "none"
       IN \/ /\ Closed(i, c, sender[i].gens[c])
             /\ UNCHANGED <<glass, boot, events>>
          \/ /\ ~Closed(i, c, sender[i].gens[c]) /\ Delivered(c)
             /\ glass' = IF shows THEN [glass EXCEPT ![c] = [show |-> sender[i].show, palette |-> palette[c]]]
                                  ELSE glass
             /\ UNCHANGED boot
          \/ /\ ~Closed(i, c, sender[i].gens[c]) /\ Failed(c)
             /\ boot' = [boot EXCEPT ![c] = 0]
             /\ UNCHANGED glass
    /\ NextPayload(i)
    /\ UNCHANGED <<dbVars, up, program, dma, palette, supVars, run, link, queue>>

Sender(i) == SenderGet(i) \/ SenderCheck(i) \/ SendPalette(i) \/ SendFrame(i)

Environment ==
    \/ \E c \in Cards, m \in Modes : SetMode(c, m)
    \/ \E s \in Shows : SetShow(s)
    \/ \E c \in Cards, p \in Programs : StartByHand(c, p)
    \/ \E c \in Cards : Reboot(c)

WallNext ==
    \/ Environment
    \/ \E c \in Cards : BootStep(c)
    \/ Supervise
    \/ \E i \in Players : Run(i) \/ Sender(i)

WallSpec == WallInit /\ [][WallNext]_wallVars

\* Every thread gets its turn, and a netboot that is left alone goes on.
FairWallSpec ==
    /\ WallSpec
    /\ WF_wallVars(Supervise)
    /\ \A i \in Players : WF_wallVars(Run(i)) /\ WF_wallVars(Sender(i))
    /\ \A c \in Cards : WF_wallVars(BootStep(c))

-----------------------------------------------------------------------------
(* What the player service promises.                                       *)

\* Only frames of the show that is loaded wait in a player's queue, so that
\* after a change of show at most the frame being sent is of the old one
\* (run() empties the queue it fills).
QueueIsCurrent ==
    \A i \in Players : \A k \in 1 .. Len(queue[i]) : queue[i][k].show = run[i].show

\* A card in its BIOS gets its firmware although the player was streaming at it
\* when it went down: two missed answers hold the stream (DOWN_HOSTS).
CardReturns == \A c \in Cards : ~up[c] ~> up[c]

\* After the last edit and the last fault every card is as the database has it:
\* a streaming card runs no program, has its DMA on, is sent to and shows the
\* wall's show; the others run their program (Supervisor.tick, run, _sender).
WallConverges ==
    <>[](\A c \in Cards :
           /\ up[c]
           /\ mode[c] = "stream" => /\ program[c] = "none" /\ dma[c] /\ c \notin DOWN_HOSTS
                                    /\ glass[c].show = show
           /\ mode[c] \in Programs => program[c] = mode[c])

\* A player told to stop ends both its threads and closes every link, also when
\* its queue is full (the put loop of run()).
StoppedPlayersEnd ==
    \A i \in Players :
        run[i].stop ~> /\ run[i].pc = "ended" /\ sender[i].pc = "ended"
                       /\ \A c \in Cards : ~link[i][c].open

\* "It MUST precede the first frame that uses it: the card applies whatever
\* palette it holds": a card that shows a show in another one's colours comes
\* to have the right ones.
PaletteRecovers ==
    \A c \in Cards : glass[c].palette # glass[c].show ~> glass[c].palette = glass[c].show
=============================================================================
