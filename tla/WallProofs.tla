----------------------------- MODULE WallProofs -----------------------------
(***************************************************************************)
(* The player service (Wall), for any number of cards, shows, programs,    *)
(* players and faults.                                                     *)
(*                                                                         *)
(* The inductive invariant says what the three threads rely on while they  *)
(* interleave: the supervisor is inside tick() only with a card at hand; a *)
(* render thread that puts a frame holds a link to every card the frame is *)
(* for; a generation is never reused, so a payload taken from the queue    *)
(* names a link that is still the one it was made for, or a closed one.    *)
(***************************************************************************)
EXTENDS Wall, TLAPS, FiniteSetTheorems, SequenceTheorems

-----------------------------------------------------------------------------
(* The inductive invariant.                                                *)

DbInv == mode \in [Cards -> Modes] /\ show \in Shows /\ events \in 0 .. MaxEvents

CardInv ==
    /\ up \in [Cards -> BOOLEAN] /\ boot \in [Cards -> 0 .. BOOT_STEPS - 1]
    /\ program \in [Cards -> Programs \cup {"none"}] /\ dma \in [Cards -> BOOLEAN]
    /\ palette \in [Cards -> Shows \cup {"none"}]
    /\ glass \in [Cards -> [show : Shows \cup {"none"}, palette : Shows \cup {"none"}]]

\* tick() has a card at hand, and starts only what the database names.
SupInv ==
    /\ DOWN_HOSTS \subseteq Cards /\ misses \in [Cards -> 0 .. 2] /\ phase \in 0 .. FULL_EVERY - 1
    /\ sup \in Sups
    /\ sup.pc # "sleep" => sup.todo # {}
    /\ sup.pc = "start" => sup.mode[SupCard] \in Programs

\* The registered player is the one that is not told to stop; a player that
\* is not born has no stop flag.
RegisterInv ==
    /\ player \in 0 .. MaxPlayers
    /\ \A i \in Players : player = i <=> run[i].pc # "unborn" /\ ~run[i].stop
    /\ \A i \in Players : run[i].pc = "unborn" => ~run[i].stop

ThreadsInv ==
    /\ run \in [Players -> Runs] /\ sender \in [Players -> Senders]
    /\ link \in [Players -> [Cards -> Links]] /\ queue \in [Players -> Seq(Frames)]

\* What the render thread knows of its links.
RenderInv(i) ==
    /\ run[i].pc \in {"links", "put"} => run[i].cards # {}
    /\ run[i].pc = "links" => NewCards(i, run[i].cards) # {}
    /\ run[i].pc = "put" => NewCards(i, run[i].cards) = {}
    /\ \A c \in Cards : link[i][c].open => link[i][c].gen > 0

\* A payload is for a card at least, and for links that exist or existed.
PayloadOK(i, gens) ==
    /\ \E c \in Cards : gens[c] > 0
    /\ \A c \in Cards : gens[c] <= link[i][c].gen

PayloadInv(i) ==
    /\ \A k \in 1 .. Len(queue[i]) : queue[i][k].show = run[i].show /\ PayloadOK(i, queue[i][k].gens)
    /\ sender[i].pc \in {"check", "palette", "frame"} => sender[i].todo # {}
    /\ \A c \in Cards : sender[i].gens[c] <= link[i][c].gen

\* The palette went out on this very link, or the link is gone.
PaletteSent(i) ==
    sender[i].pc = "frame" =>
        \/ Closed(i, SendCard(i), sender[i].gens[SendCard(i)])
        \/ link[i][SendCard(i)].palette = sender[i].show

\* A generation costs an edit of the database: a link that is open for a card
\* that does not stream any more has been paid for already.
Wanted(i, c) == link[i][c].open \/ (run[i].pc = "links" /\ c \in run[i].cards)
GenerationInv(i) ==
    \A c \in Cards :
        /\ link[i][c].gen <= events + 1
        /\ run[i].pc # "ended" =>
             /\ ~link[i][c].open => link[i][c].gen <= events
             /\ Wanted(i, c) /\ ~Streams(c) =>
                  link[i][c].gen <= IF link[i][c].open THEN events ELSE events - 1

PlayerInv(i) ==
    /\ Len(queue[i]) <= QUEUE
    /\ RenderInv(i) /\ PayloadInv(i) /\ PaletteSent(i) /\ GenerationInv(i)

WallInv ==
    /\ DbInv /\ CardInv /\ SupInv /\ ThreadsInv /\ RegisterInv
    /\ \A i \in Players : PlayerInv(i)

-----------------------------------------------------------------------------
(* Facts about the constants and the thread's records.                     *)

LEMMA Bounds ==
    /\ QUEUE \in Nat /\ QUEUE > 0 /\ FULL_EVERY \in Nat /\ FULL_EVERY > 0
    /\ BOOT_STEPS \in Nat /\ BOOT_STEPS > 0 /\ MaxPlayers \in Nat /\ MaxEvents \in Nat
    /\ Cards # {} /\ Shows # {} /\ Players \subseteq Nat \ {0}
    /\ "none" \notin Programs /\ "stream" \notin Programs /\ "off" \notin Programs /\ "none" \notin Shows
BY WallAssumption DEF Players

LEMMA RecordFields ==
    /\ \A r \in Runs : /\ r.pc \in {"unborn", "read", "links", "put", "ended"} /\ r.stop \in BOOLEAN
                        /\ r.show \in Shows \cup {"none"} /\ r.cards \subseteq Cards
    /\ \A s \in Senders : /\ s.pc \in {"unborn", "get", "check", "palette", "frame", "ended"}
                           /\ s.show \in Shows \cup {"none"} /\ s.gens \in [Cards -> Gens] /\ s.todo \subseteq Cards
    /\ \A l \in Links : l.gen \in Gens /\ l.open \in BOOLEAN /\ l.palette \in Shows \cup {"none"}
    /\ \A f \in Frames : f.show \in Shows \cup {"none"} /\ f.gens \in [Cards -> Gens]
    /\ \A s \in Sups : /\ s.pc \in {"sleep", "ask", "stop", "status", "dma", "start"} /\ s.todo \subseteq Cards
                        /\ s.mode \in [Cards -> Modes] /\ s.full \in BOOLEAN
<1>1. \A r \in Runs : /\ r.pc \in {"unborn", "read", "links", "put", "ended"} /\ r.stop \in BOOLEAN
                      /\ r.show \in Shows \cup {"none"} /\ r.cards \subseteq Cards
  BY DEF Runs
<1>2. \A s \in Senders : /\ s.pc \in {"unborn", "get", "check", "palette", "frame", "ended"}
                         /\ s.show \in Shows \cup {"none"} /\ s.gens \in [Cards -> Gens] /\ s.todo \subseteq Cards
  BY DEF Senders
<1>3. \A l \in Links : l.gen \in Gens /\ l.open \in BOOLEAN /\ l.palette \in Shows \cup {"none"}
  BY DEF Links
<1>4. \A f \in Frames : f.show \in Shows \cup {"none"} /\ f.gens \in [Cards -> Gens]
  BY DEF Frames
<1>5. \A s \in Sups : /\ s.pc \in {"sleep", "ask", "stop", "status", "dma", "start"} /\ s.todo \subseteq Cards
                      /\ s.mode \in [Cards -> Modes] /\ s.full \in BOOLEAN
  BY DEF Sups
<1> QED BY <1>1, <1>2, <1>3, <1>4, <1>5, Zenon

\* Generations and events are natural numbers.
LEMMA Numbers ==
    ASSUME WallInv
    PROVE  /\ events \in Nat /\ events <= MaxEvents
           /\ \A i \in Players, c \in Cards : link[i][c] \in Links /\ link[i][c].gen \in Nat
           /\ \A i \in Players, c \in Cards : sender[i].gens[c] \in Nat
           /\ \A i \in Players : run[i] \in Runs /\ sender[i] \in Senders /\ queue[i] \in Seq(Frames)
<1>1. events \in 0 .. MaxEvents /\ ThreadsInv
  BY Zenon DEF WallInv, DbInv
<1>2. events \in Nat /\ events <= MaxEvents /\ \A g \in Gens : g \in Nat
  BY <1>1, Bounds DEF Gens
<1>3. \A i \in Players, c \in Cards : link[i][c] \in Links
  BY <1>1, Zenon DEF ThreadsInv
<1>4. \A i \in Players : run[i] \in Runs /\ sender[i] \in Senders /\ queue[i] \in Seq(Frames)
  BY <1>1, Zenon DEF ThreadsInv
<1>5. \A i \in Players : sender[i].gens \in [Cards -> Gens]
  BY <1>4, RecordFields, Zenon
<1>6. \A i \in Players, c \in Cards : sender[i].gens[c] \in Nat
  BY <1>2, <1>5, Zenon
<1>7. \A i \in Players, c \in Cards : link[i][c].gen \in Nat
  BY <1>2, <1>3, RecordFields, Zenon
<1> QED BY <1>2, <1>3, <1>4, <1>6, <1>7, Zenon

-----------------------------------------------------------------------------
(* A player none of whose threads moves.                                   *)

\* What a player's invariant depends on, but the stop flag.
Still(i) ==
    /\ run'[i].pc = run[i].pc /\ run'[i].show = run[i].show /\ run'[i].cards = run[i].cards
    /\ sender'[i] = sender[i] /\ link'[i] = link[i] /\ queue'[i] = queue[i]

\* The wall is as it was for the threads, or an event was spent.
Quieter == \/ events' = events /\ mode' = mode
           \/ events' = events + 1

LEMMA PlayerKept ==
    ASSUME WallInv, NEW i \in Players, Still(i), Quieter
    PROVE  PlayerInv(i)'
<1>1. PlayerInv(i)
  BY Zenon DEF WallInv
<1>2. RenderInv(i)'
  <2>1. NewCards(i, run[i].cards)' = NewCards(i, run[i].cards)
    BY Zenon DEF Still, NewCards
  <2> QED BY <1>1, <2>1, Zenon DEF Still, PlayerInv, RenderInv, NewCards
<1>3. PayloadInv(i)'
  BY <1>1, Zenon DEF Still, PlayerInv, PayloadInv, PayloadOK
<1>4. PaletteSent(i)'
  BY <1>1, Zenon DEF Still, PlayerInv, PaletteSent, Closed, SendCard
<1>5. GenerationInv(i)'
  <2> SUFFICES ASSUME NEW c \in Cards
               PROVE  /\ link[i][c].gen <= events' + 1
                      /\ run[i].pc # "ended" =>
                           /\ ~link[i][c].open => link[i][c].gen <= events'
                           /\ Wanted(i, c) /\ ~(mode'[c] = "stream") =>
                                link[i][c].gen <= IF link[i][c].open THEN events' ELSE events' - 1
    BY Zenon DEF Still, GenerationInv, Wanted, Streams
  <2>1. /\ link[i][c].gen <= events + 1
        /\ run[i].pc # "ended" =>
             /\ ~link[i][c].open => link[i][c].gen <= events
             /\ Wanted(i, c) /\ ~(mode[c] = "stream") =>
                  link[i][c].gen <= IF link[i][c].open THEN events ELSE events - 1
    BY <1>1, Zenon DEF PlayerInv, GenerationInv, Streams
  <2>2. link[i][c].gen \in Nat /\ events \in Nat
    BY Numbers, Zenon
  <2>3. CASE events' = events /\ mode' = mode
    BY <2>1, <2>3, Zenon
  <2>4. CASE events' = events + 1
    BY <2>1, <2>2, <2>4
  <2> QED BY <2>3, <2>4, Zenon DEF Quieter
<1> QED BY <1>1, <1>2, <1>3, <1>4, <1>5, Zenon DEF PlayerInv, Still

-----------------------------------------------------------------------------
(* The database and the count of events.                                   *)

LEMMA RequestEvents ==
    ASSUME WallInv, NEW c \in Cards, Delivered(c) \/ Failed(c)
    PROVE  events' \in 0 .. MaxEvents /\ (events' = events \/ events' = events + 1)
BY Numbers, Bounds DEF Delivered, Failed, Event

\* What a step may do to the database and to the count of events.
DbStep == DbInv' /\ Quieter

LEMMA DbKept ==
    ASSUME WallInv, UNCHANGED dbVars, events' = events \/ \E c \in Cards : Delivered(c) \/ Failed(c)
    PROVE  DbStep
<1>1. events' \in 0 .. MaxEvents /\ (events' = events \/ events' = events + 1)
  <2>1. CASE events' = events
    BY <2>1, Zenon DEF WallInv, DbInv
  <2>2. CASE \E c \in Cards : Delivered(c) \/ Failed(c)
    BY <2>2, RequestEvents, Zenon
  <2> QED BY <2>1, <2>2, Zenon
<1> QED BY <1>1, Zenon DEF DbStep, WallInv, DbInv, Quieter, dbVars

LEMMA EnvironmentDb == WallInv /\ Environment => DbStep
<1> SUFFICES ASSUME WallInv, Environment PROVE DbStep
  OBVIOUS
<1>1. Event
  BY Zenon DEF Environment, SetMode, SetShow, StartByHand, Reboot
<1>2. events' \in 0 .. MaxEvents /\ events' = events + 1
  BY <1>1, Numbers, Bounds DEF Event
<1>3. mode' \in [Cards -> Modes] /\ show' \in Shows
  BY Zenon DEF WallInv, DbInv, Environment, SetMode, SetShow, StartByHand, Reboot, dbVars
<1> QED BY <1>2, <1>3, Zenon DEF DbStep, DbInv, Quieter

\* The supervisor is at a card while it is not asleep.
LEMMA SupAtCard == ASSUME WallInv, sup.pc # "sleep" PROVE SupCard \in sup.todo /\ SupCard \in Cards
BY RecordFields, Zenon DEF WallInv, SupInv, SupCard

LEMMA SuperviseDb == WallInv /\ Supervise => DbStep
<1> SUFFICES ASSUME WallInv, Supervise PROVE DbStep
  OBVIOUS
<1>1. UNCHANGED dbVars
  BY Zenon DEF Supervise, TickBegins, AskProgram, StopProgram, StartProgram, AskStatus, ReenableDma
<1>2. CASE TickBegins
  BY <1>1, <1>2, DbKept, Zenon DEF TickBegins
<1>3. CASE AskProgram
  <2>1. SupCard \in Cards
    BY <1>3, SupAtCard DEF AskProgram
  <2>2. events' = events \/ Delivered(SupCard) \/ Failed(SupCard)
    BY <1>3, Zenon DEF AskProgram
  <2> QED BY <1>1, <2>1, <2>2, DbKept, Zenon
<1>4. CASE StopProgram \/ StartProgram \/ AskStatus \/ ReenableDma
  <2>1. SupCard \in Cards
    BY <1>4, SupAtCard DEF StopProgram, StartProgram, AskStatus, ReenableDma
  <2>2. Delivered(SupCard) \/ Failed(SupCard)
    BY <1>4, Zenon DEF StopProgram, StartProgram, AskStatus, ReenableDma, EnableDma
  <2> QED BY <1>1, <2>1, <2>2, DbKept, Zenon
<1> QED BY <1>2, <1>3, <1>4, Zenon DEF Supervise

\* The threads of a player are at a card when they act on one.
LEMMA RunAtCard ==
    ASSUME WallInv, NEW i \in Players, run[i].pc = "links"
    PROVE  /\ (CHOOSE c \in NewCards(i, run[i].cards) : TRUE) \in NewCards(i, run[i].cards)
           /\ NewCards(i, run[i].cards) \subseteq run[i].cards /\ run[i].cards \subseteq Cards
<1>1. NewCards(i, run[i].cards) # {} /\ run[i].cards \subseteq Cards
  BY Numbers, RecordFields, Zenon DEF WallInv, PlayerInv, RenderInv
<1> QED BY <1>1, Zenon DEF NewCards

LEMMA SendAtCard ==
    ASSUME WallInv, NEW i \in Players, sender[i].pc \in {"check", "palette", "frame"}
    PROVE  SendCard(i) \in sender[i].todo /\ SendCard(i) \in Cards
<1>1. sender[i].todo # {} /\ sender[i].todo \subseteq Cards
  BY Numbers, RecordFields, Zenon DEF WallInv, PlayerInv, PayloadInv
<1> QED BY <1>1, Zenon DEF SendCard

LEMMA PlayerDb == ASSUME WallInv, NEW i \in Players, Run(i) \/ Sender(i) PROVE DbStep
<1>1. UNCHANGED dbVars
  BY Zenon DEF Run, RunRead, RunLink, RunPut, RunEnds, Sender, SenderGet, SenderCheck, SendPalette, SendFrame
<1>2. CASE RunLink(i)
  <2>1. PICK c : c = CHOOSE d \in NewCards(i, run[i].cards) : TRUE
    OBVIOUS
  <2>2. c \in Cards
    BY <1>2, <2>1, RunAtCard, Zenon DEF RunLink
  <2>3. Delivered(c) \/ Failed(c)
    BY <1>2, <2>1, Zenon DEF RunLink, EnableDma
  <2> QED BY <1>1, <2>2, <2>3, DbKept, Zenon
<1>3. CASE SendPalette(i) \/ SendFrame(i)
  <2>1. SendCard(i) \in Cards
    BY <1>3, SendAtCard DEF SendPalette, SendFrame
  <2>2. events' = events \/ Delivered(SendCard(i)) \/ Failed(SendCard(i))
    BY <1>3, Zenon DEF SendPalette, SendFrame
  <2> QED BY <1>1, <2>1, <2>2, DbKept, Zenon
<1>4. CASE RunRead(i) \/ RunPut(i) \/ RunEnds(i) \/ SenderGet(i) \/ SenderCheck(i)
  BY <1>1, <1>4, DbKept, Zenon DEF RunRead, RunPut, RunEnds, SenderGet, SenderCheck
<1> QED BY <1>2, <1>3, <1>4, Zenon DEF Run, Sender

LEMMA DbInvStep == WallInv /\ WallNext => DbStep
<1>1. ASSUME WallInv, NEW c \in Cards, BootStep(c) PROVE DbStep
  BY <1>1, DbKept, Zenon DEF BootStep
<1> QED BY <1>1, EnvironmentDb, SuperviseDb, PlayerDb, Zenon DEF WallNext

-----------------------------------------------------------------------------
(* The cards.                                                              *)

LEMMA CardInvStep == WallInv /\ WallNext => CardInv'
<1> SUFFICES ASSUME WallInv, WallNext PROVE CardInv'
  OBVIOUS
<1>1. CardInv /\ mode \in [Cards -> Modes] /\ SupInv /\ ThreadsInv
  BY Zenon DEF WallInv, DbInv
<1>2. 0 \in 0 .. BOOT_STEPS - 1 /\ Dark \in [show : Shows \cup {"none"}, palette : Shows \cup {"none"}]
  BY Bounds DEF Dark
<1>3. ASSUME UNCHANGED cardVars PROVE CardInv'
  BY <1>1, <1>3, Zenon DEF cardVars, CardInv
<1>4. ASSUME NEW c \in Cards, NEW p \in Programs, StartByHand(c, p) PROVE CardInv'
  BY <1>1, <1>4, Zenon DEF StartByHand, CardInv
<1>5. ASSUME NEW c \in Cards, Reboot(c) PROVE CardInv'
  BY <1>1, <1>2, <1>5, Zenon DEF Reboot, CardInv
<1>6. ASSUME NEW c \in Cards, BootStep(c) PROVE CardInv'
  <2>1. boot' \in [Cards -> 0 .. BOOT_STEPS - 1]
    <3>1. boot[c] < BOOT_STEPS - 1 => boot[c] + 1 \in 0 .. BOOT_STEPS - 1
      BY <1>1, Bounds DEF CardInv
    <3> QED BY <1>1, <1>6, <3>1, Zenon DEF BootStep, CardInv
  <2>2. program' \in [Cards -> Programs \cup {"none"}]
    <3>1. CASE program' = program
      BY <1>1, <3>1, Zenon DEF CardInv
    <3>2. CASE \E p \in {"none"} \cup (Programs \cap {mode[c]}) : program' = [program EXCEPT ![c] = p]
      BY <1>1, <3>2, Zenon DEF CardInv
    <3> QED BY <1>6, <3>1, <3>2, Zenon DEF BootStep
  <2> QED BY <1>1, <1>6, <2>1, <2>2, Zenon DEF BootStep, CardInv
<1>7. CASE Environment
  BY <1>3, <1>4, <1>5, <1>7, Zenon DEF Environment, SetMode, SetShow
<1>8. CASE TickBegins \/ AskProgram \/ AskStatus
  BY <1>3, <1>8, Zenon DEF TickBegins, AskProgram, AskStatus
<1>9. CASE StopProgram \/ ReenableDma
  BY <1>1, <1>9, Zenon DEF StopProgram, ReenableDma, EnableDma, CardInv
<1>10. CASE StartProgram
  <2>1. sup.mode[SupCard] \in Programs
    BY <1>1, <1>10, Zenon DEF StartProgram, SupInv
  <2> QED BY <1>1, <1>10, <2>1, Zenon DEF StartProgram, CardInv
<1>11. ASSUME NEW i \in Players, RunRead(i) \/ RunPut(i) \/ RunEnds(i) \/ SenderGet(i) \/ SenderCheck(i) PROVE CardInv'
  BY <1>3, <1>11, Zenon DEF RunRead, RunPut, RunEnds, SenderGet, SenderCheck
<1>12. ASSUME NEW i \in Players, RunLink(i) PROVE CardInv'
  BY <1>1, <1>12, Zenon DEF RunLink, EnableDma, CardInv
<1>13. ASSUME NEW i \in Players PROVE sender[i].show \in Shows \cup {"none"}
  BY Numbers, RecordFields, Zenon
<1>14. ASSUME NEW i \in Players, SendPalette(i) PROVE CardInv'
  BY <1>1, <1>13, <1>14, Zenon DEF SendPalette, CardInv
<1>15. ASSUME NEW i \in Players, SendFrame(i) PROVE CardInv'
  <2>1. SendCard(i) \in Cards
    BY <1>15, SendAtCard DEF SendFrame
  <2>2. [show |-> sender[i].show, palette |-> palette[SendCard(i)]] \in [show : Shows \cup {"none"}, palette : Shows \cup {"none"}]
    <3>1. palette[SendCard(i)] \in Shows \cup {"none"} /\ sender[i].show \in Shows \cup {"none"}
      BY <1>1, <1>13, <2>1, Zenon DEF CardInv
    <3> QED BY <3>1
  <2>3. UNCHANGED <<up, program, dma, palette>>
    BY <1>15, Zenon DEF SendFrame
  <2>4. /\ boot' = boot \/ boot' = [boot EXCEPT ![SendCard(i)] = 0]
        /\ \/ glass' = glass
           \/ glass' = [glass EXCEPT ![SendCard(i)] = [show |-> sender[i].show, palette |-> palette[SendCard(i)]]]
    BY <1>15, Zenon DEF SendFrame
  <2>5. boot' \in [Cards -> 0 .. BOOT_STEPS - 1]
    BY <1>1, <1>2, <2>4, Zenon DEF CardInv
  <2>6. glass' \in [Cards -> [show : Shows \cup {"none"}, palette : Shows \cup {"none"}]]
    BY <1>1, <2>2, <2>4, Zenon DEF CardInv
  <2> QED BY <1>1, <2>3, <2>5, <2>6, Zenon DEF CardInv
<1> QED BY <1>6, <1>7, <1>8, <1>9, <1>10, <1>11, <1>12, <1>14, <1>15, Zenon DEF WallNext, Supervise, Run, Sender

-----------------------------------------------------------------------------
(* The supervisor.                                                         *)

LEMMA AsleepOK == Asleep \in Sups /\ Asleep.pc = "sleep"
BY DEF Asleep, Sups, Modes

\* The supervisor at another line of tick(), with the same card at hand.
LEMMA SupMoves ==
    ASSUME WallInv, sup.pc # "sleep", NEW pc \in {"stop", "status", "dma", "start"},
           SupStep(pc), pc = "start" => sup.mode[SupCard] \in Programs
    PROVE  /\ sup' \in Sups /\ (sup'.pc # "sleep" => sup'.todo # {})
           /\ (sup'.pc = "start" => sup'.mode[SupCard'] \in Programs)
<1>1. sup \in Sups /\ sup.todo # {}
  BY Zenon DEF WallInv, SupInv
<1>2. PICK s : s = [sup EXCEPT !.pc = pc]
  OBVIOUS
<1>3. s \in Sups /\ s.pc = pc /\ s.todo = sup.todo /\ s.mode = sup.mode
  BY <1>1, <1>2 DEF Sups
<1>4. sup' = s
  BY <1>2, Zenon DEF SupStep
<1> QED BY <1>1, <1>3, <1>4, Zenon DEF SupCard

\* The supervisor goes on to the next card, or to sleep.
LEMMA SupGoesOn ==
    ASSUME WallInv, sup.pc # "sleep", NextCard
    PROVE  /\ sup' \in Sups /\ (sup'.pc # "sleep" => sup'.todo # {})
           /\ (sup'.pc = "start" => sup'.mode[SupCard'] \in Programs)
<1>1. sup \in Sups /\ SupCard \in sup.todo
  BY SupAtCard, Zenon DEF WallInv, SupInv
<1>2. CASE sup.todo = {SupCard}
  <2>1. sup' = Asleep
    BY <1>2, Zenon DEF NextCard
  <2>2. "sleep" # "start"
    OBVIOUS
  <2> QED BY <2>1, <2>2, AsleepOK, Zenon
<1>3. CASE sup.todo # {SupCard}
  <2>1. PICK s : s = [sup EXCEPT !.pc = "ask", !.todo = @ \ {SupCard}]
    OBVIOUS
  <2>2. s \in Sups /\ s.pc = "ask" /\ s.todo = sup.todo \ {SupCard}
    <3>1. PICK c : c = SupCard
      OBVIOUS
    <3>2. s = [sup EXCEPT !.pc = "ask", !.todo = @ \ {c}]
      BY <2>1, <3>1, Zenon
    <3>3. s \in Sups /\ s.pc = "ask" /\ s.todo = sup.todo \ {c}
      BY <1>1, <3>2 DEF Sups
    <3> QED BY <3>1, <3>3, Zenon
  <2>3. sup' = s
    BY <1>3, <2>1, Zenon DEF NextCard
  <2>4. s.todo # {} /\ "ask" # "start"
    BY <1>1, <1>3, <2>2
  <2> QED BY <2>2, <2>3, <2>4, Zenon
<1> QED BY <1>2, <1>3, Zenon

LEMMA SupInvStep == WallInv /\ WallNext => SupInv'
<1> SUFFICES ASSUME WallInv, WallNext PROVE SupInv'
  OBVIOUS
<1>1. SupInv /\ sup \in Sups /\ mode \in [Cards -> Modes]
  BY Zenon DEF WallInv, SupInv, DbInv
<1>2. ASSUME UNCHANGED supVars PROVE SupInv'
  BY <1>1, <1>2, Zenon DEF supVars, SupInv, SupCard
<1>3. CASE TickBegins
  <2>1. sup' = [pc |-> "ask", todo |-> Cards, mode |-> mode, full |-> phase = 0]
    BY <1>3, Zenon DEF TickBegins
  <2>2. sup' \in Sups /\ sup'.pc = "ask" /\ sup'.todo = Cards /\ "ask" # "start"
    BY <1>1, <2>1 DEF Sups
  <2>3. phase' = (phase + 1) % FULL_EVERY /\ UNCHANGED <<DOWN_HOSTS, misses>>
    BY <1>3, Zenon DEF TickBegins
  <2>4. phase' \in 0 .. FULL_EVERY - 1
    BY <1>1, <2>3, Bounds DEF SupInv
  <2> QED BY <1>1, <2>2, <2>3, <2>4, Bounds, Zenon DEF SupInv
<1>4. CASE AskProgram
  <2>1. sup.pc # "sleep" /\ SupCard \in Cards /\ UNCHANGED <<DOWN_HOSTS, misses, phase>>
    <3>1. sup.pc = "ask" /\ UNCHANGED <<DOWN_HOSTS, misses, phase>>
      BY <1>4, Zenon DEF AskProgram
    <3> QED BY <3>1, SupAtCard
  <2>2. CASE NextCard
    BY <1>1, <2>1, <2>2, SupGoesOn, Zenon DEF SupInv
  <2>3. CASE SupStep("status") \/ SupStep("stop")
    <3>1. "status" # "start" /\ "stop" # "start"
      OBVIOUS
    <3> QED BY <1>1, <2>1, <2>3, <3>1, SupMoves, Zenon DEF SupInv
  <2>4. CASE SupStep("start") /\ sup.mode[SupCard] \notin {"off", "stream"}
    <3>1. sup.mode[SupCard] \in Programs
      BY <1>1, <2>1, <2>4, RecordFields, Zenon DEF Modes
    <3> QED BY <1>1, <2>1, <2>4, <3>1, SupMoves, Zenon DEF SupInv
  <2> QED BY <1>4, <2>2, <2>3, <2>4, Zenon DEF AskProgram
<1>5. CASE StopProgram
  <2>1. sup.pc = "stop" /\ SupStep("status") /\ UNCHANGED <<DOWN_HOSTS, misses, phase>>
    BY <1>5, Zenon DEF StopProgram
  <2>2. "stop" # "sleep" /\ "status" # "start"
    OBVIOUS
  <2> QED BY <1>1, <2>1, <2>2, SupMoves, Zenon DEF SupInv
<1>6. CASE StartProgram \/ ReenableDma
  <2>1. sup.pc \in {"start", "dma"} /\ NextCard /\ UNCHANGED <<DOWN_HOSTS, misses, phase>>
    BY <1>6, Zenon DEF StartProgram, ReenableDma
  <2>2. sup.pc # "sleep"
    BY <2>1
  <2> QED BY <1>1, <2>1, <2>2, SupGoesOn, Zenon DEF SupInv
<1>7. CASE AskStatus
  <2>1. sup.pc # "sleep" /\ SupCard \in Cards /\ phase' = phase
    <3>1. sup.pc = "status" /\ phase' = phase
      BY <1>7, Zenon DEF AskStatus
    <3> QED BY <3>1, SupAtCard
  <2>2. DOWN_HOSTS' \subseteq Cards /\ misses' \in [Cards -> 0 .. 2]
    <3>1. CASE Answered(SupCard)
      <4>1. 0 \in 0 .. 2
        OBVIOUS
      <4> QED BY <1>1, <3>1, <4>1, Zenon DEF Answered, SupInv
    <3>2. CASE Missed(SupCard)
      <4>1. (IF misses[SupCard] < 2 THEN misses[SupCard] + 1 ELSE misses[SupCard]) \in 0 .. 2
        BY <1>1, <2>1 DEF SupInv
      <4> QED BY <1>1, <2>1, <3>2, <4>1, Zenon DEF Missed, SupInv
    <3> QED BY <1>7, <3>1, <3>2, Zenon DEF AskStatus
  <2>3. CASE NextCard
    BY <1>1, <2>1, <2>2, <2>3, SupGoesOn, Zenon DEF SupInv
  <2>4. CASE SupStep("dma")
    <3>1. "dma" # "start"
      OBVIOUS
    <3> QED BY <1>1, <2>1, <2>2, <2>4, <3>1, SupMoves, Zenon DEF SupInv
  <2> QED BY <1>7, <2>3, <2>4, Zenon DEF AskStatus
<1>8. CASE Environment \/ \E c \in Cards : BootStep(c)
  BY <1>2, <1>8, Zenon DEF Environment, SetMode, SetShow, StartByHand, Reboot, BootStep
<1>9. CASE \E i \in Players : Run(i) \/ Sender(i)
  BY <1>2, <1>9, Zenon DEF Run, RunRead, RunLink, RunPut, RunEnds, Sender, SenderGet, SenderCheck, SendPalette, SendFrame
<1> QED BY <1>3, <1>4, <1>5, <1>6, <1>7, <1>8, <1>9, Zenon DEF WallNext, Supervise

-----------------------------------------------------------------------------
(* What the updates of a player's records do.                              *)

\* What the threads' updates of their own records do.
LEMMA RenderMoves ==
    ASSUME run \in [Players -> Runs], NEW i \in Players, NEW cs \in SUBSET Cards,
           NEW pc \in {"unborn", "read", "links", "put", "ended"}, run' = [run EXCEPT ![i].pc = pc, ![i].cards = cs]
    PROVE  /\ run' \in [Players -> Runs] /\ \A j \in Players : j # i => run'[j] = run[j]
           /\ run'[i].pc = pc /\ run'[i].show = run[i].show /\ run'[i].cards = cs /\ run'[i].stop = run[i].stop
BY DEF Runs

LEMMA RenderAt ==
    ASSUME run \in [Players -> Runs], NEW i \in Players,
           NEW pc \in {"unborn", "read", "links", "put", "ended"}, run' = [run EXCEPT ![i].pc = pc]
    PROVE  /\ run' \in [Players -> Runs] /\ \A j \in Players : j # i => run'[j] = run[j]
           /\ run'[i].pc = pc /\ run'[i].show = run[i].show /\ run'[i].cards = run[i].cards /\ run'[i].stop = run[i].stop
BY DEF Runs

LEMMA SenderAt ==
    ASSUME sender \in [Players -> Senders], NEW i \in Players,
           NEW pc \in {"unborn", "get", "check", "palette", "frame", "ended"}, sender' = [sender EXCEPT ![i].pc = pc]
    PROVE  /\ sender' \in [Players -> Senders] /\ \A j \in Players : j # i => sender'[j] = sender[j]
           /\ sender'[i].pc = pc /\ sender'[i].show = sender[i].show /\ sender'[i].gens = sender[i].gens
           /\ sender'[i].todo = sender[i].todo
BY DEF Senders

\* Closing links forgets their palettes and keeps their generations.
LEMMA LinksClose ==
    ASSUME link \in [Players -> [Cards -> Links]], NEW i \in Players, NEW cs, link' = CloseLinks(i, cs)
    PROVE  /\ link' \in [Players -> [Cards -> Links]] /\ \A j \in Players : j # i => link'[j] = link[j]
           /\ \A c \in Cards : link'[i][c].gen = link[i][c].gen
           /\ \A c \in Cards : link'[i][c].open <=> link[i][c].open /\ c \notin cs
           /\ \A c \in Cards : c \notin cs => link'[i][c] = link[i][c]
<1>1. link[i] \in [Cards -> Links]
  OBVIOUS
<1>2. \A l \in Links : LET k == [l EXCEPT !.open = FALSE, !.palette = "none"]
                      IN k \in Links /\ k.gen = l.gen /\ k.open = FALSE
  BY DEF Links
<1>3. PICK e : e = [c \in Cards |-> IF c \in cs THEN [link[i][c] EXCEPT !.open = FALSE, !.palette = "none"] ELSE link[i][c]]
  OBVIOUS
<1>4. link' = [link EXCEPT ![i] = e]
  BY <1>3, Zenon DEF CloseLinks
<1>5. \A c \in Cards : e[c] = IF c \in cs THEN [link[i][c] EXCEPT !.open = FALSE, !.palette = "none"] ELSE link[i][c]
  BY <1>3, Zenon
<1>6. \A c \in Cards : e[c] \in Links /\ e[c].gen = link[i][c].gen
  BY <1>1, <1>2, <1>5, Zenon
<1>7. e \in [Cards -> Links]
  BY <1>3, <1>5, <1>6, Zenon
<1>8. \A c \in Cards : (e[c].open <=> link[i][c].open /\ c \notin cs) /\ (c \notin cs => e[c] = link[i][c])
  <2> TAKE c \in Cards
  <2>1. CASE c \in cs
    BY <1>1, <1>2, <1>5, <2>1, Zenon
  <2>2. CASE c \notin cs
    BY <1>5, <2>2, Zenon
  <2> QED BY <2>1, <2>2, Zenon
<1>9. link' \in [Players -> [Cards -> Links]] /\ link'[i] = e /\ \A j \in Players : j # i => link'[j] = link[j]
  BY <1>4, <1>7
<1> QED BY <1>6, <1>8, <1>9, Zenon

\* Replacing the link of one card.
LEMMA LinkReplaced ==
    ASSUME link \in [Players -> [Cards -> Links]], NEW i \in Players, NEW c \in Cards, NEW l \in Links,
           link' = [link EXCEPT ![i][c] = l]
    PROVE  /\ link' \in [Players -> [Cards -> Links]] /\ \A j \in Players : j # i => link'[j] = link[j]
           /\ link'[i][c] = l /\ \A d \in Cards : d # c => link'[i][d] = link[i][d]
OBVIOUS

\* Remembering a palette as sent.
LEMMA LinkRecolours ==
    ASSUME link \in [Players -> [Cards -> Links]], NEW i \in Players, NEW c \in Cards,
           NEW p \in Shows \cup {"none"}, link' = [link EXCEPT ![i][c].palette = p]
    PROVE  /\ link' \in [Players -> [Cards -> Links]] /\ \A j \in Players : j # i => link'[j] = link[j]
           /\ link'[i][c].palette = p
           /\ \A d \in Cards : link'[i][d].gen = link[i][d].gen /\ link'[i][d].open = link[i][d].open
BY DEF Links

-----------------------------------------------------------------------------
(* The players: one lemma per step that moves a thread.                    *)

ThreadsStep == ThreadsInv' /\ RegisterInv' /\ \A j \in Players : PlayerInv(j)'

LEMMA ThreadsKept ==
    ASSUME WallInv, UNCHANGED playerVars, player' = player, Quieter
    PROVE  ThreadsStep
<1>1. UNCHANGED <<run, sender, link, queue>>
  BY Zenon DEF playerVars
<1>2. ThreadsInv' /\ RegisterInv'
  BY <1>1, Zenon DEF WallInv, ThreadsInv, RegisterInv
<1>3. \A j \in Players : PlayerInv(j)'
  BY <1>1, PlayerKept, Zenon DEF Still
<1> QED BY <1>2, <1>3, Zenon DEF ThreadsStep

\* One player's threads move; the others' invariants are kept for them.
LEMMA OneMoves ==
    ASSUME WallInv, NEW i \in Players, Quieter, player' = player, ThreadsInv',
           run'[i].stop = run[i].stop, (run'[i].pc = "unborn") <=> (run[i].pc = "unborn"),
           \A j \in Players : j # i => run'[j] = run[j] /\ sender'[j] = sender[j] /\ link'[j] = link[j] /\ queue'[j] = queue[j],
           PlayerInv(i)'
    PROVE  ThreadsStep
<1>1. \A j \in Players : j # i => PlayerInv(j)'
  BY PlayerKept, Zenon DEF Still
<1>2. \A j \in Players : run'[j].stop = run[j].stop /\ ((run'[j].pc = "unborn") <=> (run[j].pc = "unborn"))
  BY Zenon
<1>3. RegisterInv'
  BY <1>2, Zenon DEF WallInv, RegisterInv
<1> QED BY <1>1, <1>3, Zenon DEF ThreadsStep

\* tick() starts a player: its threads begin with nothing in hand.
LEMMA StartKeeps ==
    ASSUME WallInv, NEW i \in Players, run[i].pc = "unborn", player = 0, player' = i,
           run' = [run EXCEPT ![i].pc = "read"], sender' = [sender EXCEPT ![i].pc = "get"],
           UNCHANGED <<link, queue, events, mode>>
    PROVE  ThreadsStep
<1>1. ThreadsInv /\ RegisterInv /\ PlayerInv(i) /\ run \in [Players -> Runs] /\ sender \in [Players -> Senders]
  BY Zenon DEF WallInv, ThreadsInv
<1>2. /\ run' \in [Players -> Runs] /\ \A j \in Players : j # i => run'[j] = run[j]
      /\ run'[i].pc = "read" /\ run'[i].show = run[i].show /\ run'[i].cards = run[i].cards /\ run'[i].stop = run[i].stop
  BY <1>1, RenderAt, Zenon
<1>3. /\ sender' \in [Players -> Senders] /\ \A j \in Players : j # i => sender'[j] = sender[j]
      /\ sender'[i].pc = "get" /\ sender'[i].gens = sender[i].gens
  BY <1>1, SenderAt, Zenon
<1>4. "read" \notin {"links", "put", "ended", "unborn"} /\ "get" \notin {"check", "palette", "frame"}
      /\ "read" # "links" /\ "read" # "put" /\ "read" # "unborn" /\ "get" # "frame"
  OBVIOUS
<1>5. ThreadsInv'
  BY <1>1, <1>2, <1>3, Zenon DEF ThreadsInv
<1>6. RegisterInv'
  <2>1. i \in 0 .. MaxPlayers /\ \A j \in Players : j # 0
    BY Bounds DEF Players
  <2>2. \A j \in Players : j # i => run[j].pc = "unborn" \/ run[j].stop
    BY <1>1, <2>1, Zenon DEF RegisterInv
  <2>3. ~run[i].stop
    BY <1>1, Zenon DEF RegisterInv
  <2> QED BY <1>1, <1>2, <1>4, <2>1, <2>2, <2>3, Zenon DEF RegisterInv
<1>7. PlayerInv(i)'
  <2>1. RenderInv(i)'
    BY <1>1, <1>2, <1>4, Zenon DEF PlayerInv, RenderInv
  <2>2. PayloadInv(i)' /\ PaletteSent(i)'
    BY <1>1, <1>2, <1>3, <1>4, Zenon DEF PlayerInv, PayloadInv, PayloadOK, PaletteSent
  <2>3. GenerationInv(i)'
    <3>1. \A c \in Cards : Wanted(i, c)' => Wanted(i, c)
      BY <1>2, <1>4, Zenon DEF Wanted
    <3>2. "unborn" # "ended"
      OBVIOUS
    <3> QED BY <1>1, <3>1, <3>2, Zenon DEF PlayerInv, GenerationInv, Streams
  <2> QED BY <1>1, <2>1, <2>2, <2>3, Zenon DEF PlayerInv
<1>8. \A j \in Players : j # i => PlayerInv(j)'
  <2>1. Quieter
    BY Zenon DEF Quieter
  <2> QED BY <1>2, <1>3, <2>1, PlayerKept, Zenon DEF Still
<1> QED BY <1>5, <1>6, <1>7, <1>8, Zenon DEF ThreadsStep

LEMMA StopFlag ==
    ASSUME run \in [Players -> Runs], NEW i \in Players, run' = [run EXCEPT ![i].stop = TRUE]
    PROVE  /\ run' \in [Players -> Runs] /\ \A j \in Players : j # i => run'[j] = run[j]
           /\ run'[i].pc = run[i].pc /\ run'[i].show = run[i].show
           /\ run'[i].cards = run[i].cards /\ run'[i].stop = TRUE
BY DEF Runs

\* tick() tells the player to stop.
LEMMA StopKeeps ==
    ASSUME WallInv, player # 0, player' = 0, run' = [run EXCEPT ![player].stop = TRUE],
           UNCHANGED <<sender, link, queue, events, mode>>
    PROVE  ThreadsStep
<1>1. ThreadsInv /\ RegisterInv /\ run \in [Players -> Runs]
  BY Zenon DEF WallInv, ThreadsInv
<1>2. player \in Players /\ 0 \in 0 .. MaxPlayers /\ \A j \in Players : j # 0
  BY <1>1, Bounds DEF RegisterInv, Players
<1>3. /\ run' \in [Players -> Runs] /\ \A j \in Players : j # player => run'[j] = run[j]
      /\ run'[player].pc = run[player].pc /\ run'[player].show = run[player].show
      /\ run'[player].cards = run[player].cards /\ run'[player].stop = TRUE
  <2>1. PICK i \in Players : i = player
    BY <1>2
  <2>2. run' = [run EXCEPT ![i].stop = TRUE]
    BY <2>1, Zenon
  <2>3. /\ run' \in [Players -> Runs] /\ \A j \in Players : j # i => run'[j] = run[j]
        /\ run'[i].pc = run[i].pc /\ run'[i].show = run[i].show
        /\ run'[i].cards = run[i].cards /\ run'[i].stop = TRUE
    BY <1>1, <2>2, StopFlag, Zenon
  <2> QED BY <2>1, <2>3, Zenon
<1>4. ThreadsInv'
  BY <1>1, <1>3, Zenon DEF ThreadsInv
<1>5. RegisterInv'
  <2>1. \A j \in Players : run'[j].pc = "unborn" \/ run'[j].stop
    <3> TAKE j \in Players
    <3>1. CASE j = player
      BY <1>3, <3>1, Zenon
    <3>2. CASE j # player
      BY <1>1, <1>3, <3>2, Zenon DEF RegisterInv
    <3> QED BY <3>1, <3>2, Zenon
  <2>2. \A j \in Players : run'[j].pc = "unborn" => ~run'[j].stop
    <3> TAKE j \in Players
    <3>1. CASE j = player
      BY <1>1, <1>2, <1>3, <3>1, Zenon DEF RegisterInv
    <3>2. CASE j # player
      BY <1>1, <1>3, <3>2, Zenon DEF RegisterInv
    <3> QED BY <3>1, <3>2, Zenon
  <2> QED BY <1>2, <2>1, <2>2, Zenon DEF RegisterInv
<1>6. \A j \in Players : PlayerInv(j)'
  <2>1. Quieter
    BY Zenon DEF Quieter
  <2> QED BY <1>3, <2>1, PlayerKept, Zenon DEF Still
<1> QED BY <1>4, <1>5, <1>6, Zenon DEF ThreadsStep

LEMMA TickThreads == WallInv /\ TickBegins => ThreadsStep
<1> SUFFICES ASSUME WallInv, TickBegins PROVE ThreadsStep
  OBVIOUS
<1>1. UNCHANGED <<mode, events, link, queue>> /\ Quieter
  BY Zenon DEF TickBegins, dbVars, Quieter
<1>2. CASE UNCHANGED <<player, run, sender>>
  BY <1>1, <1>2, ThreadsKept, Zenon DEF playerVars
<1>3. CASE player = 0 /\ \E i \in Players :
             /\ run[i].pc = "unborn" /\ player' = i
             /\ run' = [run EXCEPT ![i].pc = "read"] /\ sender' = [sender EXCEPT ![i].pc = "get"]
  BY <1>1, <1>3, StartKeeps, Zenon
<1>4. CASE player # 0 /\ run' = [run EXCEPT ![player].stop = TRUE] /\ player' = 0 /\ UNCHANGED sender
  BY <1>1, <1>4, StopKeeps, Zenon
<1> QED BY <1>2, <1>3, <1>4, Zenon DEF TickBegins

\* Links may be closed or replaced by younger ones under a payload.
Aged(i) ==
    \A c \in Cards : \/ link'[i][c] = link[i][c]
                     \/ ~link'[i][c].open /\ link'[i][c].gen = link[i][c].gen
                     \/ link'[i][c].gen = link[i][c].gen + 1

LEMMA PayloadsAge ==
    ASSUME WallInv, NEW i \in Players, sender'[i] = sender[i], Aged(i)
    PROVE  /\ PaletteSent(i)'
           /\ sender'[i].pc \in {"check", "palette", "frame"} => sender'[i].todo # {}
           /\ \A c \in Cards : sender'[i].gens[c] <= link'[i][c].gen
           /\ \A f \in Frames : PayloadOK(i, f.gens) => PayloadOK(i, f.gens)'
<1>1. PayloadInv(i) /\ PaletteSent(i)
  BY Zenon DEF WallInv, PlayerInv
<1>2. \A c \in Cards : link[i][c].gen \in Nat /\ sender[i].gens[c] \in Nat
  BY Numbers, Zenon
<1>3. \A c \in Cards : link'[i][c].gen \in Nat /\ link[i][c].gen <= link'[i][c].gen
  <2> SUFFICES ASSUME NEW c \in Cards PROVE link'[i][c].gen \in Nat /\ link[i][c].gen <= link'[i][c].gen
    OBVIOUS
  <2>1. link'[i][c].gen = link[i][c].gen \/ link'[i][c].gen = link[i][c].gen + 1
    BY Zenon DEF Aged
  <2> QED BY <1>2, <2>1
<1>4. \A c \in Cards : sender[i].gens[c] <= link'[i][c].gen
  <2> TAKE c \in Cards
  <2>1. sender[i].gens[c] <= link[i][c].gen
    BY <1>1, Zenon DEF PayloadInv
  <2> QED BY <1>2, <1>3, <2>1
<1>5. ASSUME NEW f \in Frames, PayloadOK(i, f.gens) PROVE PayloadOK(i, f.gens)'
  <2>1. \A c \in Cards : f.gens[c] \in Nat
    <3>1. f.gens \in [Cards -> Gens] /\ Gens \subseteq Nat
      BY RecordFields, Bounds DEF Gens
    <3> QED BY <3>1, Zenon
  <2>2. \A c \in Cards : f.gens[c] <= link'[i][c].gen
    <3> TAKE c \in Cards
    <3>1. f.gens[c] <= link[i][c].gen
      BY <1>5, Zenon DEF PayloadOK
    <3> QED BY <1>2, <1>3, <2>1, <3>1
  <2> QED BY <1>5, <2>2, Zenon DEF PayloadOK
<1>6. PaletteSent(i)'
  <2> SUFFICES ASSUME sender[i].pc = "frame"
               PROVE  Closed(i, SendCard(i), sender[i].gens[SendCard(i)])' \/ link'[i][SendCard(i)].palette = sender[i].show
    BY Zenon DEF PaletteSent, SendCard, Closed
  <2>1. PICK c \in Cards : c = SendCard(i)
    BY SendAtCard
  <2>2. SendCard(i)' = c
    BY <2>1, Zenon DEF SendCard
  <2>3. Closed(i, c, sender[i].gens[c]) \/ link[i][c].palette = sender[i].show
    BY <1>1, <2>1, Zenon DEF PaletteSent
  <2>4. CASE link'[i][c] = link[i][c]
    BY <2>1, <2>2, <2>3, <2>4, Zenon DEF Closed
  <2>5. CASE ~link'[i][c].open
    BY <2>1, <2>2, <2>5, Zenon DEF Closed
  <2>6. CASE link'[i][c].gen = link[i][c].gen + 1
    <3>1. link'[i][c].gen # sender[i].gens[c]
      <4>1. sender[i].gens[c] <= link[i][c].gen
        BY <1>1, Zenon DEF PayloadInv
      <4> QED BY <1>2, <2>6, <4>1
    <3> QED BY <2>1, <2>2, <3>1, Zenon DEF Closed
  <2> QED BY <2>4, <2>5, <2>6, Zenon DEF Aged
<1> QED BY <1>1, <1>4, <1>5, <1>6, Zenon DEF PayloadInv

LEMMA QueueAges ==
    ASSUME WallInv, NEW i \in Players, sender'[i] = sender[i], queue'[i] = queue[i],
           run'[i].show = run[i].show, Aged(i)
    PROVE  PayloadInv(i)'
<1>1. \A k \in 1 .. Len(queue[i]) : queue[i][k] \in Frames
  BY Numbers
<1>2. \A k \in 1 .. Len(queue[i]) : queue[i][k].show = run[i].show /\ PayloadOK(i, queue[i][k].gens)
  BY Zenon DEF WallInv, PlayerInv, PayloadInv
<1>3. \A k \in 1 .. Len(queue[i]) :
         (\E c \in Cards : queue[i][k].gens[c] > 0) /\ (\A c \in Cards : queue[i][k].gens[c] <= link'[i][c].gen)
  BY <1>1, <1>2, PayloadsAge, Zenon DEF PayloadOK
<1>4. \A k \in 1 .. Len(queue'[i]) : (queue[i][k].show = run[i].show /\ PayloadOK(i, queue[i][k].gens))'
  BY <1>2, <1>3, Zenon DEF PayloadOK
<1> QED BY <1>4, PayloadsAge, Zenon DEF PayloadInv

\* One look at the database.
LEMMA ReadKeeps == ASSUME WallInv, NEW i \in Players, RunRead(i) PROVE ThreadsStep
<1>1. /\ ThreadsInv /\ PlayerInv(i) /\ run \in [Players -> Runs] /\ queue \in [Players -> Seq(Frames)]
      /\ link \in [Players -> [Cards -> Links]] /\ mode \in [Cards -> Modes] /\ show \in Shows
  BY Zenon DEF WallInv, ThreadsInv, DbInv
<1>2. PICK P : P = IF StreamCards = {} THEN "read" ELSE IF NewCards(i, StreamCards) = {} THEN "put" ELSE "links"
  OBVIOUS
<1>3. PICK S : S = StreamCards
  OBVIOUS
<1>4. /\ run' = [run EXCEPT ![i] = [@ EXCEPT !.show = show, !.cards = S, !.pc = P]]
      /\ queue' = [queue EXCEPT ![i] = Drained(i)] /\ sender' = sender /\ player' = player
      /\ UNCHANGED <<mode, events>>
  BY <1>2, <1>3, Zenon DEF RunRead, supVars, dbVars
<1>5. S \in SUBSET Cards /\ P \in {"read", "put", "links"}
  BY <1>2, <1>3, Zenon DEF StreamCards
<1>6. /\ run' \in [Players -> Runs] /\ \A j \in Players : j # i => run'[j] = run[j]
      /\ run'[i].pc = P /\ run'[i].show = show /\ run'[i].cards = S /\ run'[i].stop = run[i].stop
  <2>1. PICK q : q = [run[i] EXCEPT !.show = show, !.cards = S, !.pc = P]
    OBVIOUS
  <2>2. run[i] \in Runs
    BY <1>1, Zenon
  <2>3. q \in Runs /\ q.pc = P /\ q.show = show /\ q.cards = S /\ q.stop = run[i].stop
    <3>1. show \in Shows \cup {"none"}
      BY <1>1, Zenon
    <3> QED BY <1>5, <2>1, <2>2, <3>1 DEF Runs
  <2>4. run' = [run EXCEPT ![i] = q]
    BY <1>4, <2>1, Zenon
  <2>5. run' \in [Players -> Runs] /\ run'[i] = q /\ \A j \in Players : j # i => run'[j] = run[j]
    BY <1>1, <2>3, <2>4, Zenon
  <2> QED BY <2>3, <2>5, Zenon
<1>7. /\ link' \in [Players -> [Cards -> Links]] /\ \A j \in Players : j # i => link'[j] = link[j]
      /\ \A c \in Cards : link'[i][c].gen = link[i][c].gen /\ (c \in S => link'[i][c] = link[i][c])
      /\ \A c \in Cards : \/ link'[i][c] = link[i][c]
                          \/ ~link'[i][c].open
      /\ S # {} => \A c \in Cards : link'[i][c].open <=> link[i][c].open /\ c \in S
      /\ S = {} => link' = link
  <2>1. CASE S = {}
    <3>1. link' = link
      BY <1>3, <2>1, Zenon DEF RunRead
    <3> QED BY <1>1, <2>1, <3>1, Zenon
  <2>2. CASE S # {}
    <3>1. link' = CloseLinks(i, Cards \ S)
      BY <1>3, <2>2, Zenon DEF RunRead
    <3>2. \A c \in Cards : c \notin Cards \ S <=> c \in S
      OBVIOUS
    <3>3. /\ link' \in [Players -> [Cards -> Links]] /\ \A j \in Players : j # i => link'[j] = link[j]
          /\ \A c \in Cards : link'[i][c].gen = link[i][c].gen
          /\ \A c \in Cards : link'[i][c].open <=> link[i][c].open /\ c \notin Cards \ S
          /\ \A c \in Cards : c \notin Cards \ S => link'[i][c] = link[i][c]
      BY <1>1, <3>1, LinksClose, Zenon
    <3> QED BY <2>2, <3>2, <3>3, Zenon
  <2> QED BY <2>1, <2>2, Zenon
<1>8. /\ queue' \in [Players -> Seq(Frames)] /\ \A j \in Players : j # i => queue'[j] = queue[j]
      /\ queue'[i] = <<>> \/ (run[i].show = show /\ queue'[i] = queue[i])
  <2>1. Drained(i) = <<>> \/ (run[i].show = show /\ Drained(i) = queue[i])
    BY Zenon DEF Drained
  <2>2. Drained(i) \in Seq(Frames)
    <3>1. <<>> \in Seq(Frames) /\ queue[i] \in Seq(Frames)
      BY <1>1
    <3> QED BY <2>1, <3>1, Zenon
  <2> QED BY <1>1, <1>4, <2>1, <2>2, Zenon
<1>9. ThreadsInv'
  BY <1>1, <1>4, <1>6, <1>7, <1>8, Zenon DEF ThreadsInv
<1>10. Aged(i)
  BY <1>7, Zenon DEF Aged
<1>11. PayloadInv(i)' /\ Len(queue'[i]) <= QUEUE
  <2>1. CASE queue'[i] = <<>>
    <3>1. Len(queue'[i]) = 0 /\ 1 .. Len(queue'[i]) = {} /\ 0 <= QUEUE
      BY <2>1, Bounds
    <3> QED BY <1>4, <1>10, <3>1, PayloadsAge, Zenon DEF PayloadInv
  <2>2. CASE run[i].show = show /\ queue'[i] = queue[i]
    <3> QED BY <1>1, <1>4, <1>6, <1>10, <2>2, QueueAges, Zenon DEF PlayerInv
  <2> QED BY <1>8, <2>1, <2>2, Zenon
<1>12. RenderInv(i)'
  <2>1. NewCards(i, S)' = NewCards(i, S)
    BY <1>5, <1>7, Zenon DEF NewCards
  <2>2. \A c \in Cards : link'[i][c].open => link'[i][c].gen > 0
    BY <1>1, <1>7, Zenon DEF PlayerInv, RenderInv
  <2>3. P \in {"links", "put"} => S # {}
    BY <1>2, <1>3
  <2>4. (P = "links" => NewCards(i, S) # {}) /\ (P = "put" => NewCards(i, S) = {})
    BY <1>2, <1>3
  <2> QED BY <1>6, <2>1, <2>2, <2>3, <2>4, Zenon DEF RenderInv, NewCards
<1>13. GenerationInv(i)'
  <2> SUFFICES ASSUME NEW c \in Cards
               PROVE  /\ link[i][c].gen <= events + 1
                      /\ ~link'[i][c].open => link[i][c].gen <= events
                      /\ Wanted(i, c)' /\ ~Streams(c) =>
                             link[i][c].gen <= IF link'[i][c].open THEN events ELSE events - 1
    BY <1>4, <1>7, Zenon DEF GenerationInv, Streams
  <2>1. /\ link[i][c].gen <= events + 1
        /\ ~link[i][c].open => link[i][c].gen <= events
        /\ link[i][c].open /\ ~Streams(c) => link[i][c].gen <= events
    <3>1. run[i].pc # "ended"
      BY DEF RunRead
    <3> QED BY <1>1, <3>1, Zenon DEF PlayerInv, GenerationInv, Wanted
  <2>2. c \in S <=> Streams(c)
    BY <1>3, Zenon DEF StreamCards
  <2>3. ~link'[i][c].open => ~link[i][c].open \/ ~Streams(c)
    BY <1>7, <2>2, Zenon
  <2>4. Wanted(i, c)' => link'[i][c].open \/ c \in S
    BY <1>6, Zenon DEF Wanted
  <2>5. Wanted(i, c)' /\ ~Streams(c) => link'[i][c].open /\ link[i][c].open
    BY <1>7, <2>2, <2>4, Zenon
  <2> QED BY <2>1, <2>3, <2>5, Zenon
<1>14. PlayerInv(i)'
  BY <1>4, <1>10, <1>11, <1>12, <1>13, PayloadsAge, Zenon DEF PlayerInv
<1>15. Quieter /\ ((run'[i].pc = "unborn") <=> (run[i].pc = "unborn"))
  <2>1. run[i].pc # "unborn" /\ P # "unborn"
    BY <1>5 DEF RunRead
  <2> QED BY <1>4, <1>6, <2>1, Zenon DEF Quieter
<1> QED BY <1>4, <1>6, <1>7, <1>8, <1>9, <1>14, <1>15, OneMoves, Zenon

\* A new link: a generation that no payload has.
LEMMA LinkKeeps == ASSUME WallInv, NEW i \in Players, RunLink(i), Quieter PROVE ThreadsStep
<1>1. /\ ThreadsInv /\ PlayerInv(i) /\ run \in [Players -> Runs] /\ link \in [Players -> [Cards -> Links]]
      /\ run[i].pc = "links" /\ sender' = sender /\ queue' = queue /\ player' = player /\ mode' = mode
  BY Zenon DEF WallInv, ThreadsInv, RunLink, supVars, dbVars
<1>2. PICK c : c = CHOOSE d \in NewCards(i, run[i].cards) : TRUE
  OBVIOUS
<1>3. c \in NewCards(i, run[i].cards) /\ c \in run[i].cards /\ c \in Cards /\ ~link[i][c].open /\ run[i].cards \subseteq Cards
  BY <1>1, <1>2, RunAtCard, Zenon DEF NewCards
<1>4. PICK P : P = IF NewCards(i, run[i].cards) = {c} THEN "put" ELSE "links"
  OBVIOUS
<1>5. PICK l : l = [gen |-> link[i][c].gen + 1, open |-> TRUE, palette |-> "none"]
  OBVIOUS
<1>6. run' = [run EXCEPT ![i].pc = P] /\ link' = [link EXCEPT ![i][c] = l]
  BY <1>2, <1>4, <1>5, Zenon DEF RunLink
<1>7. /\ link[i][c].gen <= events
      /\ ~Streams(c) => link[i][c].gen <= events - 1
  <2>1. run[i].pc # "ended" /\ Wanted(i, c)
    BY <1>1, <1>3 DEF Wanted
  <2> QED BY <1>1, <1>3, <2>1, Zenon DEF PlayerInv, GenerationInv
<1>8. events \in Nat /\ events <= MaxEvents /\ link[i][c].gen \in Nat
  BY <1>3, Numbers, Zenon
<1>9. l \in Links /\ l.open = TRUE /\ l.gen = link[i][c].gen + 1 /\ l.gen > 0
  BY <1>5, <1>7, <1>8, Bounds DEF Links, Gens
<1>10. /\ run' \in [Players -> Runs] /\ \A j \in Players : j # i => run'[j] = run[j]
       /\ run'[i].pc = P /\ run'[i].show = run[i].show /\ run'[i].cards = run[i].cards /\ run'[i].stop = run[i].stop
  <2>1. P \in {"put", "links"}
    BY <1>4, Zenon
  <2>2. P \in {"unborn", "read", "links", "put", "ended"}
    BY <2>1, Zenon
  <2> QED BY <1>1, <1>6, <2>2, RenderAt, Zenon
<1>11. /\ link' \in [Players -> [Cards -> Links]] /\ \A j \in Players : j # i => link'[j] = link[j]
       /\ link'[i][c] = l /\ \A d \in Cards : d # c => link'[i][d] = link[i][d]
  <2>1. link' = [link EXCEPT ![i][c] = l] /\ c \in Cards /\ l \in Links
    BY <1>3, <1>6, <1>9, Zenon
  <2> QED BY <1>1, <2>1, LinkReplaced
<1>12. Aged(i)
  <2> SUFFICES ASSUME NEW d \in Cards
               PROVE  link'[i][d] = link[i][d] \/ link'[i][d].gen = link[i][d].gen + 1
    BY Zenon DEF Aged
  <2> QED BY <1>9, <1>11, Zenon
<1>13. ThreadsInv'
  BY <1>1, <1>10, <1>11, Zenon DEF ThreadsInv
<1>14. PayloadInv(i)' /\ PaletteSent(i)' /\ Len(queue'[i]) <= QUEUE
  BY <1>1, <1>10, <1>12, QueueAges, PayloadsAge, Zenon DEF PlayerInv
<1>15. RenderInv(i)'
  <2>1. NewCards(i, run[i].cards)' = NewCards(i, run[i].cards) \ {c}
    <3>1. NewCards(i, run[i].cards)' = {d \in run[i].cards : ~link'[i][d].open}
      BY <1>10, Zenon DEF NewCards
    <3>2. NewCards(i, run[i].cards) = {d \in run[i].cards : ~link[i][d].open}
      BY Zenon DEF NewCards
    <3>3. \A d \in run[i].cards : ~link'[i][d].open <=> ~link[i][d].open /\ d # c
      BY <1>3, <1>9, <1>11, Zenon
    <3> QED BY <3>1, <3>2, <3>3, Zenon
  <2>2. \A d \in Cards : link'[i][d].open => link'[i][d].gen > 0
    BY <1>1, <1>9, <1>11, Zenon DEF PlayerInv, RenderInv
  <2>3. (P = "links" => NewCards(i, run[i].cards) \ {c} # {}) /\ (P = "put" => NewCards(i, run[i].cards) \ {c} = {})
    BY <1>3, <1>4
  <2> QED BY <1>3, <1>10, <2>1, <2>2, <2>3, Zenon DEF RenderInv
<1>16. GenerationInv(i)'
  <2>1. events' \in Nat /\ (events' = events \/ events' = events + 1)
    BY <1>8 DEF Quieter
  <2> SUFFICES ASSUME NEW d \in Cards
               PROVE  /\ link'[i][d].gen <= events' + 1
                      /\ ~link'[i][d].open => link'[i][d].gen <= events'
                      /\ Wanted(i, d)' /\ ~Streams(d) =>
                             link'[i][d].gen <= IF link'[i][d].open THEN events' ELSE events' - 1
    BY <1>1, Zenon DEF GenerationInv, Streams
  <2>2. CASE d = c
    <3>1. link'[i][d].gen = link[i][c].gen + 1 /\ link'[i][d].open
      BY <1>9, <1>11, <2>2, Zenon
    <3>2. link'[i][d].gen <= events' + 1 /\ (~Streams(c) => link'[i][d].gen <= events')
      BY <1>7, <1>8, <2>1, <3>1
    <3> QED BY <2>2, <3>1, <3>2, Zenon
  <2>3. CASE d # c
    <3>1. link'[i][d] = link[i][d] /\ link[i][d].gen \in Nat
      BY <1>11, <2>3, Numbers, Zenon
    <3>2. Wanted(i, d)' => Wanted(i, d)
      BY <1>1, <1>10, <3>1, Zenon DEF Wanted
    <3>3. run[i].pc # "ended"
      BY <1>1
    <3>4. /\ link[i][d].gen <= events + 1
          /\ ~link[i][d].open => link[i][d].gen <= events
          /\ Wanted(i, d) /\ ~Streams(d) =>
                link[i][d].gen <= IF link[i][d].open THEN events ELSE events - 1
      BY <1>1, <3>3, Zenon DEF PlayerInv, GenerationInv
    <3>5. /\ link[i][d].gen <= events' + 1
          /\ ~link[i][d].open => link[i][d].gen <= events'
          /\ Wanted(i, d) /\ ~Streams(d) =>
                link[i][d].gen <= IF link[i][d].open THEN events' ELSE events' - 1
      BY <1>8, <2>1, <3>1, <3>4
    <3> QED BY <3>1, <3>2, <3>5, Zenon
  <2> QED BY <2>2, <2>3, Zenon
<1>17. PlayerInv(i)'
  BY <1>14, <1>15, <1>16, Zenon DEF PlayerInv
<1>18. (run'[i].pc = "unborn") <=> (run[i].pc = "unborn")
  BY <1>1, <1>4, <1>10
<1> QED BY <1>1, <1>10, <1>11, <1>13, <1>17, <1>18, OneMoves, Zenon

\* A frame is queued: every card it is for has an open link.
LEMMA PutKeeps == ASSUME WallInv, NEW i \in Players, RunPut(i) PROVE ThreadsStep
<1>1. /\ ThreadsInv /\ PlayerInv(i) /\ run \in [Players -> Runs] /\ queue \in [Players -> Seq(Frames)]
      /\ run[i].pc = "put" /\ UNCHANGED <<sender, link, player, mode, events>> /\ Len(queue[i]) < QUEUE
      /\ run' = [run EXCEPT ![i].pc = "read", ![i].cards = {}]
  BY Zenon DEF WallInv, ThreadsInv, RunPut, supVars, dbVars
<1>2. PICK g : g = [c \in Cards |-> IF c \in run[i].cards THEN link[i][c].gen ELSE 0]
  OBVIOUS
<1>3. PICK f : f = [show |-> run[i].show, gens |-> g]
  OBVIOUS
<1>4. queue' = [queue EXCEPT ![i] = Append(@, f)]
  BY <1>2, <1>3, Zenon DEF RunPut
<1>5. \A c \in Cards : link[i][c].gen \in Gens /\ link[i][c].gen \in Nat /\ 0 \in Gens
  BY Numbers, RecordFields, Bounds DEF Gens
<1>6. g \in [Cards -> Gens] /\ \A c \in Cards : g[c] = IF c \in run[i].cards THEN link[i][c].gen ELSE 0
  BY <1>2, <1>5, Zenon
<1>7. run[i] \in Runs /\ run[i].show \in Shows \cup {"none"} /\ run[i].cards \subseteq Cards
  BY Numbers, RecordFields, Zenon
<1>8. f \in Frames /\ f.show = run[i].show /\ f.gens = g
  BY <1>3, <1>6, <1>7 DEF Frames
<1>9. PayloadOK(i, g)
  <2>1. run[i].cards # {} /\ NewCards(i, run[i].cards) = {}
    BY <1>1 DEF PlayerInv, RenderInv
  <2>2. PICK c \in run[i].cards : link[i][c].open
    BY <2>1, Zenon DEF NewCards
  <2>3. g[c] > 0
    BY <1>1, <1>6, <1>7, <2>2, Zenon DEF PlayerInv, RenderInv
  <2>4. \A d \in Cards : g[d] <= link[i][d].gen
    BY <1>5, <1>6
  <2> QED BY <1>7, <2>3, <2>4, Zenon DEF PayloadOK
<1>10. /\ run' \in [Players -> Runs] /\ \A j \in Players : j # i => run'[j] = run[j]
       /\ run'[i].pc = "read" /\ run'[i].show = run[i].show /\ run'[i].cards = {} /\ run'[i].stop = run[i].stop
  BY <1>1, RenderMoves, Zenon
<1>11. /\ queue' \in [Players -> Seq(Frames)] /\ \A j \in Players : j # i => queue'[j] = queue[j]
       /\ queue'[i] = Append(queue[i], f)
  <2>1. Append(queue[i], f) \in Seq(Frames)
    BY <1>1, <1>8
  <2> QED BY <1>1, <1>4, <2>1, Zenon
<1>12. /\ Len(queue'[i]) = Len(queue[i]) + 1 /\ Len(queue[i]) \in Nat
       /\ \A k \in 1 .. Len(queue[i]) : queue'[i][k] = queue[i][k]
       /\ queue'[i][Len(queue[i]) + 1] = f
  BY <1>1, <1>8, <1>11
<1>13. \A k \in 1 .. Len(queue'[i]) : k \in 1 .. Len(queue[i]) \/ k = Len(queue[i]) + 1
  BY <1>12
<1>14. \A k \in 1 .. Len(queue'[i]) : queue'[i][k].show = run[i].show /\ PayloadOK(i, queue'[i][k].gens)
  BY <1>1, <1>8, <1>9, <1>12, <1>13, Zenon DEF PlayerInv, PayloadInv
<1>15. PayloadInv(i)' /\ PaletteSent(i)'
  <2>1. PaletteSent(i)'
    BY <1>1, Zenon DEF PlayerInv, PaletteSent, Closed, SendCard
  <2>2. \A k \in 1 .. Len(queue'[i]) : (queue[i][k].show = run[i].show /\ PayloadOK(i, queue[i][k].gens))'
    BY <1>1, <1>10, <1>14, Zenon DEF PayloadOK
  <2> QED BY <1>1, <2>1, <2>2, Zenon DEF PlayerInv, PayloadInv
<1>16. Len(queue'[i]) <= QUEUE
  BY <1>1, <1>12, Bounds
<1>17. "read" \notin {"links", "put"} /\ "read" # "links" /\ "read" # "put" /\ "put" # "ended" /\ "put" # "unborn" /\ "read" # "unborn"
  OBVIOUS
<1>18. RenderInv(i)'
  BY <1>1, <1>10, <1>17, Zenon DEF PlayerInv, RenderInv
<1>19. GenerationInv(i)'
  <2>1. \A c \in Cards : Wanted(i, c)' => Wanted(i, c)
    BY <1>1, <1>10, <1>17, Zenon DEF Wanted
  <2> QED BY <1>1, <1>17, <2>1, Zenon DEF PlayerInv, GenerationInv, Streams
<1>20. PlayerInv(i)' /\ ThreadsInv' /\ Quieter
  BY <1>1, <1>10, <1>11, <1>15, <1>16, <1>18, <1>19, Zenon DEF PlayerInv, ThreadsInv, Quieter
<1> QED BY <1>1, <1>10, <1>11, <1>17, <1>20, OneMoves, Zenon

\* The render thread ends and closes every link.
LEMMA EndKeeps == ASSUME WallInv, NEW i \in Players, RunEnds(i) PROVE ThreadsStep
<1>1. /\ ThreadsInv /\ PlayerInv(i) /\ run \in [Players -> Runs] /\ link \in [Players -> [Cards -> Links]]
      /\ UNCHANGED <<sender, queue, player, mode, events>>
      /\ run' = [run EXCEPT ![i].pc = "ended", ![i].cards = {}] /\ link' = CloseLinks(i, Cards)
      /\ run[i].pc \in {"read", "put"}
  BY Zenon DEF WallInv, ThreadsInv, RunEnds, supVars, dbVars
<1>2. /\ run' \in [Players -> Runs] /\ \A j \in Players : j # i => run'[j] = run[j]
      /\ run'[i].pc = "ended" /\ run'[i].show = run[i].show /\ run'[i].stop = run[i].stop
  BY <1>1, RenderMoves, Zenon
<1>3. /\ link' \in [Players -> [Cards -> Links]] /\ \A j \in Players : j # i => link'[j] = link[j]
      /\ \A c \in Cards : link'[i][c].gen = link[i][c].gen /\ ~link'[i][c].open
  <2>1. /\ link' \in [Players -> [Cards -> Links]] /\ \A j \in Players : j # i => link'[j] = link[j]
        /\ \A c \in Cards : link'[i][c].gen = link[i][c].gen
        /\ \A c \in Cards : link'[i][c].open <=> link[i][c].open /\ c \notin Cards
    BY <1>1, LinksClose, Zenon
  <2> QED BY <2>1, Zenon
<1>4. Aged(i)
  BY <1>3, Zenon DEF Aged
<1>5. PayloadInv(i)' /\ PaletteSent(i)' /\ Len(queue'[i]) <= QUEUE
  BY <1>1, <1>2, <1>4, QueueAges, PayloadsAge, Zenon DEF PlayerInv
<1>6. "ended" \notin {"links", "put"} /\ "ended" # "links" /\ "ended" # "put"
  OBVIOUS
<1>7. RenderInv(i)' /\ GenerationInv(i)'
  BY <1>1, <1>2, <1>3, <1>6, Zenon DEF PlayerInv, RenderInv, GenerationInv
<1>8. PlayerInv(i)' /\ ThreadsInv' /\ Quieter
  BY <1>1, <1>2, <1>3, <1>5, <1>7, Zenon DEF PlayerInv, ThreadsInv, Quieter
<1>9. (run'[i].pc = "unborn") <=> (run[i].pc = "unborn")
  BY <1>1, <1>2
<1> QED BY <1>1, <1>2, <1>3, <1>8, <1>9, OneMoves, Zenon

\* What the sender's steps leave alone.
LEMMA SenderOnly ==
    ASSUME WallInv, NEW i \in Players, Quieter, player' = player, run' = run, sender' \in [Players -> Senders],
           link' \in [Players -> [Cards -> Links]], queue' \in [Players -> Seq(Frames)], Len(queue'[i]) <= QUEUE,
           \A j \in Players : j # i => sender'[j] = sender[j] /\ link'[j] = link[j] /\ queue'[j] = queue[j],
           \A c \in Cards : link'[i][c].gen = link[i][c].gen /\ link'[i][c].open = link[i][c].open,
           PayloadInv(i)', PaletteSent(i)'
    PROVE  ThreadsStep
<1>1. PlayerInv(i)
  BY Zenon DEF WallInv
<1>2. RenderInv(i)'
  <2>1. run[i].cards \subseteq Cards
    BY Numbers, RecordFields, Zenon
  <2>2. NewCards(i, run[i].cards)' = NewCards(i, run[i].cards)
    <3>1. NewCards(i, run[i].cards)' = {d \in run[i].cards : ~link'[i][d].open}
      BY Zenon DEF NewCards
    <3> QED BY <2>1, <3>1, Zenon DEF NewCards
  <2>3. \A c \in Cards : link'[i][c].open => link'[i][c].gen > 0
    BY <1>1, Zenon DEF PlayerInv, RenderInv
  <2> QED BY <1>1, <2>2, <2>3, Zenon DEF PlayerInv, RenderInv
<1>3. GenerationInv(i)'
  <2> SUFFICES ASSUME NEW c \in Cards
               PROVE  /\ link[i][c].gen <= events' + 1
                      /\ run[i].pc # "ended" =>
                           /\ ~link[i][c].open => link[i][c].gen <= events'
                           /\ Wanted(i, c) /\ ~(mode'[c] = "stream") =>
                                link[i][c].gen <= IF link[i][c].open THEN events' ELSE events' - 1
    BY Zenon DEF GenerationInv, Wanted, Streams
  <2>1. /\ link[i][c].gen <= events + 1
        /\ run[i].pc # "ended" =>
             /\ ~link[i][c].open => link[i][c].gen <= events
             /\ Wanted(i, c) /\ ~(mode[c] = "stream") =>
                  link[i][c].gen <= IF link[i][c].open THEN events ELSE events - 1
    BY <1>1, Zenon DEF PlayerInv, GenerationInv, Streams
  <2>2. link[i][c].gen \in Nat /\ events \in Nat
    BY Numbers, Zenon
  <2>3. CASE events' = events /\ mode' = mode
    BY <2>1, <2>3, Zenon
  <2>4. CASE events' = events + 1
    BY <2>1, <2>2, <2>4
  <2> QED BY <2>3, <2>4, Zenon DEF Quieter
<1>4. PlayerInv(i)'
  BY <1>2, <1>3, Zenon DEF PlayerInv
<1>5. ThreadsInv'
  BY Zenon DEF WallInv, ThreadsInv
<1> QED BY <1>4, <1>5, OneMoves, Zenon

\* A payload that is not finished keeps a card to go to.
LEMMA NextPayloadOK ==
    ASSUME WallInv, NEW i \in Players, sender[i].pc \in {"check", "palette", "frame"}, NextPayload(i)
    PROVE  /\ sender' \in [Players -> Senders] /\ \A j \in Players : j # i => sender'[j] = sender[j]
           /\ sender'[i].pc \in {"check", "palette", "frame"} => sender'[i].todo # {}
           /\ sender'[i].pc # "frame"
           /\ \A c \in Cards : sender'[i].gens[c] <= link[i][c].gen
<1>1. sender \in [Players -> Senders] /\ sender[i] \in Senders /\ SendCard(i) \in sender[i].todo
      /\ \A c \in Cards : sender[i].gens[c] <= link[i][c].gen
  BY Numbers, SendAtCard, Zenon DEF WallInv, ThreadsInv, PlayerInv, PayloadInv
<1>2. PICK c : c = SendCard(i)
  OBVIOUS
<1>3. PICK e : e = IF sender[i].todo = {c} THEN Waiting ELSE [sender[i] EXCEPT !.todo = @ \ {c}, !.pc = "check"]
  OBVIOUS
<1>4. sender' = [sender EXCEPT ![i] = e]
  <2>1. sender' = [sender EXCEPT ![i] = IF sender[i].todo = {SendCard(i)} THEN Waiting
                                        ELSE [sender[i] EXCEPT !.todo = @ \ {SendCard(i)}, !.pc = "check"]]
    BY DEF NextPayload
  <2> QED BY <1>2, <1>3, <2>1, Zenon
<1>5. e \in Senders /\ (e.pc \in {"check", "palette", "frame"} => e.todo # {}) /\ e.pc # "frame"
      /\ \A d \in Cards : e.gens[d] <= link[i][d].gen
  <2>1. CASE sender[i].todo = {c}
    <3>1. e = Waiting
      BY <1>3, <2>1, Zenon
    <3>2. Waiting \in Senders /\ Waiting.pc = "get" /\ Waiting.gens = [d \in Cards |-> 0]
      BY Bounds DEF Waiting, Senders, Gens
    <3>3. "get" \notin {"check", "palette", "frame"} /\ "get" # "frame"
      OBVIOUS
    <3>4. \A d \in Cards : Waiting.gens[d] <= link[i][d].gen
      <4>1. \A d \in Cards : link[i][d].gen \in Nat /\ Waiting.gens[d] = 0
        BY <3>2, Numbers, Zenon
      <4> QED BY <4>1
    <3> QED BY <3>1, <3>2, <3>3, <3>4, Zenon
  <2>2. CASE sender[i].todo # {c}
    <3>1. e = [sender[i] EXCEPT !.todo = @ \ {c}, !.pc = "check"]
      BY <1>3, <2>2, Zenon
    <3>2. e \in Senders /\ e.pc = "check" /\ e.todo = sender[i].todo \ {c} /\ e.gens = sender[i].gens
      BY <1>1, <3>1 DEF Senders
    <3>3. sender[i].todo \ {c} # {} /\ "check" # "frame"
      BY <1>1, <1>2, <2>2
    <3> QED BY <1>1, <3>2, <3>3, Zenon
  <2> QED BY <2>1, <2>2, Zenon
<1>6. sender' \in [Players -> Senders] /\ sender'[i] = e /\ \A j \in Players : j # i => sender'[j] = sender[j]
  BY <1>1, <1>4, <1>5
<1> QED BY <1>5, <1>6, Zenon

\* The sender takes a payload, or ends.
LEMMA GetKeeps == ASSUME WallInv, NEW i \in Players, SenderGet(i) PROVE ThreadsStep
<1>1. /\ PlayerInv(i) /\ sender \in [Players -> Senders] /\ queue \in [Players -> Seq(Frames)]
      /\ link \in [Players -> [Cards -> Links]] /\ UNCHANGED <<run, link, player, mode, events>> /\ Quieter
  BY Zenon DEF WallInv, ThreadsInv, SenderGet, supVars, dbVars, Quieter
<1>2. CASE sender' = [sender EXCEPT ![i].pc = "ended"] /\ UNCHANGED queue
  <2>1. /\ sender' \in [Players -> Senders] /\ \A j \in Players : j # i => sender'[j] = sender[j]
        /\ sender'[i].pc = "ended" /\ sender'[i].gens = sender[i].gens
    BY <1>1, <1>2, SenderAt, Zenon
  <2>2. "ended" \notin {"check", "palette", "frame"} /\ "ended" # "frame"
    OBVIOUS
  <2>3. PayloadInv(i)' /\ PaletteSent(i)' /\ Len(queue'[i]) <= QUEUE
    BY <1>1, <1>2, <2>1, <2>2, Zenon DEF PlayerInv, PayloadInv, PayloadOK, PaletteSent
  <2> QED BY <1>1, <1>2, <2>1, <2>3, SenderOnly, Zenon
<1>3. CASE /\ queue[i] # <<>>
           /\ LET p == Head(queue[i])
              IN sender' = [sender EXCEPT ![i] = [pc |-> "check", show |-> p.show, gens |-> p.gens,
                                                  todo |-> {c \in Cards : p.gens[c] > 0}]]
           /\ queue' = [queue EXCEPT ![i] = Tail(@)]
  <2>1. PICK p : p = Head(queue[i])
    OBVIOUS
  <2>2. PICK T : T = {c \in Cards : p.gens[c] > 0}
    OBVIOUS
  <2>3. queue[i] \in Seq(Frames) /\ Len(queue[i]) \in Nat /\ Len(queue[i]) > 0 /\ p = queue[i][1] /\ p \in Frames
    BY <1>1, <1>3, <2>1
  <2>4. 1 \in 1 .. Len(queue[i])
    BY <2>3
  <2>5. PayloadOK(i, p.gens)
    BY <1>1, <2>3, <2>4, Zenon DEF PlayerInv, PayloadInv
  <2>6. T # {} /\ T \subseteq Cards /\ p.show \in Shows \cup {"none"} /\ p.gens \in [Cards -> Gens]
    BY <2>2, <2>3, <2>5, RecordFields, Zenon DEF PayloadOK
  <2>7. PICK e : e = [pc |-> "check", show |-> p.show, gens |-> p.gens, todo |-> T]
    OBVIOUS
  <2>8. e \in Senders /\ e.pc = "check" /\ e.gens = p.gens /\ e.todo = T
    BY <2>6, <2>7 DEF Senders
  <2>9. sender' = [sender EXCEPT ![i] = e]
    BY <1>3, <2>1, <2>2, <2>7, Zenon
  <2>10. sender' \in [Players -> Senders] /\ sender'[i] = e /\ \A j \in Players : j # i => sender'[j] = sender[j]
    BY <1>1, <2>8, <2>9
  <2>11. /\ Tail(queue[i]) \in Seq(Frames) /\ Len(Tail(queue[i])) = Len(queue[i]) - 1
         /\ \A k \in 1 .. Len(Tail(queue[i])) : Tail(queue[i])[k] = queue[i][k + 1] /\ k + 1 \in 1 .. Len(queue[i])
    BY <1>3, <2>3
  <2>12. queue' \in [Players -> Seq(Frames)] /\ queue'[i] = Tail(queue[i]) /\ \A j \in Players : j # i => queue'[j] = queue[j]
    BY <1>1, <1>3, <2>11, Zenon
  <2>13. Len(queue'[i]) <= QUEUE
    BY <1>1, <2>3, <2>11, <2>12, Bounds DEF PlayerInv
  <2>14. \A k \in 1 .. Len(queue'[i]) : (queue[i][k].show = run[i].show /\ PayloadOK(i, queue[i][k].gens))'
    <3>1. \A k \in 1 .. Len(queue[i]) : queue[i][k].show = run[i].show /\ PayloadOK(i, queue[i][k].gens)
      BY <1>1, Zenon DEF PlayerInv, PayloadInv
    <3>2. \A k \in 1 .. Len(queue'[i]) : queue'[i][k].show = run[i].show /\ PayloadOK(i, queue'[i][k].gens)
      <4> TAKE k \in 1 .. Len(queue'[i])
      <4>1. queue'[i][k] = queue[i][k + 1] /\ k + 1 \in 1 .. Len(queue[i])
        BY <2>11, <2>12, Zenon
      <4> QED BY <3>1, <4>1, Zenon
    <3> QED BY <1>1, <3>2, Zenon DEF PayloadOK
  <2>15. PayloadInv(i)'
    BY <1>1, <2>5, <2>6, <2>8, <2>10, <2>14, Zenon DEF PayloadInv, PayloadOK
  <2>16. PaletteSent(i)'
    <3>1. sender'[i].pc # "frame"
      BY <2>8, <2>10
    <3> QED BY <3>1, Zenon DEF PaletteSent
  <2> QED BY <1>1, <2>10, <2>12, <2>13, <2>15, <2>16, SenderOnly, Zenon
<1> QED BY <1>2, <1>3, Zenon DEF SenderGet

\* Going on to the next card keeps the invariant, whatever was sent.
LEMMA NextPayloadKeeps ==
    ASSUME WallInv, NEW i \in Players, sender[i].pc \in {"check", "palette", "frame"}, NextPayload(i), Quieter,
           UNCHANGED <<run, link, queue, player>>
    PROVE  ThreadsStep
<1>1. /\ PlayerInv(i) /\ queue \in [Players -> Seq(Frames)] /\ link \in [Players -> [Cards -> Links]]
  BY Zenon DEF WallInv, ThreadsInv
<1>2. /\ sender' \in [Players -> Senders] /\ \A j \in Players : j # i => sender'[j] = sender[j]
      /\ sender'[i].pc \in {"check", "palette", "frame"} => sender'[i].todo # {}
      /\ sender'[i].pc # "frame"
      /\ \A c \in Cards : sender'[i].gens[c] <= link[i][c].gen
  BY NextPayloadOK, Zenon
<1>3. PayloadInv(i)' /\ PaletteSent(i)' /\ Len(queue'[i]) <= QUEUE
  <2>1. \A k \in 1 .. Len(queue'[i]) : (queue[i][k].show = run[i].show /\ PayloadOK(i, queue[i][k].gens))'
    BY <1>1, Zenon DEF PlayerInv, PayloadInv, PayloadOK
  <2> QED BY <1>1, <1>2, <2>1, Zenon DEF PlayerInv, PayloadInv, PaletteSent
<1> QED BY <1>1, <1>2, <1>3, SenderOnly, Zenon

\* The sender goes to another line for the card it is at.
LEMMA SenderMoves ==
    ASSUME WallInv, NEW i \in Players, sender[i].pc \in {"check", "palette", "frame"},
           NEW pc \in {"palette", "frame"}, sender' = [sender EXCEPT ![i].pc = pc]
    PROVE  /\ sender' \in [Players -> Senders] /\ \A j \in Players : j # i => sender'[j] = sender[j]
           /\ sender'[i].pc = pc /\ sender'[i].show = sender[i].show /\ sender'[i].gens = sender[i].gens
           /\ sender'[i].todo = sender[i].todo /\ sender'[i].todo # {} /\ SendCard(i)' = SendCard(i)
<1>1. sender \in [Players -> Senders] /\ sender[i].todo # {}
  BY Zenon DEF WallInv, ThreadsInv, PlayerInv, PayloadInv
<1>2. /\ sender' \in [Players -> Senders] /\ \A j \in Players : j # i => sender'[j] = sender[j]
      /\ sender'[i].pc = pc /\ sender'[i].show = sender[i].show /\ sender'[i].gens = sender[i].gens
      /\ sender'[i].todo = sender[i].todo
  <2>1. pc \in {"unborn", "get", "check", "palette", "frame", "ended"}
    OBVIOUS
  <2> QED BY <1>1, <2>1, SenderAt, Zenon
<1> QED BY <1>1, <1>2, Zenon DEF SendCard

\* A retired link is passed over; the frame follows a palette that went out.
LEMMA CheckKeeps == ASSUME WallInv, NEW i \in Players, SenderCheck(i) PROVE ThreadsStep
<1>1. /\ PlayerInv(i) /\ queue \in [Players -> Seq(Frames)] /\ link \in [Players -> [Cards -> Links]]
      /\ UNCHANGED <<run, link, queue, player, mode, events>> /\ Quieter /\ sender[i].pc = "check"
  BY Zenon DEF WallInv, ThreadsInv, SenderCheck, supVars, dbVars, Quieter
<1>2. sender[i].pc \in {"check", "palette", "frame"}
  BY <1>1
<1>3. CASE NextPayload(i)
  BY <1>1, <1>2, <1>3, NextPayloadKeeps, Zenon
<1>4. CASE sender' = [sender EXCEPT ![i].pc = IF link[i][SendCard(i)].palette # sender[i].show THEN "palette" ELSE "frame"]
  <2>1. PICK pc : pc = IF link[i][SendCard(i)].palette # sender[i].show THEN "palette" ELSE "frame"
    OBVIOUS
  <2>2. sender' = [sender EXCEPT ![i].pc = pc] /\ pc \in {"palette", "frame"}
    BY <1>4, <2>1, Zenon
  <2>3. /\ sender' \in [Players -> Senders] /\ \A j \in Players : j # i => sender'[j] = sender[j]
        /\ sender'[i].pc = pc /\ sender'[i].show = sender[i].show /\ sender'[i].gens = sender[i].gens
        /\ sender'[i].todo # {} /\ SendCard(i)' = SendCard(i)
    BY <1>2, <2>2, SenderMoves, Zenon
  <2>4. pc = "frame" => link[i][SendCard(i)].palette = sender[i].show
    BY <2>1
  <2>5. PayloadInv(i)' /\ Len(queue'[i]) <= QUEUE
    <3>1. \A k \in 1 .. Len(queue'[i]) : (queue[i][k].show = run[i].show /\ PayloadOK(i, queue[i][k].gens))'
      BY <1>1, Zenon DEF PlayerInv, PayloadInv, PayloadOK
    <3> QED BY <1>1, <2>3, <3>1, Zenon DEF PlayerInv, PayloadInv
  <2>6. PaletteSent(i)'
    BY <1>1, <2>3, <2>4, Zenon DEF PaletteSent
  <2> QED BY <1>1, <2>3, <2>5, <2>6, SenderOnly, Zenon
<1> QED BY <1>3, <1>4, Zenon DEF SenderCheck

\* The palette goes out and the link remembers it.
LEMMA PaletteKeeps == ASSUME WallInv, NEW i \in Players, SendPalette(i), Quieter PROVE ThreadsStep
<1>1. /\ PlayerInv(i) /\ queue \in [Players -> Seq(Frames)] /\ link \in [Players -> [Cards -> Links]]
      /\ UNCHANGED <<run, queue, player>> /\ sender[i].pc = "palette"
  BY Zenon DEF WallInv, ThreadsInv, SendPalette, supVars
<1>2. sender[i].pc \in {"check", "palette", "frame"}
  BY <1>1
<1>3. CASE NextPayload(i) /\ UNCHANGED link
  BY <1>1, <1>2, <1>3, NextPayloadKeeps, Zenon
<1>4. CASE link' = [link EXCEPT ![i][SendCard(i)].palette = sender[i].show] /\ sender' = [sender EXCEPT ![i].pc = "frame"]
  <2>1. PICK c \in Cards : c = SendCard(i)
    BY <1>2, SendAtCard, Zenon
  <2>2. PICK p \in Shows \cup {"none"} : p = sender[i].show
    BY Numbers, RecordFields, Zenon
  <2>3. link' = [link EXCEPT ![i][c].palette = p]
    BY <1>4, <2>1, <2>2, Zenon
  <2>4. /\ link' \in [Players -> [Cards -> Links]] /\ \A j \in Players : j # i => link'[j] = link[j]
        /\ link'[i][c].palette = p
        /\ \A d \in Cards : link'[i][d].gen = link[i][d].gen /\ link'[i][d].open = link[i][d].open
    BY <1>1, <2>3, LinkRecolours, Zenon
  <2>5. /\ sender' \in [Players -> Senders] /\ \A j \in Players : j # i => sender'[j] = sender[j]
        /\ sender'[i].pc = "frame" /\ sender'[i].show = sender[i].show /\ sender'[i].gens = sender[i].gens
        /\ sender'[i].todo # {} /\ SendCard(i)' = SendCard(i)
    BY <1>2, <1>4, SenderMoves, Zenon
  <2>6. PayloadInv(i)' /\ Len(queue'[i]) <= QUEUE
    <3>1. \A k \in 1 .. Len(queue'[i]) : (queue[i][k].show = run[i].show /\ PayloadOK(i, queue[i][k].gens))'
      BY <1>1, <2>4, Zenon DEF PlayerInv, PayloadInv, PayloadOK
    <3> QED BY <1>1, <2>4, <2>5, <3>1, Zenon DEF PlayerInv, PayloadInv
  <2>7. PaletteSent(i)'
    BY <2>1, <2>2, <2>4, <2>5, Zenon DEF PaletteSent
  <2> QED BY <1>1, <2>4, <2>5, <2>6, <2>7, SenderOnly, Zenon
<1> QED BY <1>3, <1>4, Zenon DEF SendPalette

LEMMA FrameKeeps == ASSUME WallInv, NEW i \in Players, SendFrame(i), Quieter PROVE ThreadsStep
<1>1. sender[i].pc \in {"check", "palette", "frame"}
  BY DEF SendFrame
<1> QED BY <1>1, NextPayloadKeeps, Zenon DEF SendFrame, supVars

-----------------------------------------------------------------------------
(* The invariant, and what it implies.                                     *)

LEMMA ThreadsInvStep == WallInv /\ WallNext => ThreadsStep
<1> SUFFICES ASSUME WallInv, WallNext PROVE ThreadsStep
  OBVIOUS
<1>1. Quieter
  BY DbInvStep, Zenon DEF DbStep
<1>2. CASE UNCHANGED playerVars /\ player' = player
  BY <1>1, <1>2, ThreadsKept, Zenon
<1>3. CASE Environment \/ \E c \in Cards : BootStep(c)
  BY <1>2, <1>3, Zenon DEF Environment, SetMode, SetShow, StartByHand, Reboot, BootStep, supVars
<1>4. CASE AskProgram \/ StopProgram \/ StartProgram \/ AskStatus \/ ReenableDma
  BY <1>2, <1>4, Zenon DEF AskProgram, StopProgram, StartProgram, AskStatus, ReenableDma
<1>5. CASE \E i \in Players : Run(i) \/ Sender(i)
  BY <1>1, <1>5, ReadKeeps, LinkKeeps, PutKeeps, EndKeeps, GetKeeps, CheckKeeps, PaletteKeeps, FrameKeeps, Zenon
     DEF Run, Sender
<1> QED BY <1>3, <1>4, <1>5, TickThreads, Zenon DEF WallNext, Supervise

LEMMA WallInitInv == WallInit => WallInv
<1> SUFFICES ASSUME WallInit PROVE WallInv
  OBVIOUS
<1>1. DbInv
  <2>1. show \in Shows
    BY Bounds, Zenon DEF WallInit
  <2>2. mode \in [Cards -> Modes] /\ events \in 0 .. MaxEvents
    BY Bounds DEF WallInit, Modes
  <2> QED BY <2>1, <2>2 DEF DbInv
<1>2. CardInv
  BY Bounds DEF WallInit, CardInv, Dark
<1>3. SupInv
  <2>1. sup \in Sups /\ sup.pc = "sleep" /\ "sleep" # "start"
    BY AsleepOK DEF WallInit
  <2>2. DOWN_HOSTS \subseteq Cards /\ misses \in [Cards -> 0 .. 2] /\ phase \in 0 .. FULL_EVERY - 1
    BY Bounds DEF WallInit
  <2> QED BY <2>1, <2>2, Zenon DEF SupInv
<1>4. /\ run \in [Players -> Runs]
      /\ \A i \in Players : run[i].pc = "unborn" /\ ~run[i].stop /\ run[i].show = "none" /\ run[i].cards = {}
  BY DEF WallInit, Runs
<1>5. /\ sender \in [Players -> Senders]
      /\ \A i \in Players : sender[i].pc = "unborn" /\ \A c \in Cards : sender[i].gens[c] = 0
  <2>1. PICK w : w = [Waiting EXCEPT !.pc = "unborn"]
    OBVIOUS
  <2>2. w \in Senders /\ w.pc = "unborn" /\ w.gens = [c \in Cards |-> 0]
    BY <2>1, Bounds DEF Waiting, Senders, Gens
  <2>3. sender = [i \in Players |-> w]
    BY <2>1, Zenon DEF WallInit
  <2> QED BY <2>2, <2>3, Zenon
<1>6. /\ link \in [Players -> [Cards -> Links]]
      /\ \A i \in Players : \A c \in Cards : link[i][c].gen = 0 /\ ~link[i][c].open
  <2>1. NoLink \in Links /\ NoLink.gen = 0 /\ ~NoLink.open
    BY Bounds DEF NoLink, Links, Gens
  <2>2. link = [i \in Players |-> [c \in Cards |-> NoLink]]
    BY Zenon DEF WallInit
  <2> QED BY <2>1, <2>2, Zenon
<1>7. queue \in [Players -> Seq(Frames)] /\ \A i \in Players : Len(queue[i]) = 0
  BY DEF WallInit
<1>8. RegisterInv
  <2>1. player = 0 /\ 0 \in 0 .. MaxPlayers /\ \A i \in Players : i # 0
    BY Bounds DEF WallInit
  <2> QED BY <1>4, <2>1, Zenon DEF RegisterInv
<1>9. ASSUME NEW i \in Players PROVE PlayerInv(i)
  <2>1. RenderInv(i) /\ Len(queue[i]) <= QUEUE
    BY <1>4, <1>6, <1>7, Bounds DEF RenderInv
  <2>2. PayloadInv(i) /\ PaletteSent(i)
    BY <1>5, <1>6, <1>7 DEF PayloadInv, PaletteSent
  <2>3. GenerationInv(i)
    <3>1. events = 0
      BY DEF WallInit
    <3>2. \A c \in Cards : ~Wanted(i, c)
      BY <1>4, <1>6 DEF Wanted
    <3> QED BY <1>6, <3>1, <3>2 DEF GenerationInv
  <2> QED BY <2>1, <2>2, <2>3, Zenon DEF PlayerInv
<1> QED BY <1>1, <1>2, <1>3, <1>4, <1>5, <1>6, <1>7, <1>8, <1>9, Zenon DEF WallInv, ThreadsInv

LEMMA WallInvStep == WallInv /\ [WallNext]_wallVars => WallInv'
<1>1. ASSUME WallInv, WallNext PROVE WallInv'
  BY <1>1, DbInvStep, CardInvStep, SupInvStep, ThreadsInvStep, Zenon DEF DbStep, ThreadsStep, WallInv
<1>2. ASSUME WallInv, UNCHANGED wallVars PROVE WallInv'
  <2>1. UNCHANGED <<dbVars, cardVars, supVars, playerVars, events>>
    BY <1>2, Zenon DEF wallVars
  <2>2. DbInv' /\ CardInv' /\ SupInv' /\ Quieter /\ player' = player
    BY <1>2, <2>1, Zenon DEF WallInv, DbInv, CardInv, SupInv, SupCard, Quieter, dbVars, cardVars, supVars
  <2> QED BY <1>2, <2>1, <2>2, ThreadsKept, Zenon DEF ThreadsStep, WallInv
<1> QED BY <1>1, <1>2, Zenon

\* What the threads rely on holds in every state, however they interleave.
THEOREM WallInvariant == WallSpec => []WallInv
<1> QED BY WallInitInv, WallInvStep, PTL DEF WallSpec

\* Every variable of the player service keeps its type; queues stay within
\* QUEUE and a link's generation within the number of edits.
THEOREM WallTypes == WallSpec => []WallTypeOK
<1>1. WallInv => WallTypeOK
  BY Zenon DEF WallInv, DbInv, CardInv, SupInv, ThreadsInv, RegisterInv, PlayerInv, WallTypeOK
<1> QED BY <1>1, WallInvariant, PTL

\* Only frames of the loaded show wait in a queue (run() drains on a change).
THEOREM QueuesCurrent == WallSpec => []QueueIsCurrent
<1>1. WallInv => QueueIsCurrent
  BY Zenon DEF WallInv, PlayerInv, PayloadInv, QueueIsCurrent
<1> QED BY <1>1, WallInvariant, PTL

\* A frame is sent on a link only after the palette it is drawn in was sent on
\* that same link, also when the render thread closes and reopens the link
\* between the two (_sender: last_palette of the link a payload holds).
THEOREM PaletteBeforeFrame == WallSpec => [](\A i \in Players : PaletteSent(i))
<1>1. WallInv => \A i \in Players : PaletteSent(i)
  BY Zenon DEF WallInv, PlayerInv
<1> QED BY <1>1, WallInvariant, PTL

\* Two players that are not told to stop never exist: the registered player is
\* the only one (Supervisor.tick keeps one WallPlayer per wall).
THEOREM OneLivePlayer ==
    WallSpec => [](\A i, j \in Players : /\ run[i].pc # "unborn" /\ ~run[i].stop
                                        /\ run[j].pc # "unborn" /\ ~run[j].stop => i = j)
<1>1. WallInv => \A i, j \in Players : /\ run[i].pc # "unborn" /\ ~run[i].stop
                                      /\ run[j].pc # "unborn" /\ ~run[j].stop => i = j
  BY Zenon DEF WallInv, RegisterInv
<1> QED BY <1>1, WallInvariant, PTL
=============================================================================
