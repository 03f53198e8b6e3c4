------------------------------ MODULE Netboot ------------------------------
(***************************************************************************)
(* How a card gets its address and its layout after the firmware has       *)
(* started: DHCP leases, the static address after ten seconds, and one     *)
(* TFTP fetch of <mac>.yml from the Marquee server (network.rs,            *)
(* tftp_config.rs, tftpd.py).  All of it runs in the network handler,      *)
(* which attends to these sockets only after a slow-path packet or while   *)
(* the fetch is in progress.                                               *)
(*                                                                         *)
(* A file is a version of the panel's layout, some units long; a TFTP      *)
(* block is BlockSize units and a shorter one ends the file.               *)
(***************************************************************************)
EXTENDS Dhcp, Sequences

CONSTANTS
    BlockSize,      \* 512 bytes
    MAX_CONFIG_SIZE,\* 2048 bytes
    FileLen,        \* FileLen[v]: length of version v; 1 is served first
    Valid,          \* versions LayoutConfig::parse accepts when they are whole
    MaxSends,       \* bound: times the server sends one block
    RxCap           \* packets TFTP_UDP_RX holds

Versions == DOMAIN FileLen

ASSUME NetbootAssumption ==
    /\ BlockSize \in Nat \ {0} /\ MAX_CONFIG_SIZE \in Nat
    /\ FileLen \in Seq(Nat) /\ FileLen # <<>>
    /\ Valid \subseteq Versions
    /\ MaxSends \in Nat \ {0} /\ RxCap \in Nat \ {0}
    /\ "static" \notin Leases

VARIABLES
    clock,     \* TIME_MS against 10 000: "before", "at" that millisecond, "after"
    dhcp,      \* the DHCP client's socket
    addr,      \* ip_addrs[0]
    filterIp,  \* ethmac.ip_address, the address the gateware's filter matches
    started,   \* TFTP_STARTED
    loader,    \* struct TftpConfigLoader
    rxq,       \* TFTP_UDP_RX
    layout,    \* what apply_layout was last given: <<>> is the built-in default
    up, down,  \* packets on their way to and from the server
    served,    \* the version the panel's record stands for at present
    session    \* the server's transfer

bootVars == <<dhcp, addr, filterIp, started, loader, rxq, layout>>
netVars == <<up, down, served, session>>
vars == <<clock, bootVars, netVars>>

\* Unit k of version v, and block b of it.
Content(v) == [k \in 1 .. FileLen[v] |-> <<v, k>>]
Block(v, b) == SubSeq(Content(v), (b - 1) * BlockSize + 1,
                      IF b * BlockSize < FileLen[v] THEN b * BlockSize ELSE FileLen[v])
Blocks(v) == FileLen[v] \div BlockSize + 1

Data(v, b) == [op |-> "DATA", block |-> b, payload |-> Block(v, b)]
Error == [op |-> "ERROR", block |-> 0, payload |-> <<>>]
Rrq == [op |-> "RRQ", block |-> 0]
Ack(b) == [op |-> "ACK", block |-> b]
NoSession == [v |-> 0, block |-> 0, sends |-> 0]

Units == UNION {{Content(v)[k] : k \in 1 .. FileLen[v]} : v \in Versions}
BlockIds == UNION {1 .. Blocks(v) : v \in Versions}
Addresses == Leases \cup {"none", "static"}
Downs == {Data(v, b) : v \in Versions, b \in BlockIds} \cup {Error}

Loaders == [state : {"Idle", "SendRrq", "WaitData", "Done", "Failed"}, block : Nat,
            buf : Seq(Units), overflowed : BOOLEAN, late : BOOLEAN]
Ups == {Rrq} \cup {Ack(b) : b \in BlockIds}
Sessions == [v : Versions \cup {0}, block : Nat, sends : 0 .. MaxSends]

\* Type correctness; the configuration buffer never overruns.
NetbootTypeOK ==
    /\ clock \in {"before", "at", "after"}
    /\ dhcp \in Clients
    /\ addr \in Addresses /\ filterIp \in Addresses
    /\ started \in BOOLEAN
    /\ loader \in Loaders
    /\ Len(loader.buf) <= MAX_CONFIG_SIZE
    /\ rxq \in Seq(Downs) /\ layout \in Seq(Units)
    /\ up \subseteq Ups /\ down \subseteq Downs
    /\ served \in Versions
    /\ session \in Sessions

Init ==
    /\ clock = "before" /\ dhcp = NewClient
    /\ addr = "none" /\ filterIp = "none"
    /\ started = FALSE
    /\ loader = [state |-> "Idle", block |-> 0, buf |-> <<>>, overflowed |-> FALSE,
                 late |-> FALSE]
    /\ rxq = <<>> /\ layout = <<>>
    /\ up = {} /\ down = {} /\ served = 1 /\ session = NoSession

-----------------------------------------------------------------------------
(* The network handler.                                                    *)

is_active(l) == l.state \in {"SendRrq", "WaitData"}
is_done(l) == l.state = "Done"

\* What the handlers read and write.
Card == [dhcp |-> dhcp, addr |-> addr, filterIp |-> filterIp, started |-> started, loader |-> loader,
         rxq |-> rxq, layout |-> layout, up |-> {}]

\* Mutant: the gateware's filter is not told the address.
UnpublishedLease(c) ==
    [c EXCEPT !.addr = c.dhcp.ip, !.started = TRUE,
              !.loader = IF c.started THEN @
                         ELSE [@ EXCEPT !.state = "SendRrq", !.block = 1, !.buf = <<>>]]

\* Dhcpv4Event::Configured: the first address starts the fetch.
Configured(c) ==
    [c EXCEPT !.addr = c.dhcp.ip, !.filterIp = c.dhcp.ip, !.started = TRUE,
              !.loader = IF c.started THEN @
                         ELSE [@ EXCEPT !.state = "SendRrq", !.block = 1, !.buf = <<>>]]
Deconfigured(c) == [c EXCEPT !.addr = "none"]

handle_dhcp(c) ==
    LET e == Event(c.dhcp)
        p == [c EXCEPT !.dhcp = polled(@)]
        d == IF e = "Configured" THEN Configured(p)
             ELSE IF e = "Deconfigured" THEN Deconfigured(p)
             ELSE p
    IN IF clock = "at" /\ d.addr = "none"
       THEN [d EXCEPT !.addr = "static", !.filterIp = "static"]
       ELSE d

Wanted(l, p) == p.op = "DATA" /\ p.block = l.block

\* copy_len: what still fits.
Fits(l, p) ==
    LET room == MAX_CONFIG_SIZE - Len(l.buf)
    IN SubSeq(p.payload, 1, IF Len(p.payload) < room THEN Len(p.payload) ELSE room)

\* Mutant: the payload is copied without a look at the room left.
CopyUnchecked(l, p) == [l EXCEPT !.buf = @ \o p.payload]

\* What fits is kept, and that something did not.
Copy(l, p) ==
    [l EXCEPT !.buf = @ \o Fits(l, p),
              !.overflowed = @ \/ Len(Fits(l, p)) < Len(p.payload)]

\* Mutant: a file cut to the buffer's size is parsed.
ParseOverflowed(l) == l.buf # <<>> /\ l.buf[1][1] \in Valid

\* Nothing is made of an empty or a too long file; a text that is not one whole
\* version may still parse.
parse_config(l) == ~l.overflowed /\ l.buf # <<>> /\ l.buf[1][1] \in Valid

\* Mutant: the loader waits as long as it takes.
NoDeadline(l) == FALSE

\* Three seconds after the request or the last block.
PastDeadline(l) == l.late

\* poll in WaitData: one packet, or the deadline.
WaitData(c) ==
    LET l == c.loader
        p == Head(c.rxq)
        d == [c EXCEPT !.rxq = Tail(@)]
        copied == Copy(l, p)
    IN IF PastDeadline(l) THEN [c EXCEPT !.loader.state = "Failed", !.rxq = <<>>]
       ELSE IF c.rxq = <<>> THEN c
       ELSE IF Wanted(l, p)
       THEN IF Len(p.payload) < BlockSize
            THEN [d EXCEPT !.up = @ \cup {Ack(p.block)},
                           !.loader = [copied EXCEPT !.state = "Done"],
                           !.layout = IF parse_config(copied) THEN copied.buf ELSE @]
            ELSE [d EXCEPT !.up = @ \cup {Ack(p.block)},
                           !.loader = [copied EXCEPT !.block = @ + 1, !.late = FALSE]]
       ELSE IF p.op = "ERROR" THEN [d EXCEPT !.loader.state = "Failed", !.rxq = <<>>]
       ELSE d

\* Once the fetch is over its socket is closed: what arrives later is dropped.
handle_tftp(c) ==
    CASE c.loader.state = "SendRrq" ->
           [c EXCEPT !.loader = [@ EXCEPT !.state = "WaitData", !.late = FALSE],
                     !.up = @ \cup {Rrq}]
      [] c.loader.state = "WaitData" -> WaitData(c)
      [] is_done(c.loader) -> [c EXCEPT !.rxq = <<>>]
      [] OTHER -> c

\* The two are attended to after a slow-path packet or during the fetch.
tftp_active == started /\ ~is_done(loader)

\* iface.poll: the packet received, a DHCP server's reply or something else, and
\* then what is due.
poll(c, frame) ==
    [[c EXCEPT !.dhcp = process(@, frame)] EXCEPT !.dhcp = dispatch(@)]

\* The steps of the handler, each from the state the one before it left.
network_handler(slow, frame, http_needs_poll) ==
    /\ UNCHANGED <<clock, down, served, session>>
    /\ \E received \in {IF slow THEN poll(Card, frame) ELSE Card} :
       \E attended \in {IF slow \/ tftp_active THEN handle_dhcp(received) ELSE received} :
       \E fetched \in {IF slow \/ tftp_active THEN handle_tftp(attended) ELSE attended} :
       \E c \in {IF slow \/ tftp_active \/ http_needs_poll THEN poll(fetched, Other) ELSE fetched} :
          /\ dhcp' = c.dhcp /\ addr' = c.addr /\ filterIp' = c.filterIp
          /\ started' = c.started /\ loader' = c.loader /\ rxq' = c.rxq
          /\ layout' = c.layout /\ up' = up \cup c.up

\* ARP, broadcasts, HTTP: any packet that is not pixels enters smoltcp.
SlowPacket == network_handler(TRUE, Other, FALSE)
\* A reply of a DHCP server is such a packet.
DhcpReply == \E m \in Replies(dhcp) : network_handler(TRUE, m, FALSE)
\* The timer interrupt or a pixel packet, without and with something to send for
\* the HTTP sockets.
OtherInterrupt == network_handler(FALSE, Other, FALSE)
HttpInterrupt == network_handler(FALSE, Other, TRUE)

-----------------------------------------------------------------------------
(* The clock, the network.                                                 *)

\* retry_at or renew_at is reached.
RetryTime ==
    /\ ~dhcp.due
    /\ dhcp' = [dhcp EXCEPT !.due = TRUE]
    /\ UNCHANGED <<clock, addr, filterIp, started, loader, rxq, layout, netVars>>

\* expires_at is reached.
LeaseTime ==
    /\ dhcp.state = "Renewing" /\ ~dhcp.expired
    /\ dhcp' = [dhcp EXCEPT !.expired = TRUE]
    /\ UNCHANGED <<clock, addr, filterIp, started, loader, rxq, layout, netVars>>

Clock ==
    /\ clock # "after"
    /\ clock' = IF clock = "before" THEN "at" ELSE "after"
    /\ UNCHANGED <<bootVars, netVars>>

\* Three seconds without the block the loader waits for.
Deadline ==
    /\ loader.state = "WaitData" /\ ~loader.late
    /\ loader' = [loader EXCEPT !.late = TRUE]
    /\ UNCHANGED <<clock, dhcp, addr, filterIp, started, rxq, layout, netVars>>

\* A packet reaches the loader's socket (or finds it full, or closed).
Deliver(p) ==
    /\ p \in down
    /\ down' = down \ {p}
    /\ rxq' = IF loader.state = "WaitData" /\ Len(rxq) < RxCap THEN Append(rxq, p) ELSE rxq
    /\ UNCHANGED <<clock, dhcp, addr, filterIp, started, loader, layout,
                   up, served, session>>

Lose(p) ==
    /\ p \in up \cup down
    /\ up' = up \ {p} /\ down' = down \ {p}
    /\ UNCHANGED <<clock, bootVars, served, session>>

-----------------------------------------------------------------------------
(* The server: a transfer sends what the resolver returned when it began.  *)

\* _dyn spools the resolver's answer; a panel without a record gets an error.
ServerRequest(found) ==
    /\ Rrq \in up
    /\ up' = up \ {Rrq}
    /\ IF found
       THEN /\ session' = [v |-> served, block |-> 1, sends |-> 1]
            /\ down' = down \cup {Data(served, 1)}
       ELSE /\ down' = down \cup {Error}
            /\ UNCHANGED session
    /\ UNCHANGED <<clock, bootVars, served>>

ServerAck(b) ==
    /\ Ack(b) \in up
    /\ up' = up \ {Ack(b)}
    /\ IF session.block # b
       THEN UNCHANGED <<session, down>>
       ELSE IF b = Blocks(session.v)
       THEN session' = NoSession /\ UNCHANGED down
       ELSE /\ session' = [session EXCEPT !.block = b + 1, !.sends = 1]
            /\ down' = down \cup {Data(session.v, b + 1)}
    /\ UNCHANGED <<clock, bootVars, served>>

ServerRetry ==
    /\ session # NoSession
    /\ IF session.sends < MaxSends
       THEN /\ session' = [session EXCEPT !.sends = @ + 1]
            /\ down' = down \cup {Data(session.v, session.block)}
       ELSE session' = NoSession /\ UNCHANGED down
    /\ UNCHANGED <<clock, bootVars, up, served>>

\* Somebody edits the panel's record.
EditRecord ==
    /\ served + 1 \in Versions
    /\ served' = served + 1
    /\ UNCHANGED <<clock, bootVars, up, down, session>>

Next ==
    \/ SlowPacket \/ DhcpReply \/ OtherInterrupt \/ HttpInterrupt
    \/ Clock \/ Deadline \/ RetryTime \/ LeaseTime
    \/ \E p \in down : Deliver(p)
    \/ \E p \in up \cup down : Lose(p)
    \/ \E found \in BOOLEAN : ServerRequest(found)
    \/ \E b \in BlockIds : ServerAck(b)
    \/ ServerRetry
    \/ EditRecord

Spec == Init /\ [][Next]_vars

\* The 1 ms timer interrupt enters the handler, and the clock runs.  Nothing is
\* assumed of the servers, nor that any packet arrives.
FairSpec ==
    /\ Spec
    /\ WF_vars(OtherInterrupt)
    /\ WF_vars(Clock) /\ WF_vars(Deadline)

\* A segment on which packets keep arriving that the stack gets to see: a card
\* without an address discards no ARP.
BusySpec ==
    /\ FairSpec
    /\ WF_vars(SlowPacket)

-----------------------------------------------------------------------------
(* Properties.                                                             *)

\* The layout in force is the built-in one or one whole version of the panel's
\* record, through lost, repeated and reordered packets, edits during the
\* transfer and files at and beyond the buffer's size: "a half-read layout is
\* worse than no layout".
WholeConfig == layout = <<>> \/ \E v \in Versions : layout = Content(v)

\* Whenever the card has an address, the gateware's filter matches that address:
\* otherwise "the hardware path silently sees zero packets".
FilterFollows == addr # "none" => filterIp = addr

\* An address whose lease has run out or was refused.
Unleased == addr \in Leases /\ ~Holds(dhcp, addr)
\* Whenever a packet makes the handler attend to the stack, the card comes out of
\* it without an address it has no lease for: whatever became of the lease before,
\* in that packet, or in a poll for HTTP that told handle_dhcp nothing.
LeaseHonoured == [][SlowPacket \/ DhcpReply => ~Unleased']_vars
\* Such an address is given up or leased again.  (That takes a packet for the
\* stack: it holds of BusySpec, and not of FairSpec.)
LeaseEnds == Unleased ~> ~Unleased

\* The fetch ends: the whole file, an error of the server, or the deadline.
FetchEnds == started ~> loader.state \in {"Done", "Failed"}

\* "If no DHCP server responds within 10 seconds, it falls back" to a static
\* address.
StaticFallback == <>(addr # "none")
=============================================================================
