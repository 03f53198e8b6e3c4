-------------------------------- MODULE Http --------------------------------
(***************************************************************************)
(* The card's web server (network.rs, handle_http): sockets on port 80,    *)
(* each with one request parser, one response buffer and two deadlines,    *)
(* served from the trap handler.  Browsers, the wall player and the update *)
(* tools connect, send requests in pieces, acknowledge what they receive,  *)
(* close, reset, or lose power.  A response may be larger than the         *)
(* socket's transmit buffer.                                               *)
(***************************************************************************)
EXTENDS Tcp

CONSTANTS
    Sockets,     \* HTTP_HANDLE_A, HTTP_HANDLE_B
    Clients,     \* connections, each made once
    Nobody,      \* no peer; no response
    Parts,       \* pieces (recv_slice of 128 bytes) a request arrives in
    AnswerLen,   \* AnswerLen[c]: response to c's request, in transmit-buffer units
    TxCap,       \* HTTP_TCP_TX_A: transmit buffer, in the same units
    RxCap        \* HTTP_TCP_RX_A: receive buffer, in pieces

ASSUME HttpAssumption ==
    /\ Nobody \notin Clients
    /\ Parts \in Nat \ {0} /\ TxCap \in Nat \ {0} /\ RxCap \in Nat \ {0}
    /\ AnswerLen \in [Clients -> Nat \ {0}]

VARIABLES
    sock,        \* per socket: the TCP socket, HTTP_REQUESTS, HTTP_RESPONSES,
                 \* HTTP_RESPONSE_SENT, HTTP_CLOSE_AT, HTTP_CONNECTED_AT
    sentParts,   \* per client: pieces sent, one more than a request has at most
    alive        \* clients that have not lost power

vars == <<sock, sentParts, alive>>

\* HTTP_CLOSE_AT: not set; set; 50 ms over; HTTP_CLOSE_CEILING_MS over as well.
CloseTimes == {"none", "running", "grace", "ceiling"}
\* HTTP_CONNECTED_AT: not set; set; 5 s ago.
ConnectTimes == {"none", "running", "late"}

\* A TCP socket with the server's state beside it.
HttpSockets == [state : States, peer : Clients \cup {Nobody}, tx : Seq(Clients),
                rx : 0 .. RxCap, parts : 0 .. Parts, answer : Clients \cup {Nobody},
                sent : Nat, handled : Nat,
                close_at : CloseTimes, connected_at : ConnectTimes]

\* Type correctness; the transmit and receive buffers keep their sizes.
HttpTypeOK ==
    /\ sock \in [Sockets -> HttpSockets]
    /\ \A i \in Sockets : Len(sock[i].tx) <= TxCap
    /\ sentParts \in [Clients -> 0 .. Parts + 1]
    /\ alive \subseteq Clients

Init ==
    /\ sock = [i \in Sockets |->
                 [state |-> "CLOSED", peer |-> Nobody, tx |-> <<>>, rx |-> 0, parts |-> 0,
                  answer |-> Nobody, sent |-> 0, handled |-> 0,
                  close_at |-> "none", connected_at |-> "none"]]
    /\ sentParts = [c \in Clients |-> 0]
    /\ alive = Clients

-----------------------------------------------------------------------------
(* handle_http on one socket, in the order of the code.                    *)

\* Mutant: the grace period decides, whatever is still queued.
RecycleUndrained(s) ==
    /\ s.close_at # "none"
    /\ ~is_active(s) \/ s.close_at \in {"grace", "ceiling"}

\* Never while data is still queued to send, up to a ceiling.
Recycle(s) ==
    /\ s.close_at # "none"
    /\ \/ ~is_active(s)
       \/ s.tx = <<>> /\ s.close_at \in {"grace", "ceiling"}
       \/ s.close_at = "ceiling"

AfterClose(s) ==
    IF Recycle(s)
    THEN [(IF is_open(s) THEN abort(s) ELSE s) EXCEPT !.close_at = "none"]
    ELSE s

\* Mutant: the last response is left in its buffer.
RelistenKeepingAnswer(s) ==
    IF is_open(s) THEN s
    ELSE [listen(s, Nobody) EXCEPT !.parts = 0, !.sent = 0, !.handled = 0,
                                   !.connected_at = "none"]

\* A socket that is not open starts over with nothing of its last connection.
Relisten(s) ==
    IF is_open(s) THEN s
    ELSE [listen(s, Nobody) EXCEPT !.parts = 0, !.answer = Nobody, !.sent = 0, !.handled = 0,
                                   !.connected_at = "none"]

is_complete(s) == s.parts = Parts

\* feed: one more piece; the last one has the request answered.
feed(s) ==
    LET t == [s EXCEPT !.rx = @ - 1, !.parts = IF @ < Parts THEN @ + 1 ELSE @]
    IN IF is_complete(t)
       THEN [t EXCEPT !.answer = s.peer, !.sent = 0, !.handled = @ + 1]
       ELSE t

\* Mutant: what follows a complete request is fed to the parser as well.
ReceiveMore(s) == IF can_recv(s) THEN feed(s) ELSE s

\* Nothing more is read once the request is complete.
Receive(s) == IF can_recv(s) /\ ~is_complete(s) THEN feed(s) ELSE s

ResponseLen(s) == IF s.answer = Nobody THEN 0 ELSE AnswerLen[s.answer]

\* Mutant: the whole rest is taken for sent.
SendAtOnce(s, left) == left

\* send_slice: as much as the transmit buffer has room for.
Room(s, left) == IF left <= TxCap - Len(s.tx) THEN left ELSE TxCap - Len(s.tx)

\* The rest of the response; once all of it is queued, a FIN behind it.
SendRest(s) ==
    IF can_send(s, TxCap) /\ s.sent < ResponseLen(s)
    THEN LET n == Room(s, ResponseLen(s) - s.sent)
             t == [s EXCEPT !.tx = @ \o [k \in 1 .. n |-> s.answer], !.sent = @ + n]
         IN IF t.sent >= ResponseLen(t)
            THEN [close(t) EXCEPT !.close_at = "running"]
            ELSE t
    ELSE s

\* Mutant: a connection may take for ever to send its request.
NeverLate(s) == FALSE

\* Five seconds after the connection was noticed.
RequestLate(s) == ~is_complete(s) /\ s.connected_at = "late"

handle_http(s) ==
    LET a == Relisten(AfterClose(s))
        b == [a EXCEPT !.connected_at = IF ~is_active(a) THEN "none"
                                        ELSE IF @ = "none" THEN "running" ELSE @]
    IN IF ~may_recv(a) /\ ~may_send(a)
       THEN IF is_active(a) THEN a ELSE b
       ELSE IF RequestLate(b)
       THEN [abort(b) EXCEPT !.connected_at = "none"]
       ELSE SendRest(Receive(b))

\* network_handler: entered for every packet and once a second at least.
NetworkHandler ==
    /\ sock' = [i \in Sockets |-> handle_http(sock[i])]
    /\ UNCHANGED <<sentParts, alive>>

-----------------------------------------------------------------------------
(* Segments of the clients, taken from the MAC by iface.poll.              *)

Segment(i, c) == c \in alive /\ sock[i].peer = c
Becomes(i, s) == sock' = [sock EXCEPT ![i] = s]

Connect(i, c) ==
    /\ c \in alive /\ sentParts[c] = 0 /\ \A j \in Sockets : sock[j].peer # c
    /\ sock[i].state = "LISTEN"
    /\ Becomes(i, on_syn(sock[i], c))
    /\ UNCHANGED <<sentParts, alive>>

Handshake(i, c) ==
    /\ Segment(i, c) /\ sock[i].state = "SYN-RECEIVED"
    /\ Becomes(i, on_handshake_ack(sock[i]))
    /\ UNCHANGED <<sentParts, alive>>

SendPart(i, c) ==
    /\ Segment(i, c) /\ sock[i].state \in {"ESTABLISHED", "FIN-WAIT-1", "FIN-WAIT-2"}
    /\ sock[i].rx < RxCap /\ sentParts[c] <= Parts
    /\ Becomes(i, on_data(sock[i]))
    /\ sentParts' = [sentParts EXCEPT ![c] = @ + 1]
    /\ UNCHANGED alive

AckData(i, c) ==
    /\ Segment(i, c) /\ sock[i].tx # <<>>
    /\ Becomes(i, on_data_ack(sock[i]))
    /\ UNCHANGED <<sentParts, alive>>

AckFin(i, c) ==
    /\ Segment(i, c) /\ FinSent(sock[i])
    /\ Becomes(i, on_fin_ack(sock[i]))
    /\ UNCHANGED <<sentParts, alive>>

Finish(i, c) ==
    /\ Segment(i, c) /\ FinAccepted(sock[i])
    /\ Becomes(i, on_fin(sock[i]))
    /\ UNCHANGED <<sentParts, alive>>

Reset(i, c) ==
    /\ Segment(i, c) /\ sock[i].state # "CLOSED"
    /\ Becomes(i, on_rst(sock[i], Nobody))
    /\ UNCHANGED <<sentParts, alive>>

PowerLost(c) ==
    /\ c \in alive
    /\ alive' = alive \ {c}
    /\ UNCHANGED <<sock, sentParts>>

\* TIME_MS advances past a deadline.
CloseTime(i) ==
    /\ sock[i].close_at \in {"running", "grace"}
    /\ Becomes(i, [sock[i] EXCEPT !.close_at = IF @ = "running" THEN "grace" ELSE "ceiling"])
    /\ UNCHANGED <<sentParts, alive>>

ConnectTime(i) ==
    /\ sock[i].connected_at = "running"
    /\ Becomes(i, [sock[i] EXCEPT !.connected_at = "late"])
    /\ UNCHANGED <<sentParts, alive>>

Next ==
    \/ NetworkHandler
    \/ \E i \in Sockets, c \in Clients :
          \/ Connect(i, c) \/ Handshake(i, c) \/ SendPart(i, c) \/ AckData(i, c)
          \/ AckFin(i, c) \/ Finish(i, c) \/ Reset(i, c)
    \/ \E c \in Clients : PowerLost(c)
    \/ \E i \in Sockets : CloseTime(i) \/ ConnectTime(i)

Spec == Init /\ [][Next]_vars

\* The timer interrupt enters the handler also on a silent network, and the
\* clock runs.  Nothing is assumed of the clients.
FairSpec ==
    /\ Spec
    /\ WF_vars(NetworkHandler)
    /\ \A i \in Sockets : WF_vars(CloseTime(i)) /\ WF_vars(ConnectTime(i))

-----------------------------------------------------------------------------
(* Properties.                                                             *)

\* What a socket sends answers the request of the client at its other end,
\* never one of an earlier connection over the same socket.
OwnAnswer == \A i \in Sockets :
    sock[i].peer # Nobody => \A k \in 1 .. Len(sock[i].tx) : sock[i].tx[k] = sock[i].peer

\* A request is carried out once, though its client may go on sending: requests
\* reboot the card, write its flash and switch its program.
AtMostOnce == \A i \in Sockets : sock[i].handled <= 1

\* A response that has been queued is not thrown away while part of it is still
\* unacknowledged, unless the ceiling has passed or the client reset first.
TailIsSent == [][\A i \in Sockets :
    /\ sock[i].close_at # "none" /\ is_active(sock[i]) /\ sock[i].tx # <<>>
    /\ sock'[i].state = "LISTEN"
    => sock[i].close_at = "ceiling"]_vars

\* A dead or stalled peer cannot hold a socket that waits for its request or
\* for the end of its connection.
Waiting(i, c) == sock[i].peer = c /\ may_send(sock[i]) /\ ~is_complete(sock[i])
DeadlinesFree == \A i \in Sockets :
    /\ sock[i].close_at # "none" ~> sock[i].state = "LISTEN"
    /\ \A c \in Clients : Waiting(i, c) ~> ~Waiting(i, c)

\* "a dead or stalled peer cannot wedge one of the two sockets forever"
NeverWedged == \A i \in Sockets : []<>(sock[i].state = "LISTEN")
=============================================================================
