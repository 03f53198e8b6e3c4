-------------------------------- MODULE Tcp --------------------------------
(***************************************************************************)
(* The TCP socket of the card's network stack (smoltcp), as far as a       *)
(* server built on it can tell: the connection's state, the octets not yet *)
(* acknowledged and those not yet read.  Sequence numbers and windows are  *)
(* left out, so a step here is a segment that was accepted.  No timeout is *)
(* ever set on the card's sockets: a peer that falls silent is waited for. *)
(***************************************************************************)
EXTENDS Naturals, Sequences

States == {"CLOSED", "LISTEN", "SYN-RECEIVED", "ESTABLISHED", "FIN-WAIT-1", "FIN-WAIT-2",
           "CLOSE-WAIT", "CLOSING", "LAST-ACK", "TIME-WAIT"}

is_open(s) == s.state \notin {"CLOSED", "TIME-WAIT"}
is_active(s) == s.state \notin {"CLOSED", "TIME-WAIT", "LISTEN"}
may_send(s) == s.state \in {"ESTABLISHED", "CLOSE-WAIT"}
may_recv(s) == s.state \in {"ESTABLISHED", "FIN-WAIT-1", "FIN-WAIT-2"} \/ s.rx > 0
can_send(s, capacity) == may_send(s) /\ Len(s.tx) < capacity
can_recv(s) == may_recv(s) /\ s.rx > 0

\* The transmit half: a FIN follows what is queued.
close(s) ==
    [s EXCEPT !.state = CASE s.state \in {"SYN-RECEIVED", "ESTABLISHED"} -> "FIN-WAIT-1"
                          [] s.state = "CLOSE-WAIT" -> "LAST-ACK"
                          [] s.state = "LISTEN" -> "CLOSED"
                          [] OTHER -> s.state]

\* The reset this promises the peer goes out with the next dispatch only, and
\* only if the socket still knows the peer by then.
abort(s) == [s EXCEPT !.state = "CLOSED"]

\* On a socket that is not open: reset(), then wait for anyone.
listen(s, nobody) == [s EXCEPT !.state = "LISTEN", !.peer = nobody, !.tx = <<>>, !.rx = 0]

\* What a segment of the peer does.
on_syn(s, peer) == [s EXCEPT !.state = "SYN-RECEIVED", !.peer = peer]
on_handshake_ack(s) == [s EXCEPT !.state = "ESTABLISHED"]
on_data(s) == [s EXCEPT !.rx = @ + 1]
on_data_ack(s) == [s EXCEPT !.tx = Tail(@)]

FinSent(s) == s.state \in {"FIN-WAIT-1", "CLOSING", "LAST-ACK"} /\ s.tx = <<>>
on_fin_ack(s) ==
    [s EXCEPT !.state = CASE s.state = "FIN-WAIT-1" -> "FIN-WAIT-2"
                          [] s.state = "CLOSING" -> "TIME-WAIT"
                          [] s.state = "LAST-ACK" -> "CLOSED"]

FinAccepted(s) == s.state \in {"SYN-RECEIVED", "ESTABLISHED", "FIN-WAIT-1", "FIN-WAIT-2"}
on_fin(s) ==
    [s EXCEPT !.state = CASE s.state \in {"SYN-RECEIVED", "ESTABLISHED"} -> "CLOSE-WAIT"
                          [] s.state = "FIN-WAIT-1" -> "CLOSING"
                          [] s.state = "FIN-WAIT-2" -> "TIME-WAIT"]

\* RSTs in SYN-RECEIVED flip the socket back to LISTEN, others close it.
on_rst(s, nobody) ==
    [s EXCEPT !.state = IF s.state = "SYN-RECEIVED" THEN "LISTEN" ELSE "CLOSED",
              !.peer = nobody]
=============================================================================
