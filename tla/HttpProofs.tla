----------------------------- MODULE HttpProofs -----------------------------
(* Theorems of Http for any number of sockets and clients, any request and *)
(* response lengths and any buffer sizes.                                  *)
EXTENDS Http, SequenceTheorems, TLAPS

-----------------------------------------------------------------------------
(* The inductive invariant.                                                *)

\* Before its request is complete a connection has no answer and nothing queued.
Unanswered(s) == s.parts # Parts =>
    s.answer = Nobody /\ s.sent = 0 /\ s.handled = 0 /\ s.tx = <<>>
\* A complete request was carried out once, and its answer is for the peer.
Answered(s) == s.parts = Parts =>
    s.handled = 1 /\ (s.peer # Nobody => s.answer = s.peer)
\* Only the answer is ever queued.
QueuesAnswer(s) == \A k \in 1 .. Len(s.tx) : s.tx[k] = s.answer
\* A socket without a connection has nothing of the last one.
Fresh(s) == s.state \in {"LISTEN", "SYN-RECEIVED"} => s.parts = 0 /\ s.rx = 0
\* A connection has somebody at its other end.
Connected(s) == is_active(s) => s.peer # Nobody

ConnInv(s) ==
    /\ s \in HttpSockets /\ Len(s.tx) <= TxCap
    /\ Unanswered(s) /\ Answered(s) /\ QueuesAnswer(s) /\ Fresh(s) /\ Connected(s)

HttpInv ==
    /\ HttpTypeOK
    /\ \A i \in Sockets : ConnInv(sock[i])

-----------------------------------------------------------------------------
(* The operators.                                                          *)

\* What an acknowledgement leaves queued.
LEMMA TailOfQueue ==
    ASSUME NEW q \in Seq(Clients), q # <<>>, NEW a, \A k \in 1 .. Len(q) : q[k] = a
    PROVE  /\ Tail(q) \in Seq(Clients) /\ Len(Tail(q)) = Len(q) - 1
           /\ \A k \in 1 .. Len(Tail(q)) : Tail(q)[k] = a
<1>1. /\ Tail(q) \in Seq(Clients) /\ Len(Tail(q)) = Len(q) - 1 /\ Len(q) \in Nat
      /\ \A k \in 1 .. Len(Tail(q)) : Tail(q)[k] = q[k + 1]
  BY HeadTailProperties, LenProperties
<1>2. \A k \in 1 .. Len(Tail(q)) : k + 1 \in 1 .. Len(q)
  BY <1>1
<1> QED BY <1>1, <1>2

\* send_slice appends n units of the answer.
LEMMA QueueMore ==
    ASSUME NEW q \in Seq(Clients), NEW a \in Clients, NEW n \in Nat,
           \A k \in 1 .. Len(q) : q[k] = a
    PROVE  LET r == q \o [k \in 1 .. n |-> a]
           IN /\ r \in Seq(Clients) /\ Len(r) = Len(q) + n
              /\ \A k \in 1 .. Len(r) : r[k] = a
<1> DEFINE m == [k \in 1 .. n |-> a]
<1>1. m \in Seq(Clients) /\ Len(m) = n
  OBVIOUS
<1>2. /\ q \o m \in Seq(Clients) /\ Len(q \o m) = Len(q) + n
      /\ \A k \in 1 .. Len(q) + n : (q \o m)[k] =
                      IF k <= Len(q) THEN q[k] ELSE m[k - Len(q)]
  BY <1>1, ConcatProperties
<1>3. Len(q) \in Nat
  BY LenProperties
<1>4. \A k \in 1 .. Len(q) + n : (q \o m)[k] = a
  BY <1>2, <1>3
<1> QED BY <1>2, <1>4

\* The end of a connection whose response is out.
LEMMA AfterCloseKeeps ==
    ASSUME NEW s, ConnInv(s)
    PROVE  ConnInv(AfterClose(s))
BY DEF ConnInv, AfterClose, Recycle, abort, is_open, is_active, HttpSockets, States,
       CloseTimes, Unanswered, Answered, QueuesAnswer, Fresh, Connected

\* A socket that is not open starts over.
LEMMA RelistenKeeps ==
    ASSUME NEW s, ConnInv(s)
    PROVE  ConnInv(Relisten(s)) /\ is_open(Relisten(s))
<1>1. CASE is_open(s)
  BY <1>1 DEF Relisten
<1>2. CASE ~is_open(s)
  <2> DEFINE l == listen(s, Nobody)
             t == [l EXCEPT !.parts = 0, !.answer = Nobody, !.sent = 0, !.handled = 0,
                            !.connected_at = "none"]
  <2>1. l \in HttpSockets
    <3>1. <<>> \in Seq(Clients) /\ 0 \in 0 .. RxCap /\ "LISTEN" \in States
      BY HttpAssumption DEF States
    <3> QED BY <3>1, Zenon DEF ConnInv, HttpSockets, listen
  <2>2. l.state = "LISTEN" /\ l.peer = Nobody /\ l.tx = <<>> /\ l.rx = 0
    BY DEF ConnInv, HttpSockets, listen
  <2> HIDE DEF l
  <2>3. t \in HttpSockets
    <3>1. 0 \in 0 .. Parts /\ 0 \in Nat /\ "none" \in ConnectTimes
      BY HttpAssumption DEF ConnectTimes
    <3> QED BY <2>1, <3>1, Zenon DEF HttpSockets
  <2>4. /\ t.state = "LISTEN" /\ t.peer = Nobody /\ t.tx = <<>> /\ t.rx = 0
        /\ t.parts = 0 /\ t.answer = Nobody /\ t.sent = 0 /\ t.handled = 0
    BY <2>1, <2>2 DEF HttpSockets
  <2>5. Relisten(s) = t
    BY <1>2 DEF Relisten, l
  <2> HIDE DEF t
  <2> QED
    BY <2>3, <2>4, <2>5, HttpAssumption
    DEF ConnInv, is_open, is_active, Unanswered, Answered, QueuesAnswer, Fresh, Connected
<1> QED BY <1>1, <1>2

\* One more piece of the request, the last of which has it carried out.
LEMMA ReceiveKeeps ==
    ASSUME NEW s, ConnInv(s), is_open(s)
    PROVE  ConnInv(Receive(s)) /\ Receive(s).state = s.state
<1>1. CASE can_recv(s) /\ ~is_complete(s)
  <2> DEFINE t == [s EXCEPT !.rx = @ - 1, !.parts = IF @ < Parts THEN @ + 1 ELSE @]
             u == [t EXCEPT !.answer = s.peer, !.sent = 0, !.handled = @ + 1]
  <2>1. s.rx \in 1 .. RxCap /\ s.parts \in 0 .. Parts - 1 /\ s.peer \in Clients
    BY <1>1, HttpAssumption
    DEF ConnInv, HttpSockets, can_recv, is_complete, Fresh, Connected, is_open, is_active
  <2>2. s.answer = Nobody /\ s.sent = 0 /\ s.handled = 0 /\ s.tx = <<>>
    BY <1>1 DEF ConnInv, Unanswered, is_complete
  <2>3. /\ t.state = s.state /\ t.peer = s.peer /\ t.tx = s.tx
        /\ t.rx = s.rx - 1 /\ t.parts = s.parts + 1
        /\ t.answer = s.answer /\ t.sent = s.sent /\ t.handled = s.handled
    BY <2>1, HttpAssumption DEF ConnInv, HttpSockets
  <2>4. t \in HttpSockets
    <3>1. s.rx - 1 \in 0 .. RxCap /\ (IF s.parts < Parts THEN s.parts + 1 ELSE s.parts) \in 0 .. Parts
      BY <2>1, HttpAssumption
    <3> QED BY <3>1, Zenon DEF ConnInv, HttpSockets
  <2> HIDE DEF t
  <2>5. /\ u.state = s.state /\ u.peer = s.peer /\ u.tx = s.tx
        /\ u.rx = s.rx - 1 /\ u.parts = s.parts + 1
        /\ u.answer = s.peer /\ u.sent = 0 /\ u.handled = 1
    BY <2>2, <2>3, <2>4 DEF HttpSockets
  <2>6. u \in HttpSockets
    <3>1. 0 \in Nat /\ t.handled + 1 \in Nat /\ s.peer \in Clients \cup {Nobody}
      BY <2>1, <2>2, <2>3
    <3> QED BY <2>4, <3>1, Zenon DEF HttpSockets
  <2>7. s.state \notin {"LISTEN", "SYN-RECEIVED"}
    BY <2>1 DEF ConnInv, Fresh
  <2> HIDE DEF u
  <2>8. CASE is_complete(t)
    <3>1. ConnInv(u)
      BY <2>1, <2>2, <2>5, <2>6, <2>7, <2>8, <2>3, HttpAssumption
      DEF ConnInv, Unanswered, Answered, QueuesAnswer, Fresh, Connected, is_complete
    <3>2. Receive(s) = u
      BY <1>1, <2>8 DEF Receive, feed, t, u
    <3> QED BY <2>5, <3>1, <3>2
  <2>9. CASE ~is_complete(t)
    <3>1. ConnInv(t)
      BY <2>1, <2>2, <2>3, <2>4, <2>7, <2>9, HttpAssumption
      DEF ConnInv, Unanswered, Answered, QueuesAnswer, Fresh, Connected, is_complete, is_active
    <3>2. Receive(s) = t
      BY <1>1, <2>9 DEF Receive, feed, t
    <3> QED BY <2>3, <3>1, <3>2
  <2> QED BY <2>8, <2>9
<1>2. CASE ~(can_recv(s) /\ ~is_complete(s))
  BY <1>2 DEF Receive
<1> QED BY <1>1, <1>2

\* The rest of the response, and a FIN once all of it is queued.
LEMMA SendRestKeeps ==
    ASSUME NEW s, ConnInv(s)
    PROVE  ConnInv(SendRest(s)) /\ (SendRest(s).state = "LISTEN" => s.state = "LISTEN")
<1>1. CASE can_send(s, TxCap) /\ s.sent < ResponseLen(s)
  <2>1. s \in HttpSockets /\ s.sent \in Nat /\ s.tx \in Seq(Clients)
    BY DEF ConnInv, HttpSockets
  <2>2. s.answer \in Clients
    BY <1>1, <2>1 DEF ResponseLen, HttpSockets
  <2>3. ResponseLen(s) = AnswerLen[s.answer] /\ ResponseLen(s) \in Nat
    BY <2>2, HttpAssumption DEF ResponseLen
  <2>4. PICK n : n = Room(s, ResponseLen(s) - s.sent)
    OBVIOUS
  <2>5. n \in Nat /\ Len(s.tx) + n <= TxCap
    BY <1>1, <2>1, <2>3, <2>4, LenProperties, HttpAssumption DEF Room, ConnInv
  <2> DEFINE r == s.tx \o [k \in 1 .. n |-> s.answer]
             t == [s EXCEPT !.tx = r, !.sent = s.sent + n]
             c == close(t)
             u == [c EXCEPT !.close_at = "running"]
  <2>6. /\ r \in Seq(Clients) /\ Len(r) <= TxCap
        /\ \A k \in 1 .. Len(r) : r[k] = s.answer
    BY <2>1, <2>2, <2>5, QueueMore DEF ConnInv, QueuesAnswer
  <2> HIDE DEF r
  <2>7. t \in HttpSockets
    <3>1. s.sent + n \in Nat
      BY <2>1, <2>5
    <3> QED BY <2>1, <2>6, <3>1, Zenon DEF HttpSockets
  <2>8. /\ t.state = s.state /\ t.peer = s.peer /\ t.tx = r /\ t.rx = s.rx
        /\ t.parts = s.parts /\ t.answer = s.answer /\ t.handled = s.handled
    BY <2>1 DEF HttpSockets
  <2>9. s.state \in {"ESTABLISHED", "CLOSE-WAIT"}
    BY <1>1 DEF can_send, may_send
  <2>10. s.parts = Parts /\ s.handled = 1 /\ s.peer # Nobody /\ s.answer = s.peer
    BY <2>2, <2>9, HttpAssumption DEF ConnInv, Unanswered, Answered, Connected, is_active
  <2> HIDE DEF t
  <2>11. ConnInv(t)
    BY <2>6, <2>7, <2>8, <2>9, <2>10
    DEF ConnInv, Unanswered, Answered, QueuesAnswer, Fresh, Connected, is_active
  <2>12. c \in HttpSockets
    <3>1. c.state \in States /\ c = [t EXCEPT !.state = c.state]
      BY <2>7, <2>8, <2>9 DEF close, States, HttpSockets
    <3> HIDE DEF c
    <3> QED BY <2>7, <3>1, Zenon DEF HttpSockets
  <2>13. /\ c.state \in {"FIN-WAIT-1", "LAST-ACK"}
         /\ c.peer = t.peer /\ c.tx = t.tx /\ c.rx = t.rx
         /\ c.parts = t.parts /\ c.answer = t.answer /\ c.handled = t.handled
    BY <2>7, <2>8, <2>9 DEF close, HttpSockets
  <2> HIDE DEF c
  <2>14. u \in HttpSockets
    <3>1. "running" \in CloseTimes
      BY DEF CloseTimes
    <3> QED BY <2>12, <3>1, Zenon DEF HttpSockets
  <2>15. /\ u.state = c.state /\ u.peer = c.peer /\ u.tx = c.tx /\ u.rx = c.rx
         /\ u.parts = c.parts /\ u.answer = c.answer /\ u.handled = c.handled
    BY <2>12 DEF HttpSockets
  <2> HIDE DEF u
  <2>16. ConnInv(u) /\ u.state # "LISTEN"
    BY <2>6, <2>8, <2>10, <2>13, <2>14, <2>15
    DEF ConnInv, Unanswered, Answered, QueuesAnswer, Fresh, Connected
  <2>17. SendRest(s) = IF t.sent >= ResponseLen(t) THEN u ELSE t
    BY <1>1, <2>4, Zenon DEF SendRest, u, c, t, r
  <2> QED BY <2>8, <2>9, <2>11, <2>16, <2>17
<1>2. CASE ~(can_send(s, TxCap) /\ s.sent < ResponseLen(s))
  BY <1>2 DEF SendRest
<1> QED BY <1>1, <1>2

\* The whole handler on one socket.
LEMMA HandlerKeeps ==
    ASSUME NEW s, ConnInv(s)
    PROVE  ConnInv(handle_http(s))
<1> DEFINE a == Relisten(AfterClose(s))
           w == IF ~is_active(a) THEN "none"
                ELSE IF a.connected_at = "none" THEN "running" ELSE a.connected_at
           b == [a EXCEPT !.connected_at = w]
           d == [abort(b) EXCEPT !.connected_at = "none"]
<1>1. ConnInv(a) /\ is_open(a)
  BY AfterCloseKeeps, RelistenKeeps
<1>2. handle_http(s) \in {a, b, d, SendRest(Receive(b))}
  BY DEF handle_http
<1> HIDE DEF a
<1>3. b \in HttpSockets
  <2>1. w \in ConnectTimes
    BY <1>1 DEF ConnectTimes, ConnInv, HttpSockets
  <2> HIDE DEF w
  <2> QED BY <1>1, <2>1, Zenon DEF ConnInv, HttpSockets
<1>4. /\ b.state = a.state /\ b.peer = a.peer /\ b.tx = a.tx /\ b.rx = a.rx /\ b.sent = a.sent
      /\ b.parts = a.parts /\ b.answer = a.answer /\ b.handled = a.handled
  BY <1>1 DEF ConnInv, HttpSockets
<1> HIDE DEF b
<1>5. ConnInv(b) /\ is_open(b)
  BY <1>1, <1>3, <1>4
  DEF ConnInv, Unanswered, Answered, QueuesAnswer, Fresh, Connected, is_active, is_open
<1>6. ConnInv(d)
  <2>1. d \in HttpSockets
    <3>1. "CLOSED" \in States /\ "none" \in ConnectTimes
      BY DEF States, ConnectTimes
    <3> QED BY <1>3, <3>1, Zenon DEF HttpSockets, abort
  <2>2. /\ d.state = "CLOSED" /\ d.peer = b.peer /\ d.tx = b.tx /\ d.rx = b.rx /\ d.sent = b.sent
        /\ d.parts = b.parts /\ d.answer = b.answer /\ d.handled = b.handled
    BY <1>3 DEF HttpSockets, abort
  <2> HIDE DEF d
  <2> QED BY <1>5, <2>1, <2>2
          DEF ConnInv, Unanswered, Answered, QueuesAnswer, Fresh, Connected, is_active
<1>7. ConnInv(SendRest(Receive(b)))
  BY <1>5, ReceiveKeeps, SendRestKeeps
<1> QED BY <1>1, <1>2, <1>5, <1>6, <1>7

\* A step that only moves the connection to another state.
LEMMA StateKeeps ==
    ASSUME NEW s, ConnInv(s), NEW x \in States, NEW p \in Clients \cup {Nobody},
           x \notin {"CLOSED", "TIME-WAIT", "LISTEN"} => p # Nobody,
           x \in {"LISTEN", "SYN-RECEIVED"} => s.state \in {"LISTEN", "SYN-RECEIVED"},
           s.parts = Parts => p \in {s.peer, Nobody}
    PROVE  ConnInv([s EXCEPT !.state = x, !.peer = p])
<1> DEFINE t == [s EXCEPT !.state = x, !.peer = p]
<1>1. t \in HttpSockets
  BY Zenon DEF ConnInv, HttpSockets
<1>2. /\ t.state = x /\ t.peer = p /\ t.tx = s.tx /\ t.rx = s.rx /\ t.sent = s.sent
      /\ t.parts = s.parts /\ t.answer = s.answer /\ t.handled = s.handled
  BY DEF ConnInv, HttpSockets
<1> HIDE DEF t
<1>3. ConnInv(t)
  BY <1>1, <1>2 DEF ConnInv, Unanswered, Answered, QueuesAnswer, Fresh, Connected, is_active
<1> QED BY <1>3 DEF t

\* The same when the peer stays.
LEMMA SamePeerKeeps ==
    ASSUME NEW s, ConnInv(s), NEW x \in States,
           x \in {"LISTEN", "SYN-RECEIVED"} => s.state \in {"LISTEN", "SYN-RECEIVED"},
           x \notin {"CLOSED", "TIME-WAIT", "LISTEN"} => s.peer # Nobody
    PROVE  ConnInv([s EXCEPT !.state = x])
<1>1. [s EXCEPT !.state = x] = [s EXCEPT !.state = x, !.peer = s.peer]
  BY DEF ConnInv, HttpSockets
<1>2. s.peer \in Clients \cup {Nobody}
  BY DEF ConnInv, HttpSockets
<1> QED BY <1>1, <1>2, StateKeeps

\* Every segment of a client.
LEMMA SegmentsKeep ==
    ASSUME NEW s, ConnInv(s), NEW c \in Clients
    PROVE  /\ s.state = "LISTEN" => ConnInv(on_syn(s, c))
           /\ s.peer = c /\ s.state = "SYN-RECEIVED" => ConnInv(on_handshake_ack(s))
           /\ /\ s.state \in {"ESTABLISHED", "FIN-WAIT-1", "FIN-WAIT-2"} /\ s.rx < RxCap
              => ConnInv(on_data(s))
           /\ s.tx # <<>> => ConnInv(on_data_ack(s))
           /\ s.peer = c /\ FinSent(s) => ConnInv(on_fin_ack(s))
           /\ s.peer = c /\ FinAccepted(s) => ConnInv(on_fin(s))
           /\ ConnInv(on_rst(s, Nobody))
<1>0. s \in HttpSockets /\ c # Nobody
  BY HttpAssumption DEF ConnInv
<1>1. ASSUME s.state = "LISTEN" PROVE ConnInv(on_syn(s, c))
  <2>1. s.parts # Parts /\ "SYN-RECEIVED" \in States
    BY <1>1, HttpAssumption DEF ConnInv, Fresh, States
  <2> QED BY <1>0, <1>1, <2>1, StateKeeps DEF on_syn
<1>2. ASSUME s.peer = c, s.state = "SYN-RECEIVED" PROVE ConnInv(on_handshake_ack(s))
  <2>1. "ESTABLISHED" \in States
    BY DEF States
  <2> QED BY <1>0, <1>2, <2>1, SamePeerKeeps DEF on_handshake_ack
<1>3. ASSUME s.state \in {"ESTABLISHED", "FIN-WAIT-1", "FIN-WAIT-2"}, s.rx < RxCap
      PROVE  ConnInv(on_data(s))
  <2> DEFINE t == [s EXCEPT !.rx = s.rx + 1]
  <2>1. t \in HttpSockets
    <3>1. s.rx + 1 \in 0 .. RxCap
      BY <1>0, <1>3, HttpAssumption DEF HttpSockets
    <3> QED BY <1>0, <3>1, Zenon DEF HttpSockets
  <2>2. /\ t.state = s.state /\ t.peer = s.peer /\ t.tx = s.tx /\ t.sent = s.sent
        /\ t.parts = s.parts /\ t.answer = s.answer /\ t.handled = s.handled
    BY <1>0 DEF HttpSockets
  <2> HIDE DEF t
  <2>3. ConnInv(t)
    BY <1>3, <2>1, <2>2
    DEF ConnInv, Unanswered, Answered, QueuesAnswer, Fresh, Connected, is_active
  <2> QED BY <2>3, Zenon DEF on_data, t
<1>4. ASSUME s.tx # <<>> PROVE ConnInv(on_data_ack(s))
  <2> DEFINE q == Tail(s.tx)
             t == [s EXCEPT !.tx = q]
  <2>1. /\ s.tx \in Seq(Clients) /\ Len(s.tx) <= TxCap
        /\ \A k \in 1 .. Len(s.tx) : s.tx[k] = s.answer
    BY <1>0 DEF HttpSockets, ConnInv, QueuesAnswer
  <2>2. /\ q \in Seq(Clients) /\ Len(q) = Len(s.tx) - 1
        /\ \A k \in 1 .. Len(q) : q[k] = s.answer
    BY <1>4, <2>1, TailOfQueue
  <2>3. Len(q) <= TxCap
    BY <2>1, <2>2, LenProperties, HttpAssumption
  <2> HIDE DEF q
  <2>4. t \in HttpSockets
    BY <1>0, <2>2, Zenon DEF HttpSockets
  <2>5. /\ t.state = s.state /\ t.peer = s.peer /\ t.tx = q /\ t.rx = s.rx /\ t.sent = s.sent
        /\ t.parts = s.parts /\ t.answer = s.answer /\ t.handled = s.handled
    BY <1>0 DEF HttpSockets
  <2> HIDE DEF t
  <2>6. s.parts = Parts
    BY <1>4 DEF ConnInv, Unanswered
  <2>7. ConnInv(t)
    BY <2>2, <2>3, <2>4, <2>5, <2>6
    DEF ConnInv, Unanswered, Answered, QueuesAnswer, Fresh, Connected, is_active
  <2> QED BY <2>7, Zenon DEF on_data_ack, t, q
<1>5. ASSUME s.peer = c, FinSent(s) PROVE ConnInv(on_fin_ack(s))
  <2>1. PICK x \in {"FIN-WAIT-2", "TIME-WAIT", "CLOSED"} : on_fin_ack(s) = [s EXCEPT !.state = x]
    BY <1>5 DEF FinSent, on_fin_ack
  <2>2. x \in States
    BY DEF States
  <2> QED BY <1>0, <1>5, <2>1, <2>2, SamePeerKeeps
<1>6. ASSUME s.peer = c, FinAccepted(s) PROVE ConnInv(on_fin(s))
  <2>1. PICK x \in {"CLOSE-WAIT", "CLOSING", "TIME-WAIT"} : on_fin(s) = [s EXCEPT !.state = x]
    BY <1>6 DEF FinAccepted, on_fin
  <2>2. x \in States
    BY DEF States
  <2> QED BY <1>0, <1>6, <2>1, <2>2, SamePeerKeeps
<1>7. ConnInv(on_rst(s, Nobody))
  <2>1. PICK x \in {"LISTEN", "CLOSED"} : /\ x = "LISTEN" => s.state = "SYN-RECEIVED"
                                          /\ on_rst(s, Nobody) = [s EXCEPT !.state = x, !.peer = Nobody]
    BY DEF on_rst
  <2>2. x \in States
    BY DEF States
  <2>3. Nobody \in Clients \cup {Nobody}
    OBVIOUS
  <2>4. ConnInv([s EXCEPT !.state = x, !.peer = Nobody])
    BY <2>1, <2>2, <2>3, StateKeeps
  <2> QED BY <2>1, <2>4, Zenon
<1> QED BY <1>1, <1>2, <1>3, <1>4, <1>5, <1>6, <1>7

\* A clock that passes a deadline.
LEMMA ClocksKeep ==
    ASSUME NEW s, ConnInv(s)
    PROVE  /\ \A x \in CloseTimes : ConnInv([s EXCEPT !.close_at = x])
           /\ \A x \in ConnectTimes : ConnInv([s EXCEPT !.connected_at = x])
<1>1. ASSUME NEW x \in CloseTimes PROVE ConnInv([s EXCEPT !.close_at = x])
  BY DEF ConnInv, HttpSockets, Unanswered, Answered, QueuesAnswer, Fresh, Connected, is_active
<1>2. ASSUME NEW x \in ConnectTimes PROVE ConnInv([s EXCEPT !.connected_at = x])
  BY DEF ConnInv, HttpSockets, Unanswered, Answered, QueuesAnswer, Fresh, Connected, is_active
<1> QED BY <1>1, <1>2

-----------------------------------------------------------------------------
(* The specification.                                                      *)

\* One socket takes a step that keeps its invariant, the others stay.
LEMMA BecomesKeeps ==
    ASSUME HttpInv, NEW i \in Sockets, NEW s, ConnInv(s), Becomes(i, s)
    PROVE  /\ sock' \in [Sockets -> HttpSockets]
           /\ \A j \in Sockets : ConnInv(sock'[j])
<1>1. /\ sock' = [sock EXCEPT ![i] = s] /\ s \in HttpSockets
      /\ sock \in [Sockets -> HttpSockets]
  BY DEF Becomes, HttpInv, HttpTypeOK, ConnInv
<1>2. \A j \in Sockets : sock'[j] = IF j = i THEN s ELSE sock[j]
  BY <1>1
<1> QED BY <1>1, <1>2 DEF HttpInv

\* Before the first pass of the handler no socket has a connection.
LEMMA HttpInit == Init => HttpInv
<1> SUFFICES ASSUME Init PROVE HttpInv
  OBVIOUS
<1>1. <<>> \in Seq(Clients) /\ Len(<<>>) = 0
  OBVIOUS
<1>2. ASSUME NEW i \in Sockets PROVE ConnInv(sock[i])
  BY <1>1, HttpAssumption
  DEF Init, ConnInv, HttpSockets, States, CloseTimes, ConnectTimes, Unanswered, Answered,
      QueuesAnswer, Fresh, Connected, is_active
<1>3. sock \in [Sockets -> HttpSockets]
  <2>1. \A i \in Sockets : sock[i] \in HttpSockets
    BY <1>2 DEF ConnInv
  <2> QED BY <2>1 DEF Init
<1>4. sentParts \in [Clients -> 0 .. Parts + 1] /\ alive \subseteq Clients
  BY HttpAssumption DEF Init
<1> QED BY <1>2, <1>3, <1>4 DEF HttpInv, HttpTypeOK, ConnInv

\* Every step of the handler, the clients and the clock keeps the invariant.
LEMMA HttpStep == HttpInv /\ [Next]_vars => HttpInv'
<1> SUFFICES ASSUME HttpInv, [Next]_vars PROVE HttpInv'
  OBVIOUS
<1> USE DEF HttpInv
<1>0. /\ \A i \in Sockets : ConnInv(sock[i])
      /\ sentParts \in [Clients -> 0 .. Parts + 1] /\ alive \subseteq Clients
  BY DEF HttpTypeOK
<1> SUFFICES /\ sock' \in [Sockets -> HttpSockets]
             /\ \A i \in Sockets : ConnInv(sock'[i])
             /\ sentParts' \in [Clients -> 0 .. Parts + 1] /\ alive' \subseteq Clients
  BY DEF HttpTypeOK, ConnInv
<1>1. CASE NetworkHandler
  <2>1. \A i \in Sockets : sock'[i] = handle_http(sock[i]) /\ ConnInv(sock'[i])
    BY <1>0, <1>1, HandlerKeeps DEF NetworkHandler
  <2>2. sock' \in [Sockets -> HttpSockets]
    BY <1>1, <2>1 DEF NetworkHandler, ConnInv
  <2> QED BY <1>0, <1>1, <2>1, <2>2 DEF NetworkHandler
<1>2. ASSUME NEW i \in Sockets, NEW c \in Clients,
             \/ Connect(i, c) \/ Handshake(i, c) \/ AckData(i, c)
             \/ AckFin(i, c) \/ Finish(i, c) \/ Reset(i, c)
      PROVE  HttpInv'
  <2>1. PICK s : ConnInv(s) /\ Becomes(i, s)
    BY <1>0, <1>2, SegmentsKeep DEF Connect, Handshake, AckData, AckFin, Finish, Reset, Segment
  <2>2. UNCHANGED <<sentParts, alive>>
    BY <1>2 DEF Connect, Handshake, AckData, AckFin, Finish, Reset
  <2> QED BY <1>0, <2>1, <2>2, BecomesKeeps DEF HttpTypeOK, ConnInv
<1>3. ASSUME NEW i \in Sockets, NEW c \in Clients, SendPart(i, c) PROVE HttpInv'
  <2>1. PICK s : ConnInv(s) /\ Becomes(i, s)
    BY <1>0, <1>3, SegmentsKeep DEF SendPart
  <2>2. sentParts' \in [Clients -> 0 .. Parts + 1] /\ alive' = alive
    BY <1>0, <1>3, HttpAssumption DEF SendPart
  <2> QED BY <1>0, <2>1, <2>2, BecomesKeeps DEF HttpTypeOK, ConnInv
<1>4. ASSUME NEW c \in Clients, PowerLost(c) PROVE HttpInv'
  BY <1>0, <1>4 DEF PowerLost, HttpTypeOK
<1>5. ASSUME NEW i \in Sockets, CloseTime(i) \/ ConnectTime(i) PROVE HttpInv'
  <2>1. PICK s : ConnInv(s) /\ Becomes(i, s)
    <3>1. "grace" \in CloseTimes /\ "ceiling" \in CloseTimes /\ "late" \in ConnectTimes
      BY DEF CloseTimes, ConnectTimes
    <3> QED BY <1>0, <1>5, <3>1, ClocksKeep DEF CloseTime, ConnectTime
  <2>2. UNCHANGED <<sentParts, alive>>
    BY <1>5 DEF CloseTime, ConnectTime
  <2> QED BY <1>0, <2>1, <2>2, BecomesKeeps DEF HttpTypeOK, ConnInv
<1>6. CASE UNCHANGED vars
  BY <1>0, <1>6 DEF vars, HttpTypeOK
<1> QED BY <1>1, <1>2, <1>3, <1>4, <1>5, <1>6 DEF Next, HttpTypeOK

\* Both buffers keep their sizes and every register its range, however the
\* clients' segments, the handler and the deadlines interleave.
THEOREM BuffersBounded == Spec => []HttpTypeOK
<1>1. HttpInv => HttpTypeOK
  BY DEF HttpInv
<1> QED BY <1>1, HttpInit, HttpStep, PTL DEF Spec

\* No octet of an answer reaches a client other than the one that asked, though
\* sockets are used again after a close, an abort, a reset or a deadline.
THEOREM EveryClientItsOwnAnswer == Spec => []OwnAnswer
<1>1. HttpInv => OwnAnswer
  <2> SUFFICES ASSUME HttpInv, NEW i \in Sockets, sock[i].peer # Nobody,
                      NEW k \in 1 .. Len(sock[i].tx)
               PROVE  sock[i].tx[k] = sock[i].peer
    BY DEF OwnAnswer
  <2>1. ConnInv(sock[i])
    BY DEF HttpInv
  <2>2. sock[i].tx # <<>>
    OBVIOUS
  <2>3. sock[i].answer = sock[i].peer
    BY <2>1, <2>2 DEF ConnInv, Unanswered, Answered
  <2> QED BY <2>1, <2>3 DEF ConnInv, QueuesAnswer
<1> QED BY <1>1, HttpInit, HttpStep, PTL DEF Spec

\* A request is carried out at most once per connection, whatever its client
\* sends after it.
THEOREM RequestsOnce == Spec => []AtMostOnce
<1>1. HttpInv => AtMostOnce
  BY HttpAssumption DEF HttpInv, ConnInv, Unanswered, Answered, AtMostOnce
<1> QED BY <1>1, HttpInit, HttpStep, PTL DEF Spec

-----------------------------------------------------------------------------
(* The tail of a response.                                                 *)

\* The handler lets go of an unacknowledged tail at the ceiling only.
LEMMA HandlerWaits ==
    ASSUME NEW s, ConnInv(s), s.close_at # "none", is_active(s), s.tx # <<>>,
           handle_http(s).state = "LISTEN"
    PROVE  s.close_at = "ceiling"
<1> SUFFICES ASSUME s.close_at # "ceiling" PROVE FALSE
  OBVIOUS
<1>1. AfterClose(s) = s
  BY DEF AfterClose, Recycle
<1>2. is_open(s) /\ s.state # "LISTEN"
  BY DEF is_active, is_open
<1>3. Relisten(AfterClose(s)) = s
  BY <1>1, <1>2 DEF Relisten
<1> DEFINE w == IF ~is_active(s) THEN "none"
                ELSE IF s.connected_at = "none" THEN "running" ELSE s.connected_at
           b == [s EXCEPT !.connected_at = w]
           d == [abort(b) EXCEPT !.connected_at = "none"]
<1>4. handle_http(s) \in {s, d, SendRest(Receive(b))}
  BY <1>3 DEF handle_http
<1>5. ConnInv(b) /\ b.state = s.state
  <2>1. w \in ConnectTimes
    BY DEF ConnectTimes, ConnInv, HttpSockets
  <2> HIDE DEF w
  <2>2. b.state = s.state
    BY DEF ConnInv, HttpSockets
  <2> QED BY <2>1, <2>2, ClocksKeep
<1> HIDE DEF b
<1>6. d.state = "CLOSED"
  BY <1>5 DEF abort, ConnInv, HttpSockets
<1> HIDE DEF d
<1>7. SendRest(Receive(b)).state # "LISTEN"
  <2>1. is_open(b)
    BY <1>2, <1>5 DEF is_open
  <2>2. ConnInv(Receive(b)) /\ Receive(b).state = s.state
    BY <1>5, <2>1, ReceiveKeeps
  <2> QED BY <1>2, <2>2, SendRestKeeps
<1> QED BY <1>2, <1>4, <1>6, <1>7

\* No segment turns a connection with a queued response back into a listener.
LEMMA SegmentsWait ==
    ASSUME NEW s, ConnInv(s), is_active(s), s.tx # <<>>
    PROVE  /\ s.state # "LISTEN"
           /\ on_handshake_ack(s).state # "LISTEN"
           /\ on_data(s).state # "LISTEN" /\ on_data_ack(s).state # "LISTEN"
           /\ FinSent(s) => on_fin_ack(s).state # "LISTEN"
           /\ FinAccepted(s) => on_fin(s).state # "LISTEN"
           /\ on_rst(s, Nobody).state # "LISTEN"
           /\ \A x : [s EXCEPT !.close_at = x].state # "LISTEN"
           /\ \A x : [s EXCEPT !.connected_at = x].state # "LISTEN"
<1>1. s \in HttpSockets /\ s.state \notin {"LISTEN", "SYN-RECEIVED"}
  BY HttpAssumption DEF is_active, ConnInv, Unanswered, Fresh
<1> QED
  BY <1>1 DEF HttpSockets, on_handshake_ack, on_data, on_data_ack, on_fin_ack, on_fin, on_rst,
              FinSent, FinAccepted

\* Every step waits for the tail.
LEMMA TailStep ==
    ASSUME HttpInv, [Next]_vars, NEW i \in Sockets,
           sock[i].close_at # "none", is_active(sock[i]), sock[i].tx # <<>>,
           sock'[i].state = "LISTEN"
    PROVE  sock[i].close_at = "ceiling"
<1>0. ConnInv(sock[i]) /\ sock \in [Sockets -> HttpSockets] /\ sock[i].state # "LISTEN"
  BY DEF HttpInv, HttpTypeOK, is_active
<1>1. CASE NetworkHandler
  BY <1>0, <1>1, HandlerWaits DEF NetworkHandler
<1>2. ASSUME NEW j \in Sockets, NEW c \in Clients,
             \/ Connect(j, c) \/ Handshake(j, c) \/ SendPart(j, c) \/ AckData(j, c)
             \/ AckFin(j, c) \/ Finish(j, c) \/ Reset(j, c)
      PROVE  FALSE
  <2>1. PICK s : Becomes(j, s) /\ (j = i => s.state # "LISTEN")
    <3>1. CASE Connect(j, c)
      BY <1>0, <3>1 DEF Connect
    <3>2. CASE ~Connect(j, c)
      BY <1>0, <1>2, <3>2, SegmentsWait
      DEF Handshake, SendPart, AckData, AckFin, Finish, Reset
    <3> QED BY <3>1, <3>2
  <2> QED BY <1>0, <2>1 DEF Becomes
<1>3. ASSUME NEW j \in Sockets, CloseTime(j) \/ ConnectTime(j) PROVE FALSE
  <2>1. PICK s : Becomes(j, s) /\ (j = i => s.state # "LISTEN")
    <3>1. PICK x : \/ Becomes(j, [sock[j] EXCEPT !.close_at = x])
                   \/ Becomes(j, [sock[j] EXCEPT !.connected_at = x])
      BY <1>3 DEF CloseTime, ConnectTime
    <3>2. CASE j = i
      BY <1>0, <3>1, <3>2, SegmentsWait
    <3>3. CASE j # i
      BY <3>1, <3>3
    <3> QED BY <3>2, <3>3
  <2> QED BY <1>0, <2>1 DEF Becomes
<1>4. CASE UNCHANGED sock
  BY <1>0, <1>4
<1> QED BY <1>1, <1>2, <1>3, <1>4 DEF Next, PowerLost, vars

\* A response is not cut off behind what the transmit buffer still holds: the
\* socket is taken back only after the last acknowledgement or at the ceiling.
THEOREM TailsAreSent == Spec => TailIsSent
<1>1. HttpInv /\ [Next]_vars =>
        [\A i \in Sockets :
           /\ sock[i].close_at # "none" /\ is_active(sock[i]) /\ sock[i].tx # <<>>
           /\ sock'[i].state = "LISTEN"
           => sock[i].close_at = "ceiling"]_vars
  BY TailStep
<1> QED BY <1>1, HttpInit, HttpStep, PTL DEF Spec, TailIsSent
=============================================================================
