--------------------------- MODULE NetbootProofs ---------------------------
(* Theorems of Netboot for any leases, files, block and buffer sizes.      *)
EXTENDS Netboot, SequenceTheorems, TLAPS

-----------------------------------------------------------------------------
(* The inductive invariant: one request, hence one version.                *)

\* Nothing of the file has been asked for, or nobody has answered yet.
Untouched ==
    /\ session = NoSession /\ down = {} /\ rxq = <<>> /\ layout = <<>>
    /\ loader.buf = <<>> /\ ~loader.overflowed
    /\ is_active(loader) => loader.block = 1

\* The fetch is begun once, with the first address, and asks once.
AskedOnce ==
    /\ started <=> loader.state # "Idle"
    /\ loader.state \in {"Idle", "SendRrq"} => Rrq \notin up /\ Untouched
    /\ Rrq \in up => Untouched

\* A packet of the transfer of version v.
From(p, v) == p = Error \/ \E b \in 1 .. Blocks(v) : p = Data(v, b)

\* n units of version v have been received, as many of them kept as fit.
Received(l, v, n) ==
    /\ n <= FileLen[v]
    /\ Len(l.buf) = IF n <= MAX_CONFIG_SIZE THEN n ELSE MAX_CONFIG_SIZE
    /\ \A k \in 1 .. Len(l.buf) : l.buf[k] = <<v, k>>
    /\ l.overflowed <=> n > MAX_CONFIG_SIZE

\* All blocks before the one the loader waits for.
Partial(l, v) ==
    l.state = "WaitData" => l.block # 0 /\ Received(l, v, (l.block - 1) * BlockSize)

\* Whatever is on its way, queued or kept belongs to the transfer of version v.
TransferOf(v) ==
    /\ session # NoSession => session.v = v /\ session.block \in 1 .. Blocks(v)
    /\ \A p \in down : From(p, v)
    /\ \A i \in 1 .. Len(rxq) : From(rxq[i], v)
    /\ Partial(loader, v)
    /\ layout \in {<<>>, Content(v)}

\* The same, as the handlers see it while they pass the card's state on.
Cards == [dhcp : Clients, addr : Addresses, filterIp : Addresses, started : BOOLEAN,
          loader : Loaders, rxq : Seq(Downs), layout : Seq(Units), up : SUBSET Ups]
Quiet == session = NoSession /\ down = {}
Blank(c) ==
    /\ c.rxq = <<>> /\ c.layout = <<>> /\ c.loader.buf = <<>> /\ ~c.loader.overflowed
    /\ is_active(c.loader) => c.loader.block = 1
CardOK(c) ==
    /\ c \in Cards /\ Len(c.loader.buf) <= MAX_CONFIG_SIZE
    /\ c.started <=> c.loader.state # "Idle"
    /\ c.addr # "none" => c.filterIp = c.addr
FetchOK(c, v) ==
    /\ c.loader.state \in {"Idle", "SendRrq"} => Rrq \notin up \cup c.up /\ Quiet /\ Blank(c)
    /\ Rrq \in up \cup c.up => Quiet /\ Blank(c)
    /\ \A i \in 1 .. Len(c.rxq) : From(c.rxq[i], v)
    /\ Partial(c.loader, v)
    /\ c.layout \in {<<>>, Content(v)}

NetbootInv ==
    /\ NetbootTypeOK
    /\ AskedOnce
    /\ \E v \in Versions : TransferOf(v)
    /\ FilterFollows

-----------------------------------------------------------------------------
(* The DHCP client.                                                        *)

\* A lease lost or refused: discovery starts again.
LEMMA ResetType == ASSUME NEW d \in Clients PROVE reset(d) \in Clients
<1>1. 0 \in 0 .. REQUEST_RETRIES
  BY DhcpAssumption
<1>2. (d.config_changed \/ d.state = "Renewing") \in BOOLEAN
  BY DEF Clients
<1> QED BY <1>1, <1>2, Zenon DEF Clients, reset

\* A message out.
LEMMA SendType ==
    ASSUME NEW d \in Clients, NEW k \in {"DISCOVER", "REQUEST"} PROVE Send(d, k) \in Clients
BY Zenon DEF Clients, Send

\* A packet received.
LEMMA ProcessType ==
    ASSUME NEW d \in Clients, NEW m, m.type \in {"OFFER", "ACK"} => m.ip \in Leases
    PROVE  process(d, m) \in Clients
<1>1. 0 \in 0 .. REQUEST_RETRIES
  BY DhcpAssumption
<1>2. CASE m.type = "OFFER" /\ d.state = "Discovering"
  <2>1. process(d, m) = [d EXCEPT !.state = "Requesting", !.ip = m.ip, !.retry = 0, !.due = TRUE]
    BY <1>2 DEF process
  <2>2. m.ip \in Leases \cup {"none"}
    BY <1>2
  <2> QED BY <1>1, <2>1, <2>2, Zenon DEF Clients
<1>3. CASE m.type = "ACK" /\ d.state # "Discovering"
  <2>1. process(d, m) = Acknowledged(d, m.ip)
    BY <1>3 DEF process
  <2>2. m.ip \in Leases \cup {"none"}
    BY <1>3
  <2>3. (d.config_changed \/ d.state = "Requesting" \/ d.ip # m.ip) \in BOOLEAN
    BY DEF Clients
  <2> QED BY <1>1, <2>1, <2>2, <2>3, Zenon DEF Clients, Acknowledged
<1>4. CASE m.type = "NAK" /\ d.state # "Discovering"
  <2>1. process(d, m) = reset(d)
    BY <1>4 DEF process
  <2> QED BY <2>1, ResetType
<1> QED BY <1>2, <1>3, <1>4 DEF process

\* What is due, out.
LEMMA DispatchType == ASSUME NEW d \in Clients PROVE dispatch(d) \in Clients
<1> DEFINE r == Send(d, "REQUEST")
           q == [r EXCEPT !.retry = r.retry + 1]
<1>1. Send(d, "DISCOVER") \in Clients /\ Send(reset(d), "DISCOVER") \in Clients
  BY SendType, ResetType
<1>2. r \in Clients /\ r.retry = d.retry
  BY SendType DEF Send, Clients
<1>3. CASE \/ d.state = "Discovering" /\ d.due
           \/ d.state = "Requesting" /\ d.due /\ d.retry >= REQUEST_RETRIES
           \/ d.state = "Renewing" /\ d.expired
  <2>1. dispatch(d) = Send(IF d.state = "Discovering" THEN d ELSE reset(d), "DISCOVER")
    BY <1>3, DhcpAssumption DEF dispatch, Clients
  <2> QED BY <1>1, <2>1
<1>4. CASE d.state = "Requesting" /\ d.due /\ d.retry < REQUEST_RETRIES
  <2>1. dispatch(d) = q
    BY <1>4, DhcpAssumption DEF dispatch, Clients
  <2> HIDE DEF r
  <2>2. r.retry + 1 \in 0 .. REQUEST_RETRIES
    BY <1>2, <1>4, DhcpAssumption DEF Clients
  <2> QED BY <1>2, <2>1, <2>2, Zenon DEF Clients
<1>5. CASE d.state = "Renewing" /\ d.due /\ ~d.expired
  <2>1. dispatch(d) = r
    BY <1>5 DEF dispatch
  <2> QED BY <1>2, <2>1
<1> QED BY <1>3, <1>4, <1>5 DEF dispatch

\* iface.poll touches the client only.
LEMMA PollEffect ==
    ASSUME NEW c, CardOK(c), NEW m, m.type \in {"OFFER", "ACK"} => m.ip \in Leases
    PROVE  /\ CardOK(poll(c, m))
           /\ \A v : FetchOK(c, v) => FetchOK(poll(c, m), v)
<1> DEFINE a == [c EXCEPT !.dhcp = process(c.dhcp, m)]
           b == [a EXCEPT !.dhcp = dispatch(a.dhcp)]
<1>1. c \in Cards /\ c.dhcp \in Clients
  BY DEF CardOK, Cards
<1>2. process(c.dhcp, m) \in Clients
  BY <1>1, ProcessType
<1>3. /\ a.dhcp = process(c.dhcp, m) /\ a.addr = c.addr /\ a.filterIp = c.filterIp
      /\ a.started = c.started /\ a.loader = c.loader /\ a.rxq = c.rxq
      /\ a.layout = c.layout /\ a.up = c.up
  BY <1>1 DEF Cards
<1>4. a \in Cards
  BY <1>1, <1>2, Zenon DEF Cards
<1> HIDE DEF a
<1>5. dispatch(a.dhcp) \in Clients
  BY <1>2, <1>3, DispatchType
<1>6. /\ b.addr = a.addr /\ b.filterIp = a.filterIp
      /\ b.started = a.started /\ b.loader = a.loader /\ b.rxq = a.rxq
      /\ b.layout = a.layout /\ b.up = a.up
  BY <1>4 DEF Cards
<1>7. b \in Cards
  BY <1>4, <1>5, Zenon DEF Cards
<1>8. poll(c, m) = b
  BY Zenon DEF poll, a, b
<1> HIDE DEF b
<1> QED BY <1>3, <1>6, <1>7, <1>8 DEF CardOK, FetchOK, Blank

\* Configured and Deconfigured: the address and the filter change together, and
\* only the first address starts the fetch.
LEMMA ConfiguredKeeps ==
    ASSUME NEW c, CardOK(c), NEW v, FetchOK(c, v)
    PROVE  /\ CardOK(Configured(c)) /\ FetchOK(Configured(c), v)
           /\ CardOK(Deconfigured(c)) /\ FetchOK(Deconfigured(c), v)
<1>0. /\ c \in Cards /\ c.dhcp.ip \in Addresses /\ c.loader \in Loaders
      /\ "none" \in Addresses
  BY DEF CardOK, Cards, Clients, Addresses
<1>1. CardOK(Deconfigured(c)) /\ FetchOK(Deconfigured(c), v)
  <2> DEFINE d == [c EXCEPT !.addr = "none"]
  <2>1. d \in Cards
    BY <1>0, Zenon DEF Cards
  <2>2. /\ d.addr = "none" /\ d.started = c.started /\ d.loader = c.loader
        /\ d.rxq = c.rxq /\ d.layout = c.layout /\ d.up = c.up
    BY <1>0 DEF Cards
  <2>3. Deconfigured(c) = d
    BY DEF Deconfigured
  <2> HIDE DEF d
  <2> QED BY <2>1, <2>2, <2>3 DEF CardOK, FetchOK, Blank
<1>2. CardOK(Configured(c)) /\ FetchOK(Configured(c), v)
  <2> DEFINE l == IF c.started THEN c.loader
                  ELSE [c.loader EXCEPT !.state = "SendRrq", !.block = 1, !.buf = <<>>]
             d == [c EXCEPT !.addr = c.dhcp.ip, !.filterIp = c.dhcp.ip, !.started = TRUE,
                            !.loader = l]
  <2>1. l \in Loaders
    <3>1. <<>> \in Seq(Units) /\ 1 \in Nat
      OBVIOUS
    <3> QED BY <1>0, <3>1, Zenon DEF Loaders
  <2>2. \/ c.started /\ l = c.loader
        \/ /\ ~c.started /\ l.state = "SendRrq" /\ l.block = 1 /\ l.buf = <<>>
           /\ l.overflowed = c.loader.overflowed
    BY <1>0 DEF Loaders
  <2> HIDE DEF l
  <2>3. d \in Cards
    BY <1>0, <2>1, Zenon DEF Cards
  <2>4. /\ d.addr = c.dhcp.ip /\ d.filterIp = c.dhcp.ip /\ d.started = TRUE /\ d.loader = l
        /\ d.rxq = c.rxq /\ d.layout = c.layout /\ d.up = c.up
    BY <1>0 DEF Cards
  <2>5. Configured(c) = d
    BY Zenon DEF Configured, d, l
  <2> HIDE DEF d
  <2>6. CASE c.started
    BY <2>2, <2>3, <2>4, <2>5, <2>6 DEF CardOK, FetchOK, Blank
  <2>7. CASE ~c.started
    <3>1. c.loader.state = "Idle" /\ l.state = "SendRrq" /\ l.block = 1
      BY <2>2, <2>7 DEF CardOK
    <3>2. Rrq \notin up \cup c.up /\ Quiet /\ Blank(c)
      BY <3>1 DEF FetchOK
    <3>3. l.buf = <<>> /\ ~l.overflowed
      BY <2>2, <2>7, <3>2 DEF Blank
    <3>4. Blank(d)
      BY <2>4, <3>1, <3>2, <3>3 DEF Blank
    <3>5. FetchOK(d, v)
      BY <2>4, <3>1, <3>2, <3>4 DEF FetchOK, Partial
    <3>6. CardOK(d)
      BY <2>3, <2>4, <3>1, <3>3, NetbootAssumption DEF CardOK
    <3> QED BY <2>5, <3>5, <3>6
  <2> QED BY <2>6, <2>7
<1> QED BY <1>1, <1>2

\* The whole of handle_dhcp, the static address of the tenth second included.
LEMMA DhcpHandlerKeeps ==
    ASSUME NEW c, CardOK(c), NEW v, FetchOK(c, v)
    PROVE  CardOK(handle_dhcp(c)) /\ FetchOK(handle_dhcp(c), v)
<1> DEFINE p == [c EXCEPT !.dhcp = polled(c.dhcp)]
<1>0. c \in Cards /\ c.dhcp \in Clients /\ "static" \in Addresses
  BY DEF CardOK, Cards, Addresses
<1>1. CardOK(p) /\ FetchOK(p, v)
  <2>1. polled(c.dhcp) \in Clients
    BY <1>0, Zenon DEF polled, Clients
  <2>2. p \in Cards
    BY <1>0, <2>1, Zenon DEF Cards
  <2>3. /\ p.addr = c.addr /\ p.filterIp = c.filterIp /\ p.started = c.started
        /\ p.loader = c.loader /\ p.rxq = c.rxq /\ p.layout = c.layout /\ p.up = c.up
    BY <1>0 DEF Cards
  <2> HIDE DEF p
  <2> QED BY <2>2, <2>3 DEF CardOK, FetchOK, Blank
<1> DEFINE d == IF Event(c.dhcp) = "Configured" THEN Configured(p)
                ELSE IF Event(c.dhcp) = "Deconfigured" THEN Deconfigured(p) ELSE p
           s == [d EXCEPT !.addr = "static", !.filterIp = "static"]
<1>2. handle_dhcp(c) \in {d, s}
  BY DEF handle_dhcp
<1> HIDE DEF p
<1>3. CardOK(d) /\ FetchOK(d, v)
  BY <1>1, ConfiguredKeeps
<1> HIDE DEF d
<1>4. CardOK(s) /\ FetchOK(s, v)
  <2>1. s \in Cards
    BY <1>0, <1>3, Zenon DEF Cards, CardOK
  <2>2. /\ s.addr = "static" /\ s.filterIp = "static" /\ s.started = d.started
        /\ s.loader = d.loader /\ s.rxq = d.rxq /\ s.layout = d.layout /\ s.up = d.up
    BY <1>3 DEF Cards, CardOK
  <2> HIDE DEF s
  <2> QED BY <1>3, <2>1, <2>2 DEF CardOK, FetchOK, Blank
<1> QED BY <1>2, <1>3, <1>4

-----------------------------------------------------------------------------
(* Blocks of a file.                                                       *)

\* Whole blocks before the last one.
LEMMA DivMul ==
    ASSUME NEW n \in Nat, NEW k \in Nat \ {0}, NEW m \in Nat, m <= n \div k
    PROVE  m * k \in Nat /\ m * k <= n
<1> DEFINE q == n \div k
<1>1. q \in Nat /\ q * k <= n
  OBVIOUS
<1> HIDE DEF q
<1>2. m * k <= q * k
  BY <1>1 DEF q
<1>3. m * k \in Nat
  OBVIOUS
<1> QED BY <1>1, <1>2, <1>3

\* A whole number of blocks.
LEMMA DivNat == ASSUME NEW n \in Nat, NEW k \in Nat \ {0} PROVE n \div k \in Nat
OBVIOUS

\* The file is a sequence of its units.
LEMMA ContentType ==
    ASSUME NEW v \in Versions
    PROVE  /\ FileLen[v] \in Nat
           /\ Content(v) \in Seq(Units) /\ Len(Content(v)) = FileLen[v]
           /\ \A k \in 1 .. FileLen[v] : Content(v)[k] = <<v, k>>
<1>1. FileLen[v] \in Nat
  BY NetbootAssumption DEF Versions
<1>2. \A k \in 1 .. FileLen[v] : Content(v)[k] = <<v, k>> /\ <<v, k>> \in Units
  <2>1. \A k \in 1 .. FileLen[v] : Content(v)[k] = <<v, k>>
    BY DEF Content
  <2>2. \A k \in 1 .. FileLen[v] : Content(v)[k] \in Units
    BY DEF Units
  <2> QED BY <2>1, <2>2
<1>3. Content(v) = [k \in 1 .. FileLen[v] |-> <<v, k>>]
  BY DEF Content
<1>4. Content(v) \in Seq(Units) /\ Len(Content(v)) = FileLen[v]
  <2>1. Content(v) \in [1 .. FileLen[v] -> Units]
    BY <1>2, <1>3
  <2>2. DOMAIN Content(v) = 1 .. FileLen[v]
    BY <1>3
  <2> QED BY <1>1, <2>1, <2>2, SeqDef
<1> QED BY <1>1, <1>2, <1>4

\* Every file has a last block, if an empty one.
LEMMA BlockCount == ASSUME NEW v \in Versions PROVE Blocks(v) \in Nat \ {0}
<1>1. FileLen[v] \in Nat /\ BlockSize \in Nat \ {0}
  BY ContentType, NetbootAssumption
<1>2. FileLen[v] \div BlockSize \in Nat
  BY <1>1, DivNat
<1> QED BY <1>2 DEF Blocks

\* Block b carries the units behind the b - 1 whole blocks before it.
LEMMA BlockFacts ==
    ASSUME NEW v \in Versions, NEW b \in 1 .. Blocks(v)
    PROVE  LET n == (b - 1) * BlockSize
           IN /\ n \in Nat /\ n <= FileLen[v] /\ b * BlockSize = n + BlockSize
              /\ Block(v, b) \in Seq(Units)
              /\ Len(Block(v, b)) = IF n + BlockSize < FileLen[v] THEN BlockSize
                                    ELSE FileLen[v] - n
              /\ \A k \in 1 .. Len(Block(v, b)) : Block(v, b)[k] = <<v, n + k>>
<1> DEFINE n == (b - 1) * BlockSize
           e == IF b * BlockSize < FileLen[v] THEN b * BlockSize ELSE FileLen[v]
<1>1. BlockSize \in Nat \ {0} /\ FileLen[v] \in Nat
  BY ContentType, NetbootAssumption
<1>2. b \in Nat /\ b - 1 \in Nat /\ b - 1 <= FileLen[v] \div BlockSize
  BY <1>1 DEF Blocks
<1>3. n \in Nat /\ n <= FileLen[v]
  BY <1>1, <1>2, DivMul
<1>4. b * BlockSize = n + BlockSize
  BY <1>1, <1>2
<1> HIDE DEF n
<1>5. Block(v, b) = SubSeq(Content(v), n + 1, e)
  BY DEF Block, n
<1>6. e \in Nat /\ n <= e /\ e <= FileLen[v] /\ n + 1 \in Int
      /\ e = IF n + BlockSize < FileLen[v] THEN n + BlockSize ELSE FileLen[v]
  BY <1>1, <1>3, <1>4
<1> HIDE DEF e
<1>7. \A k \in n + 1 .. e : Content(v)[k] \in Units /\ Content(v)[k] = <<v, k>>
  <2> SUFFICES ASSUME NEW k \in n + 1 .. e
               PROVE  Content(v)[k] \in Units /\ Content(v)[k] = <<v, k>>
    OBVIOUS
  <2>1. k \in 1 .. FileLen[v]
    BY <1>1, <1>3, <1>6
  <2> QED BY <2>1, ContentType, ElementOfSeq
<1>8. /\ Block(v, b) \in Seq(Units)
      /\ Len(Block(v, b)) = IF n + 1 <= e THEN e - (n + 1) + 1 ELSE 0
      /\ \A k \in 1 .. e - (n + 1) + 1 : Block(v, b)[k] = Content(v)[n + 1 + k - 1]
  BY <1>5, <1>6, <1>7, SubSeqProperties
<1>9. Len(Block(v, b)) = e - n
  BY <1>3, <1>6, <1>8
<1>10. \A k \in 1 .. Len(Block(v, b)) : Block(v, b)[k] = <<v, n + k>>
  <2> SUFFICES ASSUME NEW k \in 1 .. Len(Block(v, b)) PROVE Block(v, b)[k] = <<v, n + k>>
    OBVIOUS
  <2>1. k \in 1 .. e - (n + 1) + 1 /\ n + 1 + k - 1 = n + k /\ n + k \in n + 1 .. e
    BY <1>3, <1>6, <1>9
  <2> QED BY <1>7, <1>8, <2>1
<1>11. Len(Block(v, b)) = IF n + BlockSize < FileLen[v] THEN BlockSize ELSE FileLen[v] - n
  BY <1>1, <1>3, <1>6, <1>9
<1> QED BY <1>3, <1>4, <1>8, <1>10, <1>11 DEF n

\* Copying the awaited block keeps the buffer a beginning of the file, and knows
\* whether something did not fit.
LEMMA CopyExtends ==
    ASSUME NEW v \in Versions, NEW b \in 1 .. Blocks(v), NEW l \in Loaders,
           Received(l, v, (b - 1) * BlockSize)
    PROVE  LET p == Data(v, b)
               t == Copy(l, p)
           IN /\ t \in Loaders /\ Len(t.buf) <= MAX_CONFIG_SIZE
              /\ t.state = l.state /\ t.block = l.block
              /\ Received(t, v, (b - 1) * BlockSize + Len(p.payload))
<1>1. PICK n : n = (b - 1) * BlockSize
  OBVIOUS
<1>2. PICK w : w = Block(v, b)
  OBVIOUS
<1>3. PICK m : m = Len(w)
  OBVIOUS
<1>4. /\ n \in Nat /\ n <= FileLen[v] /\ FileLen[v] \in Nat /\ MAX_CONFIG_SIZE \in Nat
      /\ w \in Seq(Units) /\ m \in Nat /\ n + m <= FileLen[v]
      /\ \A k \in 1 .. m : w[k] = <<v, n + k>> /\ w[k] \in Units
  <2>1. BlockSize \in Nat \ {0} /\ FileLen[v] \in Nat /\ MAX_CONFIG_SIZE \in Nat
    BY ContentType, NetbootAssumption
  <2>2. n \in Nat /\ n <= FileLen[v] /\ w \in Seq(Units) /\ \A k \in 1 .. m : w[k] = <<v, n + k>>
    BY <1>1, <1>2, <1>3, BlockFacts
  <2>3. m = IF n + BlockSize < FileLen[v] THEN BlockSize ELSE FileLen[v] - n
    BY <1>1, <1>2, <1>3, BlockFacts
  <2>4. m \in Nat /\ n + m <= FileLen[v]
    BY <2>1, <2>2, <2>3
  <2>5. \A k \in 1 .. m : w[k] \in Units
    BY <1>3, <2>2, ElementOfSeq
  <2> QED BY <2>1, <2>2, <2>4, <2>5
<1>5. PICK r : r = MAX_CONFIG_SIZE - Len(l.buf)
  OBVIOUS
<1>6. PICK j : j = IF m < r THEN m ELSE r
  OBVIOUS
<1>7. /\ l.buf \in Seq(Units)
      /\ Len(l.buf) = IF n <= MAX_CONFIG_SIZE THEN n ELSE MAX_CONFIG_SIZE
      /\ \A k \in 1 .. Len(l.buf) : l.buf[k] = <<v, k>>
      /\ l.overflowed \in BOOLEAN /\ (l.overflowed <=> n > MAX_CONFIG_SIZE)
  BY <1>1 DEF Received, Loaders
<1>8. j \in 0 .. m /\ Len(l.buf) + j = IF n + m <= MAX_CONFIG_SIZE THEN n + m ELSE MAX_CONFIG_SIZE
  <2>0. n \in Nat /\ m \in Nat /\ MAX_CONFIG_SIZE \in Nat
    BY <1>4
  <2>1. CASE n <= MAX_CONFIG_SIZE
    <3>1. Len(l.buf) = n /\ r = MAX_CONFIG_SIZE - n
      BY <1>5, <1>7, <2>1
    <3> QED BY <1>6, <2>0, <2>1, <3>1
  <2>2. CASE ~(n <= MAX_CONFIG_SIZE)
    <3>1. Len(l.buf) = MAX_CONFIG_SIZE /\ r = 0
      BY <1>5, <1>7, <2>0, <2>2
    <3> QED BY <1>6, <2>0, <2>2, <3>1
  <2> QED BY <2>1, <2>2
<1>9. PICK f : f = SubSeq(w, 1, j)
  OBVIOUS
<1>10. f \in Seq(Units) /\ Len(f) = j /\ \A k \in 1 .. j : f[k] = <<v, n + k>>
  <2>1. j \in Int /\ 1 \in Int /\ \A k \in 1 .. j : w[k] \in Units /\ w[k] = <<v, n + k>>
    BY <1>4, <1>8
  <2>2. /\ f \in Seq(Units) /\ Len(f) = IF 1 <= j THEN j - 1 + 1 ELSE 0
        /\ \A k \in 1 .. j - 1 + 1 : f[k] = w[1 + k - 1]
    BY <1>9, <2>1, SubSeqProperties
  <2>3. \A k \in 1 .. j : k \in 1 .. j - 1 + 1 /\ 1 + k - 1 = k
    BY <1>8
  <2>4. \A k \in 1 .. j : f[k] = <<v, n + k>>
    BY <2>1, <2>2, <2>3
  <2>5. Len(f) = j
    BY <1>4, <1>8, <2>2
  <2> QED BY <2>2, <2>4, <2>5
<1>11. PICK g : g = l.buf \o f
  OBVIOUS
<1>12. /\ g \in Seq(Units) /\ Len(g) = Len(l.buf) + j
       /\ \A k \in 1 .. Len(l.buf) + j : g[k] = IF k <= Len(l.buf) THEN l.buf[k]
                                               ELSE f[k - Len(l.buf)]
  <2>1. l.buf \in Seq(Units) /\ f \in Seq(Units)
    BY <1>7, <1>10
  <2>2. /\ l.buf \o f \in Seq(Units) /\ Len(l.buf \o f) = Len(l.buf) + Len(f)
        /\ \A k \in 1 .. Len(l.buf) + Len(f) :
             (l.buf \o f)[k] = IF k <= Len(l.buf) THEN l.buf[k] ELSE f[k - Len(l.buf)]
    BY <2>1, ConcatProperties, Zenon
  <2>3. Len(f) = j
    BY <1>10
  <2> QED BY <1>11, <2>2, <2>3, Zenon
<1>13. \A k \in 1 .. Len(g) : g[k] = <<v, k>>
  <2> SUFFICES ASSUME NEW k \in 1 .. Len(g) PROVE g[k] = <<v, k>>
    OBVIOUS
  <2>0. Len(l.buf) \in Nat /\ Len(g) = Len(l.buf) + j
    BY <1>7, <1>12, LenProperties
  <2>1. CASE k <= Len(l.buf)
    <3>1. k \in 1 .. Len(l.buf) /\ k \in 1 .. Len(l.buf) + j
      BY <1>8, <2>0, <2>1
    <3>2. g[k] = l.buf[k]
      BY <1>12, <2>1, <3>1
    <3> QED BY <1>7, <3>1, <3>2
  <2>2. CASE ~(k <= Len(l.buf))
    <3>1. Len(l.buf) = n
      BY <1>4, <1>7, <1>8, <1>12, <2>2
    <3>2. k - n \in 1 .. j /\ n + (k - n) = k
      BY <1>4, <1>8, <1>12, <2>2, <3>1
    <3> QED BY <1>10, <1>12, <2>2, <3>1, <3>2
  <2> QED BY <2>1, <2>2
<1> DEFINE t == [l EXCEPT !.buf = g, !.overflowed = l.overflowed \/ j < m]
<1>14. Copy(l, Data(v, b)) = t /\ Data(v, b).payload = w
  <2>1. Data(v, b).payload = w
    BY <1>2 DEF Data
  <2>2. Fits(l, Data(v, b)) = f
    BY <1>3, <1>5, <1>6, <1>9, <2>1 DEF Fits
  <2> QED BY <1>3, <1>10, <1>11, <2>1, <2>2 DEF Copy
<1>15. t \in Loaders
  <2>1. (l.overflowed \/ j < m) \in BOOLEAN
    BY <1>7
  <2> QED BY <1>12, <2>1, Zenon DEF Loaders
<1>16. t.buf = g /\ t.overflowed = (l.overflowed \/ j < m) /\ t.state = l.state /\ t.block = l.block
  BY DEF Loaders
<1> HIDE DEF t
<1>17. (l.overflowed \/ j < m) <=> n + m > MAX_CONFIG_SIZE
  BY <1>4, <1>5, <1>6, <1>7
<1>18. Received(t, v, n + m)
  BY <1>4, <1>8, <1>12, <1>13, <1>16, <1>17 DEF Received
<1>19. Len(t.buf) <= MAX_CONFIG_SIZE
  BY <1>4, <1>8, <1>12, <1>16
<1> QED BY <1>1, <1>3, <1>14, <1>15, <1>16, <1>18, <1>19

\* All units, none of which was too many, are the file.
LEMMA ReceivedAll ==
    ASSUME NEW v \in Versions, NEW l \in Loaders, Received(l, v, FileLen[v]), ~l.overflowed
    PROVE  l.buf = Content(v)
<1>1. l.buf \in Seq(Units) /\ FileLen[v] \in Nat
  BY ContentType DEF Loaders
<1>2. Len(l.buf) = FileLen[v] /\ \A k \in 1 .. Len(l.buf) : l.buf[k] = <<v, k>>
  BY <1>1, NetbootAssumption DEF Received
<1>3. /\ Content(v) \in Seq(Units) /\ Len(Content(v)) = FileLen[v]
      /\ \A k \in 1 .. FileLen[v] : Content(v)[k] = <<v, k>>
  BY ContentType
<1> QED BY <1>1, <1>2, <1>3, SeqEqual

-----------------------------------------------------------------------------
(* The loader.                                                             *)

\* Block numbers of a transfer are block numbers.
LEMMA BlockNumbers == ASSUME NEW v \in Versions PROVE 1 .. Blocks(v) \subseteq BlockIds
BY DEF BlockIds

\* The packet at the head of the queue, and the queue behind it.
LEMMA QueueFacts ==
    ASSUME NEW q \in Seq(Downs), q # <<>>, NEW v, \A i \in 1 .. Len(q) : From(q[i], v)
    PROVE  /\ From(Head(q), v) /\ Tail(q) \in Seq(Downs)
           /\ \A i \in 1 .. Len(Tail(q)) : From(Tail(q)[i], v)
<1>1. /\ Tail(q) \in Seq(Downs) /\ Len(Tail(q)) = Len(q) - 1 /\ Len(q) \in Nat \ {0}
      /\ \A i \in 1 .. Len(Tail(q)) : Tail(q)[i] = q[i + 1]
  BY HeadTailProperties, EmptySeq
<1>2. Head(q) = q[1] /\ 1 \in 1 .. Len(q)
  BY <1>1
<1>3. \A i \in 1 .. Len(Tail(q)) : i + 1 \in 1 .. Len(q)
  BY <1>1
<1> QED BY <1>1, <1>2, <1>3

\* The request goes out, once.
LEMMA RequestKeeps ==
    ASSUME NEW c, CardOK(c), NEW v \in Versions, FetchOK(c, v), c.loader.state = "SendRrq"
    PROVE  CardOK(handle_tftp(c)) /\ FetchOK(handle_tftp(c), v)
<1> DEFINE l == [c.loader EXCEPT !.state = "WaitData", !.late = FALSE]
           d == [c EXCEPT !.loader = l, !.up = c.up \cup {Rrq}]
<1>0. c \in Cards /\ c.loader \in Loaders /\ c.up \subseteq Ups
  BY DEF CardOK, Cards
<1>1. handle_tftp(c) = d
  BY DEF handle_tftp, is_done
<1>2. l \in Loaders
  BY <1>0, Zenon DEF Loaders
<1>3. l.state = "WaitData" /\ l.block = c.loader.block /\ l.buf = c.loader.buf
      /\ l.overflowed = c.loader.overflowed
  BY <1>0 DEF Loaders
<1> HIDE DEF l
<1>4. d \in Cards
  <2>1. c.up \cup {Rrq} \in SUBSET Ups
    BY <1>0 DEF Ups
  <2> QED BY <1>0, <1>2, <2>1, Zenon DEF Cards
<1>5. /\ d.addr = c.addr /\ d.filterIp = c.filterIp /\ d.started = c.started /\ d.loader = l
      /\ d.rxq = c.rxq /\ d.layout = c.layout /\ d.up = c.up \cup {Rrq}
  BY <1>0 DEF Cards
<1> HIDE DEF d
<1>6. Quiet /\ Blank(c) /\ c.loader.block = 1
  BY DEF FetchOK, Blank, is_active
<1>7. Blank(d)
  BY <1>3, <1>5, <1>6 DEF Blank
<1>8. Partial(l, v)
  <2>1. l.block = 1 /\ l.buf = <<>> /\ ~l.overflowed
    BY <1>3, <1>6 DEF Blank
  <2>2. (1 - 1) * BlockSize = 0 /\ 0 <= FileLen[v] /\ 0 <= MAX_CONFIG_SIZE
    BY ContentType, NetbootAssumption
  <2>3. Received(l, v, 0)
    BY <2>1, <2>2, NetbootAssumption DEF Received
  <2> QED BY <2>1, <2>2, <2>3 DEF Partial
<1>9. FetchOK(d, v)
  BY <1>3, <1>5, <1>6, <1>7, <1>8 DEF FetchOK, Blank
<1>10. CardOK(d)
  BY <1>3, <1>4, <1>5 DEF CardOK
<1> QED BY <1>1, <1>9, <1>10

\* The fetch gives up, or its socket is emptied behind it.
LEMMA GiveUpKeeps ==
    ASSUME NEW c, CardOK(c), NEW v, FetchOK(c, v), c.loader.state \notin {"Idle", "SendRrq"}
    PROVE  LET f == [c EXCEPT !.loader.state = "Failed", !.rxq = <<>>]
               e == [c EXCEPT !.rxq = <<>>]
           IN CardOK(f) /\ FetchOK(f, v) /\ CardOK(e) /\ FetchOK(e, v)
<1> DEFINE l == [c.loader EXCEPT !.state = "Failed"]
           f == [c EXCEPT !.loader.state = "Failed", !.rxq = <<>>]
           e == [c EXCEPT !.rxq = <<>>]
<1>0. c \in Cards /\ c.loader \in Loaders /\ <<>> \in Seq(Downs) /\ Len(<<>>) = 0
  BY DEF CardOK, Cards
<1>1. l \in Loaders
  BY <1>0, Zenon DEF Loaders
<1>2. l.state = "Failed" /\ l.buf = c.loader.buf /\ l.overflowed = c.loader.overflowed
  BY <1>0 DEF Loaders
<1>3. f = [c EXCEPT !.loader = l, !.rxq = <<>>]
  BY <1>0 DEF Cards
<1> HIDE DEF l
<1>4. f \in Cards /\ e \in Cards
  BY <1>0, <1>1, <1>3, Zenon DEF Cards
<1>5. /\ f.addr = c.addr /\ f.filterIp = c.filterIp /\ f.started = c.started /\ f.loader = l
      /\ f.rxq = <<>> /\ f.layout = c.layout /\ f.up = c.up
  BY <1>0, <1>3 DEF Cards
<1>6. /\ e.addr = c.addr /\ e.filterIp = c.filterIp /\ e.started = c.started
      /\ e.loader = c.loader /\ e.rxq = <<>> /\ e.layout = c.layout /\ e.up = c.up
  BY <1>0 DEF Cards
<1> HIDE DEF f, e
<1>7. CardOK(f) /\ CardOK(e)
  BY <1>2, <1>4, <1>5, <1>6 DEF CardOK
<1>8. FetchOK(f, v)
  BY <1>0, <1>2, <1>5 DEF FetchOK, Blank, Partial, is_active
<1>9. FetchOK(e, v)
  BY <1>0, <1>6 DEF FetchOK, Blank, is_active
<1> QED BY <1>7, <1>8, <1>9 DEF f, e

\* A packet that is neither the awaited block nor an error is dropped.
LEMMA DropKeeps ==
    ASSUME NEW c, CardOK(c), NEW v, FetchOK(c, v), c.rxq # <<>>
    PROVE  LET d == [c EXCEPT !.rxq = Tail(c.rxq)] IN CardOK(d) /\ FetchOK(d, v)
<1> DEFINE q == Tail(c.rxq)
           d == [c EXCEPT !.rxq = q]
<1>0. c \in Cards /\ c.rxq \in Seq(Downs)
  BY DEF CardOK, Cards
<1>1. q \in Seq(Downs) /\ \A i \in 1 .. Len(q) : From(q[i], v)
  BY <1>0, QueueFacts DEF FetchOK
<1> HIDE DEF q
<1>2. d \in Cards
  BY <1>0, <1>1, Zenon DEF Cards
<1>3. /\ d.addr = c.addr /\ d.filterIp = c.filterIp /\ d.started = c.started
      /\ d.loader = c.loader /\ d.rxq = q /\ d.layout = c.layout /\ d.up = c.up
  BY <1>0 DEF Cards
<1> HIDE DEF d
<1>4. CardOK(d)
  BY <1>2, <1>3 DEF CardOK
<1>5. FetchOK(d, v)
  <2>1. ~Blank(c)
    BY DEF Blank
  <2> QED BY <1>1, <1>3, <2>1 DEF FetchOK
<1> QED BY <1>4, <1>5 DEF d, q

\* The awaited block is copied and acknowledged; the last one ends the fetch, and
\* what is parsed then is the whole file or nothing.
LEMMA AwaitedKeeps ==
    ASSUME NEW c, CardOK(c), NEW v \in Versions, FetchOK(c, v),
           c.loader.state = "WaitData", c.rxq # <<>>, Wanted(c.loader, Head(c.rxq)),
           ~PastDeadline(c.loader)
    PROVE  CardOK(WaitData(c)) /\ FetchOK(WaitData(c), v)
<1>0. c \in Cards /\ c.loader \in Loaders /\ c.rxq \in Seq(Downs) /\ c.up \in SUBSET Ups
      /\ c.layout \in Seq(Units)
  BY DEF CardOK, Cards
<1>1. PICK p : p = Head(c.rxq)
  OBVIOUS
<1>2. PICK q : q = Tail(c.rxq)
  OBVIOUS
<1>3. From(p, v) /\ q \in Seq(Downs) /\ \A i \in 1 .. Len(q) : From(q[i], v)
  BY <1>0, <1>1, <1>2, QueueFacts DEF FetchOK
<1>4. PICK b \in 1 .. Blocks(v) : p = Data(v, b)
  BY <1>1, <1>3 DEF From, Wanted, Error
<1>5. c.loader.block = b /\ p.block = b /\ p.payload = Block(v, b)
  BY <1>1, <1>4 DEF Wanted, Data
<1>6. Received(c.loader, v, (b - 1) * BlockSize)
  BY <1>5 DEF FetchOK, Partial
<1>7. PICK t : t = Copy(c.loader, p)
  OBVIOUS
<1>8. /\ t \in Loaders /\ Len(t.buf) <= MAX_CONFIG_SIZE
      /\ t.state = c.loader.state /\ t.block = c.loader.block
      /\ Received(t, v, (b - 1) * BlockSize + Len(p.payload))
  BY <1>0, <1>4, <1>6, <1>7, CopyExtends
<1>9. Rrq \notin up \cup c.up
  BY DEF FetchOK, Blank
<1>10. c.up \cup {Ack(p.block)} \in SUBSET Ups /\ Rrq \notin up \cup (c.up \cup {Ack(p.block)})
  <2>1. Ack(p.block) \in Ups
    BY <1>5, BlockNumbers DEF Ups
  <2>2. Ack(p.block) # Rrq
    BY DEF Ack, Rrq
  <2> QED BY <1>0, <1>9, <2>1, <2>2
<1>11. /\ (b - 1) * BlockSize \in Nat /\ b * BlockSize = (b - 1) * BlockSize + BlockSize
       /\ Len(p.payload) = IF (b - 1) * BlockSize + BlockSize < FileLen[v] THEN BlockSize
                           ELSE FileLen[v] - (b - 1) * BlockSize
       /\ FileLen[v] \in Nat /\ BlockSize \in Nat \ {0}
       /\ (b - 1) * BlockSize <= FileLen[v]
  BY <1>5, BlockFacts, ContentType, NetbootAssumption
<1> DEFINE u == c.up \cup {Ack(p.block)}
<1>12. CASE Len(p.payload) < BlockSize
  <2> DEFINE l == [t EXCEPT !.state = "Done"]
             y == IF parse_config(t) THEN t.buf ELSE c.layout
             a == [c EXCEPT !.rxq = q]
             d == [a EXCEPT !.up = a.up \cup {Ack(p.block)}, !.loader = l, !.layout = y]
  <2>1. l \in Loaders
    BY <1>8, Zenon DEF Loaders
  <2>2. l.state = "Done" /\ l.buf = t.buf
    BY <1>8 DEF Loaders
  <2>3. y \in {<<>>, Content(v)} /\ y \in Seq(Units)
    <3>1. (b - 1) * BlockSize + Len(p.payload) = FileLen[v]
      BY <1>11, <1>12
    <3>2. parse_config(t) => t.buf = Content(v)
      BY <1>8, <3>1, ReceivedAll DEF parse_config
    <3>3. c.layout \in {<<>>, Content(v)} /\ t.buf \in Seq(Units)
      BY <1>8 DEF FetchOK, Loaders
    <3> QED BY <1>0, <3>2, <3>3
  <2>4. WaitData(c) = d
    BY <1>1, <1>2, <1>7, <1>12 DEF WaitData
  <2>5. a \in Cards /\ a.up = c.up
    <3>1. a \in Cards
      BY <1>0, <1>3, Zenon DEF Cards
    <3> QED BY <1>0, <3>1 DEF Cards
  <2>6. /\ a.addr = c.addr /\ a.filterIp = c.filterIp /\ a.started = c.started
        /\ a.rxq = q
    BY <1>0 DEF Cards
  <2> HIDE DEF l, y, a
  <2>7. d \in Cards
    BY <1>10, <2>1, <2>3, <2>5, Zenon DEF Cards
  <2>8. /\ d.addr = c.addr /\ d.filterIp = c.filterIp /\ d.started = c.started
        /\ d.loader = l /\ d.rxq = q /\ d.layout = y /\ d.up = u
    BY <2>5, <2>6 DEF Cards
  <2> HIDE DEF d
  <2>9. CardOK(d)
    BY <1>8, <2>2, <2>7, <2>8 DEF CardOK
  <2>10. FetchOK(d, v)
    BY <1>3, <1>10, <2>2, <2>3, <2>8 DEF FetchOK, Partial
  <2> QED BY <2>4, <2>9, <2>10
<1>13. CASE ~(Len(p.payload) < BlockSize)
  <2> DEFINE l == [t EXCEPT !.block = t.block + 1, !.late = FALSE]
             a == [c EXCEPT !.rxq = q]
             d == [a EXCEPT !.up = a.up \cup {Ack(p.block)}, !.loader = l]
  <2>1. l \in Loaders
    <3>1. t.block + 1 \in Nat
      BY <1>8 DEF Loaders
    <3> QED BY <1>8, <3>1, Zenon DEF Loaders
  <2>2. /\ l.state = "WaitData" /\ l.buf = t.buf /\ l.overflowed = t.overflowed
        /\ l.block = b + 1
    BY <1>5, <1>8 DEF Loaders
  <2>3. WaitData(c) = d
    BY <1>1, <1>2, <1>7, <1>13 DEF WaitData
  <2>4. a \in Cards /\ a.up = c.up
    <3>1. a \in Cards
      BY <1>0, <1>3, Zenon DEF Cards
    <3> QED BY <1>0, <3>1 DEF Cards
  <2>5. /\ a.addr = c.addr /\ a.filterIp = c.filterIp /\ a.started = c.started
        /\ a.rxq = q /\ a.layout = c.layout
    BY <1>0 DEF Cards
  <2> HIDE DEF l, a
  <2>6. d \in Cards
    BY <1>10, <2>1, <2>4, Zenon DEF Cards
  <2>7. /\ d.addr = c.addr /\ d.filterIp = c.filterIp /\ d.started = c.started
        /\ d.loader = l /\ d.rxq = q /\ d.layout = c.layout /\ d.up = u
    BY <2>4, <2>5 DEF Cards
  <2> HIDE DEF d
  <2>8. CardOK(d)
    BY <1>8, <2>2, <2>6, <2>7 DEF CardOK
  <2>9. Partial(l, v)
    <3>1. Len(p.payload) = BlockSize /\ b \in Nat
      BY <1>11, <1>13
    <3>2. (b + 1) - 1 = b /\ b + 1 # 0
      BY <3>1
    <3>3. Received(l, v, b * BlockSize)
      BY <1>8, <1>11, <2>2, <3>1 DEF Received
    <3> QED BY <2>2, <3>2, <3>3 DEF Partial
  <2>10. FetchOK(d, v)
    BY <1>3, <1>10, <2>2, <2>7, <2>9 DEF FetchOK
  <2> QED BY <2>3, <2>8, <2>10
<1> QED BY <1>12, <1>13

\* The whole of handle_tftp.
LEMMA TftpHandlerKeeps ==
    ASSUME NEW c, CardOK(c), NEW v \in Versions, FetchOK(c, v)
    PROVE  CardOK(handle_tftp(c)) /\ FetchOK(handle_tftp(c), v)
<1>1. CASE c.loader.state = "SendRrq"
  BY <1>1, RequestKeeps
<1>2. CASE c.loader.state = "WaitData"
  <2>1. handle_tftp(c) = WaitData(c)
    BY <1>2 DEF handle_tftp, is_done
  <2>2. CASE PastDeadline(c.loader)
    <3>1. WaitData(c) = [c EXCEPT !.loader.state = "Failed", !.rxq = <<>>]
      BY <2>2 DEF WaitData
    <3>2. LET f == [c EXCEPT !.loader.state = "Failed", !.rxq = <<>>] IN CardOK(f) /\ FetchOK(f, v)
      BY <1>2, GiveUpKeeps
    <3> QED BY <2>1, <3>1, <3>2, Zenon
  <2>3. CASE ~PastDeadline(c.loader) /\ c.rxq = <<>>
    <3>1. WaitData(c) = c
      BY <2>3 DEF WaitData
    <3> QED BY <2>1, <3>1
  <2>4. CASE ~PastDeadline(c.loader) /\ c.rxq # <<>> /\ Wanted(c.loader, Head(c.rxq))
    BY <1>2, <2>1, <2>4, AwaitedKeeps
  <2>5. CASE ~PastDeadline(c.loader) /\ c.rxq # <<>> /\ ~Wanted(c.loader, Head(c.rxq))
    <3> DEFINE d == [c EXCEPT !.rxq = Tail(c.rxq)]
    <3>1. CardOK(d) /\ FetchOK(d, v)
      BY <2>5, DropKeeps
    <3>2. d.loader = c.loader
      BY DEF CardOK, Cards
    <3>3. WaitData(c) \in {d, [d EXCEPT !.loader.state = "Failed", !.rxq = <<>>]}
      BY <2>5 DEF WaitData
    <3> HIDE DEF d
    <3>4. LET f == [d EXCEPT !.loader.state = "Failed", !.rxq = <<>>] IN CardOK(f) /\ FetchOK(f, v)
      BY <1>2, <3>1, <3>2, GiveUpKeeps
    <3> QED BY <2>1, <3>1, <3>3, <3>4
  <2> QED BY <2>2, <2>3, <2>4, <2>5
<1>3. CASE c.loader.state = "Done"
  <2>1. handle_tftp(c) = [c EXCEPT !.rxq = <<>>]
    BY <1>3 DEF handle_tftp, is_done
  <2>2. LET e == [c EXCEPT !.rxq = <<>>] IN CardOK(e) /\ FetchOK(e, v)
    BY <1>3, GiveUpKeeps
  <2> QED BY <2>1, <2>2, Zenon
<1>4. CASE c.loader.state \notin {"SendRrq", "WaitData", "Done"}
  <2>1. handle_tftp(c) = c
    BY <1>4 DEF handle_tftp, is_done
  <2> QED BY <2>1
<1> QED BY <1>1, <1>2, <1>3, <1>4

-----------------------------------------------------------------------------
(* The specification.                                                      *)

\* The invariant is what the handlers find in the card's state.
LEMMA CardFields ==
    /\ Card.dhcp = dhcp /\ Card.addr = addr /\ Card.filterIp = filterIp
    /\ Card.started = started /\ Card.loader = loader /\ Card.rxq = rxq
    /\ Card.layout = layout /\ Card.up = {}
BY DEF Card

\* The states a pass of the handler goes through, and what is left of it.
Passes(received, attended, fetched, c, slow, m, http) ==
    /\ received = IF slow THEN poll(Card, m) ELSE Card
    /\ attended = IF slow \/ tftp_active THEN handle_dhcp(received) ELSE received
    /\ fetched = IF slow \/ tftp_active THEN handle_tftp(attended) ELSE attended
    /\ c = IF slow \/ tftp_active \/ http THEN poll(fetched, Other) ELSE fetched
Leaves(c) ==
    /\ dhcp' = c.dhcp /\ addr' = c.addr /\ filterIp' = c.filterIp
    /\ started' = c.started /\ loader' = c.loader /\ rxq' = c.rxq
    /\ layout' = c.layout /\ up' = up \cup c.up
    /\ UNCHANGED <<clock, down, served, session>>

LEMMA HandlerPasses ==
    ASSUME NetbootInv, NEW slow \in BOOLEAN, NEW http \in BOOLEAN, NEW m,
           m.type \in {"OFFER", "ACK"} => m.ip \in Leases,
           network_handler(slow, m, http), NEW v \in Versions, TransferOf(v)
    PROVE  \E received, attended, fetched, c :
              /\ Passes(received, attended, fetched, c, slow, m, http) /\ Leaves(c)
              /\ CardOK(Card) /\ CardOK(received) /\ CardOK(attended) /\ CardOK(fetched)
              /\ CardOK(c) /\ FetchOK(c, v)
<1>2. CardOK(Card)
  <2>1. Card \in Cards
    BY DEF NetbootInv, NetbootTypeOK, Card, Cards
  <2> QED BY <2>1, CardFields DEF NetbootInv, NetbootTypeOK, AskedOnce, FilterFollows, CardOK
<1>3. FetchOK(Card, v)
  BY CardFields
  DEF NetbootInv, AskedOnce, Untouched, TransferOf, FetchOK, Blank, Quiet
<1>4. Other.type \in {"OFFER", "ACK"} => Other.ip \in Leases
  BY DEF Other
<1>5. PICK received : received = IF slow THEN poll(Card, m) ELSE Card
  OBVIOUS
<1>6. CardOK(received) /\ FetchOK(received, v)
  BY <1>2, <1>3, <1>5, PollEffect
<1>7. PICK attended : attended = IF slow \/ tftp_active THEN handle_dhcp(received) ELSE received
  OBVIOUS
<1>8. CardOK(attended) /\ FetchOK(attended, v)
  BY <1>6, <1>7, DhcpHandlerKeeps
<1>9. PICK fetched : fetched = IF slow \/ tftp_active THEN handle_tftp(attended) ELSE attended
  OBVIOUS
<1>10. CardOK(fetched) /\ FetchOK(fetched, v)
  BY <1>8, <1>9, TftpHandlerKeeps
<1>11. PICK c : c = IF slow \/ tftp_active \/ http THEN poll(fetched, Other) ELSE fetched
  OBVIOUS
<1>12. CardOK(c) /\ FetchOK(c, v)
  BY <1>4, <1>10, <1>11, PollEffect
<1>13. Leaves(c)
  BY <1>5, <1>7, <1>9, <1>11 DEF network_handler, Leaves
<1>14. Passes(received, attended, fetched, c, slow, m, http)
  BY <1>5, <1>7, <1>9, <1>11 DEF Passes
<1> QED BY <1>2, <1>6, <1>8, <1>10, <1>12, <1>13, <1>14, Zenon

\* What is left of a pass of the handler is the card's state again.
LEMMA HandlerStep ==
    ASSUME NetbootInv, NEW slow \in BOOLEAN, NEW http \in BOOLEAN, NEW m,
           m.type \in {"OFFER", "ACK"} => m.ip \in Leases,
           network_handler(slow, m, http)
    PROVE  NetbootInv'
<1>1. PICK v \in Versions : TransferOf(v)
  BY DEF NetbootInv
<1>2. PICK c : Leaves(c) /\ CardOK(c) /\ FetchOK(c, v)
  BY <1>1, HandlerPasses
<1>3. NetbootTypeOK'
  BY <1>2 DEF NetbootInv, NetbootTypeOK, CardOK, Cards, Leaves
<1>4. AskedOnce'
  BY <1>2 DEF AskedOnce, Untouched, CardOK, FetchOK, Blank, Quiet, Leaves
<1>5. TransferOf(v)'
  BY <1>1, <1>2 DEF TransferOf, FetchOK, Leaves
<1>6. FilterFollows'
  BY <1>2 DEF FilterFollows, CardOK, Leaves
<1> QED BY <1>3, <1>4, <1>5, <1>6 DEF NetbootInv

\* Before the first address.
LEMMA NetbootInit == Init => NetbootInv
<1> SUFFICES ASSUME Init PROVE NetbootInv
  OBVIOUS
<1>1. dhcp \in Clients
  BY DhcpAssumption DEF Init, NewClient, Clients
<1>2. 1 \in Versions /\ 0 <= MAX_CONFIG_SIZE /\ 0 \in 0 .. MaxSends
  BY NetbootAssumption DEF Versions
<1>3. <<>> \in Seq(Units) /\ <<>> \in Seq(Downs) /\ Len(<<>>) = 0
  OBVIOUS
<1>4. NetbootTypeOK
  BY <1>1, <1>2, <1>3 DEF Init, NetbootTypeOK, Addresses, Loaders, Sessions, NoSession
<1>5. AskedOnce
  BY DEF Init, AskedOnce, Untouched, is_active
<1>6. TransferOf(1)
  BY <1>3 DEF Init, TransferOf, Partial
<1>7. FilterFollows
  BY DEF Init, FilterFollows
<1> QED BY <1>2, <1>4, <1>5, <1>6, <1>7 DEF NetbootInv

\* Data packets are what the network may carry to the card.
LEMMA DataType ==
    ASSUME NEW v \in Versions, NEW b \in 1 .. Blocks(v) PROVE Data(v, b) \in Downs
<1>1. b \in BlockIds
  BY BlockNumbers
<1> QED BY <1>1 DEF Downs

\* Clocks and edits of the record touch neither the fetch nor the address.
LEMMA ClockStep ==
    ASSUME NetbootInv, RetryTime \/ LeaseTime \/ Clock \/ Deadline \/ EditRecord
    PROVE  NetbootInv'
<1>1. PICK v \in Versions : TransferOf(v)
  BY DEF NetbootInv
<1>2. CASE RetryTime \/ LeaseTime
  <2>1. dhcp' \in Clients
    <3>1. dhcp \in Clients
      BY DEF NetbootInv, NetbootTypeOK
    <3> QED BY <1>2, <3>1, Zenon DEF RetryTime, LeaseTime, Clients
  <2>2. UNCHANGED <<clock, addr, filterIp, started, loader, rxq, layout, netVars>>
    BY <1>2 DEF RetryTime, LeaseTime
  <2> QED
    BY <1>1, <2>1, <2>2
    DEF NetbootInv, NetbootTypeOK, AskedOnce, Untouched, TransferOf, FilterFollows, netVars
<1>3. CASE Clock \/ EditRecord
  BY <1>1, <1>3
  DEF NetbootInv, NetbootTypeOK, AskedOnce, Untouched, TransferOf, FilterFollows, netVars,
      bootVars, Clock, EditRecord
<1>4. CASE Deadline
  <2>1. loader \in Loaders /\ Len(loader.buf) <= MAX_CONFIG_SIZE
    BY DEF NetbootInv, NetbootTypeOK
  <2>2. loader' \in Loaders
    BY <1>4, <2>1, Zenon DEF Deadline, Loaders
  <2>3. /\ loader'.state = loader.state /\ loader'.block = loader.block
        /\ loader'.buf = loader.buf /\ loader'.overflowed = loader.overflowed
    BY <1>4, <2>1 DEF Deadline, Loaders
  <2>4. UNCHANGED <<clock, dhcp, addr, filterIp, started, rxq, layout, netVars>>
    BY <1>4 DEF Deadline
  <2>5. Partial(loader', v)
    BY <1>1, <2>3 DEF TransferOf, Partial, Received
  <2>6. TransferOf(v)'
    BY <1>1, <2>4, <2>5 DEF TransferOf, netVars
  <2>7. AskedOnce'
    BY <2>3, <2>4 DEF NetbootInv, AskedOnce, Untouched, is_active, netVars
  <2>8. NetbootTypeOK' /\ FilterFollows'
    BY <2>1, <2>2, <2>3, <2>4 DEF NetbootInv, NetbootTypeOK, FilterFollows, netVars
  <2> QED BY <2>6, <2>7, <2>8 DEF NetbootInv
<1> QED BY <1>2, <1>3, <1>4

\* The network delivers and loses packets of the one transfer.
LEMMA NetworkStep ==
    ASSUME NetbootInv, NEW p, Deliver(p) \/ Lose(p)
    PROVE  NetbootInv'
<1>0. rxq \in Seq(Downs) /\ up \subseteq Ups /\ down \subseteq Downs
  BY DEF NetbootInv, NetbootTypeOK
<1>1. PICK v \in Versions : TransferOf(v)
  BY DEF NetbootInv
<1>2. CASE Deliver(p)
  <2>1. p \in down /\ down # {} /\ p \in Downs /\ From(p, v)
    BY <1>0, <1>1, <1>2 DEF Deliver, TransferOf
  <2>2. ~Untouched
    BY <2>1 DEF Untouched
  <2>3. /\ rxq' \in Seq(Downs)
        /\ \A i \in 1 .. Len(rxq') : From(rxq'[i], v)
    <3>1. CASE rxq' = rxq
      BY <1>0, <1>1, <3>1 DEF TransferOf
    <3>2. CASE rxq' = Append(rxq, p)
      <4>1. /\ Append(rxq, p) \in Seq(Downs) /\ Len(Append(rxq, p)) = Len(rxq) + 1
            /\ \A i \in 1 .. Len(rxq) : Append(rxq, p)[i] = rxq[i]
            /\ Append(rxq, p)[Len(rxq) + 1] = p
            /\ Len(rxq) \in Nat
        BY <1>0, <2>1, AppendProperties, LenProperties
      <4>2. \A i \in 1 .. Len(rxq) : From(rxq[i], v)
        BY <1>1 DEF TransferOf
      <4> QED BY <2>1, <3>2, <4>1, <4>2
    <3> QED BY <1>2, <3>1, <3>2 DEF Deliver
  <2>4. UNCHANGED <<clock, dhcp, addr, filterIp, started, loader, layout, up, served, session>>
        /\ down' \subseteq down
    BY <1>2 DEF Deliver
  <2>5. NetbootTypeOK' /\ FilterFollows'
    BY <1>0, <2>3, <2>4 DEF NetbootInv, NetbootTypeOK, FilterFollows
  <2>6. AskedOnce'
    BY <2>2, <2>4 DEF NetbootInv, AskedOnce
  <2>7. TransferOf(v)'
    BY <1>1, <2>3, <2>4 DEF TransferOf
  <2> QED BY <2>5, <2>6, <2>7 DEF NetbootInv
<1>3. CASE Lose(p)
  <2>1. UNCHANGED <<clock, bootVars, served, session>> /\ up' \subseteq up /\ down' \subseteq down
    BY <1>3 DEF Lose
  <2>2. NetbootTypeOK' /\ FilterFollows'
    BY <1>0, <2>1 DEF NetbootInv, NetbootTypeOK, FilterFollows, bootVars
  <2>3. AskedOnce'
    BY <2>1 DEF NetbootInv, AskedOnce, Untouched, bootVars
  <2>4. TransferOf(v)'
    BY <1>1, <2>1 DEF TransferOf, bootVars
  <2> QED BY <2>2, <2>3, <2>4 DEF NetbootInv
<1> QED BY <1>2, <1>3

\* The server answers the one request, with the version of that moment.
LEMMA RequestStep ==
    ASSUME NetbootInv, NEW found \in BOOLEAN, ServerRequest(found)
    PROVE  NetbootInv'
<1>0. /\ Rrq \in up /\ up' = up \ {Rrq} /\ UNCHANGED <<clock, bootVars, served>>
      /\ served \in Versions /\ up \subseteq Ups
  BY DEF ServerRequest, NetbootInv, NetbootTypeOK
<1>1. Untouched /\ loader.state \notin {"Idle", "SendRrq"}
  BY <1>0 DEF NetbootInv, AskedOnce
<1>2. 1 \in 1 .. Blocks(served) /\ 1 \in 0 .. MaxSends
  BY <1>0, BlockCount, NetbootAssumption
<1>3. \/ session' = [v |-> served, block |-> 1, sends |-> 1] /\ down' = {Data(served, 1)}
      \/ session' = NoSession /\ down' = {Error}
  BY <1>1 DEF ServerRequest, Untouched
<1>4. session' \in Sessions /\ down' \subseteq Downs
  <2>1. Data(served, 1) \in Downs /\ Error \in Downs
    BY <1>0, <1>2, DataType DEF Downs
  <2>2. NoSession \in Sessions /\ [v |-> served, block |-> 1, sends |-> 1] \in Sessions
    BY <1>0, <1>2, NetbootAssumption DEF Sessions, NoSession
  <2> QED BY <1>3, <2>1, <2>2
<1>5. NetbootTypeOK' /\ FilterFollows'
  BY <1>0, <1>4 DEF NetbootInv, NetbootTypeOK, FilterFollows, bootVars
<1>6. AskedOnce'
  BY <1>0, <1>1 DEF NetbootInv, AskedOnce, bootVars
<1>7. Partial(loader, served)
  <2>1. (1 - 1) * BlockSize = 0 /\ 0 <= FileLen[served] /\ 0 <= MAX_CONFIG_SIZE
    BY <1>0, ContentType, NetbootAssumption
  <2>2. loader.state = "WaitData" => loader.block = 1
    BY <1>1 DEF Untouched, is_active
  <2>3. Received(loader, served, 0)
    BY <1>1, <2>1, NetbootAssumption DEF Received, Untouched
  <2> QED BY <2>1, <2>2, <2>3 DEF Partial
<1>8. /\ session' # NoSession => session'.v = served /\ session'.block \in 1 .. Blocks(served)
      /\ \A p \in down' : From(p, served)
  BY <1>2, <1>3 DEF From
<1>9. TransferOf(served)'
  BY <1>0, <1>1, <1>7, <1>8 DEF TransferOf, Untouched, bootVars
<1> QED BY <1>0, <1>5, <1>6, <1>9 DEF NetbootInv

\* The server goes on with the transfer it began, whatever the record is now.
LEMMA TransferStep ==
    ASSUME NetbootInv, ServerRetry \/ \E b \in BlockIds : ServerAck(b)
    PROVE  NetbootInv'
<1>0. /\ UNCHANGED <<clock, bootVars, served>> /\ up' \subseteq up /\ up \subseteq Ups
      /\ session \in Sessions /\ down \subseteq Downs
  BY DEF ServerRetry, ServerAck, NetbootInv, NetbootTypeOK
<1>1. PICK v \in Versions : TransferOf(v)
  BY DEF NetbootInv
<1>2. \/ session' \in {session, NoSession} /\ down' = down
      \/ /\ session # NoSession
         /\ \E b \in 1 .. Blocks(v), n \in 0 .. MaxSends :
               /\ session' = [session EXCEPT !.block = b, !.sends = n]
               /\ down' = down \cup {Data(v, b)}
  <2>1. CASE ServerRetry /\ session.sends < MaxSends
    <3>1. session # NoSession /\ session.v = v /\ session.block \in 1 .. Blocks(v)
      BY <1>1, <2>1 DEF ServerRetry, TransferOf
    <3>2. session.sends + 1 \in 0 .. MaxSends
      BY <1>0, <2>1, NetbootAssumption DEF Sessions
    <3>3. session' = [session EXCEPT !.block = session.block, !.sends = session.sends + 1]
      BY <1>0, <2>1 DEF ServerRetry, Sessions
    <3>4. down' = down \cup {Data(v, session.block)}
      BY <2>1, <3>1 DEF ServerRetry
    <3> QED BY <3>1, <3>2, <3>3, <3>4
  <2>2. CASE ServerRetry /\ ~(session.sends < MaxSends)
    BY <2>2 DEF ServerRetry
  <2>3. ASSUME NEW b \in BlockIds, ServerAck(b), session.block = b, b # Blocks(session.v)
        PROVE  /\ session # NoSession
               /\ \E a \in 1 .. Blocks(v), n \in 0 .. MaxSends :
                    /\ session' = [session EXCEPT !.block = a, !.sends = n]
                    /\ down' = down \cup {Data(v, a)}
    <3>1. b # 0
      BY DEF BlockIds
    <3>2. session # NoSession /\ session.v = v /\ b \in 1 .. Blocks(v)
      BY <1>1, <2>3, <3>1 DEF NoSession, TransferOf
    <3>3. b + 1 \in 1 .. Blocks(v) /\ 1 \in 0 .. MaxSends
      BY <2>3, <3>2, BlockCount, NetbootAssumption
    <3>4. /\ session' = [session EXCEPT !.block = b + 1, !.sends = 1]
          /\ down' = down \cup {Data(v, b + 1)}
      BY <2>3, <3>2 DEF ServerAck
    <3> QED BY <3>2, <3>3, <3>4
  <2>4. ASSUME NEW b \in BlockIds, ServerAck(b), session.block # b \/ b = Blocks(session.v)
        PROVE  session' \in {session, NoSession} /\ down' = down
    BY <2>4 DEF ServerAck
  <2> QED BY <2>1, <2>2, <2>3, <2>4
<1>3. CASE session' \in {session, NoSession} /\ down' = down
  <2>1. NoSession \in Sessions
    BY NetbootAssumption DEF NoSession, Sessions
  <2>2. NetbootTypeOK' /\ FilterFollows'
    BY <1>0, <1>3, <2>1 DEF NetbootInv, NetbootTypeOK, FilterFollows, bootVars
  <2>3. AskedOnce'
    BY <1>0, <1>3 DEF NetbootInv, AskedOnce, Untouched, bootVars
  <2>4. TransferOf(v)'
    BY <1>0, <1>1, <1>3 DEF TransferOf, bootVars
  <2> QED BY <2>2, <2>3, <2>4 DEF NetbootInv
<1>4. ASSUME session # NoSession, NEW b \in 1 .. Blocks(v), NEW n \in 0 .. MaxSends,
             session' = [session EXCEPT !.block = b, !.sends = n],
             down' = down \cup {Data(v, b)}
      PROVE  NetbootInv'
  <2>1. session' \in Sessions /\ session'.v = session.v /\ session'.block = b
    <3>1. b \in Nat
      BY BlockCount
    <3>2. session' \in Sessions
      BY <1>0, <1>4, <3>1, Zenon DEF Sessions
    <3> QED BY <1>0, <1>4, <3>2 DEF Sessions
  <2>2. down' \subseteq Downs
    BY <1>0, <1>4, DataType
  <2>3. NetbootTypeOK' /\ FilterFollows'
    BY <1>0, <2>1, <2>2 DEF NetbootInv, NetbootTypeOK, FilterFollows, bootVars
  <2>4. AskedOnce'
    BY <1>0, <1>4 DEF NetbootInv, AskedOnce, Untouched, bootVars
  <2>5. TransferOf(v)'
    <3>1. session.v = v /\ \A p \in down : From(p, v)
      BY <1>1, <1>4 DEF TransferOf
    <3>2. \A p \in down' : From(p, v)
      BY <1>4, <3>1 DEF From
    <3> QED BY <1>0, <1>1, <2>1, <3>1, <3>2 DEF TransferOf, bootVars
  <2> QED BY <2>3, <2>4, <2>5 DEF NetbootInv
<1> QED BY <1>2, <1>3, <1>4

\* Every step keeps the invariant.
LEMMA NetbootStep == NetbootInv /\ [Next]_vars => NetbootInv'
<1> SUFFICES ASSUME NetbootInv, [Next]_vars PROVE NetbootInv'
  OBVIOUS
<1>1. CASE SlowPacket \/ DhcpReply \/ OtherInterrupt \/ HttpInterrupt
  <2>1. Other.type \in {"OFFER", "ACK"} => Other.ip \in Leases
    BY DEF Other
  <2>2. \A m \in Replies(dhcp) : m.type \in {"OFFER", "ACK"} => m.ip \in Leases
    BY DEF Replies
  <2>3. ASSUME NEW m \in Replies(dhcp), network_handler(TRUE, m, FALSE) PROVE NetbootInv'
    BY <2>2, <2>3, HandlerStep
  <2>4. ASSUME NEW slow \in BOOLEAN, NEW http \in BOOLEAN, network_handler(slow, Other, http)
        PROVE  NetbootInv'
    BY <2>1, <2>4, HandlerStep
  <2> QED BY <1>1, <2>3, <2>4 DEF SlowPacket, DhcpReply, OtherInterrupt, HttpInterrupt
<1>2. CASE RetryTime \/ LeaseTime \/ Clock \/ Deadline \/ EditRecord
  BY <1>2, ClockStep
<1>3. ASSUME NEW p, Deliver(p) \/ Lose(p) PROVE NetbootInv'
  BY <1>3, NetworkStep
<1>4. ASSUME NEW found \in BOOLEAN, ServerRequest(found) PROVE NetbootInv'
  BY <1>4, RequestStep
<1>5. CASE ServerRetry \/ \E b \in BlockIds : ServerAck(b)
  BY <1>5, TransferStep
<1>6. CASE UNCHANGED vars
  BY <1>6
  DEF vars, bootVars, netVars, NetbootInv, NetbootTypeOK, AskedOnce, Untouched, TransferOf,
      FilterFollows
<1> QED BY <1>1, <1>2, <1>3, <1>4, <1>5, <1>6 DEF Next

\* The configuration buffer never overruns and every register keeps its range,
\* whatever the servers and the network do.
THEOREM ConfigFits == Spec => []NetbootTypeOK
<1>1. NetbootInv => NetbootTypeOK
  BY DEF NetbootInv
<1> QED BY <1>1, NetbootInit, NetbootStep, PTL DEF Spec

\* The layout applied is the built-in one or one whole version of the record:
\* only one request is ever sent, so no two versions meet in the buffer, and a
\* file that does not fit is not parsed.
THEOREM LayoutsWhole == Spec => []WholeConfig
<1>1. NetbootInv => WholeConfig
  BY DEF NetbootInv, TransferOf, WholeConfig
<1> QED BY <1>1, NetbootInit, NetbootStep, PTL DEF Spec

\* The gateware's filter has the card's address whenever it has one.
THEOREM FilterHasAddress == Spec => []FilterFollows
<1>1. NetbootInv => FilterFollows
  BY DEF NetbootInv
<1> QED BY <1>1, NetbootInit, NetbootStep, PTL DEF Spec

-----------------------------------------------------------------------------
(* The lease.                                                              *)

\* A client that has nothing to report holds the address a, or held it.
Says(d, a) == ~d.config_changed => d.state = "Renewing" /\ d.ip = a
Fresh(d) == d.state = "Renewing" => ~d.expired
LeaseOK(c) == c.addr \in Leases => Says(c.dhcp, c.addr)
Leased(c) == c.addr \in Leases => Holds(c.dhcp, c.addr)
\* The inductive invariant behind LeaseHonoured.
LeaseInv == addr \in Leases => Says(dhcp, addr)

\* Fields of a client after each entry point.
LEMMA ClientFields ==
    ASSUME NEW d \in Clients, NEW ip, NEW k
    PROVE  /\ reset(d).state = "Discovering"
           /\ reset(d).config_changed = (d.config_changed \/ d.state = "Renewing")
           /\ Acknowledged(d, ip).state = "Renewing" /\ Acknowledged(d, ip).ip = ip
           /\ ~Acknowledged(d, ip).expired
           /\ ~Acknowledged(d, ip).config_changed => ~d.config_changed /\ d.ip = ip
           /\ Send(d, k).state = d.state /\ Send(d, k).ip = d.ip
           /\ Send(d, k).config_changed = d.config_changed /\ Send(d, k).expired = d.expired
<1>1. ~Acknowledged(d, ip).config_changed => ~d.config_changed /\ d.ip = ip
  BY Zenon DEF Acknowledged, Clients
<1>2. reset(d).config_changed = (d.config_changed \/ d.state = "Renewing")
  BY DEF Clients, reset
<1> QED BY <1>1, <1>2 DEF Clients, reset, Acknowledged, Send

\* A packet that takes the lease away, or another address, is news.
LEMMA ProcessSays ==
    ASSUME NEW d \in Clients, NEW m, NEW a, Says(d, a)
    PROVE  Says(process(d, m), a)
<1>1. CASE d.state = "Discovering" /\ m.type = "OFFER"
  <2>1. process(d, m).config_changed = d.config_changed
    BY <1>1 DEF process, Clients
  <2> QED BY <1>1, <2>1 DEF Says
<1>2. CASE d.state # "Discovering" /\ m.type = "ACK"
  <2>1. process(d, m) = Acknowledged(d, m.ip)
    BY <1>2 DEF process
  <2>2. /\ process(d, m).state = "Renewing" /\ process(d, m).ip = m.ip
        /\ ~process(d, m).config_changed => ~d.config_changed /\ d.ip = m.ip
    BY <2>1, ClientFields
  <2> QED BY <2>2 DEF Says
<1>3. CASE d.state # "Discovering" /\ m.type = "NAK"
  <2>1. process(d, m) = reset(d)
    BY <1>3 DEF process
  <2>2. reset(d).config_changed = (d.config_changed \/ d.state = "Renewing")
    BY ClientFields
  <2>3. process(d, m).config_changed
    BY <1>3, <2>1, <2>2 DEF Says
  <2> QED BY <2>3 DEF Says
<1>4. CASE process(d, m) = d
  BY <1>4
<1> QED BY <1>1, <1>2, <1>3, <1>4 DEF process

\* The client gives up an expired lease when it is polled, and says so; a lease
\* that runs is kept.
LEMMA DispatchSays ==
    ASSUME NEW d \in Clients
    PROVE  /\ Fresh(dispatch(d))
           /\ \A a : Says(d, a) => Says(dispatch(d), a)
           /\ \A a : Holds(d, a) => Holds(dispatch(d), a)
<1> DEFINE r == Send(d, "REQUEST")
           q == [r EXCEPT !.retry = r.retry + 1]
<1>1. /\ r \in Clients /\ r.state = d.state /\ r.ip = d.ip
      /\ r.config_changed = d.config_changed /\ r.expired = d.expired
  BY SendType, ClientFields
<1>2. CASE \/ d.state = "Discovering" /\ d.due
           \/ d.state = "Requesting" /\ d.due /\ d.retry >= REQUEST_RETRIES
           \/ d.state = "Renewing" /\ d.expired
  <2> DEFINE e == IF d.state = "Discovering" THEN d ELSE reset(d)
  <2>1. dispatch(d) = Send(e, "DISCOVER")
    BY <1>2, DhcpAssumption DEF dispatch, Clients
  <2>2. /\ e \in Clients /\ e.state = "Discovering"
        /\ d.state = "Renewing" => e.config_changed
        /\ d.config_changed => e.config_changed
    BY ResetType, ClientFields
  <2> HIDE DEF e
  <2>3. /\ dispatch(d).state = "Discovering"
        /\ dispatch(d).config_changed = e.config_changed
    BY <2>1, <2>2, ClientFields
  <2>4. \A a : ~Holds(d, a)
    BY <1>2 DEF Holds
  <2> QED BY <2>2, <2>3, <2>4 DEF Fresh, Says
<1>3. CASE d.state = "Requesting" /\ d.due /\ d.retry < REQUEST_RETRIES
  <2>1. dispatch(d) = q
    BY <1>3, DhcpAssumption DEF dispatch, Clients
  <2> HIDE DEF r
  <2>2. q.state = d.state /\ q.config_changed = d.config_changed
    BY <1>1 DEF Clients
  <2> HIDE DEF q
  <2> QED BY <1>3, <2>1, <2>2 DEF Fresh, Says, Holds
<1>4. CASE d.state = "Renewing" /\ d.due /\ ~d.expired
  <2>1. dispatch(d) = r
    BY <1>4 DEF dispatch
  <2> HIDE DEF r
  <2> QED BY <1>1, <1>4, <2>1 DEF Fresh, Says, Holds
<1>5. CASE dispatch(d) = d /\ Fresh(d)
  BY <1>5
<1> QED BY <1>2, <1>3, <1>4, <1>5 DEF dispatch, Fresh

\* iface.poll, whatever the packet.
LEMMA PollLease ==
    ASSUME NEW c, CardOK(c), NEW m, m.type \in {"OFFER", "ACK"} => m.ip \in Leases
    PROVE  /\ Fresh(poll(c, m).dhcp)
           /\ LeaseOK(c) => LeaseOK(poll(c, m))
           /\ Leased(c) /\ m = Other => Leased(poll(c, m))
<1> DEFINE d == process(c.dhcp, m)
<1>1. c \in Cards /\ c.dhcp \in Clients
  BY DEF CardOK, Cards
<1>2. d \in Clients
  BY <1>1, ProcessType
<1>3. \A a : Says(c.dhcp, a) => Says(d, a)
  BY <1>1, ProcessSays
<1>4. m = Other => d = c.dhcp
  BY DEF process, Other
<1>5. poll(c, m).dhcp = dispatch(d) /\ poll(c, m).addr = c.addr
  BY <1>1 DEF poll, Cards
<1> HIDE DEF d
<1> QED BY <1>2, <1>3, <1>4, <1>5, DispatchSays DEF LeaseOK, Leased

\* handle_dhcp makes of the report what the report says.
LEMMA DhcpLease ==
    ASSUME NEW c, CardOK(c), LeaseOK(c)
    PROVE  LeaseOK(handle_dhcp(c)) /\ (Fresh(c.dhcp) => Leased(handle_dhcp(c)))
<1> DEFINE p == [c EXCEPT !.dhcp = polled(c.dhcp)]
           d == IF Event(c.dhcp) = "Configured" THEN Configured(p)
                ELSE IF Event(c.dhcp) = "Deconfigured" THEN Deconfigured(p) ELSE p
           s == [d EXCEPT !.addr = "static", !.filterIp = "static"]
<1>0. c \in Cards /\ c.dhcp \in Clients
  BY DEF CardOK, Cards
<1>1. handle_dhcp(c) = d \/ handle_dhcp(c) = s
  BY DEF handle_dhcp
<1>2. /\ p \in Cards /\ p.addr = c.addr /\ p.dhcp.state = c.dhcp.state
      /\ p.dhcp.ip = c.dhcp.ip /\ p.dhcp.expired = c.dhcp.expired
  <2>1. /\ polled(c.dhcp) \in Clients /\ polled(c.dhcp).state = c.dhcp.state
        /\ polled(c.dhcp).ip = c.dhcp.ip /\ polled(c.dhcp).expired = c.dhcp.expired
    BY <1>0 DEF polled, Clients
  <2>2. p \in Cards
    BY <1>0, <2>1, Zenon DEF Cards
  <2>3. p.addr = c.addr /\ p.dhcp = polled(c.dhcp)
    BY <1>0 DEF Cards
  <2> QED BY <2>1, <2>2, <2>3
<1> HIDE DEF p
<1>3. d.dhcp = p.dhcp /\ d \in {p, Configured(p), Deconfigured(p)}
  BY <1>2 DEF Configured, Deconfigured, Cards
<1>4. Configured(p).addr = p.dhcp.ip /\ Deconfigured(p).addr = "none"
  BY <1>2 DEF Configured, Deconfigured, Cards
<1>5. d.addr \in Leases => d.dhcp.state = "Renewing" /\ d.dhcp.ip = d.addr
  <2>1. CASE Event(c.dhcp) = "Configured"
    BY <1>2, <1>3, <1>4, <2>1 DEF Event
  <2>2. CASE Event(c.dhcp) = "Deconfigured"
    BY <1>4, <2>2, DhcpAssumption
  <2>3. CASE Event(c.dhcp) = "None"
    BY <1>2, <2>3 DEF Event, LeaseOK, Says
  <2> QED BY <2>1, <2>2, <2>3 DEF Event
<1>6. s.dhcp = d.dhcp /\ s.addr = "static"
  <2>1. \A q \in {p, Configured(p), Deconfigured(p)} :
           LET r == [q EXCEPT !.addr = "static", !.filterIp = "static"]
           IN  r.dhcp = q.dhcp /\ r.addr = "static"
    BY <1>2 DEF Configured, Deconfigured, Cards
  <2> QED BY <1>3, <2>1
<1> HIDE DEF d, s
<1> QED BY <1>1, <1>2, <1>3, <1>5, <1>6, NetbootAssumption DEF LeaseOK, Leased, Says, Holds, Fresh

\* The fetch has nothing to do with the lease.
LEMMA TftpLease ==
    ASSUME NEW c, CardOK(c)
    PROVE  handle_tftp(c).dhcp = c.dhcp /\ handle_tftp(c).addr = c.addr
<1>1. c \in Cards
  BY DEF CardOK
<1>2. WaitData(c).dhcp = c.dhcp /\ WaitData(c).addr = c.addr
  BY <1>1 DEF WaitData, Cards
<1> QED BY <1>1, <1>2 DEF handle_tftp, Cards

\* A pass of the handler keeps the invariant, and one for a packet of the stack's
\* leaves no address without its lease.
LEMMA HandlerLease ==
    ASSUME NetbootInv, LeaseInv, NEW slow \in BOOLEAN, NEW http \in BOOLEAN, NEW m,
           m.type \in {"OFFER", "ACK"} => m.ip \in Leases,
           network_handler(slow, m, http)
    PROVE  LeaseInv' /\ (slow => ~Unleased')
<1>1. PICK v \in Versions : TransferOf(v)
  BY DEF NetbootInv
<1>2. PICK received, attended, fetched, c :
              /\ Passes(received, attended, fetched, c, slow, m, http) /\ Leaves(c)
              /\ CardOK(Card) /\ CardOK(received) /\ CardOK(attended) /\ CardOK(fetched)
  BY <1>1, HandlerPasses
<1>3. Other.type \in {"OFFER", "ACK"} => Other.ip \in Leases
  BY DEF Other
<1>4. LeaseOK(Card)
  BY CardFields DEF LeaseInv, LeaseOK
<1>5. LeaseOK(received) /\ (slow => Fresh(received.dhcp))
  BY <1>2, <1>4, PollLease DEF Passes
<1>6. LeaseOK(attended) /\ (slow => Leased(attended))
  BY <1>2, <1>5, DhcpLease DEF Passes
<1>7. LeaseOK(fetched) /\ (slow => Leased(fetched))
  BY <1>2, <1>6, TftpLease DEF Passes, LeaseOK, Leased
<1>8. LeaseOK(c) /\ (slow => Leased(c))
  BY <1>2, <1>3, <1>7, PollLease DEF Passes
<1> QED BY <1>2, <1>8 DEF Leaves, LeaseInv, LeaseOK, Leased, Unleased

\* Every step.
LEMMA LeaseStep ==
    ASSUME NetbootInv, LeaseInv, [Next]_vars
    PROVE  LeaseInv' /\ (SlowPacket \/ DhcpReply => ~Unleased')
<1>1. Other.type \in {"OFFER", "ACK"} => Other.ip \in Leases
  BY DEF Other
<1>2. \A m \in Replies(dhcp) : m.type \in {"OFFER", "ACK"} => m.ip \in Leases
  BY DEF Replies
<1>3. ASSUME SlowPacket \/ DhcpReply PROVE LeaseInv' /\ ~Unleased'
  BY <1>1, <1>2, <1>3, HandlerLease DEF SlowPacket, DhcpReply
<1>4. ASSUME OtherInterrupt \/ HttpInterrupt PROVE LeaseInv'
  BY <1>1, <1>4, HandlerLease DEF OtherInterrupt, HttpInterrupt
<1>5. ASSUME RetryTime \/ LeaseTime PROVE LeaseInv'
  <2>1. dhcp \in Clients /\ addr' = addr
    BY <1>5 DEF NetbootInv, NetbootTypeOK, RetryTime, LeaseTime
  <2>2. /\ dhcp'.state = dhcp.state /\ dhcp'.ip = dhcp.ip
        /\ dhcp'.config_changed = dhcp.config_changed
    BY <1>5, <2>1 DEF Clients, RetryTime, LeaseTime
  <2> QED BY <2>1, <2>2 DEF LeaseInv, Says
<1>6. ASSUME UNCHANGED <<dhcp, addr>> PROVE LeaseInv'
  BY <1>6 DEF LeaseInv
<1>7. \/ SlowPacket \/ DhcpReply \/ OtherInterrupt \/ HttpInterrupt \/ RetryTime \/ LeaseTime
      \/ UNCHANGED <<dhcp, addr>>
  BY DEF Next, Clock, Deadline, Deliver, Lose, ServerRequest, ServerAck, ServerRetry, EditRecord,
         vars, bootVars
<1> QED BY <1>3, <1>4, <1>5, <1>6, <1>7

\* A packet that reaches the stack never leaves the card with an address whose
\* lease has ended, however the lease ended and whoever noticed.
THEOREM LeasesHonoured == Spec => LeaseHonoured
<1>1. Init => LeaseInv
  BY DhcpAssumption DEF Init, LeaseInv
<1>2. NetbootInv /\ LeaseInv /\ [Next]_vars => LeaseInv'
  BY LeaseStep
<1>3. NetbootInv /\ LeaseInv /\ [Next]_vars => [SlowPacket \/ DhcpReply => ~Unleased']_vars
  BY LeaseStep
<1> QED BY <1>1, <1>2, <1>3, NetbootInit, NetbootStep, PTL DEF Spec, LeaseHonoured
=============================================================================
