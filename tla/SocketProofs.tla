---------------------------- MODULE SocketProofs ----------------------------
(***************************************************************************)
(* kernel/net_socket.c for any tasks, slots, pcbs, ring and segments.      *)
(***************************************************************************)
EXTENDS NetSock, TLAPS

SockRec ==
  [state : {"FREE", "ALLOC", "CONNECTING", "CONNECTED", "ERR"}, gen : Nat, pcb : SUBSET PCBS,
   rx : [0 .. KSOCK_RXBUF - 1 -> Nat], head : 0 .. KSOCK_RXBUF - 1, len : 0 .. KSOCK_RXBUF,
   peer_closed : BOOLEAN]
PcbRec ==
  [st : {"free", "new", "syn", "est", "closing", "closing-syn"}, arg : SUBSET Socks, peer : Nat]
CallRec == [op : {"connect", "recv", "send"}, fd : Socks, gen : Nat, conn : SUBSET PCBS]
NetTypeOK ==
  /\ socks \in [Socks -> SockRec] /\ pcbs \in [PCBS -> PcbRec]
  /\ sockCalls \in [STASKS -> SUBSET CallRec]
  /\ got \in [PCBS -> Seq(Nat)] /\ lost \subseteq PCBS

\* A slot and its pcb name each other and nothing else; a slot that is free or failed has
\* none, and a pcb that is free or closing has no slot.
Links ==
  /\ \A p \in PCBS, s \in Socks : s \in pcbs[p].arg <=> p \in socks[s].pcb
  /\ \A p \in PCBS : pcbs[p].st \in {"free", "closing", "closing-syn"} => pcbs[p].arg = {}
  /\ \A s \in Socks : socks[s].state \in {"FREE", "ERR"} => socks[s].pcb = {}
  /\ \A s \in Socks : \A p, q \in socks[s].pcb : p = q
  /\ \A p \in PCBS : \A s, r \in pcbs[p].arg : s = r

\* A call whose generation is the slot's is on the slot's connection, or that has failed.
OwnCall(c) ==
  /\ c.gen <= socks[c.fd].gen
  /\ c.gen = socks[c.fd].gen => socks[c.fd].pcb = c.conn \/ socks[c.fd].state = "ERR"
OwnCalls == \A t \in STASKS : \A c \in sockCalls[t] : OwnCall(c)

\* The bytes returned and those in the ring are 1, 2, ... up to what the peer has sent.
InRing(g, rx, h, l, n) ==
  /\ Len(g) + l = n
  /\ \A k \in 1 .. Len(g) : g[k] = k
  /\ \A k \in 0 .. l - 1 : rx[(h + k) % KSOCK_RXBUF] = Len(g) + k + 1
Intact(g, s, n) == InRing(g, s.rx, s.head, s.len, n)
Streams ==
  /\ \A p \in PCBS : pcbs[p].arg = {} => got[p] = <<>>
  /\ \A s \in Socks : \A p \in socks[s].pcb \ lost : Intact(got[p], socks[s], pcbs[p].peer)

NetInv == NetTypeOK /\ Links /\ OwnCalls /\ Streams

\* Indices of the ring: at most one turn ahead, at most two back.
LEMMA Turns ==
  ASSUME NEW b \in Int, 0 <= b, b < KSOCK_RXBUF
  PROVE  /\ b % KSOCK_RXBUF = b /\ (b + KSOCK_RXBUF) % KSOCK_RXBUF = b
         /\ (b - KSOCK_RXBUF) % KSOCK_RXBUF = b
<1>1. KSOCK_RXBUF \in Nat \ {0}
  BY NetAssumption, Zenon
<1>2. b % KSOCK_RXBUF = b
  BY ONLY <1>1, b \in Int, 0 <= b, b < KSOCK_RXBUF
<1>3. (b + KSOCK_RXBUF) % KSOCK_RXBUF = b
  BY ONLY <1>1, b \in Int, 0 <= b, b < KSOCK_RXBUF
<1>4. (b - KSOCK_RXBUF) % KSOCK_RXBUF = b
  BY ONLY <1>1, b \in Int, 0 <= b, b < KSOCK_RXBUF
<1>. QED  BY <1>2, <1>3, <1>4, Zenon

LEMMA TwoTurns ==
  ASSUME NEW b \in Int, 0 <= b, b < KSOCK_RXBUF
  PROVE  (b - (2 * KSOCK_RXBUF)) % KSOCK_RXBUF = b
<1>1. KSOCK_RXBUF \in Nat \ {0}
  BY NetAssumption, Zenon
<1>. QED  BY ONLY <1>1, b \in Int, 0 <= b, b < KSOCK_RXBUF

\* Slot number k of the ring, counted from the head, and back.
LEMMA RingIndex ==
  ASSUME NEW h \in 0 .. KSOCK_RXBUF - 1, NEW k \in 0 .. KSOCK_RXBUF - 1
  PROVE  /\ (h + k) % KSOCK_RXBUF \in 0 .. KSOCK_RXBUF - 1
         /\ \/ (h + k) % KSOCK_RXBUF = h + k
            \/ (h + k) % KSOCK_RXBUF = (h + k) - KSOCK_RXBUF
<1>1. KSOCK_RXBUF \in Nat \ {0}
  BY NetAssumption, Zenon
<1>2. CASE h + k < KSOCK_RXBUF
  BY <1>1, <1>2, Turns
<1>3. CASE h + k >= KSOCK_RXBUF
  <2>1. PICK b \in Int : b = (h + k) - KSOCK_RXBUF /\ 0 <= b /\ b < KSOCK_RXBUF
    BY <1>1, <1>3
  <2>2. (b + KSOCK_RXBUF) % KSOCK_RXBUF = b
    BY <2>1, Turns, Zenon
  <2>3. b + KSOCK_RXBUF = h + k
    BY <1>1, <2>1
  <2>. QED  BY <1>1, <2>1, <2>2, <2>3
<1>. QED  BY <1>1, <1>2, <1>3

\* The place of a ring slot relative to the first free one.
LEMMA RingOffset ==
  ASSUME NEW h \in 0 .. KSOCK_RXBUF - 1, NEW k \in 0 .. KSOCK_RXBUF - 1, NEW l \in 0 .. KSOCK_RXBUF
  PROVE  (((h + k) % KSOCK_RXBUF) - h - l) % KSOCK_RXBUF = IF k >= l THEN k - l ELSE k - l + KSOCK_RXBUF
<1>. DEFINE x == ((h + k) % KSOCK_RXBUF) - h - l
            r == IF k >= l THEN k - l ELSE k - l + KSOCK_RXBUF
<1>1. KSOCK_RXBUF \in Nat \ {0}
  BY NetAssumption, Zenon
<1>2. r \in Int /\ 0 <= r /\ r < KSOCK_RXBUF
  BY <1>1
<1>3. x \in {k - l, k - l - KSOCK_RXBUF}
  <2>1. PICK m \in 0 .. KSOCK_RXBUF - 1 :
          m = (h + k) % KSOCK_RXBUF /\ (m = h + k \/ m = (h + k) - KSOCK_RXBUF)
    BY RingIndex, Zenon
  <2>2. m - h - l \in {k - l, k - l - KSOCK_RXBUF}
    BY <1>1, <2>1
  <2>. QED  BY <2>1, <2>2, Zenon
<1>4. x \in {r, r - KSOCK_RXBUF, r - (2 * KSOCK_RXBUF)}
  BY <1>1, <1>3
<1>. QED  BY <1>2, <1>4, Turns, TwoTurns, Zenon

\* rx_push: what is in the ring stays, and what fits of the segment follows it.
Pushed(rx, h, l, n, data) ==
  [x \in 0 .. KSOCK_RXBUF - 1 |->
     IF (x - h - l) % KSOCK_RXBUF < n THEN data[((x - h - l) % KSOCK_RXBUF) + 1] ELSE rx[x]]

Continues(rx, ry, h, l, n, data) ==
  /\ ry \in [0 .. KSOCK_RXBUF - 1 -> Nat]
  /\ \A k \in 0 .. l - 1 : ry[(h + k) % KSOCK_RXBUF] = rx[(h + k) % KSOCK_RXBUF]
  /\ \A k \in 0 .. n - 1 : ry[(h + (l + k)) % KSOCK_RXBUF] = data[k + 1]

LEMMA RingPush ==
  ASSUME NEW h \in 0 .. KSOCK_RXBUF - 1, NEW l \in 0 .. KSOCK_RXBUF, NEW n \in Nat,
         l + n <= KSOCK_RXBUF, NEW rx \in [0 .. KSOCK_RXBUF - 1 -> Nat],
         NEW data \in Seq(Nat), n <= Len(data)
  PROVE  Continues(rx, Pushed(rx, h, l, n, data), h, l, n, data)
<1>. DEFINE ry == Pushed(rx, h, l, n, data)
<1>9. /\ DOMAIN ry = 0 .. KSOCK_RXBUF - 1 /\ ry = [x \in 0 .. KSOCK_RXBUF - 1 |-> ry[x]]
      /\ \A x \in 0 .. KSOCK_RXBUF - 1 :
           ry[x] = IF (x - h - l) % KSOCK_RXBUF < n THEN data[((x - h - l) % KSOCK_RXBUF) + 1] ELSE rx[x]
  BY Zenon DEF Pushed
<1>. HIDE DEF ry
<1>0. KSOCK_RXBUF \in Nat \ {0} /\ Len(data) \in Nat
  BY NetAssumption
<1>1. ASSUME NEW x \in 0 .. KSOCK_RXBUF - 1 PROVE ry[x] \in Nat
  <2>0. PICK d \in Int : d = x - h - l
    BY <1>0
  <2>1. PICK m \in Nat : m = (x - h - l) % KSOCK_RXBUF
    <3>1. d % KSOCK_RXBUF \in Nat
      BY ONLY <1>0, d \in Int
    <3>. QED  BY <2>0, <3>1, Zenon
  <2>2. ry[x] = IF m < n THEN data[m + 1] ELSE rx[x]
    BY <1>9, <2>1, Zenon
  <2>3. m < n => data[m + 1] \in Nat
    <3>1. m < n => m + 1 \in 1 .. Len(data)
      BY <1>0
    <3>. QED  BY <3>1
  <2>4. rx[x] \in Nat
    BY Zenon
  <2>. QED  BY <2>2, <2>3, <2>4, Zenon
<1>2. ASSUME NEW k \in 0 .. l - 1
      PROVE  ry[(h + k) % KSOCK_RXBUF] = rx[(h + k) % KSOCK_RXBUF]
  <2>1. k \in 0 .. KSOCK_RXBUF - 1 /\ ~(k >= l)
    BY <1>0
  <2>2. PICK x \in 0 .. KSOCK_RXBUF - 1 : x = (h + k) % KSOCK_RXBUF
    BY <2>1, RingIndex, Zenon
  <2>3. (x - h - l) % KSOCK_RXBUF = k - l + KSOCK_RXBUF
    BY <2>1, <2>2, RingOffset, Zenon
  <2>4. ~(k - l + KSOCK_RXBUF < n)
    BY <1>0
  <2>5. ry[x] = rx[x]
    BY <1>9, <2>3, <2>4, Zenon
  <2>. QED  BY <2>2, <2>5, Zenon
<1>3. ASSUME NEW k \in 0 .. n - 1
      PROVE  ry[(h + (l + k)) % KSOCK_RXBUF] = data[k + 1]
  <2>1. PICK m \in 0 .. KSOCK_RXBUF - 1 : m = l + k /\ m >= l
    BY <1>0
  <2>2. PICK x \in 0 .. KSOCK_RXBUF - 1 : x = (h + m) % KSOCK_RXBUF
    BY RingIndex, Zenon
  <2>3. (x - h - l) % KSOCK_RXBUF = m - l
    BY <2>1, <2>2, RingOffset, Zenon
  <2>4. m - l = k /\ k < n
    BY <1>0, <2>1
  <2>5. ry[x] = data[k + 1]
    BY <1>9, <2>3, <2>4, Zenon
  <2>. QED  BY <2>1, <2>2, <2>5, Zenon
<1>4. ry \in [0 .. KSOCK_RXBUF - 1 -> Nat]
  BY <1>1, <1>9, Zenon
<1>. QED  BY <1>2, <1>3, <1>4, Zenon DEF ry, Continues

\* A segment that fits continues the stream.
LEMMA RingPushed ==
  ASSUME NEW h \in 0 .. KSOCK_RXBUF - 1, NEW l \in 0 .. KSOCK_RXBUF, NEW n \in Nat,
         NEW rx, NEW ry, NEW g \in Seq(Nat), NEW a \in Nat, InRing(g, rx, h, l, a),
         \A k \in 0 .. l - 1 : ry[(h + k) % KSOCK_RXBUF] = rx[(h + k) % KSOCK_RXBUF],
         \A k \in 0 .. n - 1 : ry[(h + (l + k)) % KSOCK_RXBUF] = a + (k + 1)
  PROVE  InRing(g, ry, h, l + n, a + n)
<1>0. l \in Nat /\ Len(g) \in Nat /\ Len(g) + l = a
  BY NetAssumption DEF InRing
<1>1. ASSUME NEW k \in 0 .. (l + n) - 1 PROVE ry[(h + k) % KSOCK_RXBUF] = Len(g) + k + 1
  <2>1. CASE k \in 0 .. l - 1
    BY <2>1, Zenon DEF InRing
  <2>2. CASE k \notin 0 .. l - 1
    <3>1. PICK m \in 0 .. n - 1 : k = l + m
      BY <1>0, <2>2
    <3>2. a + (m + 1) = Len(g) + k + 1
      BY <1>0, <3>1
    <3>. QED  BY <3>1, <3>2, Zenon
  <2>. QED  BY <2>1, <2>2, Zenon
<1>2. Len(g) + (l + n) = a + n
  BY <1>0
<1>. QED  BY <1>1, <1>2, Zenon DEF InRing

\* rx_pop: what ksock_recv returns is next in the stream.
LEMMA RingPop ==
  ASSUME NEW h \in 0 .. KSOCK_RXBUF - 1, NEW l \in 0 .. KSOCK_RXBUF, NEW n \in 1 .. l,
         NEW rx, NEW g \in Seq(Nat), NEW a \in Nat, InRing(g, rx, h, l, a),
         NEW b \in Seq(Nat), Len(b) = n, \A k \in 1 .. n : b[k] = rx[(h + (k - 1)) % KSOCK_RXBUF]
  PROVE  InRing(g \o b, rx, (h + n) % KSOCK_RXBUF, l - n, a)
<1>0. /\ KSOCK_RXBUF \in Nat \ {0} /\ l \in Nat /\ n \in Nat /\ n <= l /\ Len(g) \in Nat
      /\ Len(g) + l = a
  BY NetAssumption DEF InRing
<1>1. /\ Len(g \o b) = Len(g) + n
      /\ \A k \in 1 .. Len(g) : (g \o b)[k] = g[k]
      /\ \A k \in 1 .. n : (g \o b)[Len(g) + k] = b[k]
  <2>1. Len(g \o b) = Len(g) + n
    OBVIOUS
  <2>2. \A k \in 1 .. Len(g) : (g \o b)[k] = g[k]
    OBVIOUS
  <2>3. ASSUME NEW k \in 1 .. n PROVE (g \o b)[Len(g) + k] = b[k]
    <3>1. Len(g) + k \in 1 .. Len(g) + Len(b) /\ ~(Len(g) + k <= Len(g)) /\ (Len(g) + k) - Len(g) = k
      BY <1>0
    <3>. QED  BY <3>1
  <2>. QED  BY <2>1, <2>2, <2>3, Zenon
<1>2. ASSUME NEW k \in 1 .. Len(g) + n PROVE (g \o b)[k] = k
  <2>1. CASE k \in 1 .. Len(g)
    BY <1>1, <2>1, Zenon DEF InRing
  <2>2. CASE k \notin 1 .. Len(g)
    <3>1. PICK m \in 1 .. n : k = Len(g) + m
      <4>1. PICK j \in Nat : j = Len(g)
        BY <1>0, Zenon
      <4>2. k - j \in 1 .. n /\ k = j + (k - j)
        BY <1>0, <2>2, <4>1
      <4>. QED  BY <4>1, <4>2, Zenon
    <3>2. m - 1 \in 0 .. l - 1 /\ Len(g) + (m - 1) + 1 = Len(g) + m
      BY <1>0
    <3>3. b[m] = Len(g) + m
      BY <3>2, Zenon DEF InRing
    <3>. QED  BY <1>1, <3>1, <3>3, Zenon
  <2>. QED  BY <2>1, <2>2, Zenon
<1>3. ASSUME NEW k \in 0 .. (l - n) - 1
      PROVE  rx[(((h + n) % KSOCK_RXBUF) + k) % KSOCK_RXBUF] = (Len(g) + n) + k + 1
  <2>1. k \in 0 .. KSOCK_RXBUF - 1 /\ n + k \in 0 .. l - 1
    BY <1>0
  <2>2. (((h + n) % KSOCK_RXBUF) + k) % KSOCK_RXBUF = (h + (n + k)) % KSOCK_RXBUF
    <3>1. PICK nk \in 0 .. KSOCK_RXBUF - 1 : nk = n + k
      BY <1>0, <2>1
    <3>2. n \in 0 .. KSOCK_RXBUF - 1
      BY <1>0, <2>1
    <3>3. PICK j \in 0 .. KSOCK_RXBUF - 1 :
            j = (h + n) % KSOCK_RXBUF /\ (j = h + n \/ j = (h + n) - KSOCK_RXBUF)
      BY <3>2, RingIndex, Zenon
    <3>4. PICK y \in 0 .. KSOCK_RXBUF - 1 :
            y = (j + k) % KSOCK_RXBUF /\ (y = j + k \/ y = (j + k) - KSOCK_RXBUF)
      BY <2>1, RingIndex, Zenon
    <3>5. PICK z \in 0 .. KSOCK_RXBUF - 1 :
            z = (h + nk) % KSOCK_RXBUF /\ (z = h + nk \/ z = (h + nk) - KSOCK_RXBUF)
      BY RingIndex, Zenon
    <3>6. (y = j + k \/ y = (j + k) - KSOCK_RXBUF) /\ (z = h + nk \/ z = (h + nk) - KSOCK_RXBUF)
          /\ (j = h + n \/ j = (h + n) - KSOCK_RXBUF)
      BY <3>3, <3>4, <3>5, Zenon
    <3>7. y = z
      BY ONLY <1>0, <2>1, <3>1, <3>6, NetAssumption
    <3>. QED  BY <3>1, <3>3, <3>4, <3>5, <3>7, Zenon
  <2>3. rx[(h + (n + k)) % KSOCK_RXBUF] = Len(g) + (n + k) + 1
    BY <2>1, Zenon DEF InRing
  <2>4. Len(g) + (n + k) + 1 = (Len(g) + n) + k + 1
    BY <1>0
  <2>. QED  BY <2>2, <2>3, <2>4, Zenon
<1>4. (Len(g) + n) + (l - n) = a
  <2>1. \A x, y, z \in Nat : (x + z) + (y - z) = x + y
    OBVIOUS
  <2>. QED  BY <1>0, <2>1, Zenon
<1>. QED  BY <1>1, <1>2, <1>3, <1>4, Zenon DEF InRing

\* The same for a slot: r is s after a segment of n bytes.
GoesOn(g, s, r, a, n) ==
  /\ r \in SockRec /\ r.pcb = s.pcb /\ r.state = s.state /\ r.gen = s.gen
  /\ Intact(g, s, a) /\ s.len + n <= KSOCK_RXBUF => Intact(g, r, a + n)

LEMMA PushSlot ==
  ASSUME NEW s \in SockRec, NEW a \in Nat, NEW n \in Nat, NEW g \in Seq(Nat)
  PROVE  GoesOn(g, s, rx_push(s, [j \in 1 .. n |-> a + j]), a, n)
<1>. DEFINE data == [j \in 1 .. n |-> a + j]
            m == Room(s, data)
            ry == Pushed(s.rx, s.head, s.len, m, data)
            r == rx_push(s, data)
<1>0. /\ KSOCK_RXBUF \in Nat \ {0} /\ s.head \in 0 .. KSOCK_RXBUF - 1 /\ s.len \in 0 .. KSOCK_RXBUF
      /\ s.rx \in [0 .. KSOCK_RXBUF - 1 -> Nat]
  BY NetAssumption, Zenon DEF SockRec
<1>1. data \in Seq(Nat) /\ Len(data) = n /\ \A k \in 1 .. n : data[k] = a + k
  OBVIOUS
<1>2. r = [s EXCEPT !.len = s.len + m, !.rx = ry]
  BY <1>0, Zenon DEF rx_push, Pushed
<1>3. m \in Nat /\ m <= n /\ s.len + m <= KSOCK_RXBUF /\ (s.len + n <= KSOCK_RXBUF => m = n)
  <2>1. m = IF n <= KSOCK_RXBUF - s.len THEN n ELSE KSOCK_RXBUF - s.len
    BY <1>1, Zenon DEF Room
  <2>2. PICK l \in 0 .. KSOCK_RXBUF : l = s.len
    BY <1>0, Zenon
  <2>. HIDE DEF m
  <2>. QED  BY <1>0, <2>1, <2>2, SMTT(30)
<1>. HIDE DEF data, m
<1>4. /\ ry \in [0 .. KSOCK_RXBUF - 1 -> Nat]
      /\ \A k \in 0 .. s.len - 1 : ry[(s.head + k) % KSOCK_RXBUF] = s.rx[(s.head + k) % KSOCK_RXBUF]
      /\ \A k \in 0 .. m - 1 : ry[(s.head + (s.len + k)) % KSOCK_RXBUF] = data[k + 1]
  <2>1. m <= Len(data)
    BY <1>1, <1>3, Zenon
  <2>2. Continues(s.rx, ry, s.head, s.len, m, data)
    BY <1>0, <1>1, <1>3, <2>1, RingPush, Zenon
  <2>. QED  BY <2>2, Zenon DEF Continues
<1>. HIDE DEF ry
<1>5. s.len + m \in 0 .. KSOCK_RXBUF
  <2>1. PICK l \in 0 .. KSOCK_RXBUF : l = s.len
    BY <1>0, Zenon
  <2>2. l + m \in 0 .. KSOCK_RXBUF
    BY <1>0, <1>3, <2>1
  <2>. QED  BY <2>1, <2>2, Zenon
<1>6. /\ r \in SockRec /\ r.pcb = s.pcb /\ r.state = s.state /\ r.gen = s.gen
      /\ r.rx = ry /\ r.head = s.head /\ r.len = s.len + m
  BY <1>2, <1>4, <1>5, Zenon DEF SockRec
<1>7. ASSUME Intact(g, s, a), s.len + n <= KSOCK_RXBUF PROVE Intact(g, r, a + n)
  <2>1. m = n
    BY <1>3, <1>7, Zenon
  <2>2. \A k \in 0 .. n - 1 : ry[(s.head + (s.len + k)) % KSOCK_RXBUF] = a + (k + 1)
    <3>. SUFFICES ASSUME NEW k \in 0 .. n - 1
                  PROVE  ry[(s.head + (s.len + k)) % KSOCK_RXBUF] = a + (k + 1)
      BY Zenon
    <3>1. k + 1 \in 1 .. n  OBVIOUS
    <3>. QED  BY <1>1, <1>4, <2>1, <3>1, Zenon
  <2>3. InRing(g, ry, s.head, s.len + n, a + n)
    BY <1>0, <1>4, <1>7, <2>2, RingPushed, Zenon DEF Intact
  <2>. QED  BY <1>6, <2>1, <2>3, Zenon DEF Intact
<1>. QED  BY <1>6, <1>7, Zenon DEF data, GoesOn

LEMMA PopSlot ==
  ASSUME NEW s \in SockRec, NEW a \in Nat, NEW n \in 1 .. s.len, NEW g \in Seq(Nat)
  PROVE  /\ rx_pop(s, n) \in SockRec /\ rx_pop(s, n).pcb = s.pcb
         /\ rx_pop(s, n).state = s.state /\ rx_pop(s, n).gen = s.gen
         /\ g \o SubSeq(RxBytes(s), 1, n) \in Seq(Nat)
         /\ Intact(g, s, a) => Intact(g \o SubSeq(RxBytes(s), 1, n), rx_pop(s, n), a)
<1>. DEFINE r == rx_pop(s, n)
            b == SubSeq(RxBytes(s), 1, n)
<1>0. /\ KSOCK_RXBUF \in Nat \ {0} /\ s.head \in 0 .. KSOCK_RXBUF - 1 /\ s.len \in 0 .. KSOCK_RXBUF
      /\ s.rx \in [0 .. KSOCK_RXBUF - 1 -> Nat]
  BY NetAssumption, Zenon DEF SockRec
<1>1. PICK l \in 0 .. KSOCK_RXBUF : l = s.len
  BY <1>0, Zenon
<1>2. PICK h \in 0 .. KSOCK_RXBUF - 1 : h = s.head
  BY <1>0, Zenon
<1>3. n \in 1 .. l /\ l - n \in 0 .. KSOCK_RXBUF
  BY <1>0, <1>1
<1>4. (h + n) % KSOCK_RXBUF \in 0 .. KSOCK_RXBUF - 1
  BY ONLY <1>0, <1>2, <1>3, h \in 0 .. KSOCK_RXBUF - 1, l \in 0 .. KSOCK_RXBUF
<1>5. /\ r \in SockRec /\ r.pcb = s.pcb /\ r.state = s.state /\ r.gen = s.gen
      /\ r.rx = s.rx /\ r.head = (h + n) % KSOCK_RXBUF /\ r.len = l - n
  <2>1. r = [s EXCEPT !.head = (h + n) % KSOCK_RXBUF, !.len = l - n]
    BY <1>1, <1>2, Zenon DEF rx_pop, SockRec
  <2>. HIDE DEF r
  <2>. QED  BY <1>3, <1>4, <2>1, Zenon DEF SockRec
<1>6. /\ RxBytes(s) \in Seq(Nat) /\ Len(RxBytes(s)) = l
      /\ \A k \in 1 .. l : RxBytes(s)[k] = s.rx[(h + (k - 1)) % KSOCK_RXBUF]
  <2>1. ASSUME NEW k \in 1 .. l PROVE s.rx[(h + (k - 1)) % KSOCK_RXBUF] \in Nat
    <3>1. k - 1 \in 0 .. KSOCK_RXBUF - 1
      BY <1>0
    <3>2. (h + (k - 1)) % KSOCK_RXBUF \in 0 .. KSOCK_RXBUF - 1
      BY <3>1, RingIndex, Zenon
    <3>. QED  BY <1>0, <3>2, Zenon
  <2>2. RxBytes(s) = [k \in 1 .. l |-> s.rx[(h + (k - 1)) % KSOCK_RXBUF]]
    BY <1>1, <1>2, Zenon DEF RxBytes
  <2>3. l \in Nat
    BY <1>0
  <2>. QED  BY <2>1, <2>2, <2>3
<1>7. b \in Seq(Nat) /\ Len(b) = n /\ \A k \in 1 .. n : b[k] = s.rx[(h + (k - 1)) % KSOCK_RXBUF]
  <2>. HIDE DEF r
  <2>1. PICK q \in Seq(Nat) : q = RxBytes(s)
    BY <1>6, Zenon
  <2>2. n \in 1 .. Len(q) /\ Len(q) \in Nat
    BY <1>3, <1>6, <2>1
  <2>3. /\ SubSeq(q, 1, n) \in Seq(Nat) /\ Len(SubSeq(q, 1, n)) = n
        /\ \A k \in 1 .. n : SubSeq(q, 1, n)[k] = q[k]
    BY <2>2
  <2>4. \A k \in 1 .. n : k \in 1 .. l
    BY <1>3
  <2>. QED  BY <1>6, <2>1, <2>3, <2>4, Zenon
<1>. HIDE DEF r, b
<1>8. g \o b \in Seq(Nat)
  BY <1>7
<1>9. ASSUME Intact(g, s, a) PROVE Intact(g \o b, r, a)
  <2>1. InRing(g, s.rx, h, l, a)
    BY <1>1, <1>2, <1>9, Zenon DEF Intact
  <2>2. InRing(g \o b, s.rx, (h + n) % KSOCK_RXBUF, l - n, a)
    BY <1>3, <1>7, <2>1, RingPop, Zenon
  <2>. QED  BY <1>5, <2>2, Zenon DEF Intact
<1>. QED  BY <1>5, <1>8, <1>9, Zenon DEF r, b

\* A step that moves bytes leaves slots, pcbs and generations as they are.
LEMMA LinksKept ==
  ASSUME Links,
         \A s \in Socks : socks'[s].pcb = socks[s].pcb /\ socks'[s].state = socks[s].state,
         \A p \in PCBS : pcbs'[p].arg = pcbs[p].arg /\ pcbs'[p].st = pcbs[p].st
  PROVE  Links'
BY DEF Links

\* A call that goes on, or begins, on a slot that stays.
LEMMA CallsKept ==
  ASSUME NetTypeOK, OwnCalls, sockCalls' \in [STASKS -> SUBSET CallRec],
         \A s \in Socks : /\ socks'[s].pcb = socks[s].pcb /\ socks'[s].gen = socks[s].gen
                          /\ socks'[s].state = socks[s].state
                             \/ (socks[s].state # "ERR" /\ socks'[s].state # "ERR"),
         \A t \in STASKS : \A c \in sockCalls'[t] :
           c \in sockCalls[t] \/ (c.gen = socks[c.fd].gen /\ c.conn = socks[c.fd].pcb)
  PROVE  OwnCalls'
<1>. SUFFICES ASSUME NEW t \in STASKS, NEW c \in sockCalls'[t] PROVE OwnCall(c)'
  BY Zenon DEF OwnCalls
<1>1. c.fd \in Socks /\ c.gen \in Nat
  BY DEF CallRec
<1>2. OwnCall(c)
  <2>1. CASE c \in sockCalls[t]
    BY <2>1, Zenon DEF OwnCalls
  <2>2. CASE c.gen = socks[c.fd].gen /\ c.conn = socks[c.fd].pcb
    BY <1>1, <2>2 DEF OwnCall
  <2>. QED  BY <2>1, <2>2, Zenon
<1>. QED  BY <1>1, <1>2, Zenon DEF OwnCall

\* A new generation is nobody's.
LEMMA NewGeneration ==
  ASSUME NetTypeOK, OwnCalls, sockCalls' = sockCalls, NEW d \in Socks,
         socks'[d].gen = socks[d].gen + 1, \A s \in Socks \ {d} : socks'[s] = socks[s]
  PROVE  OwnCalls'
<1>. SUFFICES ASSUME NEW t \in STASKS, NEW c \in sockCalls[t] PROVE OwnCall(c)'
  BY Zenon DEF OwnCalls
<1>1. c.fd \in Socks /\ c.gen \in Nat /\ OwnCall(c) /\ socks[d].gen \in Nat
  BY DEF NetTypeOK, CallRec, OwnCalls, SockRec
<1>2. CASE c.fd = d
  <2>1. c.gen <= socks[d].gen
    BY <1>1, <1>2, Zenon DEF OwnCall
  <2>2. c.gen <= socks[d].gen + 1 /\ c.gen # socks[d].gen + 1
    BY <1>1, <2>1
  <2>. QED  BY <1>2, <2>2, Zenon DEF OwnCall
<1>3. CASE c.fd # d
  BY <1>1, <1>3, Zenon DEF OwnCall
<1>. QED  BY <1>2, <1>3, Zenon

\* A record with one field changed.
SockStates == {"FREE", "ALLOC", "CONNECTING", "CONNECTED", "ERR"}
SameSlot(r, s) ==
  /\ r \in SockRec /\ r.pcb = s.pcb /\ r.gen = s.gen
  /\ r.rx = s.rx /\ r.head = s.head /\ r.len = s.len
LEMMA SlotMarked ==
  ASSUME NEW s \in SockRec, NEW r, NEW st \in SockStates
  PROVE  /\ r = [s EXCEPT !.peer_closed = TRUE] => SameSlot(r, s) /\ r.state = s.state
         /\ r = [s EXCEPT !.state = st] => SameSlot(r, s) /\ r.state = st
<1>1. ASSUME r = [s EXCEPT !.peer_closed = TRUE] PROVE SameSlot(r, s) /\ r.state = s.state
  BY <1>1, Zenon DEF SockRec, SameSlot
<1>2. ASSUME r = [s EXCEPT !.state = st] PROVE SameSlot(r, s) /\ r.state = st
  BY <1>2, Zenon DEF SockRec, SameSlot, SockStates
<1>. QED  BY <1>1, <1>2, Zenon
PcbStates == {"free", "new", "syn", "est", "closing", "closing-syn"}
LEMMA PcbHeard ==
  ASSUME NEW r \in PcbRec, NEW v \in Nat
  PROVE  /\ [r EXCEPT !.peer = v] \in PcbRec /\ [r EXCEPT !.peer = v].peer = v
         /\ [r EXCEPT !.peer = v].arg = r.arg /\ [r EXCEPT !.peer = v].st = r.st
BY Zenon DEF PcbRec

LEMMA PcbMoved ==
  ASSUME NEW r \in PcbRec, NEW st \in PcbStates
  PROVE  /\ [r EXCEPT !.st = st] \in PcbRec /\ [r EXCEPT !.st = st].peer = r.peer
         /\ [r EXCEPT !.st = st].arg = r.arg /\ [r EXCEPT !.st = st].st = st
BY Zenon DEF PcbRec, PcbStates

\* cb_recv with a segment.
LEMMA RecvStep ==
  ASSUME NetInv, NEW p \in PCBS, NEW n \in SegLens, cb_recv(p, n) PROVE NetInv'
<1>. DEFINE data == [j \in 1 .. n |-> pcbs[p].peer + j]
<1>0. n \in Nat /\ pcbs[p].peer \in Nat /\ pcbs[p] \in PcbRec
  BY NetAssumption, Zenon DEF NetInv, NetTypeOK, PcbRec
<1>1. /\ socks' = [s \in Socks |-> IF s \in pcbs[p].arg THEN rx_push(socks[s], data) ELSE socks[s]]
      /\ lost' = IF \E s \in pcbs[p].arg : socks[s].len + n > KSOCK_RXBUF THEN lost \cup {p} ELSE lost
      /\ pcbs' = [pcbs EXCEPT ![p].peer = @ + n]
      /\ UNCHANGED <<sockCalls, got>>
  BY Zenon DEF cb_recv, OnSlots, SockOf
<1>2. \A s \in Socks : \A g \in Seq(Nat) :
        GoesOn(g, socks[s], rx_push(socks[s], data), pcbs[p].peer, n)
  <2>1. \A s \in Socks : socks[s] \in SockRec
    BY Zenon DEF NetInv, NetTypeOK
  <2>. QED  BY <1>0, <2>1, PushSlot, Zenon
<1>. HIDE DEF data
<1>10. <<>> \in Seq(Nat)
  OBVIOUS
<1>3. socks' \in [Socks -> SockRec]
  BY <1>1, <1>2, <1>10, Zenon DEF NetInv, NetTypeOK, GoesOn
<1>4. /\ pcbs' \in [PCBS -> PcbRec] /\ pcbs'[p].peer = pcbs[p].peer + n
      /\ \A q \in PCBS : pcbs'[q].arg = pcbs[q].arg /\ pcbs'[q].st = pcbs[q].st
      /\ \A q \in PCBS \ {p} : pcbs'[q] = pcbs[q]
  <2>1. pcbs' = [pcbs EXCEPT ![p] = [pcbs[p] EXCEPT !.peer = pcbs[p].peer + n]]
    BY <1>1, Zenon DEF NetInv, NetTypeOK
  <2>2. /\ pcbs[p].peer + n \in Nat /\ "free" \in PcbStates /\ pcbs \in [PCBS -> PcbRec]
    BY <1>0 DEF PcbStates, NetInv, NetTypeOK
  <2>3. PICK v \in Nat : v = pcbs[p].peer + n
    BY <2>2, Zenon
  <2>4. /\ [pcbs[p] EXCEPT !.peer = v] \in PcbRec /\ [pcbs[p] EXCEPT !.peer = v].peer = v
        /\ [pcbs[p] EXCEPT !.peer = v].arg = pcbs[p].arg /\ [pcbs[p] EXCEPT !.peer = v].st = pcbs[p].st
    BY <1>0, <2>2, PcbHeard, Zenon
  <2>. QED  BY <2>1, <2>2, <2>3, <2>4, Zenon
<1>5. \A s \in Socks : /\ socks'[s].pcb = socks[s].pcb /\ socks'[s].state = socks[s].state
                       /\ socks'[s].gen = socks[s].gen
  BY <1>1, <1>2, <1>10, Zenon DEF GoesOn
<1>6. NetTypeOK'
  BY <1>1, <1>3, <1>4, Zenon DEF NetInv, NetTypeOK
<1>7. Links'
  BY <1>4, <1>5, LinksKept, Zenon DEF NetInv
<1>8. OwnCalls'
  BY <1>1, <1>5, CallsKept, Zenon DEF NetInv, NetTypeOK
<1>9. Streams'
  <2>1. \A q \in PCBS : pcbs'[q].arg = {} => got'[q] = <<>>
    BY <1>1, <1>4, Zenon DEF NetInv, Streams
  <2>2. ASSUME NEW s \in Socks, NEW q \in socks'[s].pcb \ lost'
        PROVE  Intact(got'[q], socks'[s], pcbs'[q].peer)
    <3>1. q \in socks[s].pcb /\ q \notin lost /\ q \in PCBS /\ s \in pcbs[q].arg /\ got[q] \in Seq(Nat)
      BY <1>1, <1>5, <1>7, <2>2 DEF NetInv, NetTypeOK, SockRec, Links
    <3>2. Intact(got[q], socks[s], pcbs[q].peer)
      BY <3>1, Zenon DEF NetInv, Streams
    <3>3. CASE q = p
      <4>1. s \in pcbs[p].arg /\ p \notin lost'
        BY <2>2, <3>1, <3>3, Zenon
      <4>2. ~(socks[s].len + n > KSOCK_RXBUF)
        BY <1>1, <4>1, Zenon
      <4>3. socks[s].len + n <= KSOCK_RXBUF
        <5>1. PICK l \in 0 .. KSOCK_RXBUF : l = socks[s].len
          BY Zenon DEF NetInv, NetTypeOK, SockRec
        <5>2. ~(l + n > KSOCK_RXBUF)
          BY <4>2, <5>1, Zenon
        <5>3. l + n <= KSOCK_RXBUF
          BY <1>0, <5>2, NetAssumption
        <5>. QED  BY <5>1, <5>3, Zenon
      <4>4. socks'[s] = rx_push(socks[s], data)
        BY <1>1, <4>1, Zenon
      <4>5. Intact(got[p], rx_push(socks[s], data), pcbs[p].peer + n)
        BY <1>2, <3>1, <3>2, <3>3, <4>3, Zenon DEF GoesOn
      <4>. QED  BY <1>1, <1>4, <3>3, <4>4, <4>5, Zenon
    <3>4. CASE q # p
      <4>1. s \notin pcbs[p].arg
        BY <3>1, <3>4, Zenon DEF NetInv, Links
      <4>2. socks'[s] = socks[s] /\ pcbs'[q] = pcbs[q]
        BY <1>1, <1>4, <3>1, <3>4, <4>1, Zenon
      <4>. QED  BY <1>1, <3>2, <4>2, Zenon
    <3>. QED  BY <3>3, <3>4, Zenon
  <2>. QED  BY <2>1, <2>2, Zenon DEF Streams
<1>. QED  BY <1>6, <1>7, <1>8, <1>9, Zenon DEF NetInv

\* The peer's end, and its answer to a connection.
LEMMA PeerStep ==
  ASSUME NetInv, NEW p \in PCBS, PeerFin(p) \/ cb_connected(p) PROVE NetInv'
<1>1. /\ \A s \in Socks : s \in pcbs[p].arg => socks[s].state \notin {"FREE", "ERR"}
      /\ \A s \in Socks : socks[s] \in SockRec /\ SameSlot(socks[s], socks[s])
      /\ pcbs[p] \in PcbRec /\ \A q \in PCBS : pcbs[q] \in PcbRec
      /\ "CONNECTED" \in SockStates /\ "est" \in PcbStates /\ "closing" \in PcbStates /\ 0 \in Nat
  BY Zenon DEF NetInv, Links, NetTypeOK, SameSlot, SockStates, PcbStates
<1>2. /\ socks' = [s \in Socks |-> socks'[s]]
      /\ \A s \in Socks : /\ SameSlot(socks'[s], socks[s])
                          /\ \/ socks'[s].state = socks[s].state
                             \/ s \in pcbs[p].arg /\ socks'[s].state = "CONNECTED"
  <2>1. CASE PeerFin(p)
    <3>1. socks' = [s \in Socks |-> IF s \in pcbs[p].arg THEN [socks[s] EXCEPT !.peer_closed = TRUE] ELSE socks[s]]
      BY <2>1, Zenon DEF PeerFin, OnSlots, SockOf
    <3>. QED  BY <1>1, <3>1, SlotMarked, Zenon
  <2>2. CASE cb_connected(p)
    <3>1. socks' = [s \in Socks |-> IF s \in pcbs[p].arg THEN [socks[s] EXCEPT !.state = "CONNECTED"] ELSE socks[s]]
      BY <2>2, Zenon DEF cb_connected, OnSlots, SockOf
    <3>. QED  BY <1>1, <3>1, SlotMarked, Zenon
  <2>. QED  BY <2>1, <2>2, Zenon
<1>3. /\ pcbs' \in [PCBS -> PcbRec]
      /\ \A q \in PCBS : pcbs'[q].arg = pcbs[q].arg /\ pcbs'[q].peer = pcbs[q].peer
      /\ \A q \in PCBS : pcbs'[q].st = pcbs[q].st
                         \/ (pcbs[q].st = "syn" /\ pcbs'[q].st = "est")
                         \/ (pcbs[q].st = "closing-syn" /\ pcbs'[q].st = "closing")
      /\ UNCHANGED <<sockCalls, got, lost>>
  <2>1. CASE PeerFin(p)
    BY <2>1, Zenon DEF PeerFin, NetInv, NetTypeOK
  <2>2. CASE cb_connected(p)
    <3>1. PICK st \in PcbStates :
            /\ pcbs' = [pcbs EXCEPT ![p] = [pcbs[p] EXCEPT !.st = st]]
            /\ (pcbs[p].st = "syn" /\ st = "est") \/ (pcbs[p].st = "closing-syn" /\ st = "closing")
      BY <1>1, <2>2, Zenon DEF cb_connected, NetInv, NetTypeOK
    <3>2. UNCHANGED <<sockCalls, got, lost>>
      BY <2>2, Zenon DEF cb_connected
    <3>3. /\ [pcbs[p] EXCEPT !.st = st] \in PcbRec /\ [pcbs[p] EXCEPT !.st = st].peer = pcbs[p].peer
          /\ [pcbs[p] EXCEPT !.st = st].arg = pcbs[p].arg /\ [pcbs[p] EXCEPT !.st = st].st = st
      BY <1>1, PcbMoved, Zenon
    <3>4. pcbs \in [PCBS -> PcbRec]
      BY Zenon DEF NetInv, NetTypeOK
    <3>. QED  BY <3>1, <3>2, <3>3, <3>4, Zenon
  <2>. QED  BY <2>1, <2>2, Zenon
<1>4. NetTypeOK'
  BY <1>2, <1>3, Zenon DEF NetInv, NetTypeOK, SameSlot
<1>5. Links'
  BY <1>1, <1>2, <1>3 DEF NetInv, Links, SameSlot
<1>6. OwnCalls'
  <2>1. \A s \in Socks : /\ socks'[s].pcb = socks[s].pcb /\ socks'[s].gen = socks[s].gen
                         /\ socks'[s].state = socks[s].state
                            \/ (socks[s].state # "ERR" /\ socks'[s].state # "ERR")
    BY <1>1, <1>2, Zenon DEF SameSlot
  <2>2. sockCalls' = sockCalls /\ sockCalls' \in [STASKS -> SUBSET CallRec]
    BY <1>3, Zenon DEF NetInv, NetTypeOK
  <2>. QED  BY <2>1, <2>2, CallsKept, Zenon DEF NetInv
<1>7. Streams'
  <2>1. ASSUME NEW s \in Socks, NEW q \in socks'[s].pcb \ lost'
        PROVE  Intact(got'[q], socks'[s], pcbs'[q].peer)
    <3>1. q \in socks[s].pcb \ lost /\ q \in PCBS
      BY <1>2, <1>3, <2>1, Zenon DEF SameSlot, NetInv, NetTypeOK, SockRec
    <3>. QED  BY <1>2, <1>3, <3>1, Zenon DEF NetInv, Streams, Intact, SameSlot
  <2>. QED  BY <1>3, <2>1, Zenon DEF NetInv, Streams
<1>. QED  BY <1>4, <1>5, <1>6, <1>7, Zenon DEF NetInv

\* lwIP gives a connection up.
LEMMA ErrStep ==
  ASSUME NetInv, NEW p \in PCBS, cb_err(p) PROVE NetInv'
<1>1. /\ socks' = [s \in Socks |->
                     IF s \in pcbs[p].arg THEN [socks[s] EXCEPT !.state = "ERR", !.pcb = {}] ELSE socks[s]]
      /\ pcbs' = [pcbs EXCEPT ![p] = FreePcb]
      /\ got' = [got EXCEPT ![p] = <<>>]
      /\ lost' = lost \ {p} /\ sockCalls' = sockCalls
  BY Zenon DEF cb_err, OnSlots, SockOf
<1>2. \A s \in Socks : socks[s] \in SockRec
  BY Zenon DEF NetInv, NetTypeOK
<1>3. /\ \A s \in Socks : s \in pcbs[p].arg =>
           /\ socks'[s].state = "ERR" /\ socks'[s].pcb = {} /\ socks'[s].gen = socks[s].gen
           /\ socks[s].pcb = {p}
      /\ \A s \in Socks : s \notin pcbs[p].arg => socks'[s] = socks[s] /\ p \notin socks[s].pcb
      /\ pcbs'[p].arg = {} /\ pcbs'[p].st = "free"
      /\ \A q \in PCBS \ {p} : pcbs'[q] = pcbs[q] /\ got'[q] = got[q]
      /\ got'[p] = <<>>
  <2>1. ASSUME NEW s \in Socks, s \in pcbs[p].arg
        PROVE  /\ socks'[s].state = "ERR" /\ socks'[s].pcb = {} /\ socks'[s].gen = socks[s].gen
    <3>1. socks'[s] = [socks[s] EXCEPT !.state = "ERR", !.pcb = {}]
      BY <1>1, <2>1, Zenon
    <3>. QED  BY <1>2, <3>1, Zenon DEF SockRec
  <2>2. /\ \A s \in Socks : s \in pcbs[p].arg => socks[s].pcb = {p}
        /\ \A s \in Socks : s \notin pcbs[p].arg => p \notin socks[s].pcb
    BY <1>2 DEF NetInv, Links, SockRec
  <2>3. pcbs'[p].arg = {} /\ pcbs'[p].st = "free" /\ got'[p] = <<>>
    BY <1>1, Zenon DEF NetInv, NetTypeOK, FreePcb
  <2>4. \A q \in PCBS \ {p} : pcbs'[q] = pcbs[q] /\ got'[q] = got[q]
    BY <1>1, Zenon DEF NetInv, NetTypeOK
  <2>. QED  BY <1>1, <2>1, <2>2, <2>3, <2>4, Zenon
<1>4. NetTypeOK'
  <2>1. \A s \in SockRec : [s EXCEPT !.state = "ERR", !.pcb = {}] \in SockRec
    BY Zenon DEF SockRec
  <2>2. FreePcb \in PcbRec /\ <<>> \in Seq(Nat)
    BY DEF FreePcb, PcbRec
  <2>. QED  BY <1>1, <1>2, <2>1, <2>2, Zenon DEF NetInv, NetTypeOK
<1>5. Links'
  <2>2. \A q \in PCBS, s \in Socks : s \in pcbs'[q].arg <=> q \in socks'[s].pcb
    <3>. SUFFICES ASSUME NEW q \in PCBS, NEW s \in Socks PROVE s \in pcbs'[q].arg <=> q \in socks'[s].pcb
      BY Zenon
    <3>1. s \in pcbs[q].arg <=> q \in socks[s].pcb
      BY Zenon DEF NetInv, Links
    <3>. QED  BY <1>3, <3>1
  <2>3. \A s \in Socks : socks'[s].pcb = {} \/ socks'[s] = socks[s]
    BY <1>3, Zenon
  <2>4. \A q \in PCBS : pcbs'[q].arg = {} \/ pcbs'[q] = pcbs[q]
    BY <1>3, Zenon
  <2>. QED  BY <2>2, <2>3, <2>4 DEF NetInv, Links
<1>6. OwnCalls'
  <2>. SUFFICES ASSUME NEW t \in STASKS, NEW c \in sockCalls[t] PROVE OwnCall(c)'
    BY <1>1, Zenon DEF OwnCalls
  <2>1. c.fd \in Socks /\ OwnCall(c)
    BY DEF NetInv, NetTypeOK, CallRec, OwnCalls
  <2>. QED  BY <1>3, <2>1, Zenon DEF OwnCall
<1>7. Streams'
  <2>1. \A q \in PCBS : pcbs'[q].arg = {} => got'[q] = <<>>
    BY <1>3, Zenon DEF NetInv, Streams
  <2>2. ASSUME NEW s \in Socks, NEW q \in socks'[s].pcb \ lost'
        PROVE  Intact(got'[q], socks'[s], pcbs'[q].peer)
    <3>1. s \notin pcbs[p].arg /\ socks'[s] = socks[s] /\ q # p
      BY <1>3, <2>2, Zenon
    <3>2. q \in PCBS /\ q \notin lost
      BY <1>1, <2>2, <3>1, Zenon DEF NetInv, NetTypeOK, SockRec
    <3>. QED  BY <1>3, <3>1, <3>2, Zenon DEF NetInv, Streams
  <2>. QED  BY <2>1, <2>2, Zenon DEF Streams
<1>. QED  BY <1>4, <1>5, <1>6, <1>7, Zenon DEF NetInv

\* A call takes a slot and a pcb.
LEMMA SocketStep ==
  ASSUME NetInv, NEW t \in STASKS, ksock_socket(t) PROVE NetInv'
<1>1. PICK p \in PCBS, d \in Socks :
        /\ pcbs[p].st = "free" /\ socks[d].state = "FREE"
        /\ socks' = [socks EXCEPT ![d] =
             [FreeSock EXCEPT !.state = "ALLOC", !.pcb = {p}, !.gen = NextGen(socks[d].gen),
                              !.rx = socks[d].rx]]
        /\ pcbs' = [pcbs EXCEPT ![p] = [FreePcb EXCEPT !.st = "new", !.arg = {d}]]
        /\ UNCHANGED <<sockCalls, got, lost>>
  BY Zenon DEF ksock_socket
<1>2. /\ socks \in [Socks -> SockRec] /\ socks[d] \in SockRec /\ pcbs \in [PCBS -> PcbRec]
      /\ socks[d].gen \in Nat /\ socks[d].rx \in [0 .. KSOCK_RXBUF - 1 -> Nat]
      /\ 0 \in 0 .. KSOCK_RXBUF - 1 /\ 0 \in 0 .. KSOCK_RXBUF
      /\ pcbs[p].arg = {} /\ socks[d].pcb = {}
  <2>1. socks \in [Socks -> SockRec] /\ pcbs \in [PCBS -> PcbRec]
    BY Zenon DEF NetInv, NetTypeOK
  <2>2. socks[d] \in SockRec
    BY <2>1, Zenon
  <2>3. socks[d].gen \in Nat /\ socks[d].rx \in [0 .. KSOCK_RXBUF - 1 -> Nat]
    BY <2>2, Zenon DEF SockRec
  <2>4. 0 \in 0 .. KSOCK_RXBUF - 1 /\ 0 \in 0 .. KSOCK_RXBUF
    BY NetAssumption
  <2>5. pcbs[p].arg = {} /\ socks[d].pcb = {}
    BY <1>1, Zenon DEF NetInv, Links
  <2>. QED  BY <2>1, <2>2, <2>3, <2>4, <2>5, Zenon
<1>3. PICK g \in Nat : g = socks[d].gen + 1
  BY <1>2
<1>4. PICK r \in SockRec :
        /\ socks' = [socks EXCEPT ![d] = r]
        /\ r.state = "ALLOC" /\ r.pcb = {p} /\ r.gen = g /\ r.rx = socks[d].rx
        /\ r.head = 0 /\ r.len = 0
  <2>1. PICK r : r = [FreeSock EXCEPT !.state = "ALLOC", !.pcb = {p}, !.gen = g, !.rx = socks[d].rx]
    BY Zenon
  <2>2. r = [state |-> "ALLOC", gen |-> g, pcb |-> {p}, rx |-> socks[d].rx,
             head |-> 0, len |-> 0, peer_closed |-> FALSE]
    BY <2>1, Zenon DEF FreeSock
  <2>3. r \in SockRec
    BY <1>2, <2>2, Zenon DEF SockRec
  <2>4. socks' = [socks EXCEPT ![d] = r]
    BY <1>1, <1>3, <2>1, Zenon DEF NextGen
  <2>. QED  BY <2>2, <2>3, <2>4, Zenon
<1>5. PICK c \in PcbRec :
        pcbs' = [pcbs EXCEPT ![p] = c] /\ c.st = "new" /\ c.arg = {d} /\ c.peer = 0
  <2>1. PICK c : c = [FreePcb EXCEPT !.st = "new", !.arg = {d}]
    BY Zenon
  <2>2. c = [st |-> "new", arg |-> {d}, peer |-> 0]
    BY <2>1, Zenon DEF FreePcb
  <2>3. c \in PcbRec
    BY <2>2, Zenon DEF PcbRec
  <2>4. c.st = "new" /\ c.arg = {d} /\ c.peer = 0
    BY <2>2, Zenon
  <2>5. pcbs' = [pcbs EXCEPT ![p] = c]
    BY <1>1, <2>1, Zenon
  <2>. QED  BY <2>3, <2>4, <2>5, Zenon
<1>6. /\ socks'[d] = r /\ \A s \in Socks \ {d} : socks'[s] = socks[s]
      /\ pcbs'[p] = c /\ \A q \in PCBS \ {p} : pcbs'[q] = pcbs[q]
  BY <1>2, <1>4, <1>5, Zenon
<1>7. NetTypeOK'
  BY <1>1, <1>2, <1>4, <1>5 DEF NetInv, NetTypeOK
<1>8. Links'
  <2>1. \A q \in PCBS, s \in Socks : s \in pcbs'[q].arg <=> q \in socks'[s].pcb
    BY <1>2, <1>4, <1>5, <1>6 DEF NetInv, Links
  <2>. QED  BY <1>4, <1>5, <1>6, <2>1 DEF NetInv, Links
<1>9. OwnCalls'
  BY <1>1, <1>3, <1>4, <1>6, NewGeneration, Zenon DEF NetInv
<1>10. Streams'
  <2>1. got[p] = <<>>
    BY <1>2, Zenon DEF NetInv, Streams
  <2>2. Intact(<<>>, r, 0)
    <3>1. InRing(<<>>, r.rx, 0, 0, 0)
      BY DEF InRing
    <3>. QED  BY <1>4, <3>1, Zenon DEF Intact
  <2>3. ASSUME NEW s \in Socks, NEW q \in socks'[s].pcb \ lost'
        PROVE  Intact(got'[q], socks'[s], pcbs'[q].peer)
    <3>1. CASE s = d
      <4>1. q = p
        BY <1>4, <1>6, <2>3, <3>1, Zenon
      <4>2. got'[q] = <<>> /\ socks'[s] = r /\ pcbs'[q].peer = 0
        BY <1>1, <1>5, <1>6, <2>1, <3>1, <4>1, Zenon
      <4>. QED  BY <2>2, <4>2, Zenon
    <3>2. CASE s # d
      <4>1. q \in socks[s].pcb \ lost /\ q \in PCBS /\ socks'[s] = socks[s]
        BY <1>1, <1>2, <1>6, <2>3, <3>2, Zenon DEF SockRec
      <4>2. q # p
        BY <1>2, <4>1, Zenon DEF NetInv, Links
      <4>. QED  BY <1>1, <1>6, <4>1, <4>2, Zenon DEF NetInv, Streams
    <3>. QED  BY <3>1, <3>2, Zenon
  <2>4. \A q \in PCBS : pcbs'[q].arg = {} => got'[q] = <<>>
    BY <1>1, <1>6, <2>1, Zenon DEF NetInv, Streams
  <2>. QED  BY <2>3, <2>4, Zenon DEF Streams
<1>. QED  BY <1>7, <1>8, <1>9, <1>10, Zenon DEF NetInv

\* A call on a slot, at its first look.
LEMMA CallFits ==
  ASSUME NetTypeOK, NEW fd \in Socks, NEW op \in {"connect", "recv", "send"}
  PROVE  /\ CallOn(op, fd) \in CallRec /\ CallOn(op, fd).fd = fd
         /\ CallOn(op, fd).gen = socks[fd].gen /\ CallOn(op, fd).conn = socks[fd].pcb
<1>1. socks[fd].gen \in Nat /\ socks[fd].pcb \subseteq PCBS
  BY Zenon DEF NetTypeOK, SockRec
<1>. QED  BY <1>1, Zenon DEF CallOn, CallRec

\* The calls after a look of t at c: the others', and c, if it goes on.
LEMMA OneLook ==
  ASSUME NetTypeOK, NEW t \in STASKS, NEW c \in CallRec,
         c \in sockCalls[t] \/ (c.gen = socks[c.fd].gen /\ c.conn = socks[c.fd].pcb),
         Waits(t, c) \/ Returns(t)
  PROVE  /\ sockCalls' \in [STASKS -> SUBSET CallRec]
         /\ \A u \in STASKS : \A e \in sockCalls'[u] :
              e \in sockCalls[u] \/ (e.gen = socks[e.fd].gen /\ e.conn = socks[e.fd].pcb)
<1>1. sockCalls' = [sockCalls EXCEPT ![t] = {c}] \/ sockCalls' = [sockCalls EXCEPT ![t] = {}]
  BY Zenon DEF Waits, Returns
<1>2. sockCalls \in [STASKS -> SUBSET CallRec]
  BY Zenon DEF NetTypeOK
<1>3. sockCalls' \in [STASKS -> SUBSET CallRec]
  BY <1>1, <1>2, Zenon
<1>4. /\ \A u \in STASKS \ {t} : sockCalls'[u] = sockCalls[u]
      /\ sockCalls'[t] = {c} \/ sockCalls'[t] = {}
  BY <1>1, <1>2, Zenon
<1>. QED  BY <1>3, <1>4, Zenon

\* The call a look is of.
LEMMA LookingFits ==
  ASSUME NetTypeOK, NEW t \in STASKS, NEW op \in {"recv", "send"}, NEW c \in Looking(t, op)
  PROVE  /\ c \in CallRec /\ c.fd \in Socks
         /\ c \in sockCalls[t] \/ (c.gen = socks[c.fd].gen /\ c.conn = socks[c.fd].pcb)
<1>1. CASE sockCalls[t] = {}
  <2>1. PICK fd \in Socks : c = CallOn(op, fd)
    BY <1>1, Zenon DEF Looking
  <2>. QED  BY <2>1, CallFits
<1>2. CASE sockCalls[t] # {}
  BY <1>2 DEF Looking, NetTypeOK, CallRec
<1>. QED  BY <1>1, <1>2, Zenon

\* A look that changes nothing but the calls.
LEMMA LookStep ==
  ASSUME NetInv, NEW t \in STASKS, NEW c \in CallRec,
         c \in sockCalls[t] \/ (c.gen = socks[c.fd].gen /\ c.conn = socks[c.fd].pcb),
         Waits(t, c) \/ Returns(t), UNCHANGED <<socks, pcbs, got, lost>>
  PROVE  NetInv'
<1>1. /\ sockCalls' \in [STASKS -> SUBSET CallRec]
      /\ \A u \in STASKS : \A e \in sockCalls'[u] :
           e \in sockCalls[u] \/ (e.gen = socks[e.fd].gen /\ e.conn = socks[e.fd].pcb)
  BY OneLook, Zenon DEF NetInv
<1>2. OwnCalls'
  BY <1>1, CallsKept, Zenon DEF NetInv
<1>3. socks' = socks /\ pcbs' = pcbs /\ got' = got /\ lost' = lost
  BY Zenon
<1>4. NetTypeOK'
  BY <1>1, <1>3, Zenon DEF NetInv, NetTypeOK
<1>5. Links' /\ Streams'
  BY <1>3 DEF NetInv, Links, Streams
<1>. QED  BY <1>2, <1>4, <1>5, Zenon DEF NetInv

\* A call starts to connect.
LEMMA ConnectStep ==
  ASSUME NetInv, NEW t \in STASKS, NEW fd \in Socks, ksock_connect(t, fd) PROVE NetInv'
<1>1. PICK p \in socks[fd].pcb :
        /\ socks' = [socks EXCEPT ![fd].state = "CONNECTING"]
        /\ \/ pcbs' = [pcbs EXCEPT ![p].st = "syn"] /\ Waits(t, CallOn("connect", fd))
           \/ UNCHANGED pcbs /\ Returns(t)
        /\ socks[fd].state = "ALLOC" /\ UNCHANGED <<got, lost>>
  BY SMTT(30) DEF ksock_connect
<1>2. /\ socks \in [Socks -> SockRec] /\ socks[fd] \in SockRec /\ p \in PCBS
      /\ pcbs \in [PCBS -> PcbRec] /\ pcbs[p] \in PcbRec /\ fd \in pcbs[p].arg
      /\ "CONNECTING" \in SockStates /\ "syn" \in PcbStates /\ 0 \in Nat
      /\ \A s \in Socks : SameSlot(socks[s], socks[s])
  BY Zenon DEF NetInv, NetTypeOK, SockRec, Links, SockStates, PcbStates, SameSlot
<1>3. /\ socks' \in [Socks -> SockRec]
      /\ \A s \in Socks : /\ SameSlot(socks'[s], socks[s])
                          /\ \/ socks'[s].state = socks[s].state
                             \/ socks[s].state = "ALLOC" /\ socks'[s].state = "CONNECTING"
  <2>1. socks' = [socks EXCEPT ![fd] = [socks[fd] EXCEPT !.state = "CONNECTING"]]
    BY <1>1, <1>2, Zenon
  <2>2. PICK r : r = [socks[fd] EXCEPT !.state = "CONNECTING"]
    BY Zenon
  <2>3. SameSlot(r, socks[fd]) /\ r.state = "CONNECTING" /\ r \in SockRec
    <3>1. SameSlot(r, socks[fd]) /\ r.state = "CONNECTING"
      BY <1>2, <2>2, SlotMarked
    <3>. QED  BY <3>1, Zenon DEF SameSlot
  <2>4. socks' \in [Socks -> SockRec] /\ socks'[fd] = r /\ \A s \in Socks \ {fd} : socks'[s] = socks[s]
    BY <1>2, <2>1, <2>2, <2>3, Zenon
  <2>. QED  BY <1>1, <1>2, <2>3, <2>4, Zenon
<1>4. /\ pcbs' \in [PCBS -> PcbRec]
      /\ \A q \in PCBS : /\ pcbs'[q].arg = pcbs[q].arg /\ pcbs'[q].peer = pcbs[q].peer
                         /\ pcbs'[q].st = pcbs[q].st \/ pcbs'[q].st = "syn"
  <2>1. CASE UNCHANGED pcbs
    BY <1>2, <2>1, Zenon
  <2>2. CASE pcbs' = [pcbs EXCEPT ![p].st = "syn"]
    <3>1. pcbs' = [pcbs EXCEPT ![p] = [pcbs[p] EXCEPT !.st = "syn"]]
      BY <1>2, <2>2, Zenon
    <3>2. /\ [pcbs[p] EXCEPT !.st = "syn"] \in PcbRec /\ [pcbs[p] EXCEPT !.st = "syn"].peer = pcbs[p].peer
          /\ [pcbs[p] EXCEPT !.st = "syn"].arg = pcbs[p].arg /\ [pcbs[p] EXCEPT !.st = "syn"].st = "syn"
      BY <1>2, PcbMoved, Zenon
    <3>. QED  BY <1>2, <3>1, <3>2, Zenon
  <2>. QED  BY <1>1, <2>1, <2>2, Zenon
<1>5. /\ sockCalls' \in [STASKS -> SUBSET CallRec]
      /\ \A u \in STASKS : \A e \in sockCalls'[u] :
           e \in sockCalls[u] \/ (e.gen = socks[e.fd].gen /\ e.conn = socks[e.fd].pcb)
  <2>1. PICK c \in CallRec : /\ c = CallOn("connect", fd)
                             /\ c.gen = socks[c.fd].gen /\ c.conn = socks[c.fd].pcb
    BY CallFits DEF NetInv
  <2>. QED  BY <1>1, <2>1, OneLook, Zenon DEF NetInv
<1>6. NetTypeOK'
  BY <1>1, <1>3, <1>4, <1>5, Zenon DEF NetInv, NetTypeOK
<1>7. Links'
  BY <1>3, <1>4 DEF NetInv, Links, SameSlot
<1>8. OwnCalls'
  <2>1. \A s \in Socks : /\ socks'[s].pcb = socks[s].pcb /\ socks'[s].gen = socks[s].gen
                         /\ socks'[s].state = socks[s].state
                            \/ (socks[s].state # "ERR" /\ socks'[s].state # "ERR")
    BY <1>3, Zenon DEF SameSlot
  <2>. QED  BY <1>5, <2>1, CallsKept, Zenon DEF NetInv
<1>9. Streams'
  <2>1. ASSUME NEW s \in Socks, NEW q \in socks'[s].pcb \ lost'
        PROVE  Intact(got'[q], socks'[s], pcbs'[q].peer)
    <3>1. q \in socks[s].pcb \ lost /\ q \in PCBS
      BY <1>1, <1>2, <1>3, <2>1, Zenon DEF SameSlot, SockRec
    <3>. QED  BY <1>1, <1>3, <1>4, <3>1, Zenon DEF NetInv, Streams, Intact, SameSlot
  <2>. QED  BY <1>1, <1>4, <2>1, Zenon DEF NetInv, Streams
<1>. QED  BY <1>6, <1>7, <1>8, <1>9, Zenon DEF NetInv

\* One look of ksock_recv that takes bytes.
LEMMA TakeStep ==
  ASSUME NetInv, NEW t \in STASKS, NEW c \in CallRec,
         c \in sockCalls[t] \/ (c.gen = socks[c.fd].gen /\ c.conn = socks[c.fd].pcb),
         NEW n \in 1 .. socks[c.fd].len,
         socks' = [socks EXCEPT ![c.fd] = rx_pop(socks[c.fd], n)],
         got' = [p \in PCBS |-> IF p \in socks[c.fd].pcb
                                THEN got[p] \o SubSeq(RxBytes(socks[c.fd]), 1, n) ELSE got[p]],
         Returns(t), UNCHANGED <<pcbs, lost>>
  PROVE  NetInv'
<1>. DEFINE d == c.fd
            r == rx_pop(socks[d], n)
            b == SubSeq(RxBytes(socks[d]), 1, n)
<1>1. /\ d \in Socks /\ socks \in [Socks -> SockRec] /\ socks[d] \in SockRec
      /\ got \in [PCBS -> Seq(Nat)] /\ pcbs \in [PCBS -> PcbRec]
      /\ pcbs' = pcbs /\ lost' = lost
      /\ \A p \in PCBS : got[p] \in Seq(Nat) /\ pcbs[p].peer \in Nat
  BY Zenon DEF CallRec, NetInv, NetTypeOK, PcbRec
<1>2. /\ r \in SockRec /\ r.pcb = socks[d].pcb /\ r.state = socks[d].state /\ r.gen = socks[d].gen
      /\ \A g \in Seq(Nat), a \in Nat : /\ g \o b \in Seq(Nat)
                                        /\ Intact(g, socks[d], a) => Intact(g \o b, r, a)
  <2>1. 0 \in Nat /\ <<>> \in Seq(Nat)
    OBVIOUS
  <2>2. /\ r \in SockRec /\ r.pcb = socks[d].pcb /\ r.state = socks[d].state /\ r.gen = socks[d].gen
    BY <1>1, <2>1, PopSlot, Zenon
  <2>3. ASSUME NEW g \in Seq(Nat), NEW a \in Nat
        PROVE  /\ g \o b \in Seq(Nat)
               /\ Intact(g, socks[d], a) => Intact(g \o b, r, a)
    BY <1>1, PopSlot, Zenon
  <2>. QED  BY <2>2, <2>3, Zenon
<1>. HIDE DEF r, b
<1>3. /\ socks' = [socks EXCEPT ![d] = r]
      /\ got' = [p \in PCBS |-> IF p \in socks[d].pcb THEN got[p] \o b ELSE got[p]]
  BY Zenon DEF r, b
<1>. HIDE DEF d
<1>4. socks'[d] = r /\ \A s \in Socks \ {d} : socks'[s] = socks[s]
  BY <1>1, <1>3, Zenon
<1>5. /\ sockCalls' \in [STASKS -> SUBSET CallRec]
      /\ \A u \in STASKS : \A e \in sockCalls'[u] :
           e \in sockCalls[u] \/ (e.gen = socks[e.fd].gen /\ e.conn = socks[e.fd].pcb)
  BY OneLook, Zenon DEF NetInv
<1>6. NetTypeOK'
  <2>1. socks' \in [Socks -> SockRec]
    BY <1>1, <1>2, <1>3, Zenon
  <2>2. got' \in [PCBS -> Seq(Nat)]
    <3>1. \A p \in PCBS : got[p] \o b \in Seq(Nat)
      BY <1>1, <1>2, Zenon
    <3>2. ASSUME NEW p \in PCBS PROVE got'[p] \in Seq(Nat)
      <4>1. got'[p] = got[p] \o b \/ got'[p] = got[p]
        BY <1>3, Zenon
      <4>. QED  BY <1>1, <3>1, <4>1, Zenon
    <3>3. got' = [p \in PCBS |-> got'[p]]
      BY <1>3, Zenon
    <3>. QED  BY <3>2, <3>3, Zenon
  <2>. QED  BY <1>1, <1>5, <2>1, <2>2, Zenon DEF NetInv, NetTypeOK
<1>7. \A s \in Socks : /\ socks'[s].pcb = socks[s].pcb /\ socks'[s].state = socks[s].state
                       /\ socks'[s].gen = socks[s].gen
  BY <1>2, <1>4, Zenon
<1>8. Links'
  BY <1>1, <1>7, LinksKept, Zenon DEF NetInv
<1>9. OwnCalls'
  BY <1>5, <1>7, CallsKept, Zenon DEF NetInv
<1>10. Streams'
  <2>1. \A p \in PCBS : pcbs'[p].arg = {} => got'[p] = <<>>
    <3>1. \A p \in PCBS : pcbs[p].arg = {} => p \notin socks[d].pcb
      BY <1>1, Zenon DEF NetInv, Links
    <3>. QED  BY <1>1, <1>3, <3>1, Zenon DEF NetInv, Streams
  <2>2. ASSUME NEW s \in Socks, NEW q \in socks'[s].pcb \ lost'
        PROVE  Intact(got'[q], socks'[s], pcbs'[q].peer)
    <3>1. q \in socks[s].pcb /\ q \notin lost /\ q \in PCBS
      BY <1>1, <1>7, <2>2, Zenon DEF SockRec
    <3>2. Intact(got[q], socks[s], pcbs[q].peer)
      BY <3>1, Zenon DEF NetInv, Streams
    <3>3. CASE s = d
      <4>1. got'[q] = got[q] \o b
        BY <1>3, <3>1, <3>3, SMTT(30)
      <4>2. Intact(got[q] \o b, r, pcbs[q].peer)
        BY <1>1, <1>2, <3>1, <3>2, <3>3, Zenon
      <4>. QED  BY <1>1, <1>4, <3>3, <4>1, <4>2, Zenon
    <3>4. CASE s # d
      <4>1. q \notin socks[d].pcb
        <5>1. s \in pcbs[q].arg
          BY <3>1, Zenon DEF NetInv, Links
        <5>2. d \notin pcbs[q].arg
          BY <1>1, <3>1, <3>4, <5>1 DEF NetInv, Links
        <5>. QED  BY <1>1, <3>1, <5>2, Zenon DEF NetInv, Links
      <4>2. got'[q] = got[q]
        BY <1>3, <3>1, <4>1, Zenon
      <4>. QED  BY <1>1, <1>4, <3>2, <3>4, <4>2, Zenon
    <3>. QED  BY <3>3, <3>4, Zenon
  <2>. QED  BY <2>1, <2>2, Zenon DEF Streams
<1>. QED  BY <1>6, <1>8, <1>9, <1>10, Zenon DEF NetInv

\* A look of ksock_recv or ksock_send, and the last one of ksock_connect.
LEMMA LooksStep ==
  ASSUME NetInv, NEW t \in STASKS, ksock_recv(t) \/ ksock_send(t) \/ ConnectLook(t) PROVE NetInv'
<1>1. CASE ksock_recv(t)
  <2>1. PICK c \in Looking(t, "recv") :
          \/ (Waits(t, c) \/ Returns(t)) /\ UNCHANGED <<socks, pcbs, got, lost>>
          \/ /\ \E n \in 1 .. socks[c.fd].len :
                  /\ socks' = [socks EXCEPT ![c.fd] = rx_pop(@, n)]
                  /\ got' = [p \in PCBS |-> IF p \in socks[c.fd].pcb
                                            THEN got[p] \o SubSeq(RxBytes(socks[c.fd]), 1, n) ELSE got[p]]
             /\ Returns(t) /\ UNCHANGED <<pcbs, lost>>
    BY <1>1, Zenon DEF ksock_recv
  <2>2. /\ c \in CallRec /\ c.fd \in Socks
        /\ c \in sockCalls[t] \/ (c.gen = socks[c.fd].gen /\ c.conn = socks[c.fd].pcb)
    BY LookingFits, Zenon DEF NetInv
  <2>3. CASE (Waits(t, c) \/ Returns(t)) /\ UNCHANGED <<socks, pcbs, got, lost>>
    BY <2>2, <2>3, LookStep, Zenon
  <2>4. CASE /\ \E n \in 1 .. socks[c.fd].len :
                  /\ socks' = [socks EXCEPT ![c.fd] = rx_pop(@, n)]
                  /\ got' = [p \in PCBS |-> IF p \in socks[c.fd].pcb
                                            THEN got[p] \o SubSeq(RxBytes(socks[c.fd]), 1, n) ELSE got[p]]
             /\ Returns(t) /\ UNCHANGED <<pcbs, lost>>
    <3>1. PICK n \in 1 .. socks[c.fd].len :
                  /\ socks' = [socks EXCEPT ![c.fd] = rx_pop(socks[c.fd], n)]
                  /\ got' = [p \in PCBS |-> IF p \in socks[c.fd].pcb
                                            THEN got[p] \o SubSeq(RxBytes(socks[c.fd]), 1, n) ELSE got[p]]
      BY <2>2, <2>4, Zenon DEF NetInv, NetTypeOK
    <3>. QED  BY <2>2, <2>4, <3>1, TakeStep, Zenon
  <2>. QED  BY <2>1, <2>3, <2>4, Zenon
<1>2. CASE ksock_send(t)
  <2>1. PICK c \in Looking(t, "send") :
          (Waits(t, c) \/ Returns(t)) /\ UNCHANGED <<socks, pcbs, got, lost>>
    BY <1>2, Zenon DEF ksock_send
  <2>2. /\ c \in CallRec
        /\ c \in sockCalls[t] \/ (c.gen = socks[c.fd].gen /\ c.conn = socks[c.fd].pcb)
    BY LookingFits, Zenon DEF NetInv
  <2>. QED  BY <2>1, <2>2, LookStep, Zenon
<1>3. CASE ConnectLook(t)
  <2>1. PICK c \in sockCalls[t] : Returns(t) /\ UNCHANGED <<socks, pcbs, got, lost>>
    BY <1>3, Zenon DEF ConnectLook
  <2>2. c \in CallRec
    BY Zenon DEF NetInv, NetTypeOK
  <2>. QED  BY <2>1, <2>2, LookStep, Zenon
<1>. QED  BY <1>1, <1>2, <1>3, Zenon

\* A call gives a slot up.
LEMMA CloseStep ==
  ASSUME NetInv, NEW t \in STASKS, NEW fd \in Socks, ksock_close(t, fd) PROVE NetInv'
<1>1. /\ socks' = [socks EXCEPT ![fd].state = "FREE", ![fd].pcb = {}, ![fd].gen = NextGen(@)]
      /\ got' = [p \in PCBS |-> IF p \in socks[fd].pcb THEN <<>> ELSE got[p]]
      /\ lost' = lost \ socks[fd].pcb /\ sockCalls' = sockCalls
      /\ pcbs' = [p \in PCBS |->
            IF p \notin socks[fd].pcb THEN pcbs[p]
            ELSE IF pcbs[p].st = "est" THEN Detached(p, "closing")
            ELSE IF pcbs[p].st = "syn" THEN Detached(p, "closing-syn")
            ELSE FreePcb]
  BY Zenon DEF ksock_close
<1>2. /\ socks \in [Socks -> SockRec] /\ socks[fd] \in SockRec /\ pcbs \in [PCBS -> PcbRec]
      /\ socks[fd].gen \in Nat /\ got \in [PCBS -> Seq(Nat)] /\ <<>> \in Seq(Nat)
  BY DEF NetInv, NetTypeOK, SockRec
<1>3. PICK g \in Nat : g = socks[fd].gen + 1
  BY <1>2
<1>4. PICK r \in SockRec : /\ socks' = [socks EXCEPT ![fd] = r]
                           /\ r.state = "FREE" /\ r.pcb = {} /\ r.gen = g
  <2>1. PICK r : r = [socks[fd] EXCEPT !.state = "FREE", !.pcb = {}, !.gen = g]
    BY Zenon
  <2>2. socks' = [socks EXCEPT ![fd] = r]
    BY <1>1, <1>2, <1>3, <2>1, Zenon DEF NextGen, SockRec
  <2>3. r \in SockRec
    BY <1>2, <2>1, Zenon DEF SockRec
  <2>4. r.state = "FREE" /\ r.pcb = {} /\ r.gen = g
    BY <1>2, <2>1, Zenon DEF SockRec
  <2>. QED  BY <2>2, <2>3, <2>4, Zenon
<1>5. socks'[fd] = r /\ \A s \in Socks \ {fd} : socks'[s] = socks[s]
  BY <1>2, <1>4, Zenon
<1>6. /\ \A p \in PCBS : p \notin socks[fd].pcb => pcbs'[p] = pcbs[p] /\ got'[p] = got[p]
      /\ \A p \in PCBS : p \in socks[fd].pcb => /\ pcbs'[p] \in PcbRec /\ pcbs'[p].arg = {}
                                                /\ got'[p] = <<>>
  <2>1. \A p \in PCBS : p \notin socks[fd].pcb => pcbs'[p] = pcbs[p] /\ got'[p] = got[p]
    BY <1>1, Zenon
  <2>2. ASSUME NEW p \in PCBS, p \in socks[fd].pcb
        PROVE  pcbs'[p] \in PcbRec /\ pcbs'[p].arg = {} /\ got'[p] = <<>>
    <3>1. PICK v \in Nat : v = pcbs[p].peer
      BY <1>2, Zenon DEF PcbRec
    <3>2. /\ got'[p] = <<>>
          /\ \/ pcbs'[p] = Detached(p, "closing") \/ pcbs'[p] = Detached(p, "closing-syn")
             \/ pcbs'[p] = FreePcb
      BY <1>1, <2>2, Zenon
    <3>3. PICK st \in PcbStates, w \in Nat : pcbs'[p] = [st |-> st, arg |-> {}, peer |-> w]
      <4>1. "closing" \in PcbStates /\ "closing-syn" \in PcbStates /\ "free" \in PcbStates /\ 0 \in Nat
        BY Zenon DEF PcbStates
      <4>. QED  BY <3>1, <3>2, <4>1, Zenon DEF Detached, FreePcb
    <3>4. pcbs'[p] \in PcbRec /\ pcbs'[p].arg = {}
      BY <3>3 DEF PcbRec, PcbStates
    <3>. QED  BY <3>2, <3>4, Zenon
  <2>. QED  BY <2>1, <2>2, Zenon
<1>7. NetTypeOK'
  <2>1. socks' \in [Socks -> SockRec]
    BY <1>2, <1>4, Zenon
  <2>2. pcbs' \in [PCBS -> PcbRec]
    <3>1. \A p \in PCBS : pcbs'[p] \in PcbRec
      BY <1>2, <1>6, Zenon
    <3>2. pcbs' = [p \in PCBS |-> pcbs'[p]]
      BY <1>1, Zenon
    <3>. QED  BY <3>1, <3>2, Zenon
  <2>3. got' \in [PCBS -> Seq(Nat)]
    BY <1>1, <1>2, Zenon
  <2>. QED  BY <1>1, <2>1, <2>2, <2>3, Zenon DEF NetInv, NetTypeOK
<1>8. ASSUME NEW p \in PCBS, p \in socks[fd].pcb PROVE pcbs[p].arg = {fd}
  <2>1. fd \in pcbs[p].arg /\ \A s, u \in pcbs[p].arg : s = u
    BY <1>8, Zenon DEF NetInv, Links
  <2>. QED  BY <2>1, Zenon
<1>9. Links'
  <2>1. \A p \in PCBS, s \in Socks : s \in pcbs'[p].arg <=> p \in socks'[s].pcb
    <3>. SUFFICES ASSUME NEW p \in PCBS, NEW s \in Socks PROVE s \in pcbs'[p].arg <=> p \in socks'[s].pcb
      BY Zenon
    <3>1. s \in pcbs[p].arg <=> p \in socks[s].pcb
      BY Zenon DEF NetInv, Links
    <3>2. fd \in pcbs[p].arg <=> p \in socks[fd].pcb
      BY Zenon DEF NetInv, Links
    <3>3. CASE p \in socks[fd].pcb
      BY <1>4, <1>5, <1>6, <1>8, <3>1, <3>3
    <3>4. CASE p \notin socks[fd].pcb
      BY <1>4, <1>5, <1>6, <3>1, <3>2, <3>4, Zenon
    <3>. QED  BY <3>3, <3>4, Zenon
  <2>2. \A p \in PCBS : pcbs'[p].arg = {} \/ pcbs'[p] = pcbs[p]
    BY <1>6, Zenon
  <2>3. \A s \in Socks : socks'[s].pcb = {} \/ socks'[s] = socks[s]
    BY <1>4, <1>5, Zenon
  <2>. QED  BY <2>1, <2>2, <2>3 DEF NetInv, Links
<1>10. OwnCalls'
  BY <1>1, <1>3, <1>4, <1>5, NewGeneration, Zenon DEF NetInv
<1>11. Streams'
  <2>1. \A p \in PCBS : pcbs'[p].arg = {} => got'[p] = <<>>
    BY <1>6, Zenon DEF NetInv, Streams
  <2>2. ASSUME NEW s \in Socks, NEW q \in socks'[s].pcb \ lost'
        PROVE  Intact(got'[q], socks'[s], pcbs'[q].peer)
    <3>1. s # fd /\ socks'[s] = socks[s] /\ q \in socks[s].pcb
      BY <1>4, <1>5, <2>2, Zenon
    <3>2. q \in PCBS
      BY <1>2, <3>1, Zenon DEF SockRec
    <3>3. q \notin socks[fd].pcb
      <4>1. s \in pcbs[q].arg
        BY <3>1, <3>2, Zenon DEF NetInv, Links
      <4>. QED  BY <1>8, <3>1, <3>2, <4>1
    <3>4. q \notin lost /\ got'[q] = got[q] /\ pcbs'[q] = pcbs[q]
      BY <1>1, <1>6, <2>2, <3>2, <3>3, Zenon
    <3>. QED  BY <3>1, <3>4, Zenon DEF NetInv, Streams
  <2>. QED  BY <2>1, <2>2, Zenon DEF Streams
<1>. QED  BY <1>7, <1>9, <1>10, <1>11, Zenon DEF NetInv

LEMMA NetStarts == NetInit => NetInv
<1>. SUFFICES ASSUME NetInit PROVE NetInv
  BY Zenon
<1>1. 0 \in Nat /\ 0 \in 0 .. KSOCK_RXBUF - 1 /\ 0 \in 0 .. KSOCK_RXBUF /\ <<>> \in Seq(Nat)
  BY NetAssumption
<1>2. FreeSock \in SockRec /\ FreePcb \in PcbRec
  BY <1>1, Zenon DEF FreeSock, SockRec, FreePcb, PcbRec
<1>3. NetTypeOK
  BY <1>1, <1>2, Zenon DEF NetInit, NetTypeOK
<1>4. /\ \A s \in Socks : socks[s].pcb = {}
      /\ \A p \in PCBS : pcbs[p].arg = {} /\ got[p] = <<>>
      /\ \A t \in STASKS : sockCalls[t] = {}
  BY Zenon DEF NetInit, FreeSock, FreePcb
<1>. QED  BY <1>3, <1>4, Zenon DEF NetInv, Links, OwnCalls, Streams

LEMMA NetSteps == NetInv /\ [NetNext]_netVars => NetInv'
<1>. SUFFICES ASSUME NetInv, [NetNext]_netVars PROVE NetInv'
  BY Zenon
<1>1. ASSUME NEW t \in STASKS, NetStep(t) PROVE NetInv'
  BY <1>1, SocketStep, ConnectStep, CloseStep, LooksStep, Zenon DEF NetStep
<1>2. ASSUME NEW p \in PCBS, Lwip(p) PROVE NetInv'
  BY <1>2, RecvStep, PeerStep, ErrStep, Zenon DEF Lwip
<1>3. CASE UNCHANGED netVars
  <2>1. socks' = socks /\ pcbs' = pcbs /\ sockCalls' = sockCalls /\ got' = got /\ lost' = lost
    BY <1>3, SMTT(30) DEF netVars
  <2>2. NetTypeOK' /\ Links'
    BY <2>1, Zenon DEF NetInv, NetTypeOK, Links
  <2>3. OwnCalls' /\ Streams'
    BY <2>1, Zenon DEF NetInv, OwnCalls, OwnCall, Streams
  <2>. QED  BY <2>2, <2>3, Zenon DEF NetInv
<1>. QED  BY <1>1, <1>2, <1>3, Zenon DEF NetNext

\* An intact ring, read as the sequence that RxBytes is.
LEMMA InOrder ==
  ASSUME NEW s \in SockRec, NEW g \in Seq(Nat), NEW a \in Nat, Intact(g, s, a)
  PROVE  g \o RxBytes(s) = [k \in 1 .. a |-> k]
<1>0. /\ KSOCK_RXBUF \in Nat \ {0} /\ s.head \in 0 .. KSOCK_RXBUF - 1 /\ s.len \in 0 .. KSOCK_RXBUF
      /\ s.rx \in [0 .. KSOCK_RXBUF - 1 -> Nat] /\ Len(g) \in Nat
  BY NetAssumption DEF SockRec
<1>1. PICK l \in Nat : l = s.len /\ l <= KSOCK_RXBUF
  BY <1>0
<1>2. PICK h \in 0 .. KSOCK_RXBUF - 1 : h = s.head
  BY <1>0, Zenon
<1>3. PICK m \in Nat : m = Len(g)
  BY <1>0, Zenon
<1>4. /\ m + l = a
      /\ \A k \in 1 .. m : g[k] = k
      /\ \A k \in 0 .. l - 1 : s.rx[(h + k) % KSOCK_RXBUF] = m + k + 1
  BY <1>1, <1>2, <1>3, Zenon DEF Intact, InRing
<1>5. \A k \in 1 .. l : k - 1 \in 0 .. l - 1 /\ m + (k - 1) + 1 = m + k /\ m + k \in Nat
  BY <1>1, <1>3
<1>6. RxBytes(s) = [k \in 1 .. l |-> m + k]
  <2>1. RxBytes(s) = [k \in 1 .. l |-> s.rx[(h + (k - 1)) % KSOCK_RXBUF]]
    BY <1>1, <1>2, Zenon DEF RxBytes
  <2>2. \A k \in 1 .. l : s.rx[(h + (k - 1)) % KSOCK_RXBUF] = m + k
    BY <1>4, <1>5, Zenon
  <2>. QED  BY <2>1, <2>2, Zenon
<1>7. PICK b \in Seq(Nat) : b = RxBytes(s) /\ Len(b) = l /\ \A k \in 1 .. l : b[k] = m + k
  <2>1. [k \in 1 .. l |-> m + k] \in Seq(Nat) /\ Len([k \in 1 .. l |-> m + k]) = l
    BY <1>1, <1>3
  <2>. QED  BY <1>6, <2>1, SMTT(30)
<1>8. /\ g \o b \in Seq(Nat) /\ Len(g \o b) = a
      /\ \A k \in 1 .. m : (g \o b)[k] = g[k]
  BY <1>3, <1>4, <1>7
<1>9. ASSUME NEW k \in 1 .. a PROVE (g \o b)[k] = k
  <2>1. CASE k \in 1 .. m
    BY <1>4, <1>8, <2>1, Zenon
  <2>2. CASE k \notin 1 .. m
    <3>1. PICK j \in 1 .. l : k = m + j /\ k - m = j
      <4>1. k - m \in 1 .. l /\ k = m + (k - m)
        BY <1>3, <1>4, <2>2
      <4>. QED  BY <4>1, Zenon
    <3>2. k \in 1 .. Len(g) + Len(b) /\ ~(k <= Len(g)) /\ k - Len(g) = j
      BY <1>3, <1>4, <1>7, <2>2, <3>1
    <3>3. (g \o b)[k] = b[j]
      BY <3>2
    <3>. QED  BY <1>7, <3>1, <3>3, Zenon
  <2>. QED  BY <2>1, <2>2, Zenon
<1>10. PICK q \in Seq(Nat) : q = g \o b /\ Len(q) = a /\ \A k \in 1 .. a : q[k] = k
  BY <1>8, <1>9, Zenon
<1>11. q = [k \in 1 .. a |-> k]
  <2>1. q \in [1 .. Len(q) -> Nat]
    OBVIOUS
  <2>. QED  BY <1>10, <2>1, Zenon
<1>. QED  BY <1>7, <1>10, <1>11, Zenon

LEMMA NetHolds == NetInv => SocketSound
<1>. SUFFICES ASSUME NetInv PROVE SocketSound
  BY Zenon
<1>1. PcbLinked
  BY Zenon DEF NetInv, Links, PcbLinked
<1>2. StreamIntact
  <2>. SUFFICES ASSUME NEW s \in Socks, NEW p \in socks[s].pcb \ lost
                PROVE  got[p] \o RxBytes(socks[s]) = [k \in 1 .. pcbs[p].peer |-> k]
    BY Zenon DEF StreamIntact
  <2>1. socks[s] \in SockRec /\ p \in PCBS
    BY Zenon DEF NetInv, NetTypeOK, SockRec
  <2>2. got[p] \in Seq(Nat) /\ pcbs[p].peer \in Nat
    BY <2>1, Zenon DEF NetInv, NetTypeOK, PcbRec
  <2>3. Intact(got[p], socks[s], pcbs[p].peer)
    BY Zenon DEF NetInv, Streams
  <2>. QED  BY <2>1, <2>2, <2>3, InOrder, Zenon
<1>3. SameConnection
  BY Zenon DEF NetInv, OwnCalls, OwnCall, SameConnection, Gone
<1>. QED  BY <1>1, <1>2, <1>3, Zenon DEF SocketSound

\* Over any number of tasks, slots and pcbs, any size of the ring and any segments: a
\* pcb that lwIP calls back with refers to the slot that refers to it or to none, so
\* that ksock_close leaves nothing behind for a late callback; what the calls of
\* ksock_recv returned and what rx_push left in the ring is what the peer sent, in
\* order, until a segment did not fit; and a call that slept acts on the connection it
\* began on.
THEOREM SocketsSound == NetSpec => []SocketSound
<1>1. NetSpec => []NetInv
  BY NetStarts, NetSteps, PTL DEF NetSpec
<1>. QED  BY <1>1, NetHolds, PTL

=============================================================================
