------------------------------ MODULE NetSock ------------------------------
(***************************************************************************)
(* kernel/net_socket.c: TCP sockets over the callbacks of lwIP.            *)
(*                                                                         *)
(* Every section is under net_lock and is one action: a call of a task on  *)
(* any CPU, or a callback that lwIP makes inside the poll of the BSP's     *)
(* timer (cb_network).  A call that has to wait releases the lock, sleeps  *)
(* until an interrupt and looks again, so that callbacks and the calls of  *)
(* other tasks come between its looks.  Descriptors belong to no task.     *)
(*                                                                         *)
(* lwIP and the peers are external: a pcb is free, new, on its way to a    *)
(* peer, established, or closing once the socket let go of it; a peer      *)
(* sends the bytes 1, 2, 3 ... over a connection.  Names that start with   *)
(* Mut are slips of the code.                                              *)
(***************************************************************************)
EXTENDS Integers, Sequences

CONSTANTS
  STASKS,        \* tasks that use sockets
  KSOCK_MAX,     \* 8
  KSOCK_RXBUF,   \* 4096
  PCBS,          \* the pcbs of lwIP's pool
  SegLens,       \* lengths of the segments of a peer
  MaxPeerBytes,  \* bound on the bytes of a peer
  MaxGen         \* bound on the generations of a slot

ASSUME NetAssumption ==
  /\ KSOCK_MAX \in Nat \ {0} /\ KSOCK_RXBUF \in Nat \ {0}
  /\ SegLens \subseteq Nat \ {0} /\ MaxPeerBytes \in Nat /\ MaxGen \in Nat

VARIABLES
  socks,      \* the socket table
  pcbs,       \* lwIP's pcbs
  sockCalls,      \* task -> {} or the blocking call it is in
  got,        \* history: pcb -> the bytes ksock_recv returned of this connection
  lost        \* history: pcbs of which rx_push dropped bytes

netVars == <<socks, pcbs, sockCalls, got, lost>>

Socks == 0 .. KSOCK_MAX - 1
FreePcb == [st |-> "free", arg |-> {}, peer |-> 0]
FreeSock == [state |-> "FREE", gen |-> 0, pcb |-> {}, rx |-> [i \in 0 .. KSOCK_RXBUF - 1 |-> 0],
             head |-> 0, len |-> 0, peer_closed |-> FALSE]

\* ksock_init.
NetInit ==
  /\ socks = [s \in Socks |-> FreeSock]
  /\ pcbs = [p \in PCBS |-> FreePcb]
  /\ sockCalls = [t \in STASKS |-> {}]
  /\ got = [p \in PCBS |-> <<>>]
  /\ lost = {}

-----------------------------------------------------------------------------
(* The ring *)

\* What does not fit is dropped.
Room(s, data) == IF Len(data) <= KSOCK_RXBUF - s.len THEN Len(data) ELSE KSOCK_RXBUF - s.len
rx_push(s, data) ==
  LET n == Room(s, data)
  IN  [s EXCEPT !.len = @ + n,
                !.rx = [i \in DOMAIN @ |->
                          LET k == (i - s.head - s.len) % KSOCK_RXBUF
                          IN  IF k < n THEN data[k + 1] ELSE @[i]]]
RxBytes(s) == [i \in 1 .. s.len |-> s.rx[(s.head + i - 1) % KSOCK_RXBUF]]
rx_pop(s, n) == [s EXCEPT !.head = (@ + n) % KSOCK_RXBUF, !.len = @ - n]

-----------------------------------------------------------------------------
(* Callbacks of lwIP, inside the poll *)

\* The slots a callback reaches: the argument of the pcb, unless it was detached.
SockOf(p) == pcbs[p].arg
OnSlots(p, f(_)) == [s \in Socks |-> IF s \in SockOf(p) THEN f(socks[s]) ELSE socks[s]]

\* cb_recv with a segment: tcp_recved opens the window for all of it.
cb_recv(p, n) ==
  /\ pcbs[p].st \in {"est", "closing"}
  /\ pcbs[p].peer + n <= MaxPeerBytes
  /\ LET data == [i \in 1 .. n |-> pcbs[p].peer + i]
     IN  /\ socks' = OnSlots(p, LAMBDA s : rx_push(s, data))
         /\ lost' = IF \E s \in SockOf(p) : socks[s].len + n > KSOCK_RXBUF THEN lost \cup {p} ELSE lost
  /\ pcbs' = [pcbs EXCEPT ![p].peer = @ + n]
  /\ UNCHANGED <<sockCalls, got>>

\* cb_recv with no segment: the peer has closed.
PeerFin(p) ==
  /\ pcbs[p].st = "est"
  /\ socks' = OnSlots(p, LAMBDA s : [s EXCEPT !.peer_closed = TRUE])
  /\ UNCHANGED <<pcbs, sockCalls, got, lost>>

cb_connected(p) ==
  /\ pcbs[p].st \in {"syn", "closing-syn"}
  /\ socks' = OnSlots(p, LAMBDA s : [s EXCEPT !.state = "CONNECTED"])
  /\ pcbs' = [pcbs EXCEPT ![p].st = IF @ = "syn" THEN "est" ELSE "closing"]
  /\ UNCHANGED <<sockCalls, got, lost>>

\* cb_err: a reset, a refusal or a timeout; lwIP has freed the pcb.
cb_err(p) ==
  /\ pcbs[p].st \in {"syn", "est", "closing", "closing-syn"}
  /\ socks' = OnSlots(p, LAMBDA s : [s EXCEPT !.state = "ERR", !.pcb = {}])
  /\ pcbs' = [pcbs EXCEPT ![p] = FreePcb]
  /\ got' = [got EXCEPT ![p] = <<>>]
  /\ lost' = lost \ {p}
  /\ UNCHANGED sockCalls

-----------------------------------------------------------------------------
(* Calls *)

\* The generation of a slot changes when it is taken and when it is given up.
NextGen(g) == g + 1

ksock_socket(t) ==
  /\ sockCalls[t] = {}
  /\ \E p \in PCBS, s \in Socks :
       /\ pcbs[p].st = "free"
       /\ socks[s].state = "FREE" /\ \A r \in 0 .. s - 1 : socks[r].state # "FREE"
       /\ socks[s].gen < MaxGen
       /\ socks' = [socks EXCEPT ![s] =
            [FreeSock EXCEPT !.state = "ALLOC", !.pcb = {p}, !.gen = NextGen(socks[s].gen),
                             !.rx = socks[s].rx]]
       /\ pcbs' = [pcbs EXCEPT ![p] = [FreePcb EXCEPT !.st = "new", !.arg = {s}]]
  /\ UNCHANGED <<sockCalls, got, lost>>

\* A call on a socket: conn is history, the connection it began on.
CallOn(op, fd) == [op |-> op, fd |-> fd, gen |-> socks[fd].gen, conn |-> socks[fd].pcb]
Waits(t, c) == sockCalls' = [sockCalls EXCEPT ![t] = {c}]
Returns(t)  == sockCalls' = [sockCalls EXCEPT ![t] = {}]

\* ksock_connect, up to the first wait.  When tcp_connect fails the socket stays in
\* CONNECTING.
ksock_connect(t, fd) ==
  /\ sockCalls[t] = {}
  /\ socks[fd].state = "ALLOC"
  /\ \E p \in socks[fd].pcb :
       /\ socks' = [socks EXCEPT ![fd].state = "CONNECTING"]
       /\ \/ pcbs' = [pcbs EXCEPT ![p].st = "syn"] /\ Waits(t, CallOn("connect", fd))
          \/ UNCHANGED pcbs /\ Returns(t)
  /\ UNCHANGED <<got, lost>>

\* A look that finds the socket connected, failed or gone, or the deadline passed.
ConnectLook(t) ==
  /\ \E c \in sockCalls[t] : c.op = "connect"
  /\ Returns(t)
  /\ UNCHANGED <<socks, pcbs, got, lost>>

\* The call of the task, or a new one: ksock_send and ksock_recv note the generation
\* at their first look.
Looking(t, op) ==
  IF sockCalls[t] = {} THEN {CallOn(op, fd) : fd \in Socks} ELSE {c \in sockCalls[t] : c.op = op}

\* A look finds a slot that is no longer the caller's socket.
Gone(c, ok) == socks[c.fd].gen # c.gen \/ socks[c.fd].state \notin ok

\* One look of ksock_recv: it returns an error, the end of the stream or what is
\* there, waits, or returns because the deadline has passed.
ksock_recv(t) ==
  \E c \in Looking(t, "recv") :
    /\ \/ Gone(c, {"CONNECTED", "CLOSED"}) /\ Returns(t) /\ UNCHANGED <<socks, got>>
       \/ /\ ~Gone(c, {"CONNECTED", "CLOSED"}) /\ socks[c.fd].len = 0
          /\ \/ Returns(t)
             \/ ~socks[c.fd].peer_closed /\ Waits(t, c)
          /\ UNCHANGED <<socks, got>>
       \/ /\ ~Gone(c, {"CONNECTED", "CLOSED"})
          /\ \E n \in 1 .. socks[c.fd].len :
               /\ socks' = [socks EXCEPT ![c.fd] = rx_pop(@, n)]
               /\ got' = [p \in PCBS |-> IF p \in socks[c.fd].pcb
                                         THEN got[p] \o SubSeq(RxBytes(socks[c.fd]), 1, n) ELSE got[p]]
          /\ Returns(t)
    /\ UNCHANGED <<pcbs, lost>>

\* One look of ksock_send: an error, or a chunk for tcp_write as far as its buffer
\* has room, and more to send, or not, or no more time.
ksock_send(t) ==
  \E c \in Looking(t, "send") :
    /\ \/ Returns(t)
       \/ ~Gone(c, {"CONNECTED"}) /\ socks[c.fd].pcb # {} /\ Waits(t, c)
    /\ UNCHANGED <<socks, pcbs, got, lost>>

\* The pcb is detached from the slot and closed, or aborted when that fails.
MutDetached(p, st) == [st |-> st, arg |-> pcbs[p].arg, peer |-> pcbs[p].peer]
Detached(p, st) == [st |-> st, arg |-> {}, peer |-> pcbs[p].peer]
ksock_close(t, fd) ==
  /\ sockCalls[t] = {}
  /\ socks[fd].state # "FREE"
  /\ pcbs' = [p \in PCBS |->
       IF p \notin socks[fd].pcb THEN pcbs[p]
       ELSE IF pcbs[p].st = "est" THEN Detached(p, "closing")
       ELSE IF pcbs[p].st = "syn" THEN Detached(p, "closing-syn")
       ELSE FreePcb]
  /\ socks' = [socks EXCEPT ![fd].state = "FREE", ![fd].pcb = {}, ![fd].gen = NextGen(@)]
  /\ got' = [p \in PCBS |-> IF p \in socks[fd].pcb THEN <<>> ELSE got[p]]
  /\ lost' = lost \ socks[fd].pcb
  /\ UNCHANGED sockCalls

NetStep(t) ==
  \/ ksock_socket(t)
  \/ \E fd \in Socks : ksock_connect(t, fd) \/ ksock_close(t, fd)
  \/ ConnectLook(t) \/ ksock_recv(t) \/ ksock_send(t)
Lwip(p) == (\E n \in SegLens : cb_recv(p, n)) \/ PeerFin(p) \/ cb_connected(p) \/ cb_err(p)
NetNext == (\E t \in STASKS : NetStep(t)) \/ (\E p \in PCBS : Lwip(p))
NetSpec == NetInit /\ [][NetNext]_netVars

-----------------------------------------------------------------------------
(* Properties *)

\* A callback that comes after ksock_close touches no slot: a pcb refers to the slot
\* that refers to it, also when the slot was given up and taken again.
PcbLinked ==
  \A p \in PCBS, s \in Socks :
    s \in pcbs[p].arg <=> (p \in socks[s].pcb /\ pcbs[p].st # "free")

\* As long as the ring never overflowed, the bytes the calls of ksock_recv returned
\* and those in the ring are what the peer sent, in order, none lost or twice,
\* wherever the ring wraps and whichever tasks called.
StreamIntact ==
  \A s \in Socks : \A p \in socks[s].pcb \ lost :
    got[p] \o RxBytes(socks[s]) = [i \in 1 .. pcbs[p].peer |-> i]

\* A call that waited acts on the connection it began on: when its look takes the
\* slot for its socket, the slot still has that connection, however often it was
\* given up and taken by other tasks meanwhile.
SameConnection ==
  \A t \in STASKS : \A c \in sockCalls[t] : ~Gone(c, {"CONNECTED"}) => socks[c.fd].pcb = c.conn

\* The three together: callbacks, bytes and calls stay with their own connection.
SocketSound == PcbLinked /\ StreamIntact /\ SameConnection

=============================================================================
