-------------------------------- MODULE Nic --------------------------------
(***************************************************************************)
(* drivers/net/e1000/e1000.c, drivers/net/port/kyuzen_netif.c, net_init of *)
(* kernel/net_init.c and cb_network of kernel/timer_callbacks.c: the rings *)
(* that the driver shares with the network card, and how the interface     *)
(* comes up.                                                               *)
(*                                                                         *)
(* net_init runs with interrupts on, so that the poll of the timer may     *)
(* come between any two of its steps.  A poll and a send exclude each      *)
(* other by net_lock, but lwIP may send from inside a poll.  The card      *)
(* (external) moves frames whenever its registers allow it: it owns the    *)
(* descriptors from its head up to, and without, its tail.  lwIP           *)
(* (external) is seen by the calls it makes and by the address it gives    *)
(* the interface when DHCP succeeds.                                       *)
(*                                                                         *)
(* Frames are numbered in the order the card accepts them or the driver    *)
(* submits them.  Names that start with Mut are slips of the code.         *)
(***************************************************************************)
EXTENDS Integers, Sequences, FiniteSets

CONSTANTS
  NTX, NRX,              \* E1000_NUM_TX_DESC, E1000_NUM_RX_DESC
  MaxFrames, MaxSends    \* bounds on the frames in and out

ASSUME NicAssumption == NTX \in Nat /\ NTX > 1 /\ NRX \in Nat /\ NRX > 1

VARIABLES
  boot,        \* the step of net_init that is next
  regs,        \* TDH, TDT, RDH, RDT and the enable bits
  tx_descs, rx_descs,
  e1000,       \* mac, tx_tail, rx_tail, initialized
  poll,        \* {} or where e1000_poll is
  netif,       \* up, its addresses, and whether the DHCP client runs
  submitted, sent,     \* history: frames given to the card, frames it sent
  accepted, taken      \* history: frames the card stored, frames the driver took

nicVars == <<boot, regs, tx_descs, rx_descs, e1000, poll, netif, submitted, sent, accepted, taken>>
descs   == <<tx_descs, rx_descs>>
history == <<submitted, sent, accepted, taken>>

NicInit ==
  /\ boot = "lwip"
  /\ regs = [tdh |-> 0, tdt |-> 0, rdh |-> 0, rdt |-> 0, txen |-> FALSE, rxen |-> FALSE]
  /\ tx_descs = [i \in 0 .. NTX - 1 |-> [dd |-> FALSE, frame |-> 0]]
  /\ rx_descs = [i \in 0 .. NRX - 1 |-> [dd |-> FALSE, good |-> FALSE, frame |-> 0]]
  /\ e1000 = [mac |-> "zero", tx_tail |-> 0, rx_tail |-> 0, initialized |-> FALSE]
  /\ poll = {}
  /\ netif = [up |-> FALSE, hwaddr |-> "zero", ip |-> "any", dhcp |-> FALSE]
  /\ submitted = <<>> /\ sent = <<>> /\ accepted = <<>> /\ taken = <<>>

-----------------------------------------------------------------------------
(* net_init.  The timer interrupt runs on the same CPU: no step is taken    *)
(* while a poll is under way.                                               *)

Step(from, to) == boot = from /\ boot' = to /\ poll = {}

lwip_init ==
  /\ Step("lwip", "find")
  /\ UNCHANGED <<regs, descs, e1000, poll, netif, history>>

\* e1000_init, called from netif_add: a card on the PCI bus, or none.
e1000_pci_find ==
  /\ Step("find", "reset") \/ Step("find", "failed")
  /\ UNCHANGED <<regs, descs, e1000, poll, netif, history>>

\* The software reset stops the card.
Reset ==
  /\ Step("reset", "mac")
  /\ regs' = [regs EXCEPT !.txen = FALSE, !.rxen = FALSE]
  /\ UNCHANGED <<descs, e1000, poll, netif, history>>

\* The address of the card, from the EEPROM or from the receive address registers.
e1000_read_mac ==
  /\ Step("mac", "tx")
  /\ e1000' = [e1000 EXCEPT !.mac = "card"]
  /\ UNCHANGED <<regs, descs, poll, netif, history>>

\* e1000_tx_init: every descriptor is done; the DMA pages may run out.
e1000_tx_init ==
  /\ \/ /\ Step("tx", "rx")
        /\ tx_descs' = [i \in DOMAIN tx_descs |-> [dd |-> TRUE, frame |-> 0]]
        /\ regs' = [regs EXCEPT !.tdh = 0, !.tdt = 0, !.txen = TRUE]
        /\ e1000' = [e1000 EXCEPT !.tx_tail = 0]
     \/ Step("tx", "failed") /\ UNCHANGED <<tx_descs, regs, e1000>>
  /\ UNCHANGED <<rx_descs, poll, netif, history>>

\* e1000_rx_init: the card gets every descriptor but the last, and may store frames.
e1000_rx_init ==
  /\ \/ /\ Step("rx", "enable")
        /\ rx_descs' = [i \in DOMAIN rx_descs |-> [dd |-> FALSE, good |-> FALSE, frame |-> 0]]
        /\ regs' = [regs EXCEPT !.rdh = 0, !.rdt = NRX - 1, !.rxen = TRUE]
        /\ e1000' = [e1000 EXCEPT !.rx_tail = NRX - 1]
     \/ Step("rx", "failed") /\ UNCHANGED <<rx_descs, regs, e1000>>
  /\ UNCHANGED <<tx_descs, poll, netif, history>>

\* The end of e1000_init: from here on the poll of the timer takes frames.
Initialized ==
  /\ Step("enable", "netif")
  /\ e1000' = [e1000 EXCEPT !.initialized = TRUE]
  /\ UNCHANGED <<regs, descs, poll, netif, history>>

\* e1000_get_mac gives zeros as long as the driver is not initialized.
e1000_get_mac == IF e1000.initialized THEN e1000.mac ELSE "zero"

\* The end of low_level_init: the interface gets the address of the card.
low_level_init ==
  /\ Step("netif", "up")
  /\ netif' = [netif EXCEPT !.hwaddr = e1000_get_mac]
  /\ UNCHANGED <<regs, descs, e1000, poll, history>>

netif_set_up ==
  /\ Step("up", "dhcp")
  /\ netif' = [netif EXCEPT !.up = TRUE]
  /\ UNCHANGED <<regs, descs, e1000, poll, history>>

\* dhcp_start, or the fixed address when it fails.
dhcp_start ==
  /\ \/ Step("dhcp", "wait") /\ netif' = [netif EXCEPT !.dhcp = TRUE]
     \/ Step("dhcp", "dns") /\ netif' = [netif EXCEPT !.ip = "static"]
  /\ UNCHANGED <<regs, descs, e1000, poll, history>>

\* The wait ends with an address, or after eight seconds, and looks once more.
DhcpWait ==
  /\ Step("wait", "look")
  /\ UNCHANGED <<regs, descs, e1000, poll, netif, history>>
DhcpLook ==
  /\ \/ netif.ip # "any" /\ Step("look", "dns")
     \/ netif.ip = "any" /\ Step("look", "stop")
  /\ UNCHANGED <<regs, descs, e1000, poll, netif, history>>

\* dhcp_stop, then netif_set_addr.
Stopped == [netif EXCEPT !.dhcp = FALSE]
dhcp_stop ==
  /\ Step("stop", "static")
  /\ netif' = Stopped
  /\ UNCHANGED <<regs, descs, e1000, poll, history>>
StaticAddr ==
  /\ Step("static", "dns")
  /\ netif' = [netif EXCEPT !.ip = "static"]
  /\ UNCHANGED <<regs, descs, e1000, poll, history>>
dns_setserver ==
  /\ Step("dns", "done")
  /\ UNCHANGED <<regs, descs, e1000, poll, netif, history>>

net_init ==
  \/ lwip_init \/ e1000_pci_find \/ Reset \/ e1000_read_mac \/ e1000_tx_init \/ e1000_rx_init
  \/ Initialized \/ low_level_init \/ netif_set_up \/ dhcp_start \/ DhcpWait \/ DhcpLook \/ dhcp_stop \/ StaticAddr \/ dns_setserver

-----------------------------------------------------------------------------
(* The driver *)

\* e1000_send: a frame goes out if the descriptor at the tail is done.
MutMayUse(d) == TRUE
MayUse(d) == d.dd
e1000_send ==
  /\ e1000.initialized
  /\ MayUse(tx_descs[e1000.tx_tail])
  /\ LET next == (e1000.tx_tail + 1) % NTX
     IN  /\ tx_descs' = [tx_descs EXCEPT ![e1000.tx_tail] = [dd |-> FALSE, frame |-> Len(submitted) + 1]]
         /\ e1000' = [e1000 EXCEPT !.tx_tail = next]
         /\ regs' = [regs EXCEPT !.tdt = next]
  /\ submitted' = Append(submitted, Len(submitted) + 1)

\* A frame of lwIP, put together in one buffer; it is lost when e1000_send refuses it.
low_level_output ==
  /\ netif.up
  /\ Len(submitted) < MaxSends
  /\ e1000_send
  /\ UNCHANGED <<boot, rx_descs, poll, netif, sent, accepted, taken>>

\* cb_network: e1000_poll begins.
e1000_poll ==
  /\ poll = {} /\ e1000.initialized
  /\ poll' = {[at |-> "look", tail |-> e1000.rx_tail]}
  /\ UNCHANGED <<boot, regs, descs, e1000, netif, history>>

\* The next descriptor is not done: the poll is over.
PollEnds ==
  \E c \in poll :
    /\ c.at = "look" /\ ~rx_descs[(c.tail + 1) % NRX].dd
    /\ e1000' = [e1000 EXCEPT !.rx_tail = c.tail]
    /\ poll' = {}
    /\ UNCHANGED <<boot, regs, descs, netif, history>>

\* A frame of the right length goes to lwIP if there is a pbuf for it; it may be the
\* answer the DHCP client waits for.
kyuzen_netif_input(good) ==
  \/ UNCHANGED netif
  \/ good /\ netif.dhcp /\ netif' = [netif EXCEPT !.ip = "dhcp"]

\* The frame is dropped unless the interface is up.
e1000_rx_callback(good) ==
  \/ ~netif.up /\ UNCHANGED netif
  \/ netif.up /\ kyuzen_netif_input(good)

PollTakes ==
  \E c \in poll :
    /\ c.at = "look" /\ rx_descs[(c.tail + 1) % NRX].dd
    /\ poll' = {[c EXCEPT !.at = "give"]}
    /\ taken' = Append(taken, rx_descs[(c.tail + 1) % NRX].frame)
    /\ e1000_rx_callback(rx_descs[(c.tail + 1) % NRX].good)
    /\ UNCHANGED <<boot, regs, descs, e1000, submitted, sent, accepted>>

\* The descriptor goes back to the card.
PollGives ==
  \E c \in poll :
    LET next == (c.tail + 1) % NRX
    IN  /\ c.at = "give"
        /\ rx_descs' = [rx_descs EXCEPT ![next] = [dd |-> FALSE, good |-> FALSE, frame |-> 0]]
        /\ regs' = [regs EXCEPT !.rdt = next]
        /\ poll' = {[at |-> "look", tail |-> next]}
        /\ UNCHANGED <<boot, tx_descs, e1000, netif, history>>

-----------------------------------------------------------------------------
(* The card (external) *)

CardSends ==
  /\ regs.txen /\ regs.tdh # regs.tdt
  /\ sent' = Append(sent, tx_descs[regs.tdh].frame)
  /\ tx_descs' = [tx_descs EXCEPT ![regs.tdh].dd = TRUE]
  /\ regs' = [regs EXCEPT !.tdh = (@ + 1) % NTX]
  /\ UNCHANGED <<boot, rx_descs, e1000, poll, netif, submitted, accepted, taken>>

CardStores(good) ==
  /\ regs.rxen /\ regs.rdh # regs.rdt
  /\ Len(accepted) < MaxFrames
  /\ rx_descs' = [rx_descs EXCEPT ![regs.rdh] = [dd |-> TRUE, good |-> good, frame |-> Len(accepted) + 1]]
  /\ regs' = [regs EXCEPT !.rdh = (@ + 1) % NRX]
  /\ accepted' = Append(accepted, Len(accepted) + 1)
  /\ UNCHANGED <<boot, tx_descs, e1000, poll, netif, submitted, sent, taken>>

NicNext ==
  \/ net_init \/ low_level_output \/ e1000_poll \/ PollEnds \/ PollTakes \/ PollGives
  \/ CardSends \/ \E good \in BOOLEAN : CardStores(good)
NicSpec == NicInit /\ [][NicNext]_nicVars

-----------------------------------------------------------------------------
(* Properties *)

\* The frames the driver takes are those the card stored, and the frames the card
\* sends are those the driver submitted: in order, none twice, none overwritten,
\* however the card and the driver interleave and wherever the rings wrap.  Unless
\* the transmit ring was filled to the last descriptor, which the card takes for an
\* empty ring, what is not sent yet lies between its head and its tail.
RingExact ==
  /\ taken = SubSeq(accepted, 1, Len(taken))
  /\ sent = SubSeq(submitted, 1, Len(sent))
  /\ Len(submitted) - Len(sent) < NTX =>
       (regs.tdt - regs.tdh) % NTX = Len(submitted) - Len(sent)

\* When net_init is done the interface has an address, and a fixed address stays: no
\* answer that comes after the wait for DHCP has given up can replace it.  An interface
\* that is up has the address of its card.
AddressSettled ==
  /\ netif.up => netif.hwaddr = "card"
  /\ boot = "done" => netif.ip # "any"
  /\ netif.ip = "static" => ~netif.dhcp

\* The card's rings and the address of the interface.
NicSound == RingExact /\ AddressSettled

=============================================================================
