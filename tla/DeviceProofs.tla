---------------------------- MODULE DeviceProofs ----------------------------
(***************************************************************************)
(* Two devices and their drivers for every value of their constants: the   *)
(* sectors of the disk, and the rings of the network card with the address *)
(* of its interface.                                                       *)
(***************************************************************************)
EXTENDS Ata, Nic, TLAPS

-----------------------------------------------------------------------------
(* Sectors: drivers/ata.c *)

\* The first words of a sector.
FirstWords(s, sector) == Len(s) < WORDS /\ \A k \in 1 .. Len(s) : s[k] = sector[k]
Quiet == drive.st \in {"idle", "error"}
InCommand ==
  drive \in [st : {"busy", "drq", "error"}, cmd : {"read", "write", "store", "flush"},
             lba : LBAS, moved : Seq(Words)]
InCall ==
  call \in [at : {"bsy", "command", "drq", "move", "flush", "flushed", "return"},
            op : {"read", "write"}, lba : LBAS, buffer : Seq(Words) \cup SectorData, polls : Nat]

\* Where the drive is when the driver is at each of its steps, until a wait gives up.
InStep ==
  /\ call.op = "write" => call.buffer \in SectorData
  /\ call.op = "read" => call.buffer \in Seq(Words)
  /\ call.at \in {"bsy", "command"} => Quiet /\ (call.op = "read" => call.buffer = <<>>)
  /\ call.at = "drq" =>
       /\ InCommand /\ drive.cmd = call.op /\ drive.lba = call.lba /\ drive.moved = <<>>
       /\ call.op = "read" => call.buffer = <<>>
  /\ call.at = "move" =>
       /\ InCommand /\ drive.st = "drq" /\ drive.cmd = call.op /\ drive.lba = call.lba
       /\ call.op = "read" => FirstWords(call.buffer, sectors[call.lba])
       /\ call.op = "write" => FirstWords(drive.moved, call.buffer)
  /\ call.at \in {"flush", "flushed"} =>
       call.op = "write" /\ (Quiet \/ (InCommand /\ drive.st = "busy" /\ drive.cmd \in {"store", "flush"}))
  /\ call.at = "return" => Quiet /\ (call.op = "read" => call.buffer = sectors[call.lba])

AtaInv ==
  ~late => /\ sectors \in [LBAS -> SectorData] /\ goal = sectors
           /\ (call = NoCall /\ Quiet) \/ (InCall /\ InStep)

LEMMA NoWords == <<>> \in Seq(Words)
OBVIOUS

\* One more word, and a sector whose words are all there.
LEMMA OneMoreWord ==
  ASSUME NEW s \in Seq(Words), NEW sector \in SectorData, FirstWords(s, sector)
  PROVE  /\ Append(s, sector[Len(s) + 1]) \in Seq(Words)
         /\ Len(Append(s, sector[Len(s) + 1])) = Len(s) + 1
         /\ Len(s) + 1 # WORDS => FirstWords(Append(s, sector[Len(s) + 1]), sector)
         /\ Len(s) + 1 = WORDS => Append(s, sector[Len(s) + 1]) = sector
<1>1. Len(s) \in Nat /\ Len(s) + 1 \in 1 .. WORDS
  BY AtaAssumption DEF FirstWords
<1>2. sector[Len(s) + 1] \in Words
  BY <1>1, Zenon DEF SectorData
<1>3. /\ Append(s, sector[Len(s) + 1]) \in Seq(Words)
      /\ Len(Append(s, sector[Len(s) + 1])) = Len(s) + 1
      /\ \A k \in 1 .. Len(s) + 1 : Append(s, sector[Len(s) + 1])[k] = sector[k]
  BY <1>1, <1>2 DEF FirstWords
<1>4. Len(s) + 1 = WORDS => Append(s, sector[Len(s) + 1]) = sector
  <2>. DEFINE t == Append(s, sector[Len(s) + 1])
  <2>. SUFFICES ASSUME Len(s) + 1 = WORDS PROVE t = sector
    BY Zenon
  <2>1. t \in Seq(Words) /\ Len(t) = WORDS /\ \A k \in 1 .. WORDS : t[k] = sector[k]
    BY <1>3, Zenon
  <2>. HIDE DEF t
  <2>2. t \in [1 .. WORDS -> Words]
    BY <2>1
  <2>. QED  BY <2>1, <2>2 DEF SectorData
<1>. QED  BY <1>1, <1>3, <1>4, AtaAssumption DEF FirstWords

\* The steps of the drive and of the driver that move no word.
LEMMA AtaSteps ==
  ASSUME AtaInv,
         \/ DriveReady \/ WaitBsy("bsy", "command") \/ Command \/ WaitDrq \/ Flush
         \/ WaitBsy("flushed", "return") \/ Return
         \/ \E l \in LBAS : ata_read_sector(l) \/ \E d \in SectorData : ata_write_sector(l, d)
  PROVE  AtaInv'
<1>. SUFFICES ASSUME ~late' PROVE AtaInv'
  BY Zenon DEF AtaInv
<1>0. /\ ~late /\ UNCHANGED <<sectors, goal>> /\ sectors \in [LBAS -> SectorData] /\ goal = sectors
      /\ (call = NoCall /\ Quiet) \/ (InCall /\ InStep)
  BY DEF AtaInv, DriveReady, WaitBsy, Command, WaitDrq, Flush, Return, ata_read_sector,
         ata_write_sector, Start
<1>1. CASE DriveReady
  <2>1. InCall /\ InStep /\ call.at \in {"drq", "flush", "flushed"} /\ InCommand /\ call' = call
    BY <1>0, <1>1, Zenon DEF DriveReady, InStep, InCall, Quiet
  <2>2. \/ drive' = [drive EXCEPT !.st = "drq"] /\ drive.cmd \in {"read", "write"}
        \/ drive' = Resting /\ drive.cmd \in {"store", "flush"}
        \/ drive' = [drive EXCEPT !.st = "error"] /\ drive.cmd # "store"
    BY <1>1, Zenon DEF DriveReady
  <2>3. InStep'
    <3>1. CASE drive' = [drive EXCEPT !.st = "drq"] /\ drive.cmd \in {"read", "write"}
      <4>1. call.at = "drq"
        BY <1>1, <2>1, <3>1, SMTT(30) DEF InStep, Quiet, DriveReady
      <4>. QED  BY <1>0, <2>1, <3>1, <4>1, Zenon DEF InStep, InCommand
    <3>2. CASE drive' = Resting /\ drive.cmd \in {"store", "flush"}
      <4>1. call.at \in {"flush", "flushed"}
        BY <2>1, <3>2, SMTT(30) DEF InStep, InCall
      <4>. QED  BY <1>0, <2>1, <3>2, <4>1, SMTT(30) DEF InStep, Quiet, Resting
    <3>3. CASE drive' = [drive EXCEPT !.st = "error"] /\ drive.cmd # "store"
      <4>1. InCommand' /\ Quiet' /\ drive'.cmd = drive.cmd /\ drive'.lba = drive.lba
            /\ drive'.moved = drive.moved
        BY <2>1, <3>3, Zenon DEF InCommand, Quiet
      <4>. QED  BY <1>0, <2>1, <4>1, Zenon DEF InStep
    <3>. QED  BY <2>2, <3>1, <3>2, <3>3, Zenon
  <2>. QED  BY <1>0, <2>1, <2>3, Zenon DEF AtaInv, InCall
<1>2. CASE WaitBsy("bsy", "command")
  <2>1. InCall /\ InStep /\ drive' = drive /\ call.at = "bsy"
    BY <1>0, <1>2 DEF WaitBsy, NoCall
  <2>2. call' = [call EXCEPT !.at = "command"]
    BY <1>2, <2>1, <1>0, Zenon DEF WaitBsy, InStep, Quiet
  <2>. QED  BY <1>0, <2>1, <2>2, Zenon DEF AtaInv, InCall, InStep, Quiet
<1>3. CASE Command
  <2>1. InCall /\ InStep /\ call.at = "command" /\ Quiet
    BY <1>0, <1>3 DEF Command, NoCall, InStep
  <2>2. /\ call' = [call EXCEPT !.at = "drq", !.polls = 0]
        /\ drive' = [st |-> "busy", cmd |-> call.op, lba |-> call.lba, moved |-> <<>>]
    BY <1>3, <2>1, Zenon DEF Command, Polling, Commanded, Quiet
  <2>3. InCommand' /\ InCall'
    BY <2>1, <2>2, NoWords, Zenon DEF InCommand, InCall
  <2>4. InStep'
    BY <2>1, <2>2, <2>3, Zenon DEF InStep, InCall
  <2>. QED  BY <1>0, <2>3, <2>4, Zenon DEF AtaInv
<1>4. CASE WaitDrq
  <2>1. InCall /\ InStep /\ call.at = "drq" /\ InCommand /\ drive' = drive
    BY <1>0, <1>4 DEF WaitDrq, NoCall, InStep
  <2>2. \/ drive.st = "error" /\ call' = NoCall
        \/ drive.st = "drq" /\ call' = [call EXCEPT !.at = "move"]
        \/ call' = [call EXCEPT !.polls = @ + 1]
    BY <1>0, <1>4, Zenon DEF WaitDrq, Failed
  <2>3. CASE call' = NoCall /\ drive.st = "error"
    BY <1>0, <2>1, <2>3, Zenon DEF AtaInv, Quiet
  <2>4. CASE drive.st = "drq" /\ call' = [call EXCEPT !.at = "move"]
    <3>1. InCall' /\ call'.at = "move" /\ call'.op = call.op /\ call'.lba = call.lba
          /\ call'.buffer = call.buffer
      BY <2>1, <2>4, Zenon DEF InCall
    <3>2. FirstWords(<<>>, sectors[call.lba]) /\ FirstWords(<<>>, call.buffer)
      BY AtaAssumption DEF FirstWords
    <3>3. InStep'
      BY <1>0, <2>1, <2>4, <3>1, <3>2 DEF InStep, InCommand, FirstWords
    <3>. QED  BY <1>0, <3>1, <3>3, Zenon DEF AtaInv
  <2>5. CASE call' = [call EXCEPT !.polls = @ + 1]
    BY <1>0, <2>1, <2>5 DEF AtaInv, InCall, InStep, InCommand, Quiet, FirstWords
  <2>. QED  BY <2>2, <2>3, <2>4, <2>5, Zenon
<1>5. CASE Flush
  <2>1. /\ InCall /\ InStep /\ call.at = "flush" /\ call.op = "write"
        /\ Quiet \/ (InCommand /\ drive.st = "busy" /\ drive.cmd \in {"store", "flush"})
    BY <1>0, <1>5 DEF Flush, NoCall, InStep
  <2>2. /\ call' = [call EXCEPT !.at = "flushed", !.polls = 0]
        /\ \/ drive' = [st |-> "busy", cmd |-> "flush", lba |-> call.lba, moved |-> <<>>]
           \/ drive' = drive /\ ~Quiet
    BY <1>5, Zenon DEF Flush, Polling, Commanded, Quiet
  <2>3. InCall' /\ InCommand' /\ drive'.st = "busy" /\ drive'.cmd \in {"store", "flush"}
    <3>1. InCall'
      BY <2>1, <2>2, Zenon DEF InCall
    <3>2. CASE drive' = [st |-> "busy", cmd |-> "flush", lba |-> call.lba, moved |-> <<>>]
      BY <2>1, <3>1, <3>2, NoWords, Zenon DEF InCommand, InCall
    <3>3. CASE drive' = drive /\ ~Quiet
      BY <2>1, <3>1, <3>3, Zenon DEF InCommand
    <3>. QED  BY <2>2, <3>2, <3>3, Zenon
  <2>4. InStep'
    BY <2>1, <2>2, <2>3, Zenon DEF InStep, InCall
  <2>. QED  BY <1>0, <2>3, <2>4, Zenon DEF AtaInv
<1>6. CASE WaitBsy("flushed", "return")
  <2>1. /\ InCall /\ InStep /\ drive' = drive /\ call.at = "flushed" /\ call.op = "write"
        /\ Quiet \/ (InCommand /\ drive.st = "busy" /\ drive.cmd \in {"store", "flush"})
    BY <1>0, <1>6 DEF WaitBsy, NoCall, InStep
  <2>2. \/ drive.st # "busy" /\ call' = [call EXCEPT !.at = "return"]
        \/ call' = [call EXCEPT !.polls = @ + 1]
    BY <1>6, <1>0, SMTT(30) DEF WaitBsy
  <2>. QED  BY <1>0, <2>1, <2>2 DEF AtaInv, InCall, InStep, InCommand, Quiet
<1>7. CASE Return
  BY <1>0, <1>7, SMTT(30) DEF Return, AtaInv, InStep, NoCall, Quiet
<1>8. ASSUME NEW l \in LBAS, ata_read_sector(l) \/ \E d \in SectorData : ata_write_sector(l, d)
      PROVE  AtaInv'
  <2>1. call = NoCall /\ Quiet /\ drive' = drive
    BY <1>0, <1>8, SMTT(30) DEF ata_read_sector, ata_write_sector, Start, InCall
  <2>2. \/ call' = [at |-> "bsy", op |-> "read", lba |-> l, buffer |-> <<>>, polls |-> 0]
        \/ \E d \in SectorData :
             call' = [at |-> "bsy", op |-> "write", lba |-> l, buffer |-> d, polls |-> 0]
    BY <1>8, SMTT(30) DEF ata_read_sector, ata_write_sector, Start
  <2>3. CASE call' = [at |-> "bsy", op |-> "read", lba |-> l, buffer |-> <<>>, polls |-> 0]
    <3>1. InCall'
      BY <2>3, NoWords, SMTT(30) DEF InCall
    <3>. QED  BY <1>0, <2>1, <2>3, <3>1, NoWords, SMTT(30) DEF AtaInv, InStep, Quiet
  <2>4. ASSUME NEW d \in SectorData,
               call' = [at |-> "bsy", op |-> "write", lba |-> l, buffer |-> d, polls |-> 0]
        PROVE  AtaInv'
    <3>1. InCall'
      BY <2>4, Zenon DEF InCall
    <3>. QED  BY <1>0, <2>1, <2>4, <3>1, Zenon DEF AtaInv, InStep, Quiet
  <2>. QED  BY <2>2, <2>3, <2>4, Zenon
<1>. QED  BY <1>1, <1>2, <1>3, <1>4, <1>5, <1>6, <1>7, <1>8, Zenon

\* A word in, and a word out.
LEMMA AtaWords == ASSUME AtaInv, ReadWord \/ WriteWord PROVE AtaInv'
<1>. SUFFICES ASSUME ~late' PROVE AtaInv'
  BY Zenon DEF AtaInv
<1>0. /\ ~late /\ sectors \in [LBAS -> SectorData] /\ goal = sectors
      /\ InCall /\ InStep /\ call.at = "move"
  BY DEF AtaInv, ReadWord, WriteWord, NoCall
<1>1. /\ InCommand /\ drive.st = "drq" /\ drive.cmd = call.op /\ drive.lba = call.lba
      /\ call.lba \in LBAS /\ drive.moved \in Seq(Words) /\ sectors[call.lba] \in SectorData
  BY <1>0, Zenon DEF InStep, InCall, InCommand
<1>2. CASE ReadWord
  <2>. DEFINE b == Append(call.buffer, sectors[call.lba][Len(call.buffer) + 1])
  <2>0. call.op = "read" /\ call.buffer \in Seq(Words) /\ FirstWords(call.buffer, sectors[call.lba])
    BY <1>0, <1>2, Zenon DEF ReadWord, InStep
  <2>1. /\ call' = [call EXCEPT !.buffer = b, !.at = IF Len(call.buffer) + 1 = WORDS THEN "return" ELSE @]
        /\ drive' = IF Len(call.buffer) + 1 = WORDS THEN Resting ELSE drive
        /\ UNCHANGED <<sectors, goal>>
    BY <1>1, <1>2, <2>0, SMTT(30) DEF ReadWord
  <2>2. /\ b \in Seq(Words)
        /\ Len(call.buffer) + 1 # WORDS => FirstWords(b, sectors[call.lba])
        /\ Len(call.buffer) + 1 = WORDS => b = sectors[call.lba]
    BY <1>1, <2>0, OneMoreWord, Zenon
  <2>. HIDE DEF b
  <2>3. InCall' /\ call'.op = "read" /\ call'.lba = call.lba /\ call'.buffer = b
        /\ call'.at = IF Len(call.buffer) + 1 = WORDS THEN "return" ELSE "move"
    BY <1>0, <2>0, <2>1, <2>2, Zenon DEF InCall
  <2>4. InStep'
    <3>1. CASE Len(call.buffer) + 1 = WORDS
      BY <2>1, <2>2, <2>3, <3>1 DEF InStep, Resting, Quiet
    <3>2. CASE Len(call.buffer) + 1 # WORDS
      BY <1>1, <2>1, <2>2, <2>3, <3>2 DEF InStep, InCommand, FirstWords
    <3>. QED  BY <3>1, <3>2, Zenon
  <2>. QED  BY <1>0, <2>1, <2>3, <2>4, Zenon DEF AtaInv
<1>3. CASE WriteWord
  <2>. DEFINE m == Append(drive.moved, call.buffer[Len(drive.moved) + 1])
  <2>0. call.op = "write" /\ call.buffer \in SectorData /\ FirstWords(drive.moved, call.buffer)
    BY <1>0, <1>3, Zenon DEF WriteWord, InStep
  <2>1. /\ m \in Seq(Words) /\ Len(m) = Len(drive.moved) + 1
        /\ Len(m) # WORDS => FirstWords(m, call.buffer)
        /\ Len(m) = WORDS => m = call.buffer
    BY <1>1, <2>0, OneMoreWord, Zenon
  <2>2. /\ drive' = IF Len(m) = WORDS THEN [drive EXCEPT !.st = "busy", !.cmd = "store"]
                    ELSE [drive EXCEPT !.moved = m]
        /\ sectors' = IF Len(m) = WORDS THEN [sectors EXCEPT ![call.lba] = m] ELSE sectors
        /\ call' = IF Len(m) = WORDS THEN [call EXCEPT !.at = "flush"] ELSE call
        /\ goal' = IF call'.at = "flush" THEN [goal EXCEPT ![call.lba] = call.buffer] ELSE goal
    BY <1>1, <1>3, <2>0, Zenon DEF WriteWord
  <2>. HIDE DEF m
  <2>3. CASE Len(m) = WORDS
    <3>1. InCall' /\ call'.at = "flush" /\ call'.op = "write" /\ call'.buffer = call.buffer
      BY <1>0, <2>0, <2>2, <2>3, Zenon DEF InCall
    <3>2. InCommand' /\ drive'.st = "busy" /\ drive'.cmd = "store"
      BY <1>1, <2>2, <2>3, Zenon DEF InCommand
    <3>3. InStep'
      BY <2>0, <3>1, <3>2, Zenon DEF InStep
    <3>4. goal' = sectors' /\ sectors' \in [LBAS -> SectorData]
      BY <1>0, <2>0, <2>1, <2>2, <2>3, <3>1, Zenon
    <3>. QED  BY <3>1, <3>3, <3>4, Zenon DEF AtaInv
  <2>4. CASE Len(m) # WORDS
    <3>1. call' = call /\ sectors' = sectors /\ goal' = goal /\ drive' = [drive EXCEPT !.moved = m]
      BY <1>0, <2>2, <2>4, Zenon
    <3>2. InCommand' /\ drive'.st = "drq" /\ drive'.cmd = call.op /\ drive'.lba = call.lba /\ drive'.moved = m
      BY <1>1, <2>1, <3>1, Zenon DEF InCommand
    <3>3. InStep'
      BY <1>0, <2>0, <2>1, <2>4, <3>1, <3>2 DEF InStep, FirstWords
    <3>. QED  BY <1>0, <3>1, <3>3, Zenon DEF AtaInv, InCall
  <2>. QED  BY <2>3, <2>4, Zenon
<1>. QED  BY <1>2, <1>3, Zenon

\* For every number of sectors and words and every limit on the polls: until a wait gives
\* up on the drive, reads return and writes leave the sectors they are for.
THEOREM SectorsExact == AtaSpec => []SectorExact
<1>1. AtaInit => AtaInv
  BY DEF AtaInit, AtaInv, Resting, Quiet
<1>2. AtaInv /\ [AtaNext]_ataVars => AtaInv'
  <2>. SUFFICES ASSUME AtaInv, [AtaNext]_ataVars PROVE AtaInv'
    BY Zenon
  <2>1. CASE UNCHANGED ataVars
    BY <2>1, Zenon DEF ataVars, AtaInv, Quiet, InCall, InStep, InCommand, FirstWords
  <2>. QED  BY <2>1, AtaSteps, AtaWords, Zenon DEF AtaNext
<1>3. AtaInv => SectorExact
  BY DEF AtaInv, SectorExact, InStep, NoCall
<1>. QED  BY <1>1, <1>2, <1>3, PTL DEF AtaSpec

-----------------------------------------------------------------------------
(* The rings of the card: drivers/net/e1000/e1000.c and kernel/net_init.c *)

\* The frames 1, 2, 3, ... in order.
Counted(s) == s \in Seq(Nat) /\ \A i \in 1 .. Len(s) : s[i] = i

TxDesc == [dd : BOOLEAN, frame : Nat]
RxDesc == [dd : BOOLEAN, good : BOOLEAN, frame : Nat]
Regs == [tdh : Nat, tdt : Nat, rdh : Nat, rdt : Nat, txen : BOOLEAN, rxen : BOOLEAN]
Polls == [at : {"look", "give"}, tail : 0 .. NRX - 1]

NicType ==
  /\ regs \in Regs /\ tx_descs \in [0 .. NTX - 1 -> TxDesc] /\ rx_descs \in [0 .. NRX - 1 -> RxDesc]
  /\ e1000 \in [mac : {"zero", "card"}, tx_tail : Nat, rx_tail : Nat, initialized : BOOLEAN]
  /\ poll = {} \/ \E c \in Polls : poll = {c}
  /\ Counted(submitted) /\ Counted(sent) /\ Counted(accepted) /\ Counted(taken)

\* The descriptor that frame k is in, in a ring of n.
Slot(k, n) == (k - 1) % n

\* The frames between t and s wait in the transmit descriptors.
Waiting(d, t, s) == \A k \in t + 1 .. s : d[Slot(k, NTX)].frame = k /\ ~d[Slot(k, NTX)].dd

\* Those between g and a are stored in the receive descriptors, and no others.
Stored(d, g, a) ==
  /\ \A k \in g + 1 .. a : d[Slot(k, NRX)].frame = k /\ d[Slot(k, NRX)].dd
  /\ \A k \in a + 1 .. g + NRX : ~d[Slot(k, NRX)].dd

\* Frame k waits in its descriptor from e1000_send until the card has sent it.  The ring
\* is never filled twice: the descriptor at the tail would not be done.
TxRing ==
  /\ Len(sent) <= Len(submitted) /\ Len(submitted) <= Len(sent) + NTX
  /\ regs.tdt = Len(submitted) % NTX /\ e1000.tx_tail = regs.tdt
  /\ regs.tdh = Len(sent) % NTX
  /\ Waiting(tx_descs, Len(sent), Len(submitted))

\* The descriptors given back: one less than the frames taken while the poll holds one.
Given == Len(taken) - (IF \E c \in poll : c.at = "give" THEN 1 ELSE 0)

\* The card is never more than the ring less one ahead of the driver; each frame it is
\* ahead by waits in its descriptor, and no other descriptor is done.
RxRing ==
  /\ Given \in Nat /\ Len(taken) <= Len(accepted) /\ Len(accepted) < Given + NRX
  /\ regs.rdt = (Given + NRX - 1) % NRX /\ regs.rdh = Len(accepted) % NRX
  /\ poll = {} => e1000.rx_tail = regs.rdt
  /\ \A c \in poll : c.tail = regs.rdt
  /\ Stored(rx_descs, Given, Len(accepted))

Unsent == submitted = <<>> /\ sent = <<>> /\ regs.tdt = regs.tdh
Deaf  == accepted = <<>> /\ taken = <<>> /\ poll = {}

TxOk == (regs.txen => TxRing) /\ (~regs.txen => Unsent)
RxOk == (regs.rxen => RxRing) /\ (~regs.rxen => Deaf)

\* What the steps of net_init have done.
Ready == {"netif", "up", "dhcp", "wait", "look", "stop", "static", "dns", "done"}
Up    == {"dhcp", "wait", "look", "stop", "static", "dns", "done"}
Stage ==
  /\ boot \in {"lwip", "find", "failed", "reset", "mac", "tx", "rx", "enable"} \cup Ready
  /\ e1000.initialized <=> boot \in Ready
  /\ boot \in {"tx", "rx", "enable"} \cup Ready => e1000.mac = "card"
  /\ boot \in {"lwip", "find", "reset", "mac", "tx"} => ~regs.txen
  /\ boot \in {"lwip", "find", "reset", "mac", "tx", "rx"} => ~regs.rxen
  /\ boot \in {"rx", "enable"} \cup Ready => regs.txen
  /\ boot \in {"enable"} \cup Ready => regs.rxen
Booted == Stage /\ TxOk /\ RxOk

\* The address of the interface, by the step of net_init.
Addressed ==
  /\ netif \in [up : BOOLEAN, hwaddr : {"zero", "card"}, ip : {"any", "static", "dhcp"}, dhcp : BOOLEAN]
  /\ netif.up <=> boot \in Up
  /\ boot \in Up \cup {"up"} => netif.hwaddr = "card"
  /\ netif.dhcp => boot \in {"wait", "look", "stop", "dns", "done"} /\ netif.ip # "static"
  /\ netif.ip = "static" => boot \in {"dns", "done"}
  /\ boot \in {"dns", "done"} => netif.ip # "any"

NicInv == NicType /\ Booted /\ Addressed

\* Remainders: what the indices of a ring of n are.
LEMMA Remainder ==
  ASSUME NEW n \in Nat \ {0}, NEW x \in Nat
  PROVE  \E q \in Nat : x % n \in Nat /\ x % n < n /\ x = n * q + (x % n)
<1>1. x \div n \in Nat /\ x % n \in Nat /\ x % n < n /\ x = n * (x \div n) + (x % n)  BY SMTT(30)
<1>. QED  BY <1>1, Zenon

LEMMA Apart2 ==
  ASSUME NEW n \in Nat \ {0}, NEW p \in Nat, NEW q \in Nat, NEW r \in Nat, NEW s \in Nat,
         n * p + r = n * q + s, r < n, s < n
  PROVE  r = s
<1>1. ASSUME NEW a \in Nat, NEW b \in Nat, NEW u \in Nat, NEW v \in Nat, a < b,
             n * a + u = n * b + v, u < n
      PROVE  FALSE
  <2>1. PICK k \in Nat : b = a + 1 + k  BY <1>1
  <2>2. n * b = n * a + n + n * k /\ n * k \in Nat /\ n * a \in Nat  BY <2>1, SMTT(30)
  <2>. QED  BY <1>1, <2>2
<1>2. ~(p < q) /\ ~(q < p)  BY <1>1, Zenon
<1>3. p = q  BY <1>2
<1>. QED  BY <1>3

LEMMA RemainderIs ==
  ASSUME NEW n \in Nat \ {0}, NEW q \in Nat, NEW r \in Nat, r < n
  PROVE  (n * q + r) % n = r
<1>. DEFINE x == n * q + r
<1>0. x \in Nat  OBVIOUS
<1>1. PICK p \in Nat : x % n \in Nat /\ x % n < n /\ x = n * p + (x % n)  BY <1>0, Remainder, Zenon
<1>. DEFINE s == x % n
<1>2. s \in Nat /\ s < n /\ n * q + r = n * p + s  BY <1>1, Zenon
<1>. HIDE DEF s, x
<1>3. r = s  BY <1>2, Apart2, Zenon
<1>. QED  BY <1>3, Zenon DEF s, x

\* A ring goes on by one, and comes back after n.
LEMMA RingStep ==
  ASSUME NEW n \in Nat \ {0}, NEW x \in Nat PROVE ((x % n) + 1) % n = (x + 1) % n
<1>1. PICK q \in Nat : x % n \in Nat /\ x % n < n /\ x = n * q + (x % n)  BY Remainder, Zenon
<1>. DEFINE r == x % n
<1>2. r \in Nat /\ r < n /\ x = n * q + r  BY <1>1, Zenon
<1>. HIDE DEF r
<1>3. CASE r + 1 < n
  <2>1. (n * q + (r + 1)) % n = r + 1  BY <1>2, <1>3, RemainderIs
  <2>2. (n * 0 + (r + 1)) % n = r + 1  BY <1>2, <1>3, RemainderIs
  <2>3. n * 0 + (r + 1) = r + 1 /\ n * q + (r + 1) = x + 1  BY <1>2
  <2>. QED  BY <2>1, <2>2, <2>3, Zenon DEF r
<1>4. CASE r + 1 = n
  <2>1. (n * (q + 1) + 0) % n = 0 /\ (n * 1 + 0) % n = 0  BY RemainderIs
  <2>2. n * (q + 1) + 0 = x + 1  BY <1>2, <1>4, SMTT(30)
  <2>3. n * 1 + 0 = r + 1  BY <1>2, <1>4
  <2>. QED  BY <2>1, <2>2, <2>3, Zenon DEF r
<1>. QED  BY <1>2, <1>3, <1>4

LEMMA RingWraps ==
  ASSUME NEW n \in Nat \ {0}, NEW x \in Nat PROVE (x + n) % n = x % n
<1>1. PICK q \in Nat : x % n \in Nat /\ x % n < n /\ x = n * q + (x % n)  BY Remainder, Zenon
<1>. DEFINE r == x % n
<1>2. r \in Nat /\ r < n /\ x = n * q + r  BY <1>1, Zenon
<1>. HIDE DEF r
<1>3. (n * (q + 1) + r) % n = r  BY <1>2, RemainderIs
<1>4. n * (q + 1) + r = x + n  BY <1>2, SMTT(30)
<1>. QED  BY <1>3, <1>4, Zenon DEF r

\* Less than n apart and not the same: different places; and how far apart they are.
LEMMA RingApart ==
  ASSUME NEW n \in Nat \ {0}, NEW x \in Nat, NEW d \in Nat, d < n
  PROVE  (((x + d) % n) - (x % n)) % n = d
<1>1. PICK q \in Nat : x % n \in Nat /\ x % n < n /\ x = n * q + (x % n)  BY Remainder, Zenon
<1>. DEFINE r == x % n
<1>2. r \in Nat /\ r < n /\ x = n * q + r  BY <1>1, Zenon
<1>. HIDE DEF r
<1>3. CASE r + d < n
  <2>1. (n * q + (r + d)) % n = r + d  BY <1>2, <1>3, RemainderIs
  <2>2. n * q + (r + d) = x + d  BY <1>2
  <2>3. (n * 0 + d) % n = d  BY RemainderIs, Zenon
  <2>4. n * 0 + d = d /\ (r + d) - r = d  BY <1>2
  <2>5. (x + d) % n = r + d /\ d % n = d  BY <2>1, <2>2, <2>3, <2>4, Zenon
  <2>. QED  BY <2>4, <2>5, Zenon DEF r
<1>4. CASE r + d >= n
  <2>1. r + d - n \in Nat /\ r + d - n < n  BY <1>2, <1>4
  <2>2. (n * (q + 1) + (r + d - n)) % n = r + d - n  BY <2>1, RemainderIs
  <2>3. n * (q + 1) + (r + d - n) = x + d
    <3>1. n * (q + 1) = n * q + n /\ n * q \in Nat  BY SMTT(30)
    <3>. QED  BY <1>2, <3>1
  <2>4. (r + d - n) - r = d - n  BY <1>2
  <2>5. (d - n) % n = d  BY SMTT(30)
  <2>6. (x + d) % n = r + d - n  BY <2>2, <2>3, Zenon
  <2>. QED  BY <2>4, <2>5, <2>6, Zenon DEF r
<1>. QED  BY <1>2, <1>3, <1>4

\* Two frames that are less than a ring apart are in different descriptors.
LEMMA SlotsApart ==
  ASSUME NEW n \in Nat, n > 1, NEW j \in Nat \ {0}, NEW k \in Nat \ {0}, j < k, k < j + n
  PROVE  Slot(j, n) # Slot(k, n)
<1>. DEFINE x == j - 1
            d == k - j
<1>1. n \in Nat \ {0} /\ x \in Nat /\ d \in Nat /\ d < n /\ d # 0 /\ x + d = k - 1
  OBVIOUS
<1>2. (((x + d) % n) - (x % n)) % n = d  BY <1>1, RingApart, Zenon
<1>3. ((x % n) - (x % n)) % n = 0
  <2>1. x % n \in Int  BY <1>1
  <2>2. (x % n) - (x % n) = 0  BY <2>1
  <2>. QED  BY <2>2, SMTT(30)
<1>. HIDE DEF x, d
<1>4. (x + d) % n # x % n  BY <1>1, <1>2, <1>3, Zenon
<1>. QED  BY <1>1, <1>4, Zenon DEF Slot, x

\* A frame's descriptor, and the one a ring later.
LEMMA SlotIs ==
  ASSUME NEW n \in Nat, n > 1, NEW k \in Nat \ {0}
  PROVE  /\ Slot(k, n) \in 0 .. n - 1
         /\ Slot(k + 1, n) = k % n /\ Slot(k, n) = Slot(k + n, n)
         /\ (((k - 1) % n) + 1) % n = k % n
<1>. DEFINE x == k - 1
<1>1. /\ n \in Nat \ {0} /\ x \in Nat /\ k = x + 1 /\ k + n - 1 = x + n
      /\ (k + 1) - 1 = k
  OBVIOUS
<1>2. x % n \in 0 .. n - 1  BY <1>1
<1>3. ((x % n) + 1) % n = (x + 1) % n /\ (x + n) % n = x % n
  BY <1>1, RingStep, RingWraps, Zenon
<1>. QED  BY <1>1, <1>2, <1>3 DEF Slot

\* Counting on, and cutting off.
LEMMA CountOn ==
  ASSUME NEW s, Counted(s), NEW k, k = Len(s) + 1
  PROVE  Counted(Append(s, k)) /\ Len(Append(s, k)) = Len(s) + 1
BY DEF Counted

LEMMA CountOff ==
  ASSUME NEW s, NEW t, Counted(s), Counted(t), Len(s) <= Len(t)
  PROVE  s = SubSeq(t, 1, Len(s))
<1>1. SubSeq(t, 1, Len(s)) \in Seq(Nat) /\ Len(SubSeq(t, 1, Len(s))) = Len(s)
  BY DEF Counted
<1>2. \A i \in 1 .. Len(s) : SubSeq(t, 1, Len(s))[i] = s[i]  BY DEF Counted
<1>. QED  BY <1>1, <1>2 DEF Counted

LEMMA EmptyCounts == Counted(<<>>) /\ Len(<<>>) = 0
BY DEF Counted

\* e1000_send: the descriptor at the tail is done, so the ring has room.
LEMMA SendRoom ==
  ASSUME NEW d \in [0 .. NTX - 1 -> TxDesc], NEW t \in Nat, NEW s \in Nat, t <= s, s <= t + NTX,
         Waiting(d, t, s), d[s % NTX].dd
  PROVE  s + 1 <= t + NTX
<1>1. NTX \in Nat /\ NTX > 1 /\ NTX \in Nat \ {0}  BY NicAssumption
<1>2. SUFFICES ASSUME s = t + NTX PROVE FALSE  BY <1>1
<1>3. t + 1 \in t + 1 .. s /\ t + 1 \in Nat \ {0} /\ (t + 1) - 1 = t  BY <1>1, <1>2
<1>4. Slot(t + 1, NTX) = t % NTX  BY <1>3, Zenon DEF Slot
<1>5. (t + NTX) % NTX = t % NTX  BY <1>1, RingWraps, Zenon
<1>6. ~d[t % NTX].dd  BY <1>3, <1>4, Zenon DEF Waiting
<1>. QED  BY <1>2, <1>5, <1>6, Zenon

LEMMA SendKeeps ==
  ASSUME NEW d \in [0 .. NTX - 1 -> TxDesc], NEW t \in Nat, NEW s \in Nat, t <= s, s + 1 <= t + NTX,
         Waiting(d, t, s), NEW e, e = [d EXCEPT ![s % NTX] = [dd |-> FALSE, frame |-> s + 1]]
  PROVE  e \in [0 .. NTX - 1 -> TxDesc] /\ Waiting(e, t, s + 1)
<1>1. NTX \in Nat /\ NTX > 1 /\ NTX \in Nat \ {0} /\ s + 1 \in Nat \ {0} /\ (s + 1) - 1 = s
  BY NicAssumption
<1>2. s % NTX \in 0 .. NTX - 1  BY <1>1
<1>3. Slot(s + 1, NTX) = s % NTX  BY <1>1, Zenon DEF Slot
<1>4. [dd |-> FALSE, frame |-> s + 1] \in TxDesc  BY <1>1, Zenon DEF TxDesc
<1>5. e \in [0 .. NTX - 1 -> TxDesc]  BY <1>2, <1>4, Zenon
<1>6. ASSUME NEW k \in t + 1 .. s + 1
      PROVE  e[Slot(k, NTX)].frame = k /\ ~e[Slot(k, NTX)].dd
  <2>1. CASE k = s + 1
    <3>1. e[s % NTX] = [dd |-> FALSE, frame |-> s + 1]  BY <1>2, Zenon
    <3>2. e[Slot(k, NTX)] = [dd |-> FALSE, frame |-> k]  BY <1>3, <2>1, <3>1, Zenon
    <3>. QED  BY ONLY <3>2
  <2>2. CASE k # s + 1
    <3>1. k \in t + 1 .. s /\ k \in Nat \ {0} /\ k < s + 1 /\ s + 1 < k + NTX  BY <1>1, <2>2
    <3>20. Slot(k, NTX) # Slot(s + 1, NTX)  BY <1>1, <3>1, SlotsApart, Zenon
    <3>21. Slot(k, NTX) \in 0 .. NTX - 1  BY <1>1, <3>1, SlotIs, Zenon
    <3>2. Slot(k, NTX) # s % NTX /\ Slot(k, NTX) \in 0 .. NTX - 1  BY <1>3, <3>20, <3>21, Zenon
    <3>3. e[Slot(k, NTX)] = d[Slot(k, NTX)]  BY <3>2, Zenon
    <3>. QED  BY <3>1, <3>3, Zenon DEF Waiting
  <2>. QED  BY <2>1, <2>2, Zenon
<1>. QED  BY <1>5, <1>6, Zenon DEF Waiting

\* The card sends the oldest frame.
LEMMA SentKeeps ==
  ASSUME NEW d \in [0 .. NTX - 1 -> TxDesc], NEW t \in Nat, NEW s \in Nat, t < s, s <= t + NTX,
         Waiting(d, t, s), NEW e, e = [d EXCEPT ![t % NTX].dd = TRUE]
  PROVE  e \in [0 .. NTX - 1 -> TxDesc] /\ d[t % NTX].frame = t + 1 /\ Waiting(e, t + 1, s)
<1>1. NTX \in Nat /\ NTX > 1 /\ NTX \in Nat \ {0} /\ t + 1 \in Nat \ {0} /\ (t + 1) - 1 = t
  BY NicAssumption
<1>2. t % NTX \in 0 .. NTX - 1 /\ t + 1 \in t + 1 .. s  BY <1>1
<1>3. Slot(t + 1, NTX) = t % NTX  BY <1>1, Zenon DEF Slot
<1>4. PICK r : r = [d[t % NTX] EXCEPT !.dd = TRUE]  BY Zenon
<1>5. r \in TxDesc  BY <1>2, <1>4, Zenon DEF TxDesc
<1>6. e = [d EXCEPT ![t % NTX] = r]  BY <1>2, <1>4, Zenon
<1>7. e \in [0 .. NTX - 1 -> TxDesc]  BY <1>5, <1>6, Zenon
<1>8. d[t % NTX].frame = t + 1  BY <1>2, <1>3, Zenon DEF Waiting
<1>9. ASSUME NEW k \in (t + 1) + 1 .. s
      PROVE  e[Slot(k, NTX)].frame = k /\ ~e[Slot(k, NTX)].dd
  <2>1. k \in t + 1 .. s /\ k \in Nat \ {0} /\ t + 1 < k /\ k < t + 1 + NTX  BY <1>1
  <2>20. Slot(k, NTX) # Slot(t + 1, NTX)  BY <1>1, <2>1, SlotsApart, Zenon
  <2>21. Slot(k, NTX) \in 0 .. NTX - 1  BY <1>1, <2>1, SlotIs, Zenon
  <2>2. Slot(k, NTX) # t % NTX /\ Slot(k, NTX) \in 0 .. NTX - 1  BY <1>3, <2>20, <2>21, Zenon
  <2>3. e[Slot(k, NTX)] = d[Slot(k, NTX)]  BY <1>6, <2>2, Zenon
  <2>. QED  BY <2>1, <2>3, Zenon DEF Waiting
<1>. QED  BY <1>7, <1>8, <1>9, Zenon DEF Waiting

\* A ring's worth of frames, each in a descriptor of its own.
LEMMA OneRing ==
  ASSUME NEW n \in Nat, n > 1, NEW g \in Nat, NEW j \in g + 1 .. g + n, NEW k \in g + 1 .. g + n, j # k
  PROVE  Slot(j, n) # Slot(k, n) /\ Slot(k, n) \in 0 .. n - 1
<1>1. j \in Nat \ {0} /\ k \in Nat \ {0} /\ (j < k \/ k < j) /\ k < j + n /\ j < k + n  OBVIOUS
<1>4. Slot(k, n) \in 0 .. n - 1  BY <1>1, SlotIs, Zenon
<1>2. CASE j < k  BY <1>1, <1>2, <1>4, SlotsApart, Zenon
<1>3. CASE k < j  BY <1>1, <1>3, <1>4, SlotsApart, Zenon
<1>. QED  BY <1>1, <1>2, <1>3, <1>4, Zenon

\* The card stores a frame in the descriptor at its head.
LEMMA StoreKeeps ==
  ASSUME NEW d \in [0 .. NRX - 1 -> RxDesc], NEW g \in Nat, NEW a \in Nat, g <= a, a + 1 < g + NRX,
         Stored(d, g, a), NEW good \in BOOLEAN, NEW e,
         e = [d EXCEPT ![a % NRX] = [dd |-> TRUE, good |-> good, frame |-> a + 1]]
  PROVE  e \in [0 .. NRX - 1 -> RxDesc] /\ Stored(e, g, a + 1)
<1>1. NRX \in Nat /\ NRX > 1 /\ a + 1 \in g + 1 .. g + NRX /\ (a + 1) - 1 = a /\ a + 1 \in Nat
  BY NicAssumption
<1>2. Slot(a + 1, NRX) = a % NRX  BY <1>1, Zenon DEF Slot
<1>3. a % NRX \in 0 .. NRX - 1  BY <1>1
<1>. DEFINE r == [dd |-> TRUE, good |-> good, frame |-> a + 1]
<1>4. r \in RxDesc /\ r.frame = a + 1 /\ r.dd  BY <1>1, Zenon DEF RxDesc
<1>. HIDE DEF r
<1>40. e = [d EXCEPT ![a % NRX] = r]  BY Zenon DEF r
<1>5. e \in [0 .. NRX - 1 -> RxDesc] /\ e[a % NRX] = r  BY <1>3, <1>4, <1>40, Zenon
<1>6. ASSUME NEW k \in g + 1 .. g + NRX, k # a + 1
      PROVE  e[Slot(k, NRX)] = d[Slot(k, NRX)]
  <2>1. Slot(k, NRX) # a % NRX /\ Slot(k, NRX) \in 0 .. NRX - 1
    BY <1>1, <1>2, <1>6, OneRing, Zenon
  <2>. QED  BY <1>40, <2>1, Zenon
<1>7. ASSUME NEW k \in g + 1 .. a + 1 PROVE e[Slot(k, NRX)].frame = k /\ e[Slot(k, NRX)].dd
  <2>1. CASE k = a + 1  BY <1>2, <1>4, <1>5, <2>1, Zenon
  <2>2. CASE k # a + 1
    <3>1. k \in g + 1 .. a /\ k \in g + 1 .. g + NRX  BY <1>1, <2>2
    <3>. QED  BY <1>6, <2>2, <3>1, Zenon DEF Stored
  <2>. QED  BY <2>1, <2>2, Zenon
<1>8. ASSUME NEW k \in (a + 1) + 1 .. g + NRX PROVE ~e[Slot(k, NRX)].dd
  <2>1. k # a + 1 /\ k \in a + 1 .. g + NRX /\ k \in g + 1 .. g + NRX  BY <1>1
  <2>. QED  BY <1>6, <2>1, Zenon DEF Stored
<1>. QED  BY <1>5, <1>7, <1>8, Zenon DEF Stored

\* The descriptor after the tail holds the oldest frame, if there is one.
LEMMA Oldest ==
  ASSUME NEW d, NEW g \in Nat, NEW a \in Nat, g <= a, a < g + NRX, Stored(d, g, a)
  PROVE  /\ (((g + NRX - 1) % NRX) + 1) % NRX = g % NRX
         /\ d[g % NRX].dd <=> g < a
         /\ g < a => d[g % NRX].frame = g + 1
<1>1. NRX \in Nat \ {0} /\ NRX > 1 /\ g + NRX - 1 \in Nat /\ (g + NRX - 1) + 1 = g + NRX
      /\ (g + 1) - 1 = g
  BY NicAssumption
<1>2. (((g + NRX - 1) % NRX) + 1) % NRX = (g + NRX) % NRX  BY <1>1, RingStep, Zenon
<1>3. (g + NRX) % NRX = g % NRX  BY <1>1, RingWraps, Zenon
<1>4. Slot(g + 1, NRX) = g % NRX  BY <1>1, Zenon DEF Slot
<1>5. CASE g < a
  <2>1. g + 1 \in g + 1 .. a  BY <1>5
  <2>. QED  BY <1>2, <1>3, <1>4, <1>5, <2>1, Zenon DEF Stored
<1>6. CASE ~(g < a)
  <2>1. g + 1 \in a + 1 .. g + NRX  BY <1>1, <1>6
  <2>. QED  BY <1>2, <1>3, <1>4, <1>6, <2>1, Zenon DEF Stored
<1>. QED  BY <1>5, <1>6, Zenon

\* The driver gives the oldest descriptor back.
LEMMA GiveKeeps ==
  ASSUME NEW d \in [0 .. NRX - 1 -> RxDesc], NEW g \in Nat, NEW a \in Nat, g < a, a < g + NRX,
         Stored(d, g, a), NEW e,
         e = [d EXCEPT ![g % NRX] = [dd |-> FALSE, good |-> FALSE, frame |-> 0]]
  PROVE  e \in [0 .. NRX - 1 -> RxDesc] /\ Stored(e, g + 1, a)
<1>1. NRX \in Nat /\ NRX > 1 /\ g + 1 \in g + 1 .. g + NRX /\ (g + 1) - 1 = g /\ g + 1 \in Nat \ {0}
  BY NicAssumption
<1>2. Slot(g + 1, NRX) = g % NRX  BY <1>1, Zenon DEF Slot
<1>20. Slot((g + 1) + NRX, NRX) = g % NRX  BY <1>1, <1>2, SlotIs, Zenon
<1>3. g % NRX \in 0 .. NRX - 1  BY <1>1
<1>. DEFINE r == [dd |-> FALSE, good |-> FALSE, frame |-> 0]
<1>30. 0 \in Nat  BY Zenon
<1>4. r \in RxDesc /\ ~r.dd  BY <1>30, Zenon DEF RxDesc
<1>. HIDE DEF r
<1>40. e = [d EXCEPT ![g % NRX] = r]  BY Zenon DEF r
<1>5. e \in [0 .. NRX - 1 -> RxDesc] /\ e[g % NRX] = r  BY <1>3, <1>4, <1>40, Zenon
<1>6. ASSUME NEW k \in g + 1 .. g + NRX, k # g + 1
      PROVE  e[Slot(k, NRX)] = d[Slot(k, NRX)]
  <2>1. Slot(k, NRX) # g % NRX /\ Slot(k, NRX) \in 0 .. NRX - 1
    BY <1>1, <1>2, <1>6, OneRing, Zenon
  <2>. QED  BY <1>40, <2>1, Zenon
<1>7. ASSUME NEW k \in (g + 1) + 1 .. a PROVE e[Slot(k, NRX)].frame = k /\ e[Slot(k, NRX)].dd
  <2>1. k \in g + 1 .. a /\ k \in g + 1 .. g + NRX /\ k # g + 1  BY <1>1
  <2>. QED  BY <1>6, <2>1, Zenon DEF Stored
<1>8. ASSUME NEW k \in a + 1 .. (g + 1) + NRX PROVE ~e[Slot(k, NRX)].dd
  <2>1. CASE k = (g + 1) + NRX  BY <1>4, <1>5, <1>20, <2>1, Zenon
  <2>2. CASE k # (g + 1) + NRX
    <3>1. k # g + 1 /\ k \in a + 1 .. g + NRX /\ k \in g + 1 .. g + NRX  BY <1>1, <2>2
    <3>. QED  BY <1>6, <3>1, Zenon DEF Stored
  <2>. QED  BY <2>1, <2>2, Zenon
<1>. QED  BY <1>5, <1>7, <1>8, Zenon DEF Stored

\* What each ring and its driver state are made of.
txPart == <<regs.txen, regs.tdt, regs.tdh, e1000.tx_tail, tx_descs, submitted, sent>>
rxPart == <<regs.rxen, regs.rdt, regs.rdh, e1000.rx_tail, rx_descs, poll, accepted, taken>>

LEMMA TxSame == ASSUME TxOk, UNCHANGED txPart PROVE TxOk'
<1>1. /\ regs'.txen = regs.txen /\ regs'.tdt = regs.tdt /\ regs'.tdh = regs.tdh
      /\ e1000'.tx_tail = e1000.tx_tail /\ tx_descs' = tx_descs
      /\ submitted' = submitted /\ sent' = sent
  BY Zenon DEF txPart
<1>. QED  BY <1>1, Zenon DEF TxOk, TxRing, Unsent, Waiting

LEMMA RxSame == ASSUME RxOk, UNCHANGED rxPart PROVE RxOk'
<1>1. /\ regs'.rxen = regs.rxen /\ regs'.rdt = regs.rdt /\ regs'.rdh = regs.rdh
      /\ e1000'.rx_tail = e1000.rx_tail /\ rx_descs' = rx_descs /\ poll' = poll
      /\ accepted' = accepted /\ taken' = taken
  BY Zenon DEF rxPart
<1>. QED  BY <1>1, Zenon DEF RxOk, RxRing, Deaf, Given, Stored

\* Lengths are numbers.
LEMMA Lengths ==
  ASSUME NicType
  PROVE  /\ Len(submitted) \in Nat /\ Len(sent) \in Nat /\ Len(accepted) \in Nat /\ Len(taken) \in Nat
         /\ NTX \in Nat \ {0} /\ NTX > 1 /\ NRX \in Nat \ {0} /\ NRX > 1
BY NicAssumption DEF NicType, Counted

\* The steps that leave both rings alone.
LEMMA OnlyBoot ==
  ASSUME NicInv, UNCHANGED <<regs, descs, e1000, poll, history>>
  PROVE  NicType' /\ TxOk' /\ RxOk' /\ UNCHANGED <<regs, e1000>>
<1>1. /\ regs' = regs /\ tx_descs' = tx_descs /\ rx_descs' = rx_descs /\ e1000' = e1000 /\ poll' = poll
      /\ submitted' = submitted /\ sent' = sent /\ accepted' = accepted /\ taken' = taken
  BY Zenon DEF descs, history
<1>2. NicType'  BY <1>1, Zenon DEF NicInv, NicType, Counted
<1>3. UNCHANGED txPart /\ UNCHANGED rxPart  BY <1>1, Zenon DEF txPart, rxPart
<1>4. TxOk /\ RxOk  BY Zenon DEF NicInv, Booted, TxOk, RxOk
<1>. QED  BY <1>1, <1>2, <1>3, <1>4, TxSame, RxSame, Zenon

\* net_init: the steps that only go on and those that set the interface's address.
LEMMA PlainSteps ==
  ASSUME NicInv,
         \/ lwip_init \/ e1000_pci_find \/ low_level_init \/ netif_set_up \/ dhcp_start
         \/ DhcpWait \/ DhcpLook \/ dhcp_stop \/ StaticAddr \/ dns_setserver
  PROVE  NicInv'
<1>0. NicType /\ Stage /\ Addressed  BY Zenon DEF NicInv, Booted
<1>1. UNCHANGED <<regs, descs, e1000, poll, history>>
  BY Zenon DEF lwip_init, e1000_pci_find, low_level_init, netif_set_up, dhcp_start,
         DhcpWait, DhcpLook, dhcp_stop, StaticAddr, dns_setserver
<1>2. NicType' /\ TxOk' /\ RxOk' /\ regs' = regs /\ e1000' = e1000  BY <1>1, OnlyBoot, Zenon
<1>3. CASE lwip_init
  BY <1>0, <1>2, <1>3, Zenon DEF lwip_init, Step, NicInv, Booted, Stage, Addressed, Ready, Up
<1>4. CASE e1000_pci_find
  BY <1>0, <1>2, <1>4, Zenon DEF e1000_pci_find, Step, NicInv, Booted, Stage, Addressed, Ready, Up
<1>5. CASE low_level_init
  BY <1>0, <1>2, <1>5, Zenon DEF low_level_init, e1000_get_mac, Step, NicInv, Booted, Stage, Addressed, Ready, Up
<1>6. CASE netif_set_up
  BY <1>0, <1>2, <1>6, Zenon DEF netif_set_up, Step, NicInv, Booted, Stage, Addressed, Ready, Up
<1>7. CASE dhcp_start
  BY <1>0, <1>2, <1>7, Zenon DEF dhcp_start, Step, NicInv, Booted, Stage, Addressed, Ready, Up
<1>8. CASE DhcpWait
  BY <1>0, <1>2, <1>8, Zenon DEF DhcpWait, Step, NicInv, Booted, Stage, Addressed, Ready, Up
<1>9. CASE DhcpLook
  BY <1>0, <1>2, <1>9, Zenon DEF DhcpLook, Step, NicInv, Booted, Stage, Addressed, Ready, Up
<1>10. CASE dhcp_stop
  BY <1>0, <1>2, <1>10, Zenon DEF dhcp_stop, Stopped, Step, NicInv, Booted, Stage, Addressed, Ready, Up
<1>11. CASE StaticAddr
  BY <1>0, <1>2, <1>11, Zenon DEF StaticAddr, Step, NicInv, Booted, Stage, Addressed, Ready, Up
<1>12. CASE dns_setserver
  BY <1>0, <1>2, <1>12, Zenon DEF dns_setserver, Step, NicInv, Booted, Stage, Addressed, Ready, Up
<1>. QED  BY <1>3, <1>4, <1>5, <1>6, <1>7, <1>8, <1>9, <1>10, <1>11, <1>12, Zenon

\* The software reset and the address of the card.
LEMMA ResetKeeps == ASSUME NicInv, Reset PROVE NicInv'
<1>0. /\ NicType /\ Stage /\ Addressed /\ TxOk /\ RxOk /\ boot = "reset" /\ boot' = "mac"
      /\ regs' = [regs EXCEPT !.txen = FALSE, !.rxen = FALSE] /\ tx_descs' = tx_descs
      /\ rx_descs' = rx_descs /\ e1000' = e1000 /\ poll' = poll /\ netif' = netif
      /\ submitted' = submitted /\ sent' = sent /\ accepted' = accepted /\ taken' = taken
  BY Zenon DEF NicInv, Booted, Reset, Step, descs, history
<1>1. ~regs.txen /\ ~regs.rxen  BY <1>0, Zenon DEF Stage
<1>2. /\ regs' \in Regs /\ regs'.txen = regs.txen /\ regs'.rxen = regs.rxen
      /\ regs'.tdt = regs.tdt /\ regs'.tdh = regs.tdh /\ regs'.rdt = regs.rdt /\ regs'.rdh = regs.rdh
  BY <1>0, <1>1, Zenon DEF NicType, Regs
<1>3. UNCHANGED txPart /\ UNCHANGED rxPart  BY <1>0, <1>2, Zenon DEF txPart, rxPart
<1>4. TxOk' /\ RxOk'  BY <1>0, <1>3, TxSame, RxSame, Zenon
<1>5. NicType'  BY <1>0, <1>2, Zenon DEF NicType, Counted
<1>6. Stage' /\ Addressed'  BY <1>0, <1>1, <1>2, Zenon DEF Stage, Addressed, Ready, Up
<1>. QED  BY <1>4, <1>5, <1>6, Zenon DEF NicInv, Booted

LEMMA SetupKeeps == ASSUME NicInv, e1000_read_mac \/ Initialized PROVE NicInv'
<1>0. /\ NicType /\ Stage /\ Addressed /\ TxOk /\ RxOk
      /\ regs' = regs /\ tx_descs' = tx_descs
      /\ rx_descs' = rx_descs /\ poll' = poll /\ netif' = netif
      /\ submitted' = submitted /\ sent' = sent /\ accepted' = accepted /\ taken' = taken
      /\ \/ boot = "mac" /\ boot' = "tx" /\ e1000' = [e1000 EXCEPT !.mac = "card"]
         \/ boot = "enable" /\ boot' = "netif" /\ e1000' = [e1000 EXCEPT !.initialized = TRUE]
  BY Zenon DEF NicInv, Booted, e1000_read_mac, Initialized, Step, descs, history
<1>1. /\ e1000' \in [mac : {"zero", "card"}, tx_tail : Nat, rx_tail : Nat, initialized : BOOLEAN]
      /\ e1000'.tx_tail = e1000.tx_tail /\ e1000'.rx_tail = e1000.rx_tail
      /\ \/ boot = "mac" /\ boot' = "tx" /\ e1000'.mac = "card" /\ e1000'.initialized = e1000.initialized
         \/ boot = "enable" /\ boot' = "netif" /\ e1000'.initialized /\ e1000'.mac = e1000.mac
  BY <1>0, Zenon DEF NicType
<1>3. UNCHANGED txPart /\ UNCHANGED rxPart  BY <1>0, <1>1, Zenon DEF txPart, rxPart
<1>4. TxOk' /\ RxOk'  BY <1>0, <1>3, TxSame, RxSame, Zenon
<1>5. NicType'  BY <1>0, <1>1, Zenon DEF NicType, Counted
<1>6. Stage' /\ Addressed'  BY <1>0, <1>1, Zenon DEF Stage, Addressed, Ready, Up
<1>. QED  BY <1>4, <1>5, <1>6, Zenon DEF NicInv, Booted

\* An empty ring.
LEMMA EmptyTx == ASSUME NEW d PROVE Waiting(d, 0, 0) /\ 0 % NTX = 0 /\ 0 + NTX \in Nat /\ 0 <= 0 + NTX
BY NicAssumption DEF Waiting

LEMMA EmptyRx ==
  ASSUME NEW d \in [0 .. NRX - 1 -> RxDesc], \A i \in 0 .. NRX - 1 : ~d[i].dd
  PROVE  Stored(d, 0, 0) /\ 0 % NRX = 0 /\ (0 + NRX - 1) % NRX = NRX - 1 /\ 0 < 0 + NRX
<1>1. NRX \in Nat \ {0} /\ NRX > 1 /\ 0 \in Nat /\ NRX - 1 \in Nat /\ NRX - 1 < NRX  BY NicAssumption
<1>2. (NRX * 0 + (NRX - 1)) % NRX = NRX - 1 /\ NRX * 0 + (NRX - 1) = NRX - 1
  BY <1>1, RemainderIs
<1>3. \A k \in 0 + 1 .. 0 + NRX : Slot(k, NRX) \in 0 .. NRX - 1
  <2>1. \A k \in 0 + 1 .. 0 + NRX : k \in Nat \ {0}  BY <1>1
  <2>. QED  BY <1>1, <2>1, SlotIs, Zenon
<1>4. \A k \in 0 + 1 .. 0 : FALSE  OBVIOUS
<1>5. Stored(d, 0, 0)  BY <1>3, <1>4, Zenon DEF Stored
<1>6. 0 % NRX = 0 /\ 0 + NRX - 1 = NRX - 1 /\ 0 < 0 + NRX  BY <1>1
<1>. QED  BY <1>2, <1>5, <1>6, Zenon

\* e1000_tx_init
LEMMA TxInitKeeps == ASSUME NicInv, e1000_tx_init PROVE NicInv'
<1>0. /\ NicType /\ Stage /\ Addressed /\ TxOk /\ RxOk /\ boot = "tx"
      /\ rx_descs' = rx_descs /\ poll' = poll /\ netif' = netif
      /\ submitted' = submitted /\ sent' = sent /\ accepted' = accepted /\ taken' = taken
  BY Zenon DEF NicInv, Booted, e1000_tx_init, Step, history
<1>1. CASE /\ boot' = "rx" /\ tx_descs' = [i \in DOMAIN tx_descs |-> [dd |-> TRUE, frame |-> 0]]
           /\ regs' = [regs EXCEPT !.tdh = 0, !.tdt = 0, !.txen = TRUE]
           /\ e1000' = [e1000 EXCEPT !.tx_tail = 0]
  <2>0. 0 \in Nat  BY Zenon
  <2>1. /\ regs' \in Regs /\ regs'.tdh = 0 /\ regs'.tdt = 0 /\ regs'.txen /\ regs'.rxen = regs.rxen
        /\ regs'.rdt = regs.rdt /\ regs'.rdh = regs.rdh
    BY <1>0, <1>1, <2>0, Zenon DEF NicType, Regs
  <2>2. /\ e1000' \in [mac : {"zero", "card"}, tx_tail : Nat, rx_tail : Nat, initialized : BOOLEAN]
        /\ e1000'.tx_tail = 0 /\ e1000'.rx_tail = e1000.rx_tail /\ e1000'.mac = e1000.mac
        /\ e1000'.initialized = e1000.initialized
    BY <1>0, <1>1, <2>0, Zenon DEF NicType
  <2>3. tx_descs' \in [0 .. NTX - 1 -> TxDesc]
    <3>1. DOMAIN tx_descs = 0 .. NTX - 1 /\ [dd |-> TRUE, frame |-> 0] \in TxDesc
      BY <1>0, <2>0, Zenon DEF NicType, TxDesc
    <3>. QED  BY <1>1, <3>1, Zenon
  <2>4. NicType'  BY <1>0, <2>1, <2>2, <2>3, Zenon DEF NicType, Counted
  <2>5. UNCHANGED rxPart  BY <1>0, <2>1, <2>2, Zenon DEF rxPart
  <2>6. RxOk'  BY <1>0, <2>5, RxSame, Zenon
  <2>7. Len(submitted') = 0 /\ Len(sent') = 0
    <3>1. submitted = <<>> /\ sent = <<>>  BY <1>0, Zenon DEF TxOk, Unsent, Stage
    <3>. QED  BY <1>0, <3>1, EmptyCounts, Zenon
  <2>8. TxRing'  BY <2>0, <2>1, <2>2, <2>7, EmptyTx DEF TxRing
  <2>9. TxOk'  BY <2>1, <2>8, Zenon DEF TxOk
  <2>10. Stage' /\ Addressed'  BY <1>0, <1>1, <2>1, <2>2, Zenon DEF Stage, Addressed, Ready, Up
  <2>. QED  BY <2>4, <2>6, <2>9, <2>10, Zenon DEF NicInv, Booted
<1>2. CASE boot' = "failed" /\ UNCHANGED <<tx_descs, regs, e1000>>
  <2>1. tx_descs' = tx_descs /\ regs' = regs /\ e1000' = e1000  BY <1>2, Zenon
  <2>2. NicType' /\ TxOk' /\ RxOk'  BY <1>0, <2>1, OnlyBoot, Zenon DEF descs, history
  <2>3. Stage' /\ Addressed'  BY <1>0, <1>2, <2>1, Zenon DEF Stage, Addressed, Ready, Up
  <2>. QED  BY <2>2, <2>3, Zenon DEF NicInv, Booted
<1>. QED  BY <1>1, <1>2, Zenon DEF e1000_tx_init, Step

\* e1000_rx_init
LEMMA RxInitKeeps == ASSUME NicInv, e1000_rx_init PROVE NicInv'
<1>0. /\ NicType /\ Stage /\ Addressed /\ TxOk /\ RxOk /\ boot = "rx"
      /\ tx_descs' = tx_descs /\ poll' = poll /\ netif' = netif
      /\ submitted' = submitted /\ sent' = sent /\ accepted' = accepted /\ taken' = taken
  BY Zenon DEF NicInv, Booted, e1000_rx_init, Step, history
<1>1. CASE /\ boot' = "enable"
           /\ rx_descs' = [i \in DOMAIN rx_descs |-> [dd |-> FALSE, good |-> FALSE, frame |-> 0]]
           /\ regs' = [regs EXCEPT !.rdh = 0, !.rdt = NRX - 1, !.rxen = TRUE]
           /\ e1000' = [e1000 EXCEPT !.rx_tail = NRX - 1]
  <2>0. 0 \in Nat /\ NRX - 1 \in Nat /\ 0 - 0 = 0  BY NicAssumption
  <2>1. /\ regs' \in Regs /\ regs'.rdh = 0 /\ regs'.rdt = NRX - 1 /\ regs'.rxen /\ regs'.txen = regs.txen
        /\ regs'.tdt = regs.tdt /\ regs'.tdh = regs.tdh
    BY <1>0, <1>1, <2>0, Zenon DEF NicType, Regs
  <2>2. /\ e1000' \in [mac : {"zero", "card"}, tx_tail : Nat, rx_tail : Nat, initialized : BOOLEAN]
        /\ e1000'.rx_tail = NRX - 1 /\ e1000'.tx_tail = e1000.tx_tail /\ e1000'.mac = e1000.mac
        /\ e1000'.initialized = e1000.initialized
    BY <1>0, <1>1, <2>0, Zenon DEF NicType
  <2>3. rx_descs' \in [0 .. NRX - 1 -> RxDesc] /\ \A i \in 0 .. NRX - 1 : ~rx_descs'[i].dd
    <3>1. DOMAIN rx_descs = 0 .. NRX - 1 /\ [dd |-> FALSE, good |-> FALSE, frame |-> 0] \in RxDesc
      BY <1>0, <2>0, Zenon DEF NicType, RxDesc
    <3>2. ~[dd |-> FALSE, good |-> FALSE, frame |-> 0].dd  BY Zenon
    <3>. QED  BY <1>1, <3>1, <3>2, Zenon
  <2>4. NicType'  BY <1>0, <2>1, <2>2, <2>3, Zenon DEF NicType, Counted
  <2>5. UNCHANGED txPart  BY <1>0, <2>1, <2>2, Zenon DEF txPart
  <2>6. TxOk'  BY <1>0, <2>5, TxSame, Zenon
  <2>7. Len(accepted') = 0 /\ Len(taken') = 0 /\ poll' = {}
    <3>1. accepted = <<>> /\ taken = <<>> /\ poll = {}  BY <1>0, Zenon DEF RxOk, Deaf, Stage
    <3>. QED  BY <1>0, <3>1, EmptyCounts, Zenon
  <2>70. Given' = 0  BY <2>0, <2>7, Zenon DEF Given
  <2>71. Stored(rx_descs', 0, 0) /\ 0 % NRX = 0 /\ (0 + NRX - 1) % NRX = NRX - 1 /\ 0 < 0 + NRX
    BY <2>3, EmptyRx, Zenon
  <2>72. 0 <= 0  OBVIOUS
  <2>8. RxRing'  BY <2>0, <2>1, <2>2, <2>7, <2>70, <2>71, <2>72, Zenon DEF RxRing
  <2>9. RxOk'  BY <2>1, <2>8, Zenon DEF RxOk
  <2>10. Stage' /\ Addressed'  BY <1>0, <1>1, <2>1, <2>2, Zenon DEF Stage, Addressed, Ready, Up
  <2>. QED  BY <2>4, <2>6, <2>9, <2>10, Zenon DEF NicInv, Booted
<1>2. CASE boot' = "failed" /\ UNCHANGED <<rx_descs, regs, e1000>>
  <2>1. rx_descs' = rx_descs /\ regs' = regs /\ e1000' = e1000  BY <1>2, Zenon
  <2>2. NicType' /\ TxOk' /\ RxOk'  BY <1>0, <2>1, OnlyBoot, Zenon DEF descs, history
  <2>3. Stage' /\ Addressed'  BY <1>0, <1>2, <2>1, Zenon DEF Stage, Addressed, Ready, Up
  <2>. QED  BY <2>2, <2>3, Zenon DEF NicInv, Booted
<1>. QED  BY <1>1, <1>2, Zenon DEF e1000_rx_init, Step

\* low_level_output and e1000_send
LEMMA OutputKeeps == ASSUME NicInv, low_level_output PROVE NicInv'
<1>. DEFINE s == Len(submitted)
            t == Len(sent)
<1>0. /\ NicType /\ Stage /\ Addressed /\ TxOk /\ RxOk /\ e1000.initialized /\ tx_descs[e1000.tx_tail].dd
      /\ boot' = boot /\ rx_descs' = rx_descs /\ poll' = poll /\ netif' = netif
      /\ sent' = sent /\ accepted' = accepted /\ taken' = taken
      /\ submitted' = Append(submitted, s + 1)
      /\ tx_descs' = [tx_descs EXCEPT ![e1000.tx_tail] = [dd |-> FALSE, frame |-> s + 1]]
      /\ e1000' = [e1000 EXCEPT !.tx_tail = (e1000.tx_tail + 1) % NTX]
      /\ regs' = [regs EXCEPT !.tdt = (e1000.tx_tail + 1) % NTX]
  BY Zenon DEF NicInv, Booted, low_level_output, e1000_send, MayUse
<1>1. regs.txen /\ TxRing  BY <1>0, Zenon DEF Stage, TxOk
<1>2. s \in Nat /\ t \in Nat /\ NTX \in Nat \ {0} /\ NTX > 1  BY <1>0, Lengths, Zenon
<1>3. t <= s /\ s <= t + NTX /\ e1000.tx_tail = s % NTX /\ regs.tdh = t % NTX /\ Waiting(tx_descs, t, s)
  BY <1>1, Zenon DEF TxRing
<1>4. (e1000.tx_tail + 1) % NTX = (s + 1) % NTX  BY <1>2, <1>3, RingStep, Zenon
<1>5. Counted(submitted') /\ Len(submitted') = s + 1
  BY <1>0, <1>2, CountOn, Zenon DEF NicType
<1>. HIDE DEF s, t
<1>6. tx_descs \in [0 .. NTX - 1 -> TxDesc] /\ tx_descs[s % NTX].dd  BY <1>0, <1>3, Zenon DEF NicType
<1>7. s + 1 <= t + NTX  BY <1>2, <1>3, <1>6, SendRoom, Zenon
<1>8. tx_descs' = [tx_descs EXCEPT ![s % NTX] = [dd |-> FALSE, frame |-> s + 1]]  BY <1>0, <1>3, Zenon
<1>9. tx_descs' \in [0 .. NTX - 1 -> TxDesc] /\ Waiting(tx_descs', t, s + 1)
  BY <1>2, <1>3, <1>6, <1>7, <1>8, SendKeeps, Zenon
<1>10. (s + 1) % NTX \in Nat /\ t <= s + 1  BY <1>2, <1>3
<1>11. /\ regs' \in Regs /\ regs'.tdt = (s + 1) % NTX /\ regs'.tdh = regs.tdh /\ regs'.txen = regs.txen
       /\ regs'.rxen = regs.rxen /\ regs'.rdt = regs.rdt /\ regs'.rdh = regs.rdh
  BY <1>0, <1>4, <1>10, Zenon DEF NicType, Regs
<1>12. /\ e1000' \in [mac : {"zero", "card"}, tx_tail : Nat, rx_tail : Nat, initialized : BOOLEAN]
       /\ e1000'.tx_tail = (s + 1) % NTX /\ e1000'.rx_tail = e1000.rx_tail /\ e1000'.mac = e1000.mac
       /\ e1000'.initialized = e1000.initialized
  BY <1>0, <1>4, <1>10, Zenon DEF NicType
<1>13. NicType'  BY <1>0, <1>5, <1>9, <1>11, <1>12, Zenon DEF NicType, Counted
<1>14. UNCHANGED rxPart  BY <1>0, <1>11, <1>12, Zenon DEF rxPart
<1>15. RxOk'  BY <1>0, <1>14, RxSame, Zenon
<1>16. Len(sent') = t  BY <1>0, Zenon DEF t
<1>17. TxRing'  BY <1>3, <1>5, <1>7, <1>9, <1>10, <1>11, <1>12, <1>16, Zenon DEF TxRing
<1>18. TxOk'  BY <1>1, <1>11, <1>17, Zenon DEF TxOk
<1>19. Stage' /\ Addressed'  BY <1>0, <1>11, <1>12, Zenon DEF Stage, Addressed
<1>. QED  BY <1>13, <1>15, <1>18, <1>19, Zenon DEF NicInv, Booted

\* The card sends a frame.
LEMMA CardSendsKeeps == ASSUME NicInv, CardSends PROVE NicInv'
<1>. DEFINE s == Len(submitted)
            t == Len(sent)
<1>0. /\ NicType /\ Stage /\ Addressed /\ TxOk /\ RxOk /\ regs.txen /\ regs.tdh # regs.tdt
      /\ boot' = boot /\ rx_descs' = rx_descs /\ e1000' = e1000 /\ poll' = poll /\ netif' = netif
      /\ submitted' = submitted /\ accepted' = accepted /\ taken' = taken
      /\ sent' = Append(sent, tx_descs[regs.tdh].frame)
      /\ tx_descs' = [tx_descs EXCEPT ![regs.tdh].dd = TRUE]
      /\ regs' = [regs EXCEPT !.tdh = (regs.tdh + 1) % NTX]
  <2>1. NicType /\ Stage /\ Addressed /\ TxOk /\ RxOk  BY Zenon DEF NicInv, Booted
  <2>2. regs' = [regs EXCEPT !.tdh = (regs.tdh + 1) % NTX]  BY <2>1, Zenon DEF CardSends, NicType, Regs
  <2>. QED  BY <2>1, <2>2, Zenon DEF CardSends
<1>1. TxRing  BY <1>0, Zenon DEF TxOk
<1>2. s \in Nat /\ t \in Nat /\ NTX \in Nat \ {0} /\ NTX > 1  BY <1>0, Lengths, Zenon
<1>3. /\ t <= s /\ s <= t + NTX /\ regs.tdt = s % NTX /\ e1000.tx_tail = regs.tdt
      /\ regs.tdh = t % NTX /\ Waiting(tx_descs, t, s)
  BY <1>1, Zenon DEF TxRing
<1>4. (regs.tdh + 1) % NTX = (t + 1) % NTX  BY <1>2, <1>3, RingStep, Zenon
<1>. HIDE DEF s, t
<1>5. t # s  BY <1>0, <1>3, Zenon
<1>6. t < s /\ (t + 1) % NTX \in Nat /\ t + 1 <= s /\ s <= t + 1 + NTX  BY <1>2, <1>3, <1>5
<1>7. tx_descs' = [tx_descs EXCEPT ![t % NTX].dd = TRUE]  BY <1>0, <1>3, Zenon
<1>70. tx_descs \in [0 .. NTX - 1 -> TxDesc]  BY <1>0, Zenon DEF NicType
<1>8. tx_descs' \in [0 .. NTX - 1 -> TxDesc] /\ tx_descs[t % NTX].frame = t + 1 /\ Waiting(tx_descs', t + 1, s)
  BY <1>2, <1>3, <1>6, <1>7, <1>70, SentKeeps, Zenon
<1>9. Counted(sent') /\ Len(sent') = t + 1
  <2>1. sent' = Append(sent, t + 1)  BY <1>0, <1>3, <1>8, Zenon
  <2>. QED  BY <1>0, <1>2, <2>1, CountOn, Zenon DEF NicType, t
<1>11. /\ regs' \in Regs /\ regs'.tdh = (t + 1) % NTX /\ regs'.tdt = regs.tdt /\ regs'.txen = regs.txen
       /\ regs'.rxen = regs.rxen /\ regs'.rdt = regs.rdt /\ regs'.rdh = regs.rdh
  BY <1>0, <1>4, <1>6, Zenon DEF NicType, Regs
<1>13. NicType'  BY <1>0, <1>8, <1>9, <1>11, Zenon DEF NicType, Counted
<1>14. UNCHANGED rxPart  BY <1>0, <1>11, Zenon DEF rxPart
<1>15. RxOk'  BY <1>0, <1>14, RxSame, Zenon
<1>16. Len(submitted') = s  BY <1>0, Zenon DEF s
<1>17. TxRing'  BY <1>0, <1>3, <1>6, <1>8, <1>9, <1>11, <1>16, Zenon DEF TxRing
<1>18. TxOk'  BY <1>0, <1>11, <1>17, Zenon DEF TxOk
<1>19. Stage' /\ Addressed'  BY <1>0, <1>11, Zenon DEF Stage, Addressed
<1>. QED  BY <1>13, <1>15, <1>18, <1>19, Zenon DEF NicInv, Booted

\* The card stores a frame.
LEMMA CardStoresKeeps == ASSUME NicInv, NEW good \in BOOLEAN, CardStores(good) PROVE NicInv'
<1>. DEFINE g == Given
            a == Len(accepted)
<1>0. /\ NicType /\ Stage /\ Addressed /\ TxOk /\ RxOk /\ regs.rxen /\ regs.rdh # regs.rdt
      /\ boot' = boot /\ tx_descs' = tx_descs /\ e1000' = e1000 /\ poll' = poll /\ netif' = netif
      /\ submitted' = submitted /\ sent' = sent /\ taken' = taken
      /\ accepted' = Append(accepted, a + 1)
      /\ rx_descs' = [rx_descs EXCEPT ![regs.rdh] = [dd |-> TRUE, good |-> good, frame |-> a + 1]]
      /\ regs' = [regs EXCEPT !.rdh = (regs.rdh + 1) % NRX]
  <2>1. NicType /\ Stage /\ Addressed /\ TxOk /\ RxOk  BY Zenon DEF NicInv, Booted
  <2>2. regs' = [regs EXCEPT !.rdh = (regs.rdh + 1) % NRX]  BY <2>1, Zenon DEF CardStores, NicType, Regs
  <2>. QED  BY <2>1, <2>2, Zenon DEF CardStores
<1>1. RxRing  BY <1>0, Zenon DEF RxOk
<1>2. a \in Nat /\ Len(taken) \in Nat /\ NRX \in Nat \ {0} /\ NRX > 1  BY <1>0, Lengths, Zenon
<1>3. /\ g \in Nat /\ Len(taken) <= a /\ a < g + NRX /\ regs.rdt = (g + NRX - 1) % NRX
      /\ regs.rdh = a % NRX /\ Stored(rx_descs, g, a)
  BY <1>1, Zenon DEF RxRing
<1>30. g <= Len(taken)  BY <1>2 DEF Given
<1>4. (regs.rdh + 1) % NRX = (a + 1) % NRX  BY <1>2, <1>3, RingStep, Zenon
<1>5. Counted(accepted') /\ Len(accepted') = a + 1  BY <1>0, <1>2, CountOn, Zenon DEF NicType
<1>. HIDE DEF g, a
<1>6. a # g + NRX - 1  BY <1>0, <1>3, Zenon
<1>7. g <= a /\ a + 1 < g + NRX /\ (a + 1) % NRX \in Nat /\ Len(taken) <= a + 1
  BY <1>2, <1>3, <1>30, <1>6
<1>8. /\ rx_descs \in [0 .. NRX - 1 -> RxDesc]
      /\ rx_descs' = [rx_descs EXCEPT ![a % NRX] = [dd |-> TRUE, good |-> good, frame |-> a + 1]]
  BY <1>0, <1>3, Zenon DEF NicType
<1>9. rx_descs' \in [0 .. NRX - 1 -> RxDesc] /\ Stored(rx_descs', g, a + 1)
  BY <1>2, <1>3, <1>7, <1>8, StoreKeeps, Zenon
<1>11. /\ regs' \in Regs /\ regs'.rdh = (a + 1) % NRX /\ regs'.rdt = regs.rdt /\ regs'.rxen = regs.rxen
       /\ regs'.txen = regs.txen /\ regs'.tdt = regs.tdt /\ regs'.tdh = regs.tdh
  BY <1>0, <1>4, <1>7, Zenon DEF NicType, Regs
<1>13. NicType'  BY <1>0, <1>5, <1>9, <1>11, Zenon DEF NicType, Counted
<1>14. UNCHANGED txPart  BY <1>0, <1>11, Zenon DEF txPart
<1>15. TxOk'  BY <1>0, <1>14, TxSame, Zenon
<1>16. Given' = g  BY <1>0, Zenon DEF g, Given
<1>17. RxRing'  BY <1>0, <1>1, <1>3, <1>5, <1>7, <1>9, <1>11, <1>16, Zenon DEF RxRing
<1>18. RxOk'  BY <1>0, <1>11, <1>17, Zenon DEF RxOk
<1>19. Stage' /\ Addressed'  BY <1>0, <1>11, Zenon DEF Stage, Addressed
<1>. QED  BY <1>13, <1>15, <1>18, <1>19, Zenon DEF NicInv, Booted

\* While the poll looks, every frame taken was given back; while it holds one, all but that.
LEMMA Looks ==
  ASSUME Len(taken) \in Nat
  PROVE  /\ poll = {} => Given = Len(taken)
         /\ \A c : poll = {c} /\ c.at = "look" => Given = Len(taken)
         /\ \A c : poll = {c} /\ c.at = "give" => Given = Len(taken) - 1
<1>1. Len(taken) - 0 = Len(taken)  OBVIOUS
<1>2. ASSUME poll = {} PROVE Given = Len(taken)  BY <1>1, <1>2, Zenon DEF Given
<1>3. ASSUME NEW c, poll = {c}, c.at = "look" PROVE Given = Len(taken)
  <2>1. ~\E x \in poll : x.at = "give"  BY <1>3, Zenon
  <2>. QED  BY <1>1, <2>1, Zenon DEF Given
<1>4. ASSUME NEW c, poll = {c}, c.at = "give" PROVE Given = Len(taken) - 1
  <2>1. \E x \in poll : x.at = "give"  BY <1>4, Zenon
  <2>. QED  BY <2>1, Zenon DEF Given
<1>. QED  BY <1>2, <1>3, <1>4, Zenon

\* What a poll under way knows.
LEMMA UnderWay ==
  ASSUME NicInv, NEW c \in poll
  PROVE  /\ poll = {c} /\ c \in Polls /\ regs.rxen /\ RxRing /\ c.tail = regs.rdt
         /\ Given \in Nat /\ Len(taken) \in Nat /\ Len(accepted) \in Nat
         /\ Given <= Len(taken) /\ Len(taken) <= Len(accepted) /\ Len(accepted) < Given + NRX
         /\ c.tail = (Given + NRX - 1) % NRX /\ (c.tail + 1) % NRX = Given % NRX
         /\ rx_descs[Given % NRX].dd <=> Given < Len(accepted)
         /\ Given < Len(accepted) => rx_descs[Given % NRX].frame = Given + 1
<1>1. NicType /\ RxOk  BY Zenon DEF NicInv, Booted
<1>2. poll = {c} /\ c \in Polls /\ poll # {}  BY <1>1, Zenon DEF NicType
<1>3. regs.rxen /\ RxRing  BY <1>1, <1>2, Zenon DEF RxOk, Deaf
<1>4. Len(taken) \in Nat /\ Len(accepted) \in Nat /\ NRX \in Nat \ {0}  BY <1>1, Lengths, Zenon
<1>5. /\ Given \in Nat /\ Len(taken) <= Len(accepted) /\ Len(accepted) < Given + NRX
      /\ regs.rdt = (Given + NRX - 1) % NRX /\ Stored(rx_descs, Given, Len(accepted)) /\ c.tail = regs.rdt
  BY <1>3, Zenon DEF RxRing
<1>6. Given <= Len(taken)  BY <1>4 DEF Given
<1>. DEFINE g == Given
            a == Len(accepted)
<1>7. g <= a  BY <1>4, <1>5, <1>6
<1>8. g \in Nat /\ a \in Nat /\ a < g + NRX /\ Stored(rx_descs, g, a)  BY <1>4, <1>5, Zenon
<1>. HIDE DEF g, a
<1>9. /\ (((g + NRX - 1) % NRX) + 1) % NRX = g % NRX
      /\ rx_descs[g % NRX].dd <=> g < a
      /\ g < a => rx_descs[g % NRX].frame = g + 1
  BY <1>7, <1>8, Oldest, Zenon
<1>. QED  BY <1>2, <1>3, <1>4, <1>5, <1>6, <1>9, Zenon DEF g, a

\* cb_network begins a poll.
LEMMA PollKeeps == ASSUME NicInv, e1000_poll PROVE NicInv'
<1>. DEFINE c == [at |-> "look", tail |-> e1000.rx_tail]
<1>0. /\ NicType /\ Stage /\ Addressed /\ TxOk /\ RxOk /\ e1000.initialized /\ poll = {} /\ poll' = {c}
      /\ boot' = boot /\ tx_descs' = tx_descs /\ rx_descs' = rx_descs /\ regs' = regs /\ e1000' = e1000
      /\ netif' = netif /\ submitted' = submitted /\ sent' = sent /\ accepted' = accepted /\ taken' = taken
  BY Zenon DEF NicInv, Booted, e1000_poll, descs, history
<1>1. regs.rxen /\ RxRing  BY <1>0, Zenon DEF Stage, RxOk
<1>2. Len(taken) \in Nat /\ NRX \in Nat \ {0} /\ Given \in Nat  BY <1>0, <1>1, Lengths, Zenon DEF RxRing
<1>3. e1000.rx_tail = regs.rdt /\ e1000.rx_tail \in 0 .. NRX - 1
  <2>1. e1000.rx_tail = regs.rdt /\ regs.rdt = (Given + NRX - 1) % NRX  BY <1>0, <1>1, Zenon DEF RxRing
  <2>2. (Given + NRX - 1) % NRX \in 0 .. NRX - 1  BY <1>2
  <2>. QED  BY <2>1, <2>2, Zenon
<1>4. c \in Polls /\ c.at = "look" /\ c.tail = regs.rdt  BY <1>3, Zenon DEF Polls
<1>. HIDE DEF c
<1>5. NicType'  BY <1>0, <1>4, Zenon DEF NicType, Counted
<1>6. Given = Len(taken)  BY <1>0, <1>2, Looks, Zenon
<1>7. Given' = Given
  <2>1. ~\E x \in poll' : x.at = "give"  BY <1>0, <1>4, Zenon
  <2>2. ~\E x \in poll : x.at = "give"  BY <1>0, Zenon
  <2>. QED  BY <1>0, <2>1, <2>2, Zenon DEF Given
<1>8. RxRing'  BY <1>0, <1>1, <1>4, <1>7, Zenon DEF RxRing, Stored
<1>9. UNCHANGED txPart  BY <1>0, Zenon DEF txPart
<1>10. TxOk' /\ RxOk'  BY <1>0, <1>1, <1>8, <1>9, TxSame, Zenon DEF RxOk
<1>11. Stage' /\ Addressed'  BY <1>0, Zenon DEF Stage, Addressed
<1>. QED  BY <1>5, <1>10, <1>11, Zenon DEF NicInv, Booted

\* The poll is over.
LEMMA PollEndsKeeps == ASSUME NicInv, PollEnds PROVE NicInv'
<1>0. PICK c \in poll :
      /\ c.at = "look" /\ e1000' = [e1000 EXCEPT !.rx_tail = c.tail] /\ poll' = {}
      /\ boot' = boot /\ tx_descs' = tx_descs /\ rx_descs' = rx_descs /\ regs' = regs
      /\ netif' = netif /\ submitted' = submitted /\ sent' = sent /\ accepted' = accepted /\ taken' = taken
  BY Zenon DEF PollEnds, descs, history
<1>1. NicType /\ Stage /\ Addressed /\ TxOk /\ RxOk  BY Zenon DEF NicInv, Booted
<1>2. poll = {c} /\ c \in Polls /\ regs.rxen /\ RxRing /\ c.tail = regs.rdt /\ Len(taken) \in Nat
  BY <1>0, UnderWay, Zenon
<1>3. /\ e1000' \in [mac : {"zero", "card"}, tx_tail : Nat, rx_tail : Nat, initialized : BOOLEAN]
      /\ e1000'.rx_tail = regs.rdt /\ e1000'.tx_tail = e1000.tx_tail /\ e1000'.mac = e1000.mac
      /\ e1000'.initialized = e1000.initialized
  <2>1. regs.rdt \in Nat  BY <1>1, Zenon DEF NicType, Regs
  <2>. QED  BY <1>0, <1>1, <1>2, <2>1, Zenon DEF NicType
<1>4. NicType'  BY <1>0, <1>1, <1>3, Zenon DEF NicType, Counted
<1>5. Given' = Given
  <2>1. ~\E x \in poll' : x.at = "give"  BY <1>0, Zenon
  <2>2. ~\E x \in poll : x.at = "give"  BY <1>0, <1>2, Zenon
  <2>. QED  BY <1>0, <2>1, <2>2, Zenon DEF Given
<1>6. RxRing'  BY <1>0, <1>2, <1>3, <1>5, Zenon DEF RxRing, Stored
<1>7. UNCHANGED txPart  BY <1>0, <1>3, Zenon DEF txPart
<1>8. TxOk' /\ RxOk'  BY <1>0, <1>1, <1>2, <1>6, <1>7, TxSame, Zenon DEF RxOk
<1>9. Stage' /\ Addressed'  BY <1>0, <1>1, <1>3, Zenon DEF Stage, Addressed
<1>. QED  BY <1>4, <1>8, <1>9, Zenon DEF NicInv, Booted

\* A frame is taken; it may be the answer of the DHCP server.
LEMMA PollTakesKeeps == ASSUME NicInv, PollTakes PROVE NicInv'
<1>0. PICK c \in poll :
      /\ c.at = "look" /\ rx_descs[(c.tail + 1) % NRX].dd /\ poll' = {[c EXCEPT !.at = "give"]}
      /\ taken' = Append(taken, rx_descs[(c.tail + 1) % NRX].frame)
      /\ e1000_rx_callback(rx_descs[(c.tail + 1) % NRX].good)
      /\ boot' = boot /\ tx_descs' = tx_descs /\ rx_descs' = rx_descs /\ regs' = regs /\ e1000' = e1000
      /\ submitted' = submitted /\ sent' = sent /\ accepted' = accepted
  BY Zenon DEF PollTakes, descs
<1>1. NicType /\ Stage /\ Addressed /\ TxOk /\ RxOk  BY Zenon DEF NicInv, Booted
<1>2. /\ poll = {c} /\ c \in Polls /\ regs.rxen /\ RxRing /\ c.tail = regs.rdt
      /\ Len(taken) \in Nat /\ Len(accepted) \in Nat /\ (c.tail + 1) % NRX = Given % NRX
      /\ rx_descs[Given % NRX].dd <=> Given < Len(accepted)
      /\ Given < Len(accepted) => rx_descs[Given % NRX].frame = Given + 1
  BY <1>0, UnderWay, Zenon
<1>3. Given = Len(taken)  BY <1>0, <1>2, Looks, Zenon
<1>4. Len(taken) < Len(accepted) /\ taken' = Append(taken, Len(taken) + 1)  BY <1>0, <1>2, <1>3, Zenon
<1>5. Counted(taken') /\ Len(taken') = Len(taken) + 1  BY <1>1, <1>4, CountOn, Zenon DEF NicType
<1>6. PICK e : e = [c EXCEPT !.at = "give"]  BY Zenon
<1>7. e \in Polls /\ e.at = "give" /\ e.tail = c.tail /\ poll' = {e}  BY <1>0, <1>2, <1>6, Zenon DEF Polls
<1>8. Given' = Given
  <2>1. \E x \in poll' : x.at = "give"  BY <1>7, Zenon
  <2>2. Given' = Len(taken') - 1  BY <2>1, Zenon DEF Given
  <2>. QED  BY <1>2, <1>3, <1>5, <2>2
<1>9. Len(taken') <= Len(accepted)  BY <1>2, <1>4, <1>5
<1>10. NicType'  BY <1>0, <1>1, <1>5, <1>7, Zenon DEF NicType, Counted
<1>11. RxRing'  BY <1>0, <1>2, <1>7, <1>8, <1>9, Zenon DEF RxRing, Stored
<1>12. UNCHANGED txPart  BY <1>0, Zenon DEF txPart
<1>13. TxOk' /\ RxOk'  BY <1>0, <1>1, <1>2, <1>11, <1>12, TxSame, Zenon DEF RxOk
<1>14. Stage'  BY <1>0, <1>1, Zenon DEF Stage
<1>15. Addressed'
  <2>1. netif' = netif \/ (netif.dhcp /\ netif' = [netif EXCEPT !.ip = "dhcp"])
    BY <1>0, Zenon DEF e1000_rx_callback, kyuzen_netif_input
  <2>2. CASE netif' = netif  BY <1>0, <1>1, <2>2, Zenon DEF Addressed
  <2>3. CASE netif.dhcp /\ netif' = [netif EXCEPT !.ip = "dhcp"]
    BY <1>0, <1>1, <2>3, Zenon DEF Addressed
  <2>. QED  BY <2>1, <2>2, <2>3, Zenon
<1>. QED  BY <1>10, <1>13, <1>14, <1>15, Zenon DEF NicInv, Booted

\* The descriptor goes back.
LEMMA PollGivesKeeps == ASSUME NicInv, PollGives PROVE NicInv'
<1>0. PICK c \in poll :
      /\ c.at = "give"
      /\ rx_descs' = [rx_descs EXCEPT ![(c.tail + 1) % NRX] = [dd |-> FALSE, good |-> FALSE, frame |-> 0]]
      /\ regs' = [regs EXCEPT !.rdt = (c.tail + 1) % NRX]
      /\ poll' = {[at |-> "look", tail |-> (c.tail + 1) % NRX]}
      /\ boot' = boot /\ tx_descs' = tx_descs /\ e1000' = e1000 /\ netif' = netif
      /\ submitted' = submitted /\ sent' = sent /\ accepted' = accepted /\ taken' = taken
  BY Zenon DEF PollGives, history
<1>. DEFINE g == Given
            a == Len(accepted)
            e == [at |-> "look", tail |-> g % NRX]
<1>1. NicType /\ Stage /\ Addressed /\ TxOk /\ RxOk  BY Zenon DEF NicInv, Booted
<1>2. /\ poll = {c} /\ regs.rxen /\ RxRing /\ Len(taken) \in Nat /\ a \in Nat /\ g \in Nat
      /\ Len(taken) <= a /\ a < g + NRX /\ (c.tail + 1) % NRX = g % NRX
  BY <1>0, UnderWay, Zenon
<1>3. Stored(rx_descs, g, a) /\ regs.rdh = a % NRX  BY <1>2, Zenon DEF RxRing
<1>4. g = Len(taken) - 1  BY <1>0, <1>2, Looks, Zenon
<1>5. NRX \in Nat \ {0} /\ NRX > 1  BY <1>1, Lengths, Zenon
<1>50. Len(accepted') = a  BY <1>0, Zenon
<1>. HIDE DEF g, a
<1>6. /\ g < a /\ Len(taken) = g + 1 /\ g % NRX \in 0 .. NRX - 1 /\ g % NRX \in Nat
      /\ g + 1 + NRX - 1 = g + NRX /\ a < g + 1 + NRX /\ g + 1 \in Nat /\ g + 1 <= a
  BY <1>2, <1>4, <1>5
<1>7. /\ rx_descs \in [0 .. NRX - 1 -> RxDesc]
      /\ rx_descs' = [rx_descs EXCEPT ![g % NRX] = [dd |-> FALSE, good |-> FALSE, frame |-> 0]]
  BY <1>0, <1>1, <1>2, Zenon DEF NicType
<1>8. rx_descs' \in [0 .. NRX - 1 -> RxDesc] /\ Stored(rx_descs', g + 1, a)
  BY <1>2, <1>3, <1>6, <1>7, GiveKeeps, Zenon
<1>9. /\ regs' \in Regs /\ regs'.rdt = g % NRX /\ regs'.rdh = regs.rdh /\ regs'.rxen = regs.rxen
      /\ regs'.txen = regs.txen /\ regs'.tdt = regs.tdt /\ regs'.tdh = regs.tdh
  BY <1>0, <1>1, <1>2, <1>6, Zenon DEF NicType, Regs
<1>10. poll' = {e} /\ e \in Polls /\ e.at = "look" /\ e.tail = g % NRX
  BY <1>0, <1>2, <1>6, Zenon DEF Polls
<1>. HIDE DEF e
<1>11. NicType'  BY <1>0, <1>1, <1>8, <1>9, <1>10, Zenon DEF NicType, Counted
<1>12. Given' = g + 1
  <2>1. ~\E x \in poll' : x.at = "give"  BY <1>10, Zenon
  <2>2. Given' = Len(taken) - 0  BY <1>0, <2>1, Zenon DEF Given
  <2>. QED  BY <1>2, <1>6, <2>2
<1>13. g % NRX = (g + 1 + NRX - 1) % NRX
  <2>1. (g + NRX) % NRX = g % NRX  BY <1>2, <1>5, RingWraps, Zenon
  <2>. QED  BY <1>6, <2>1, Zenon
<1>14. RxRing'
  BY <1>0, <1>3, <1>6, <1>8, <1>9, <1>10, <1>12, <1>13, <1>50, Zenon DEF RxRing
<1>15. UNCHANGED txPart  BY <1>0, <1>9, Zenon DEF txPart
<1>16. TxOk' /\ RxOk'  BY <1>1, <1>2, <1>9, <1>14, <1>15, TxSame, Zenon DEF RxOk
<1>17. Stage' /\ Addressed'  BY <1>0, <1>1, <1>9, Zenon DEF Stage, Addressed
<1>. QED  BY <1>11, <1>16, <1>17, Zenon DEF NicInv, Booted

LEMMA NicBegins == ASSUME NicInit PROVE NicInv
<1>0. 0 \in Nat  BY Zenon
<1>1. regs \in Regs /\ ~regs.txen /\ ~regs.rxen /\ regs.tdt = regs.tdh  BY <1>0, Zenon DEF NicInit, Regs
<1>2. tx_descs \in [0 .. NTX - 1 -> TxDesc]
  <2>1. [dd |-> FALSE, frame |-> 0] \in TxDesc  BY <1>0, Zenon DEF TxDesc
  <2>. QED  BY <2>1, Zenon DEF NicInit
<1>3. rx_descs \in [0 .. NRX - 1 -> RxDesc]
  <2>1. [dd |-> FALSE, good |-> FALSE, frame |-> 0] \in RxDesc  BY <1>0, Zenon DEF RxDesc
  <2>. QED  BY <2>1, Zenon DEF NicInit
<1>4. /\ e1000 \in [mac : {"zero", "card"}, tx_tail : Nat, rx_tail : Nat, initialized : BOOLEAN]
      /\ ~e1000.initialized
  BY <1>0, Zenon DEF NicInit
<1>5. NicType  BY <1>1, <1>2, <1>3, <1>4, EmptyCounts, Zenon DEF NicType, NicInit
<1>6. Booted  BY <1>1, <1>4, Zenon DEF NicInit, Booted, Stage, TxOk, RxOk, Unsent, Deaf, Ready
<1>7. Addressed  BY Zenon DEF NicInit, Addressed, Ready, Up
<1>. QED  BY <1>5, <1>6, <1>7, Zenon DEF NicInv

\* What the invariant says of the rings and the address.
LEMMA NicShows == ASSUME NicInv PROVE NicSound
<1>0. NicType /\ Stage /\ Addressed /\ TxOk /\ RxOk  BY Zenon DEF NicInv, Booted
<1>1. AddressSettled  BY <1>0, Zenon DEF Addressed, AddressSettled, Up
<1>. DEFINE s == Len(submitted)
            t == Len(sent)
<1>2. s \in Nat /\ t \in Nat /\ Len(accepted) \in Nat /\ Len(taken) \in Nat /\ NTX \in Nat \ {0}
  BY <1>0, Lengths, Zenon
<1>3. Len(taken) <= Len(accepted)
  <2>1. CASE regs.rxen  BY <1>0, <2>1, Zenon DEF RxOk, RxRing
  <2>2. CASE ~regs.rxen
    <3>1. Len(taken) = Len(accepted)  BY <1>0, <2>2, Zenon DEF RxOk, Deaf
    <3>. QED  BY <1>2, <3>1
  <2>. QED  BY <2>1, <2>2, Zenon
<1>4. taken = SubSeq(accepted, 1, Len(taken))  BY <1>0, <1>3, CountOff, Zenon DEF NicType
<1>5. CASE regs.txen
  <2>1. t <= s /\ regs.tdt = s % NTX /\ regs.tdh = t % NTX  BY <1>0, <1>5, Zenon DEF TxOk, TxRing
  <2>2. sent = SubSeq(submitted, 1, t)  BY <1>0, <2>1, CountOff, Zenon DEF NicType
  <2>3. ASSUME s - t < NTX PROVE (regs.tdt - regs.tdh) % NTX = s - t
    <3>. HIDE DEF s, t
    <3>1. PICK d \in Nat : d = s - t /\ d < NTX /\ t + d = s  BY <1>2, <2>1, <2>3
    <3>2. (((t + d) % NTX) - (t % NTX)) % NTX = d  BY <1>2, <3>1, RingApart, Zenon
    <3>. QED  BY <2>1, <3>1, <3>2, Zenon
  <2>. QED  BY <1>1, <1>4, <2>2, <2>3, Zenon DEF NicSound, RingExact
<1>6. CASE ~regs.txen
  <2>1. submitted = <<>> /\ sent = <<>> /\ regs.tdt = regs.tdh  BY <1>0, <1>6, Zenon DEF TxOk, Unsent
  <2>2. s = 0 /\ t = 0 /\ s - t = 0 /\ t <= s  BY <2>1
  <2>3. sent = SubSeq(submitted, 1, t)  BY <1>0, <2>2, CountOff, Zenon DEF NicType
  <2>4. (regs.tdt - regs.tdh) % NTX = s - t
    <3>1. regs.tdt \in Nat  BY <1>0, Zenon DEF NicType, Regs
    <3>2. regs.tdt - regs.tdh = 0  BY <2>1, <3>1
    <3>3. 0 % NTX = 0  BY EmptyTx, Zenon
    <3>. QED  BY <2>2, <3>2, <3>3, Zenon
  <2>. QED  BY <1>1, <1>4, <2>3, <2>4, Zenon DEF NicSound, RingExact
<1>. QED  BY <1>5, <1>6, Zenon

\* Whatever the card, the driver, the timer's poll and net_init do, and in whichever
\* order: the frames taken are the frames stored and the frames sent are the frames
\* submitted, in order, none lost, doubled or overwritten, for rings of any size; and an
\* interface that is up has its card's address, ends net_init with an address, and keeps
\* a fixed one.
THEOREM RingsExact == NicSpec => []NicSound
<1>1. NicInit => NicInv  BY NicBegins, Zenon
<1>2. NicInv /\ [NicNext]_nicVars => NicInv'
  <2>. SUFFICES ASSUME NicInv, [NicNext]_nicVars PROVE NicInv'  BY Zenon
  <2>1. CASE net_init
    BY <2>1, PlainSteps, ResetKeeps, SetupKeeps, TxInitKeeps, RxInitKeeps, Zenon DEF net_init
  <2>2. CASE low_level_output  BY <2>2, OutputKeeps, Zenon
  <2>3. CASE e1000_poll  BY <2>3, PollKeeps, Zenon
  <2>4. CASE PollEnds  BY <2>4, PollEndsKeeps, Zenon
  <2>5. CASE PollTakes  BY <2>5, PollTakesKeeps, Zenon
  <2>6. CASE PollGives  BY <2>6, PollGivesKeeps, Zenon
  <2>7. CASE CardSends  BY <2>7, CardSendsKeeps, Zenon
  <2>8. CASE \E good \in BOOLEAN : CardStores(good)  BY <2>8, CardStoresKeeps, Zenon
  <2>9. CASE UNCHANGED nicVars
    <3>1. /\ UNCHANGED <<regs, descs, e1000, poll, history>> /\ netif' = netif /\ boot' = boot
      BY <2>9, Zenon DEF nicVars, descs, history
    <3>2. NicType' /\ TxOk' /\ RxOk' /\ regs' = regs /\ e1000' = e1000  BY <3>1, OnlyBoot, Zenon
    <3>. QED  BY <3>1, <3>2, Zenon DEF NicInv, Booted, Stage, Addressed
  <2>. QED  BY <2>1, <2>2, <2>3, <2>4, <2>5, <2>6, <2>7, <2>8, <2>9, Zenon DEF NicNext
<1>3. NicInv => NicSound  BY NicShows, Zenon
<1>. QED  BY <1>1, <1>2, <1>3, PTL DEF NicSpec

=============================================================================
