-------------------------------- MODULE Ata --------------------------------
(***************************************************************************)
(* drivers/ata.c: sectors are read and written by programmed I/O.  The     *)
(* driver polls the status a limited number of times; the drive answers in *)
(* its own time, or reports an error.  fs_lock keeps other CPUs out.       *)
(*                                                                         *)
(* The drive is external and modelled by the status the driver polls: it   *)
(* ignores a command while it is busy or has words to move, which is also  *)
(* how it may treat the cache flush that the driver sends while it is      *)
(* still busy with the last sector.  late says that a wait gave up on the  *)
(* drive.  Names that start with Mut are slips of the code.                *)
(***************************************************************************)
EXTENDS Integers, Sequences

CONSTANTS
  LBAS,       \* sector numbers
  Words,      \* contents of a word
  WORDS,      \* words in a sector: 256
  POLLS,      \* polls before a wait gives up: 100000
  MaxOps      \* bound on the calls of the driver

ASSUME AtaAssumption == WORDS \in Nat \ {0} /\ POLLS \in Nat \ {0} /\ MaxOps \in Nat

VARIABLES
  sectors,    \* the sectors of the drive
  drive,      \* its status, the command it is at and the words it has moved
  call,       \* where the driver is in its call
  late,       \* history: a wait has timed out
  goal,       \* history: what the sectors must hold
  ops         \* history: calls made

ataVars == <<sectors, drive, call, late, goal, ops>>

SectorData == [1 .. WORDS -> Words]
ZERO == "zero"                     \* a word of the buffer of a failed read
Resting == [st |-> "idle", cmd |-> "none"]
NoCall  == [at |-> "none"]

AtaInit ==
  /\ sectors \in [LBAS -> SectorData]
  /\ drive = Resting
  /\ call = NoCall
  /\ late = FALSE
  /\ goal = sectors
  /\ ops = 0

-----------------------------------------------------------------------------
(* The drive (external). *)

\* Done with what it was busy with: it wants to move words, or rests.
DriveReady ==
  /\ drive.st = "busy"
  /\ \/ drive.cmd \in {"read", "write"} /\ drive' = [drive EXCEPT !.st = "drq"]
     \/ drive.cmd \in {"store", "flush"} /\ drive' = Resting
     \/ drive.cmd # "store" /\ drive' = [drive EXCEPT !.st = "error"]
  /\ UNCHANGED <<sectors, call, late, goal, ops>>

\* A command is taken at rest or after an error.
Commanded(cmd, lba) ==
  IF drive.st \in {"idle", "error"}
  THEN [st |-> "busy", cmd |-> cmd, lba |-> lba, moved |-> <<>>]
  ELSE drive

-----------------------------------------------------------------------------
(* The driver *)

Polling(at, c) == [c EXCEPT !.at = at, !.polls = 0]

\* ata_read_sector and ata_write_sector start with ata_wait_bsy.
Start(op, lba, data) ==
  /\ call.at = "none" /\ ops < MaxOps
  /\ ops' = ops + 1
  /\ call' = [at |-> "bsy", op |-> op, lba |-> lba, buffer |-> data, polls |-> 0]
  /\ UNCHANGED <<sectors, drive, late, goal>>
ata_read_sector(lba) == Start("read", lba, <<>>)
ata_write_sector(lba, data) == Start("write", lba, data)

\* ata_wait_bsy: at the last poll it gives up, and the driver goes on.
WaitBsy(at, next) ==
  /\ call.at = at
  /\ \/ drive.st # "busy" /\ call' = [call EXCEPT !.at = next] /\ UNCHANGED late
     \/ drive.st = "busy" /\ call.polls + 1 < POLLS
        /\ call' = [call EXCEPT !.polls = @ + 1] /\ UNCHANGED late
     \/ drive.st = "busy" /\ call.polls + 1 = POLLS
        /\ call' = [call EXCEPT !.at = next] /\ late' = TRUE
  /\ UNCHANGED <<sectors, drive, goal, ops>>

\* The LBA registers and the command.
Command ==
  /\ call.at = "command"
  /\ drive' = Commanded(call.op, call.lba)
  /\ call' = Polling("drq", call)
  /\ UNCHANGED <<sectors, late, goal, ops>>

\* A transfer that fails: a read returns zeros, a write returns.
Failed == NoCall

\* ata_wait_drq: an error, a fault, words to move, or the last poll.
MutWaitDrq ==
  /\ call.at = "drq"
  /\ call' = [call EXCEPT !.at = "move"]
  /\ UNCHANGED <<sectors, drive, late, goal, ops>>
WaitDrq ==
  /\ call.at = "drq"
  /\ \/ drive.st = "error" /\ call' = Failed /\ UNCHANGED late
     \/ drive.st = "drq" /\ call' = [call EXCEPT !.at = "move"] /\ UNCHANGED late
     \/ drive.st \in {"busy", "idle"} /\ call.polls + 1 < POLLS
        /\ call' = [call EXCEPT !.polls = @ + 1] /\ UNCHANGED late
     \/ drive.st \in {"busy", "idle"} /\ call.polls + 1 = POLLS
        /\ call' = Failed /\ late' = TRUE
  /\ UNCHANGED <<sectors, drive, goal, ops>>

\* inw: the word that is next in the sector the drive is at.
ReadWord ==
  /\ call.at = "move" /\ call.op = "read"
  /\ LET i == Len(call.buffer) + 1
         w == IF drive.st = "drq" /\ drive.cmd = "read" THEN sectors[drive.lba][i] ELSE ZERO
         b == Append(call.buffer, w)
     IN  /\ call' = [call EXCEPT !.buffer = b, !.at = IF i = WORDS THEN "return" ELSE @]
         /\ drive' = IF drive.st = "drq" /\ i = WORDS THEN Resting ELSE drive
  /\ UNCHANGED <<sectors, late, goal, ops>>

\* outw: the drive stores a sector once it has all of its words.
WriteWord ==
  /\ call.at = "move" /\ call.op = "write"
  /\ LET taken == drive.st = "drq" /\ drive.cmd = "write"
         m     == IF taken THEN Append(drive.moved, call.buffer[Len(drive.moved) + 1]) ELSE <<>>
         full  == Len(m) = WORDS
     IN  /\ drive' = IF ~taken THEN drive
                     ELSE IF full THEN [drive EXCEPT !.st = "busy", !.cmd = "store"]
                     ELSE [drive EXCEPT !.moved = m]
         /\ sectors' = IF taken /\ full THEN [sectors EXCEPT ![drive.lba] = m] ELSE sectors
         /\ call' = IF full \/ ~taken THEN [call EXCEPT !.at = "flush"] ELSE call
  /\ goal' = IF call'.at = "flush" THEN [goal EXCEPT ![call.lba] = call.buffer] ELSE goal
  /\ UNCHANGED <<late, ops>>

\* CACHE FLUSH, then ata_wait_bsy.
Flush ==
  /\ call.at = "flush"
  /\ drive' = Commanded("flush", call.lba)
  /\ call' = Polling("flushed", call)
  /\ UNCHANGED <<sectors, late, goal, ops>>
Return ==
  /\ call.at = "return"
  /\ call' = NoCall
  /\ UNCHANGED <<sectors, drive, late, goal, ops>>

AtaNext ==
  \/ DriveReady
  \/ \E l \in LBAS : ata_read_sector(l) \/ \E d \in SectorData : ata_write_sector(l, d)
  \/ WaitBsy("bsy", "command") \/ Command \/ WaitDrq
  \/ ReadWord \/ WriteWord \/ Flush \/ WaitBsy("flushed", "return") \/ Return
AtaSpec == AtaInit /\ [][AtaNext]_ataVars

-----------------------------------------------------------------------------
(* Properties *)

\* Until a wait gives up on the drive, whatever errors it reports: a read that
\* succeeds returns the words of its own sector, and the drive holds what the
\* writes that succeeded put there.
SectorExact ==
  ~late =>
    /\ call.at = "return" /\ call.op = "read" => call.buffer = goal[call.lba]
    /\ sectors = goal

=============================================================================
