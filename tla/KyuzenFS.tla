------------------------------ MODULE KyuzenFS ------------------------------
(***************************************************************************)
(* kernel/kyuzenfs.c: a FAT file system.  Every operation is one section   *)
(* under fs_lock that reads the FAT in memory and the directories on disk, *)
(* and issues sector writes in a fixed order.  Nothing else runs on the    *)
(* file system meanwhile, so an operation is the state of memory it leaves *)
(* and the sequence of its writes.  It does all of them, or the power is   *)
(* cut before one of them and the next boot reads what the disk has.       *)
(*                                                                         *)
(* A path is a sequence of names of at most 22 characters (kyuzenfs.h:42). *)
(* A write has a field window: TRUE when a cut just before it leaves an    *)
(* entry whose sectors are free, or a directory with unwritten sectors.    *)
(*                                                                         *)
(* History: files is what each path holds, hurt says that a cut fell in a  *)
(* window, crashed counts the cuts, leaky says that a create failed        *)
(* half-way or was cut.  Definitions whose name starts with Mut are slips  *)
(* of the code, used by no specification.                                  *)
(***************************************************************************)
EXTENDS Integers, Sequences, FiniteSets, SequencesExt

CONSTANTS
  TotalSectors,      \* ata_get_total_sectors()
  FAT_PER_SECTOR,    \* 128
  DIR_ENTRIES,       \* 16
  COUNT_MOD,         \* 2^32, the range of total_files
  Paths, Contents,   \* arguments of the calls; a content is a sequence of blocks
  MaxCrashes         \* bound on the power cuts

VARIABLES
  fat_table, total_files,       \* in memory
  disk,                         \* the sectors
  files, hurt, crashed, leaky   \* history

vars == <<fat_table, total_files, disk, files, hurt, crashed, leaky>>

-----------------------------------------------------------------------------
FAT_FREE == 0
FAT_EOF  == -1
FatSectors == (TotalSectors + FAT_PER_SECTOR - 1) \div FAT_PER_SECTOR
Root    == 1 + FatSectors
Sectors == 0 .. TotalSectors - 1

Empty  == [flags |-> "empty"]
Entry(name, flags, start, size) ==
  [flags |-> flags, name |-> name, start |-> start, size |-> size]
Data(block) == [data |-> block]
NoBlock     == 0                      \* a block of zeros
EmptyDir    == [entries |-> [i \in 1 .. DIR_ENTRIES |-> Empty]]

Write(s, v, w) == [at |-> s, val |-> v, window |-> w]

\* kfs_sync_fat writes the whole FAT sector that holds the entry of s.
FatSector(f, k) == [fat |-> [s \in {t \in Sectors : t \div FAT_PER_SECTOR = k} |-> f[s]]]
Sync(f, s, w) == Write(1 + (s \div FAT_PER_SECTOR), FatSector(f, s \div FAT_PER_SECTOR), w)

\* kfs_init reads the FAT back.
FatOn(d) == [s \in Sectors |-> d[1 + (s \div FAT_PER_SECTOR)].fat[s]]

\* The sectors that find_free_sector may return, in the order it tries them.
DataSectors == [i \in 1 .. TotalSectors - Root - 1 |-> Root + i]
FreeSectors(f) == SelectSeq(DataSectors, LAMBDA s : f[s] = FAT_FREE)

\* The sectors the loops over a chain visit, from s.
Chain(f, s) ==
  FoldLeft(LAMBDA c, n : IF f[Last(c)] \in {FAT_EOF, FAT_FREE} THEN c ELSE Append(c, f[Last(c)]),
           <<s>>, DataSectors)

-----------------------------------------------------------------------------
(* Directories *)

\* The slots of a directory with sectors c, in the order of the scans.
SlotsOf(c) ==
  [k \in 1 .. Len(c) * DIR_ENTRIES |->
     <<c[((k - 1) \div DIR_ENTRIES) + 1], ((k - 1) % DIR_ENTRIES) + 1>>]
Slots(f, dir) == ToSet(SlotsOf(Chain(f, dir)))
At(d, slot)   == d[slot[1]].entries[slot[2]]

\* find_entry_in; WellFormed says that it finds one slot at most.
FindEntryIn(d, f, dir, name) ==
  {x \in Slots(f, dir) : At(d, x) # Empty /\ At(d, x).name = name}

\* resolve_dir_nolock: no directory when a component is missing or no folder.
ResolveDir(d, f, path) ==
  FoldLeft(LAMBDA dirs, name :
             {At(d, x).start : x \in {y \in UNION {FindEntryIn(d, f, dir, name) : dir \in dirs} :
                                        At(d, y).flags = "folder"}},
           {Root}, path)

\* split_last_nolock, then find_entry_in.
Parent(d, f, path) == ResolveDir(d, f, Front(path))
Lookup(d, f, path) ==
  UNION {FindEntryIn(d, f, dir, Last(path)) : dir \in Parent(d, f, path)}

\* kfs_read_to_buffer: the sectors of the chain, as far as it goes.
Blocks(d, c, size) == [i \in 1 .. (IF size < Len(c) THEN size ELSE Len(c)) |-> d[c[i]].data]
Object(d, f, e) ==
  IF e.flags = "folder" THEN [kind |-> "folder"]
  ELSE [kind |-> "file", content |-> Blocks(d, Chain(f, e.start), e.size)]

\* What each path holds: nothing, or one object.
Reads(d, f) == [p \in Paths |-> {Object(d, f, At(d, x)) : x \in Lookup(d, f, p)}]

\* A sector is appended to a directory.
MutExtended(f, last, new) == [f EXCEPT ![last] = new]
Extended(f, last, new) == [f EXCEPT ![last] = new, ![new] = FAT_EOF]

\* insert_dir_entry: the first empty slot, or slot 1 of an appended sector.
PutEntry(slot, e, w) ==
  Write(slot[1], [disk[slot[1]] EXCEPT !.entries[slot[2]] = e], w)
InFreeSlot(f, slot, e) == [ok |-> TRUE, fat |-> f, writes |-> <<PutEntry(slot, e, FALSE)>>]
InNewSector(f, last, new, e) ==
  [ok |-> TRUE, fat |-> f,
   writes |-> << Sync(f, last, FALSE), Sync(f, new, TRUE),
                 Write(new, [EmptyDir EXCEPT !.entries[1] = e], TRUE) >>]
InsertInto(f, c, free, e) ==
  LET vacant == SelectSeq(SlotsOf(c), LAMBDA x : At(disk, x) = Empty)
  IN  IF vacant # <<>> THEN InFreeSlot(f, Head(vacant), e)
      ELSE IF free # <<>> THEN InNewSector(Extended(f, Last(c), Head(free)), Last(c), Head(free), e)
      ELSE [ok |-> FALSE, fat |-> f, writes |-> <<>>]
InsertDirEntry(f, dir, e) == InsertInto(f, Chain(f, dir), FreeSectors(f), e)

-----------------------------------------------------------------------------
(* Operations.  One that changes nothing returns without an action. *)

\* What an operation leaves: the memory, its writes, what the paths then hold.
Outcome(f, n, writes, after) ==
  [fat |-> f, total |-> n % COUNT_MOD, writes |-> writes, after |-> after]

\* The disk after some writes; ata_write_sector puts one sector down and flushes
\* the drive's cache.
Written(writes) == FoldLeft(LAMBDA d, w : [d EXCEPT ![w.at] = w.val], disk, writes)

\* All the writes are done, and fs_lock is released.
Complete(o) ==
  /\ fat_table' = o.fat
  /\ total_files' = o.total
  /\ disk' = Written(o.writes)
  /\ files' = o.after
  /\ UNCHANGED crashed

\* The power is cut after k writes, and the next boot runs kfs_init.  The operation
\* has happened if the disk reads as after it.
Cut(o) ==
  \E k \in 0 .. Len(o.writes) - 1 :
    /\ crashed < MaxCrashes
    /\ crashed' = crashed + 1
    /\ disk' = Written(SubSeq(o.writes, 1, k))
    /\ fat_table' = FatOn(disk')
    /\ total_files' = disk'[0].total
    /\ hurt' = (hurt \/ o.writes[k + 1].window)
    /\ leaky' = TRUE
    /\ files' = IF ~hurt' /\ Reads(disk', fat_table') = o.after THEN o.after ELSE files

Perform(o, leak) ==
  \/ Complete(o) /\ leaky' = leak /\ UNCHANGED hurt
  \/ Cut(o)

\* The last write of an operation: sector 0, with the new total_files.
Header(n) == Write(0, [total |-> n % COUNT_MOD], FALSE)

\* The FAT after the first i of the sectors of a new chain are linked.
Linked(f, secs, i) ==
  [s \in Sectors |-> IF \E j \in 1 .. i : s = secs[j]
                     THEN LET j == CHOOSE j \in 1 .. i : s = secs[j]
                          IN  IF j = i THEN FAT_EOF ELSE secs[j + 1]
                     ELSE f[s]]
BlockOf(content, i) == IF i <= Len(content) THEN content[i] ELSE NoBlock

\* The loop of kfs_create_file: link, synchronise and write one sector at a time.
MutChainWrites(f, secs, content) ==
  FlattenSeq([i \in 1 .. Len(secs) |->
    << Sync(Linked(f, secs, i), secs[i], FALSE), Write(secs[i], Data(BlockOf(content, i)), FALSE) >>])
ChainWrites(f, secs, content) ==
  FlattenSeq([i \in 1 .. Len(secs) |->
    (IF i = 1 THEN <<>> ELSE << Sync(Linked(f, secs, i), secs[i - 1], FALSE) >>)
      \o << Sync(Linked(f, secs, i), secs[i], FALSE),
            Write(secs[i], Data(BlockOf(content, i)), FALSE) >>])
SectorsNeeded(content) == IF content = <<>> THEN 1 ELSE Len(content)

\* The first n free sectors, or all there are.
Taken(free, n) == IF Len(free) < n THEN free ELSE SubSeq(free, 1, n)

\* kfs_create_file.  When the disk or the directory is full it keeps the sectors it
\* has taken.  Nothing is claimed of a disk once it is hurt: it is only formatted.
CreateFile(path, content) ==
  /\ ~hurt
  /\ Lookup(disk, fat_table, path) = {}
  /\ \E parent \in Parent(disk, fat_table, path),
        secs \in {Taken(FreeSectors(fat_table), SectorsNeeded(content))} \ {<<>>} :
     \E f \in {Linked(fat_table, secs, Len(secs))}, chain \in {ChainWrites(fat_table, secs, content)} :
     \E ins \in {InsertDirEntry(f, parent, Entry(Last(path), "file", secs[1], Len(content)))} :
       LET ok == Len(secs) = SectorsNeeded(content) /\ ins.ok
       IN  \/ /\ ok
              /\ Perform(Outcome(ins.fat, total_files + 1,
                                 chain \o ins.writes \o <<Header(total_files + 1)>>,
                                 [files EXCEPT ![path] = {[kind |-> "file", content |-> content]}]),
                         leaky)
           \/ /\ ~ok
              /\ Perform(Outcome(f, total_files, chain, files), TRUE)

\* kfs_create_folder.  The sector is given back, in memory only, when the entry
\* cannot be inserted.
CreateFolder(path) ==
  /\ ~hurt
  /\ Lookup(disk, fat_table, path) = {}
  /\ \E parent \in Parent(disk, fat_table, path), free \in {FreeSectors(fat_table)} \ {<<>>} :
     \E f \in {[fat_table EXCEPT ![Head(free)] = FAT_EOF]} :
     \E new \in {<< Sync(f, Head(free), FALSE), Write(Head(free), EmptyDir, FALSE) >>},
        ins \in {InsertDirEntry(f, parent, Entry(Last(path), "folder", Head(free), 0))} :
       \/ /\ ins.ok
          /\ Perform(Outcome(ins.fat, total_files + 1,
                             new \o ins.writes \o <<Header(total_files + 1)>>,
                             [files EXCEPT ![path] = {[kind |-> "folder"]}]),
                     leaky)
       \/ /\ ~ins.ok
          /\ Perform(Outcome(fat_table, total_files, new, files), leaky)

\* kfs_delete_file: the chain is freed and synchronised sector by sector, then the
\* entry is cleared.  Folders are refused.
Freed(f, c, i) == [s \in Sectors |-> IF \E j \in 1 .. i : s = c[j] THEN FAT_FREE ELSE f[s]]
DeletedCount == total_files - 1
DeleteFile(path) ==
  /\ ~hurt
  /\ \E slot \in Lookup(disk, fat_table, path) :
       /\ At(disk, slot).flags = "file"
       /\ \E c \in {Chain(fat_table, At(disk, slot).start)} :
            Perform(Outcome(Freed(fat_table, c, Len(c)), DeletedCount,
                            [i \in 1 .. Len(c) |-> Sync(Freed(fat_table, c, i), c[i], i > 1)]
                              \o << PutEntry(slot, Empty, TRUE), Header(DeletedCount) >>,
                            [files EXCEPT ![path] = {}]),
                    leaky)

\* kfs_format.
FormattedFat == [s \in Sectors |-> IF s <= Root THEN FAT_EOF ELSE FAT_FREE]
Formatted ==
  Outcome(FormattedFat, 0,
          <<Header(0)>>
            \o [i \in 1 .. FatSectors |-> Write(i, FatSector(FormattedFat, i - 1), i > 1)]
            \o << Write(Root, EmptyDir, TRUE) >>,
          [p \in Paths |-> {}])
Format ==
  \/ Complete(Formatted) /\ hurt' = FALSE /\ leaky' = FALSE
  \/ Cut(Formatted)

\* A disk that kfs_init has formatted.
Init ==
  /\ fat_table = FormattedFat
  /\ total_files = 0
  /\ disk = [s \in Sectors |-> IF s = 0 THEN [total |-> 0]
                              ELSE IF s \in 1 .. FatSectors THEN FatSector(FormattedFat, s - 1)
                              ELSE IF s = Root THEN EmptyDir
                              ELSE Data(NoBlock)]
  /\ files = [p \in Paths |-> {}]
  /\ hurt = FALSE
  /\ crashed = 0
  /\ leaky = FALSE

Next ==
  \/ \E p \in Paths, c \in Contents : CreateFile(p, c)
  \/ \E p \in Paths : CreateFolder(p)
  \/ \E p \in Paths : DeleteFile(p)
  \/ Format

Spec == Init /\ [][Next]_vars

-----------------------------------------------------------------------------
(* Properties *)

Dirs ==
  {Root} \cup UNION {{At(disk, x).start : x \in {y \in Lookup(disk, fat_table, p) :
                                                   At(disk, y).flags = "folder"}} : p \in Paths}
UsedSlots(dir) == {x \in Slots(fat_table, dir) : At(disk, x) # Empty}
AllSlots  == UNION {UsedSlots(dir) : dir \in Dirs}
Starts    == {Root} \cup {At(disk, x).start : x \in AllSlots}
SectorsOf(s) == ToSet(Chain(fat_table, s))

\* The FAT names sectors of the disk, those of the metadata and the first of the
\* root are never free, and the count keeps its width.
TypeOK ==
  /\ fat_table \in [Sectors -> {FAT_EOF} \cup Sectors]
  /\ \A s \in 0 .. Root : fat_table[s] # FAT_FREE
  /\ total_files \in 0 .. COUNT_MOD - 1
  /\ crashed \in 0 .. MaxCrashes
  /\ hurt \in BOOLEAN /\ leaky \in BOOLEAN

\* Whatever calls were made, refused or cut short outside the windows: no two
\* files or folders share a sector, each chain ends, a file has the sectors its
\* size needs, and no directory has a name twice.
WellFormed ==
  ~hurt =>
    /\ \A x, y \in AllSlots : x # y => At(disk, x).start # At(disk, y).start
    /\ \A s, t \in Starts : s # t => SectorsOf(s) \cap SectorsOf(t) = {}
    /\ \A s \in Starts : fat_table[Last(Chain(fat_table, s))] = FAT_EOF
    /\ \A x \in AllSlots : At(disk, x).flags = "file" =>
         Cardinality(SectorsOf(At(disk, x).start))
           = IF At(disk, x).size = 0 THEN 1 ELSE At(disk, x).size
    /\ \A dir \in Dirs : \A x, y \in UsedSlots(dir) :
         x # y => At(disk, x).name # At(disk, y).name

\* A path holds what the last call that succeeded put there, also after a power
\* cut outside the windows: kfs_create_file and kfs_create_folder happen as a
\* whole or not at all, and no call touches another path.
ReadBack == ~hurt => Reads(disk, fat_table) = files

\* Only a create that ran out of sectors, or a power cut, takes sectors out of use:
\* otherwise every sector that is not free belongs to a file or a folder.
NoLeak ==
  ~hurt /\ ~leaky =>
    {s \in Root .. TotalSectors - 1 : fat_table[s] # FAT_FREE} = UNION {SectorsOf(s) : s \in Starts}

\* Without power cuts total_files is the number of files and folders.
CountExact ==
  ~hurt /\ crashed = 0 => total_files = Cardinality(AllSlots) % COUNT_MOD

=============================================================================
