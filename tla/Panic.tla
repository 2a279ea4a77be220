------------------------------- MODULE Panic -------------------------------
(***************************************************************************)
(* The end of a CPU, kernel/panic.c: exception_handler for a fault,        *)
(* kernel_panic when kernel code calls it.  The CPU that fails disables    *)
(* its interrupts, mirrors the report to the serial port, paints the       *)
(* screen and halts.  On the way it looks up the fault address and the     *)
(* memory counters, under paging_lock and pmm_lock; the other CPUs are not *)
(* stopped, and the failing one may hold either lock already.              *)
(***************************************************************************)
EXTENDS Naturals, Sequences

CONSTANTS PCPUS

NOCPU == "nobody"
ASSUME PanicAssumption == NOCPU \notin PCPUS

LOCKS == {"paging", "pmm"}

\* What the report does, in order: a lock's name is a look-up under it.
Report(kind) ==
  CASE kind = "page fault" ->
         <<"serial", "paging", "pmm", "pmm", "paint", "paging", "text">>
    [] kind = "exception" -> <<"serial", "pmm", "pmm", "paint", "text">>
    [] kind = "kernel_panic" -> <<"serial", "paint", "pmm", "pmm", "text">>

VARIABLES fb_ptr,      \* there is a framebuffer
          mode,        \* running, reporting or halted
          kind, doing,    \* the report and its next step
          locked_by,        \* the holder of each lock
          kept,        \* history: locks a CPU held when it failed
          screen       \* what the framebuffer shows

panicVars == <<fb_ptr, mode, kind, doing, locked_by, kept, screen>>

PanicInit ==
  /\ fb_ptr \in BOOLEAN
  /\ mode = [c \in PCPUS |-> "running"]
  /\ kind = [c \in PCPUS |-> "exception"] /\ doing = [c \in PCPUS |-> 1]
  /\ locked_by = [l \in LOCKS |-> NOCPU] /\ kept = {} /\ screen = "desktop"

\* A running CPU in and out of paging.c and pmm.c; paging.c allocates pages
\* under its own lock.
Enter(c, l) ==
  /\ mode[c] = "running" /\ locked_by[l] = NOCPU
  /\ l = "paging" => locked_by["pmm"] # c
  /\ locked_by' = [locked_by EXCEPT ![l] = c]
  /\ UNCHANGED <<fb_ptr, mode, kind, doing, kept, screen>>

Leave(c, l) ==
  /\ mode[c] = "running" /\ locked_by[l] = c
  /\ l = "paging" => locked_by["pmm"] # c
  /\ locked_by' = [locked_by EXCEPT ![l] = NOCPU]
  /\ UNCHANGED <<fb_ptr, mode, kind, doing, kept, screen>>

\* The compositor's next frame, on a CPU that runs.
Compose(c) ==
  /\ mode[c] = "running" /\ screen # "desktop" /\ screen' = "desktop"
  /\ UNCHANGED <<fb_ptr, mode, kind, doing, locked_by, kept>>

\* cli; without a framebuffer the CPU halts and reports nothing.
Fails(c, k) ==
  /\ mode[c] = "running"
  /\ mode' = [mode EXCEPT ![c] = IF fb_ptr THEN "reporting" ELSE "halted"]
  /\ kind' = [kind EXCEPT ![c] = k]
  /\ kept' = kept \cup {l \in LOCKS : locked_by[l] = c}
  /\ UNCHANGED <<fb_ptr, doing, locked_by, screen>>

Doing(c, what) == mode[c] = "reporting" /\ Report(kind[c])[doing[c]] = what
Onward(c) == doing' = [doing EXCEPT ![c] = @ + 1]

Prints(c) ==
  /\ Doing(c, "serial") /\ Onward(c)
  /\ UNCHANGED <<fb_ptr, mode, kind, locked_by, kept, screen>>

Paints(c) ==
  /\ Doing(c, "paint") /\ Onward(c) /\ screen' = c
  /\ UNCHANGED <<fb_ptr, mode, kind, locked_by, kept>>

\* paging_is_mapped, pmm_get_used_pages, pmm_get_total_pages.
Acquires(c, l) ==
  /\ Doing(c, l) /\ locked_by[l] = NOCPU
  /\ locked_by' = [locked_by EXCEPT ![l] = c]
  /\ UNCHANGED <<fb_ptr, mode, kind, doing, kept, screen>>

MutUnlocked(l) == locked_by
Unlocked(l) == [locked_by EXCEPT ![l] = NOCPU]

LooksUp(c, l) ==
  /\ Doing(c, l) /\ locked_by[l] = c /\ l \notin kept
  /\ locked_by' = Unlocked(l) /\ Onward(c)
  /\ UNCHANGED <<fb_ptr, mode, kind, kept, screen>>

Halts(c) ==
  /\ Doing(c, "text")
  /\ mode' = [mode EXCEPT ![c] = "halted"]
  /\ UNCHANGED <<fb_ptr, kind, doing, locked_by, kept, screen>>

Reports(c) ==
  \/ Prints(c) \/ Paints(c) \/ Halts(c) \/ \E l \in LOCKS : LooksUp(c, l)

PanicNext ==
  \E c \in PCPUS :
    \/ Reports(c) \/ Compose(c)
    \/ (\E l \in LOCKS : Enter(c, l) \/ Leave(c, l) \/ Acquires(c, l))
    \/ (\E k \in {"page fault", "exception", "kernel_panic"} : Fails(c, k))

PanicSpec == PanicInit /\ [][PanicNext]_panicVars

----------------------------------------------------------------------------

\* The lock a report waits for, and whether its holder can give it back: a
\* running CPU will, a reporting one if the lock is the one it looks up under.
Spinning(c, l) == Doing(c, l) /\ locked_by[l] # NOCPU
GivesBack(c, l) == mode[c] = "running" \/ (Doing(c, l) /\ l \notin kept)

\* A CPU that fails gets its report out and halts, whatever the others do
\* and however many fail at once, unless a CPU failed while it held
\* paging_lock or pmm_lock: as long as none did, every lock a report waits
\* for is held by a CPU that can give it back, and no halted CPU holds one.
\* (The report takes both locks, although panic.c's comments call its reads
\* safe; after a failure inside either lock it waits for ever.)
PanicShown ==
  kept = {} => /\ \A c \in PCPUS, l \in LOCKS : Spinning(c, l) => GivesBack(locked_by[l], l)
               /\ \A l \in LOCKS : locked_by[l] # NOCPU => mode[locked_by[l]] # "halted"
============================================================================
