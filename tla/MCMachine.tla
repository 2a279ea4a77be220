----------------------------- MODULE MCMachine ------------------------------
(* The machine under the programs, for TLC: physical pages, address spaces, *)
(* the kernel heap and the copies across the user boundary; boot, the       *)
(* clock, the panic screen and the order of the run queues.  Side by side:  *)
(* unit is the one that moves in a behaviour, the others stay as they were. *)
EXTENDS Pmm, Vmm, Heap, UserCopy, Boot, Clock, Panic, RunQueue, Doorbell

CONSTANTS
  c1, c2,                      \* the CPUs of Vmm
  low, high1, high2, high3     \* the tasks of RunQueue

VARIABLE unit

-----------------------------------------------------------------------------
(* Instances *)

Region(base, length)   == [base |-> base, length |-> length, usable |-> TRUE]
Occupied(base, length) == [base |-> base, length |-> length, usable |-> FALSE]

\* Pmm: pages of 2 units, a kernel zone of 2 pages.  A hole between two regions; a
\* region with an unaligned base; a high first region that alone holds the
\* bitmap, a map for which the bitmap takes two pages, and one of a few pages.
MCMemmaps ==
  { << Region(0, 10), Occupied(10, 2), Region(12, 6) >>,
    << Region(1, 3), Region(7, 9) >>,
    << Region(12, 8), Occupied(10, 2), Region(2, 4) >>,
    << Occupied(0, 30), Region(30, 12) >>,
    << Region(4, 6) >> }
MCSizes == {0, 9, 12, 50}

\* Vmm: an image with a page twice, a stack page, a user heap that shares the middle
\* table with neither, and two pages of the kernel heap in the upper half.
MCImages == {<< <<0, 0, 0>>, <<0, 0, 0>> >>}
MCStack  == << <<0, 0, 1>> >>
MCUHeap  == << <<0, 1, 0>>, <<0, 1, 1>>, <<0, 1, 2>>, <<0, 1, 3>>, <<0, 1, 4>> >>
MCKHeap  == << <<9, 0, 0>>, <<9, 0, 1>> >>

\* Boot: no table of processors, one with a hole and more than fit, one of two.
MCMpTables == {<<>>, <<-1, 4, 5, 6, 7>>, <<5, 4>>}

\* RunQueue: one task of low and three of high priority.
MCRunqTasks == {low, high1, high2, high3}
MCPriority  == [t \in MCRunqTasks |-> IF t = low THEN 0 ELSE 2]

-----------------------------------------------------------------------------
MCInit ==
  /\ unit \in {"pmm", "vmm", "heap", "copy", "boot", "clock", "panic", "runq", "doorbell"}
  /\ Init /\ (unit = "pmm" \/ Len(memmap) = 1)
  /\ VmmInit /\ cur[c1] = Shell /\ (unit = "vmm" \/ cr3[c1] = KROOT)   \* the CPUs are alike
  /\ BootInit /\ (unit = "boot" \/ (mp = <<>> /\ \A m \in BootModules : modules[m] = "absent"))
  /\ ClockInit /\ (unit = "clock" \/ timer_current_hz = 5)
  /\ PanicInit /\ (unit = "panic" \/ ~fb_ptr)
  /\ HeapInit /\ RunqInit /\ DoorInit
  /\ CopyInit /\ (unit = "copy" \/ (/\ nul = 0 /\ mapped = KernelPages /\ req.fn = "copy"
                                    /\ req.from_user /\ req.uaddr = 0 /\ req.len = 0))
MCNext ==
  \/ unit = "pmm" /\ Next
       /\ UNCHANGED <<unit, vmmVars, heapVars, copyVars, bootVars, clockVars, panicVars, runqVars, doorVars>>
  \/ unit = "vmm" /\ VmmNext
       /\ UNCHANGED <<unit, vars, heapVars, copyVars, bootVars, clockVars, panicVars, runqVars, doorVars>>
  \/ unit = "heap" /\ HeapNext
       /\ UNCHANGED <<unit, vars, vmmVars, copyVars, bootVars, clockVars, panicVars, runqVars, doorVars>>
  \/ unit = "copy" /\ CopyNext
       /\ UNCHANGED <<unit, vars, vmmVars, heapVars, bootVars, clockVars, panicVars, runqVars, doorVars>>
  \/ unit = "boot" /\ BootNext
       /\ UNCHANGED <<unit, vars, vmmVars, heapVars, copyVars, clockVars, panicVars, runqVars, doorVars>>
  \/ unit = "clock" /\ ClockNext
       /\ UNCHANGED <<unit, vars, vmmVars, heapVars, copyVars, bootVars, panicVars, runqVars, doorVars>>
  \/ unit = "panic" /\ PanicNext
       /\ UNCHANGED <<unit, vars, vmmVars, heapVars, copyVars, bootVars, clockVars, runqVars, doorVars>>
  \/ unit = "doorbell" /\ DoorNext
       /\ UNCHANGED <<unit, vars, vmmVars, heapVars, copyVars, bootVars, clockVars, panicVars, runqVars>>
  \/ unit = "runq" /\ RunqNext
       /\ UNCHANGED <<unit, vars, vmmVars, heapVars, copyVars, bootVars, clockVars, panicVars, doorVars>>
MCSpec ==
  MCInit /\ [][MCNext]_<<unit, vars, vmmVars, heapVars, copyVars, bootVars, clockVars, panicVars, runqVars, doorVars>>

\* The address spaces by themselves.
VmmAlone == unit = "vmm" /\ MCSpec

-----------------------------------------------------------------------------
(* Properties.  Those of the page tables are evaluated where they move. *)

\* No frame is lost or used twice, and the heap of a task is what its regions say.
FramesSound == unit = "vmm" => FrameOwnership /\ HeapIsRegions

\* An address means what the page tables of the running task say, on every CPU, and
\* kernel addresses mean the same to all.
AddressesTrue == unit = "vmm" => SameKernelHalf /\ TlbTrue

\* The processors come up in an order that none of them outruns, each with a slot, a
\* TSS and stacks of its own, and none is left unaware of a task queued for it.
CpusSound == ReadyBeforeUse /\ CpusPrivate /\ DoorbellHeard

=============================================================================
