-------------------------------- MODULE Boot --------------------------------
(***************************************************************************)
(* kernel_main of kernel/kernel.c, kernel/smp/smp.c, arch/x86/gdt.c and    *)
(* idt.c, the set-up half of lapic.c, kernel/cpu.c, and the stacks of      *)
(* tasking_init (kernel/sched/lifecycle.c): how the boot processor brings  *)
(* the system up, releases the other processors, and installs the modules  *)
(* the boot loader hands over.                                             *)
(*                                                                         *)
(* An application processor runs whenever it likes once its goto_address   *)
(* is written; it may come up after smp_init has stopped waiting for it.   *)
(* The power may fail at any step, and the next boot finds the disk as it  *)
(* was left.  A processor is named by its LAPIC id.                        *)
(***************************************************************************)
EXTENDS Integers, Sequences, FiniteSets

CONSTANTS
  SMP_MAX_CPUS,
  MpTables,          \* lists of LAPIC ids the boot loader may report; NoCpu: a null entry
  BSP,               \* the boot processor's LAPIC id
  BootModules,       \* modules the boot loader hands over
  MaxBoots           \* bound: power cycles

NoCpu == -1
Slot == 0 .. SMP_MAX_CPUS - 1
Lapics == UNION {{t[i] : i \in DOMAIN t} : t \in MpTables} \ {NoCpu, BSP}

ASSUME BootAssumption == SMP_MAX_CPUS \in Nat \ {0} /\ BSP \in Nat /\ Lapics \subseteq Nat

VARIABLES
  phase,             \* the step of kernel_main that is next, an index of Order
  mp, bsp_at,            \* the MP response; how far smp_init has read it
  ap_slot,
  percpu,            \* smp_percpu: lapic_id, online, whether current_cr3 is known
  smp_cpu_online_count,
  gdt,               \* per entry: Segment, the slot whose TSS it describes, or NoCpu
  gates,             \* the vectors that have a gate in the IDT
  pic,               \* the vectors the PIC lets through
  ticking,           \* processors whose local APIC is on and ticking
  protected,         \* processors with SMEP, SMAP and WP set as the CPU offers them
  ungated,           \* history: vectors that arrived and had no gate
  rsp0,              \* per slot: whose syscall stack the TSS names (NoCpu: none)
  ap,                \* per application processor: its step, its slot, its TR
  toInstall, modules,   \* modules still to install; the files they left: absent, old, new
  used,              \* history: what processors and interrupts have relied on
  boots

bootVars == <<phase, mp, bsp_at, ap_slot, percpu, smp_cpu_online_count, rsp0, ap, toInstall, modules,
              used, boots, gdt, gates, pic, ticking, protected, ungated>>
cpus     == <<bsp_at, ap_slot, percpu, smp_cpu_online_count, rsp0, ap>>
moduleFiles == <<toInstall, modules>>
tables == <<gdt, gates, pic>>
hw     == <<tables, ticking, protected, ungated>>

Segment == -2
GDT_TSS_FIRST == 5
GDT_ENTRIES == GDT_TSS_FIRST + (2 * SMP_MAX_CPUS)

\* kernel_main, in order.
Order ==
  <<"gdt", "idt", "pmm", "paging", "heap", "cpu", "lapic", "timer", "ghal", "callbacks",
    "tasking", "input", "tty", "kfs", "vfs", "smp", "install", "sti", "net", "sockets", "login">>
Now == IF phase \in DOMAIN Order THEN Order[phase] ELSE "user"
Done == {Order[i] : i \in 1 .. phase - 1}

Parked == [pc |-> "parked", slot |-> 0, tr |-> NoCpu]
PowerOn ==
  [phase |-> 1, bsp_at |-> 0, ap_slot |-> 0, count |-> 1,
   percpu |-> [c \in Slot |-> [lapic |-> 0, online |-> FALSE, cr3 |-> FALSE]],
   rsp0 |-> [c \in Slot |-> NoCpu],
   ap |-> [l \in Lapics |-> Parked],
   gdt |-> [i \in 0 .. GDT_ENTRIES - 1 |-> NoCpu]]

BootInit ==
  /\ phase = PowerOn.phase /\ bsp_at = PowerOn.bsp_at /\ ap_slot = PowerOn.ap_slot
  /\ percpu = PowerOn.percpu /\ smp_cpu_online_count = PowerOn.count
  /\ rsp0 = PowerOn.rsp0 /\ ap = PowerOn.ap
  /\ mp \in MpTables
  /\ toInstall = BootModules
  /\ modules \in [BootModules -> {"absent", "old"}]
  /\ used = {} /\ boots = 1
  /\ gdt = PowerOn.gdt
  /\ gates = {} /\ pic = {} /\ ticking = {} /\ protected = {} /\ ungated = {}

-----------------------------------------------------------------------------
(* The boot processor *)

\* write_tss_cpu: the 16-byte descriptor of a slot's TSS takes two entries.
TssEntry(c) == GDT_TSS_FIRST + (2 * c)
write_tss_cpu(i) ==
  LET here == {c \in Slot : i \in {TssEntry(c), TssEntry(c) + 1}}
  IN  IF here = {} THEN NoCpu ELSE CHOOSE c \in here : \A d \in here : d <= c

\* init_gdt: five segments, then a TSS for every slot; the boot processor loads slot 0.
init_gdt ==
  /\ Now = "gdt"
  /\ phase' = phase + 1
  /\ gdt' = [i \in DOMAIN gdt |-> IF i < GDT_TSS_FIRST THEN Segment ELSE write_tss_cpu(i)]
  /\ UNCHANGED <<mp, cpus, moduleFiles, used, boots, gates, pic, ticking, protected, ungated>>

\* init_idt: exceptions, timer, keyboard, mouse, system call, LAPIC timer, reschedule.
Exceptions == (0 .. 14) \ {9}
init_idt ==
  /\ Now = "idt"
  /\ phase' = phase + 1
  /\ gates' = Exceptions \cup {32, 33, 44, 128, 240, 253}
  /\ UNCHANGED <<mp, cpus, moduleFiles, used, boots, gdt, pic, ticking, protected, ungated>>

\* cpu_enable_smap_smep and cpu_verify_wp on the boot processor.
cpu_enable_smap_smep ==
  /\ Now = "cpu"
  /\ phase' = phase + 1
  /\ protected' = protected \cup {BSP}
  /\ UNCHANGED <<mp, cpus, moduleFiles, used, boots, tables, ticking, ungated>>

\* pic_remap opens lines 0, 1, 2 and 12 (line 2 is the second PIC, and never a vector);
\* lapic_init_bsp.
pic_remap ==
  /\ Now = "lapic"
  /\ phase' = phase + 1
  /\ pic' = {32, 33, 44}
  /\ ticking' = ticking \cup {BSP}
  /\ UNCHANGED <<mp, cpus, moduleFiles, used, boots, gdt, gates, protected, ungated>>

\* The phases that set up one component and touch nothing kept here.
Initialise ==
  /\ Now \notin {"gdt", "idt", "cpu", "lapic", "tasking", "smp", "install", "sti", "user"}
  /\ phase' = phase + 1
  /\ UNCHANGED <<mp, cpus, moduleFiles, used, boots, hw>>

\* tasking_init: the stacks of every CPU, the boot processor's RSP0 and CR3.
tasking_init ==
  /\ Now = "tasking"
  /\ phase' = phase + 1
  /\ rsp0' = [rsp0 EXCEPT ![0] = 0]
  /\ percpu' = [percpu EXCEPT ![0].cr3 = TRUE]
  /\ UNCHANGED <<mp, bsp_at, ap_slot, smp_cpu_online_count, ap, moduleFiles, used, boots, hw>>

\* smp_register_cpu forgets the CR3 that was recorded.
smp_register_cpu(c, lapic, online) == percpu' = [percpu EXCEPT ![c] = [lapic |-> lapic, online |-> online, cr3 |-> FALSE]]

\* smp_init: the boot processor registers itself, then reads the list.
SmpInit ==
  /\ Now = "smp" /\ bsp_at = 0
  /\ smp_register_cpu(0, BSP, TRUE)
  /\ bsp_at' = 1
  /\ UNCHANGED <<phase, mp, ap_slot, smp_cpu_online_count, rsp0, ap, moduleFiles, used, boots, hw>>

Reading == Now = "smp" /\ bsp_at \in DOMAIN mp /\ ap_slot + 1 < SMP_MAX_CPUS
SkipCpu ==
  /\ Reading /\ mp[bsp_at] = NoCpu
  /\ bsp_at' = bsp_at + 1
  /\ UNCHANGED <<phase, mp, ap_slot, percpu, smp_cpu_online_count, rsp0, ap, moduleFiles, used, boots, hw>>
OwnEntry ==
  /\ Reading /\ mp[bsp_at] = BSP
  /\ smp_register_cpu(0, BSP, TRUE)
  /\ bsp_at' = bsp_at + 1
  /\ UNCHANGED <<phase, mp, ap_slot, smp_cpu_online_count, rsp0, ap, moduleFiles, used, boots, hw>>

\* The state is filled in and registered before goto_address lets the processor go.
MutNextSlot == ap_slot
NextSlot == ap_slot + 1
ReleaseAp ==
  /\ Reading /\ mp[bsp_at] \in Lapics
  /\ ap_slot' = NextSlot
  /\ smp_register_cpu(NextSlot, mp[bsp_at], FALSE)
  /\ ap' = [ap EXCEPT ![mp[bsp_at]] = [pc |-> "entry", slot |-> NextSlot, tr |-> NoCpu]]
  /\ bsp_at' = bsp_at + 1
  /\ UNCHANGED <<phase, mp, smp_cpu_online_count, rsp0, moduleFiles, used, boots, hw>>

\* The wait ends when all are counted, or after ten million spins.
SmpDone ==
  /\ Now = "smp" /\ bsp_at > 0 /\ ~Reading
  /\ phase' = phase + 1
  /\ UNCHANGED <<mp, cpus, moduleFiles, used, boots, hw>>

\* One module: what has its name is deleted, then it is written; the write may fail.
DeleteOld(m) ==
  /\ Now = "install" /\ m \in toInstall /\ modules[m] # "absent"
  /\ modules' = [modules EXCEPT ![m] = "absent"]
  /\ UNCHANGED <<phase, mp, cpus, toInstall, used, boots, hw>>
Install(m, ok) ==
  /\ Now = "install" /\ m \in toInstall /\ modules[m] = "absent"
  /\ modules' = IF ok THEN [modules EXCEPT ![m] = "new"] ELSE modules
  /\ toInstall' = toInstall \ {m}
  /\ UNCHANGED <<phase, mp, cpus, used, boots, hw>>
Installed ==
  /\ Now = "install" /\ toInstall = {}
  /\ phase' = phase + 1
  /\ UNCHANGED <<mp, cpus, moduleFiles, used, boots, hw>>

\* Interrupts on: the timer, the keyboard and the mouse may call at any later step.
Sti ==
  /\ Now = "sti"
  /\ phase' = phase + 1
  /\ UNCHANGED <<mp, cpus, moduleFiles, used, boots, hw>>
Arrives(vectors) == ungated' = ungated \cup (vectors \ gates)
Irq ==
  /\ "sti" \in Done
  /\ used' = used \cup {"idt", "timer", "callbacks", "ghal", "tty", "input", "tasking"}
  /\ Arrives(pic \cup {240, 253})
  /\ UNCHANGED <<phase, mp, cpus, moduleFiles, boots, tables, ticking, protected>>

-----------------------------------------------------------------------------
(* An application processor: smp_ap_entry and smp_ap_main *)

ApStep(l, from, to) == ap[l].pc = from /\ ap' = [ap EXCEPT ![l].pc = to]

\* gdt_load, idt_load and lapic_init_ap.
gdt_load(l) ==
  /\ ApStep(l, "entry", "tss")
  /\ used' = used \cup {"gdt", "idt", "lapic"}
  /\ ticking' = ticking \cup {l}
  /\ UNCHANGED <<phase, mp, bsp_at, ap_slot, percpu, smp_cpu_online_count, rsp0, moduleFiles, boots, tables, protected, ungated>>

\* The TSS that a slot's selector names: both halves of the descriptor must be its own.
Loads(slot) == IF gdt[TssEntry(slot)] = gdt[TssEntry(slot) + 1] THEN gdt[TssEntry(slot)] ELSE NoCpu

\* tss_set_rsp0 and tss_load_cpu.
tss_load_cpu(l) ==
  LET slot == ap[l].slot
  IN  /\ ap[l].pc = "tss"
      /\ ap' = [ap EXCEPT ![l].pc = "cr3", ![l].tr = Loads(slot)]
      /\ rsp0' = [rsp0 EXCEPT ![slot] = IF "tasking" \in Done THEN slot ELSE NoCpu]
      /\ used' = used \cup {"tasking"}
      /\ UNCHANGED <<phase, mp, bsp_at, ap_slot, percpu, smp_cpu_online_count, moduleFiles, boots, hw>>

\* SMEP, SMAP and WP, then the CR3 it inherited.
RecordCr3(l) ==
  /\ ApStep(l, "cr3", "online")
  /\ percpu' = [percpu EXCEPT ![ap[l].slot].cr3 = TRUE]
  /\ protected' = protected \cup {l}
  /\ UNCHANGED <<phase, mp, bsp_at, ap_slot, smp_cpu_online_count, rsp0, moduleFiles, used, boots, tables, ticking, ungated>>

\* smp_set_cpu_online: the flag, then the count.
SetOnline(l) ==
  /\ ~percpu[ap[l].slot].online
  /\ ApStep(l, "online", "count")
  /\ percpu' = [percpu EXCEPT ![ap[l].slot].online = TRUE]
  /\ UNCHANGED <<phase, mp, bsp_at, ap_slot, smp_cpu_online_count, rsp0, moduleFiles, used, boots, hw>>
CountOnline(l) ==
  /\ ApStep(l, "count", "idle")
  /\ smp_cpu_online_count' = smp_cpu_online_count + 1
  /\ UNCHANGED <<phase, mp, bsp_at, ap_slot, percpu, rsp0, moduleFiles, used, boots, hw>>

\* scheduler_idle_loop on its idle stack, the LAPIC timer and the reschedule IPI.
IdleTick(l) ==
  /\ ap[l].pc = "idle" /\ l \in ticking
  /\ used' = used \cup {"idt", "tasking"}
  /\ Arrives({240, 253})
  /\ UNCHANGED <<phase, mp, cpus, moduleFiles, boots, tables, ticking, protected>>

PowerCycle ==
  /\ boots < MaxBoots
  /\ boots' = boots + 1
  /\ phase' = PowerOn.phase /\ bsp_at' = PowerOn.bsp_at /\ ap_slot' = PowerOn.ap_slot
  /\ percpu' = PowerOn.percpu /\ smp_cpu_online_count' = PowerOn.count
  /\ rsp0' = PowerOn.rsp0 /\ ap' = PowerOn.ap
  /\ toInstall' = BootModules
  /\ modules' = [m \in BootModules |-> IF modules[m] = "absent" THEN "absent" ELSE "old"]
  /\ used' = {}
  /\ gdt' = PowerOn.gdt
  /\ gates' = {} /\ pic' = {} /\ ticking' = {} /\ protected' = {} /\ ungated' = {}
  /\ UNCHANGED mp

BootNext ==
  \/ init_gdt \/ init_idt \/ cpu_enable_smap_smep \/ pic_remap \/ Initialise \/ tasking_init \/ SmpInit \/ SkipCpu \/ OwnEntry \/ ReleaseAp \/ SmpDone
  \/ \E m \in BootModules : DeleteOld(m) \/ \E ok \in BOOLEAN : Install(m, ok)
  \/ Installed \/ Sti \/ Irq
  \/ \E l \in Lapics :
       gdt_load(l) \/ tss_load_cpu(l) \/ RecordCr3(l) \/ SetOnline(l) \/ CountOnline(l) \/ IdleTick(l)
  \/ PowerCycle
BootSpec == BootInit /\ [][BootNext]_bootVars

-----------------------------------------------------------------------------
(* Properties *)

\* smp_current_cpu_index of the processor with that LAPIC id.
smp_current_cpu_index(l) ==
  LET hits == {c \in Slot : percpu[c].online /\ percpu[c].lapic = l}
  IN  IF hits = {} THEN 0 ELSE CHOOSE c \in hits : \A d \in hits : c <= d

\* No processor, whenever it comes up, relies on a component that kernel_main has not
\* set up yet, and no interrupt does; every interrupt that is let through has a gate.
ReadyBeforeUse == used \subseteq Done /\ ungated = {}

\* A processor in the idle loop is itself: the index it computes is its slot, its task
\* register names the TSS of that slot, RSP0 there is its own syscall stack, and no
\* other processor has the slot; it ticks, and runs with the protections the boot
\* processor has.  The online count lags behind the online flags by the
\* processors that are between the two, and by no more.
CpusPrivate ==
  /\ \A l \in Lapics : ap[l].pc \in {"count", "idle"} =>
       /\ smp_current_cpu_index(l) = ap[l].slot
       /\ ap[l].tr = ap[l].slot /\ rsp0[ap[l].slot] = ap[l].slot
       /\ ap[l].slot # 0
       /\ l \in ticking /\ l \in protected
       /\ \A k \in Lapics \ {l} : ap[k].pc # "parked" => ap[k].slot # ap[l].slot
  /\ "smp" \in Done =>
       smp_cpu_online_count + Cardinality({l \in Lapics : ap[l].pc = "count"})
         = Cardinality({c \in Slot : percpu[c].online})

=============================================================================
