------------------------------- MODULE Clock -------------------------------
(***************************************************************************)
(* drivers/timer.c and the subscribers of kernel/timer_callbacks.c: the    *)
(* millisecond clock that every timeout of the kernel reads, kept from     *)
(* ticks whose rate the shell may change, the CPU usage it samples, the    *)
(* subscribers it calls, the quantum after which it asks the scheduler,    *)
(* and a task that sleeps for a number of ticks.                           *)
(*                                                                         *)
(* The handler runs on the boot processor with interrupts off; the rate is *)
(* changed by the shell, which task 0 runs on the same processor, with     *)
(* interrupts off too: each is one step.                                   *)
(***************************************************************************)
EXTENDS Integers, Sequences, FiniteSets

CONSTANTS
  Rates,           \* the supported refresh rates
  Second,          \* milliseconds in a second (1000)
  QUANTUM,         \* 20 ms
  SPIN, BLINK, UPTIME, LWIP,   \* 200, 500, 1000 and 1 ms
  TIMER_MAX_CALLBACKS,
  Sleeps,          \* how long a task may sleep, in ticks
  MaxTicks, MaxChanges   \* bounds

ASSUME ClockAssumption ==
  /\ Rates \subseteq Nat \ {0} /\ Second \in Nat \ {0}
  /\ {QUANTUM, SPIN, BLINK, UPTIME, LWIP, TIMER_MAX_CALLBACKS} \subseteq Nat
  /\ TIMER_MAX_CALLBACKS >= 4     \* timer_callbacks_init registers four
  /\ Sleeps \subseteq Nat

VARIABLES
  timer_ticks, timer_ms, timer_ms_remainder, timer_current_hz,
  cpu_total_ticks, cpu_idle_ticks, current_cpu_usage,
  yielded,                       \* yield_counter differs from the handler's snapshot
  timer_callbacks,               \* the slots in use, in order
  nextAt,                        \* when each deadline is due: next_schedule_ms, next_spinner_update, ...
  sleeper,                       \* {} or the task in timer_sleep_ticks: its target and its step
  since,                         \* history: the time and tick at which the rate was set
  ranAt,                         \* history: when each deadline was last met
  changes

clockVars == <<timer_ticks, timer_ms, timer_ms_remainder, timer_current_hz, cpu_total_ticks,
               cpu_idle_ticks, current_cpu_usage, yielded, timer_callbacks, nextAt, sleeper,
               since, ranAt, changes>>
deadlines == <<timer_callbacks, nextAt, ranAt>>

Period ==
  [schedule |-> QUANTUM, spinner |-> SPIN, uptime |-> UPTIME, cursor |-> BLINK, lwip |-> LWIP]
\* cb_visual, cb_cursor, cb_flush and cb_network: the deadlines each one keeps.
Keeps ==
  [cb_visual |-> {"spinner", "uptime"}, cb_cursor |-> {"cursor"}, cb_flush |-> {}, cb_network |-> {"lwip"}]

\* timer_register: the first free slot, or none.
timer_register(slots, cb) == IF Len(slots) < TIMER_MAX_CALLBACKS THEN Append(slots, cb) ELSE slots
timer_callbacks_init ==
  timer_register(timer_register(timer_register(timer_register(<<>>,
    "cb_visual"), "cb_cursor"), "cb_flush"), "cb_network")

\* init_timer and timer_callbacks_init
ClockInit ==
  /\ timer_ticks = 0 /\ timer_ms = 0 /\ timer_ms_remainder = 0 /\ timer_current_hz \in Rates
  /\ cpu_total_ticks = 0 /\ cpu_idle_ticks = 0 /\ current_cpu_usage = 0 /\ yielded = FALSE
  /\ timer_callbacks = timer_callbacks_init
  /\ nextAt = [d \in DOMAIN Period |-> 0] /\ ranAt = [d \in DOMAIN Period |-> 0]
  /\ sleeper = {}
  /\ since = [ms |-> 0, tick |-> 0] /\ changes = 0

\* sys_yield: the task has nothing to do until the next tick.
Yield ==
  /\ ~yielded
  /\ yielded' = TRUE
  /\ UNCHANGED <<timer_ticks, timer_ms, timer_ms_remainder, timer_current_hz, cpu_total_ticks,
                 cpu_idle_ticks, current_cpu_usage, sleeper, since, changes, deadlines>>

\* timer_accumulate_ms
Carry == timer_ms_remainder + (Second % timer_current_hz) >= timer_current_hz
MutAdvance == Second \div timer_current_hz
Advance == (Second \div timer_current_hz) + (IF Carry THEN 1 ELSE 0)
timer_accumulate_ms ==
  /\ timer_ms' = timer_ms + Advance
  /\ timer_ms_remainder' =
       timer_ms_remainder + (Second % timer_current_hz) - (IF Carry THEN timer_current_hz ELSE 0)

\* The usage is taken once a second, over the ticks since the last time.
CpuUsage ==
  LET total == cpu_total_ticks + 1
      idle == cpu_idle_ticks + (IF yielded THEN 1 ELSE 0)
      full == total >= timer_current_hz
  IN  /\ cpu_total_ticks' = IF full THEN 0 ELSE total
      /\ cpu_idle_ticks' = IF full THEN 0 ELSE idle
      /\ current_cpu_usage' = IF full THEN 100 - ((idle * 100) \div total) ELSE current_cpu_usage
      /\ yielded' = FALSE

\* What a tick serves: every subscriber is called, then the quantum is looked at; each
\* acts when its time has come, and says when it will act again.
Called == {"schedule"} \cup UNION {Keeps[timer_callbacks[i]] : i \in DOMAIN timer_callbacks}
Due == {d \in Called : timer_ms' >= nextAt[d]}
Served ==
  /\ nextAt' = [d \in DOMAIN nextAt |-> IF d \in Due THEN timer_ms' + Period[d] ELSE nextAt[d]]
  /\ ranAt' = [d \in DOMAIN ranAt |-> IF d \in Due THEN timer_ms' ELSE ranAt[d]]

\* An interrupt ends the hlt of the task that sleeps.
Woken == sleeper' = {[z EXCEPT !.at = IF @ = "halt" THEN "check" ELSE @] : z \in sleeper}

timer_handler ==
  /\ timer_ticks < MaxTicks
  /\ timer_ticks' = timer_ticks + 1
  /\ timer_accumulate_ms
  /\ CpuUsage
  /\ Served /\ Woken
  /\ UNCHANGED <<timer_current_hz, timer_callbacks, since, changes>>

-----------------------------------------------------------------------------
(* timer_sleep_ticks: the target is tested with interrupts off, and sti; hlt *)
(* lets no interrupt in between the two                                      *)

others == <<timer_ticks, timer_ms, timer_ms_remainder, timer_current_hz, cpu_total_ticks,
            cpu_idle_ticks, current_cpu_usage, yielded, since, changes, deadlines>>
timer_sleep_ticks(n) ==
  /\ sleeper = {}
  /\ sleeper' = {[target |-> timer_ticks + n, at |-> "check"]}
  /\ UNCHANGED others
SleepEnds(z) ==
  /\ z.at = "check" /\ timer_ticks >= z.target
  /\ sleeper' = {}
  /\ UNCHANGED others
\* The mutant halts in a step of its own, after the interrupts are back on.
SleepHalt(z) == [z EXCEPT !.at = "halt"]
SleepHalts(z) ==
  /\ z.at = "sti" \/ (z.at = "check" /\ timer_ticks < z.target)
  /\ sleeper' = {SleepHalt(z)}
  /\ UNCHANGED others

-----------------------------------------------------------------------------
\* timer_set_refresh_rate: a fraction of a millisecond is dropped, and so is the sample.
timer_set_refresh_rate(hz) ==
  /\ changes < MaxChanges /\ changes' = changes + 1
  /\ timer_current_hz' = hz
  /\ timer_ms_remainder' = 0
  /\ cpu_total_ticks' = 0 /\ cpu_idle_ticks' = 0 /\ yielded' = FALSE
  /\ since' = [ms |-> timer_ms, tick |-> timer_ticks]
  /\ UNCHANGED <<timer_ticks, timer_ms, current_cpu_usage, sleeper, deadlines>>

ClockNext ==
  \/ Yield \/ timer_handler
  \/ \E hz \in Rates : timer_set_refresh_rate(hz)
  \/ \E n \in Sleeps : timer_sleep_ticks(n)
  \/ \E z \in sleeper : SleepEnds(z) \/ SleepHalts(z)
ClockSpec == ClockInit /\ [][ClockNext]_clockVars

-----------------------------------------------------------------------------
(* Properties *)

\* The clock is exact: since the rate was last set it has gained the milliseconds of
\* the ticks since then, rounded down, at every rate, with no drift; the usage is a
\* percentage; no subscriber, and not the scheduler, waits longer than its period and
\* a tick; and a task that sleeps for ticks does not sleep on past its target.
ClockExact ==
  /\ timer_ms - since.ms = (Second * (timer_ticks - since.tick)) \div timer_current_hz
  /\ current_cpu_usage \in 0 .. 100
  /\ \A d \in DOMAIN Period :
       \E hz \in Rates : timer_ms - ranAt[d] < Period[d] + (Second \div hz) + 1
  /\ \A z \in sleeper : z.at = "halt" => timer_ticks < z.target

=============================================================================
