----------------------------- MODULE WallClock -----------------------------
(***************************************************************************)
(* The time of day: the CMOS clock, kernel/drivers' read_rtc behind        *)
(* sys_get_time, and the Jam window (user_apps/clock.c).                   *)
(*                                                                         *)
(* Nothing guards the clock's index and data ports: two CPUs that read at  *)
(* the same time take each other's registers, and the clock may tick       *)
(* between two registers of one read.  A read that another CPU has         *)
(* disturbed is JUNK from then on.  The registers hold BCD; a tick changes *)
(* them all at once.                                                       *)
(*                                                                         *)
(* Names that start with Mut are slips of the code.                        *)
(***************************************************************************)
EXTENDS Integers, Sequences, FiniteSets, FiniteSetsExt

CONSTANTS
  RtcReaders,          \* tasks that ask for the time, each on a CPU of its own
  JamTask,             \* the one of them that is the Jam window
  BootDates,           \* <<year, month, day>> of the clock at power-on
  BootHour,            \* and its hour, in UTC, one second before the next
  WIB,                 \* hours east of Greenwich (7)
  MaxSeconds,          \* bound: ticks of the clock
  MaxReads             \* bound: calls of sys_get_time

VARIABLES
  cmos,                \* <<sec, min, hour, day, month, year>>, numbers
  cmos_index,          \* the register selected at port 0x70
  reader,              \* per task: [at, got, from, mixed]
  time_buf,            \* per task: the last answer of sys_get_time
  seconds,             \* history: ticks
  reads,               \* history: calls
  last_sec, jam        \* the Jam window: the second shown last, what it shows

rtcVars == <<cmos, cmos_index, reader, time_buf, seconds, reads, last_sec, jam>>
windows == <<last_sec, jam>>

REGISTERS == 6
NO_SEC == 255
JUNK == 0
NoTime == <<>>
NotReading == [at |-> "idle", got |-> <<>>, from |-> NoTime, mixed |-> FALSE]

Leap(y) == y % 4 = 0
MonthDays(y, m) == IF m = 2 THEN IF Leap(y) THEN 29 ELSE 28 ELSE IF m \in {4, 6, 9, 11} THEN 30 ELSE 31

RtcInit ==
  /\ \E d \in BootDates : cmos = <<59, 59, BootHour, d[3], d[2], d[1]>>
  /\ cmos_index = 0 /\ seconds = 0 /\ reads = 0
  /\ reader = [t \in RtcReaders |-> NotReading] /\ time_buf = [t \in RtcReaders |-> NoTime]
  /\ last_sec = NO_SEC /\ jam = NoTime

-----------------------------------------------------------------------------
(* The device: it keeps the calendar of the years 2000 to 2099 *)

NextSecond(c) ==
  LET s == c[1] = 59
      m == s /\ c[2] = 59
      h == m /\ c[3] = 23
      d == h /\ c[4] = MonthDays(c[6], c[5])
      y == d /\ c[5] = 12
      Up(wraps, carry, v, low) == IF wraps THEN low ELSE IF carry THEN v + 1 ELSE v
  IN  <<Up(s, TRUE, c[1], 0), Up(m, s, c[2], 0), Up(h, m, c[3], 0),
        Up(d, h, c[4], 1), Up(y, d, c[5], 1), IF y THEN (c[6] + 1) % 100 ELSE c[6]>>

Second ==
  /\ seconds < MaxSeconds /\ seconds' = seconds + 1
  /\ cmos' = NextSecond(cmos)
  /\ UNCHANGED <<cmos_index, reader, time_buf, reads, windows>>

Bcd(n) == (16 * (n \div 10)) + (n % 10)

-----------------------------------------------------------------------------
(* read_rtc *)

bcd_to_bin(b) == (b % 16) + ((b \div 16) * 10)

read_rtc(t) ==
  /\ reader[t].at = "idle"
  /\ reads < MaxReads /\ reads' = reads + 1
  /\ reader' = [reader EXCEPT ![t] = [NotReading EXCEPT !.at = "select"]]
  /\ UNCHANGED <<cmos, cmos_index, time_buf, seconds, windows>>

\* get_rtc_register: the index, then the data.
SelectRegister(t) ==
  /\ reader[t].at = "select"
  /\ cmos_index' = Len(reader[t].got) + 1
  /\ reader' = [u \in RtcReaders |->
       IF u = t THEN [reader[t] EXCEPT !.at = "data"]
       ELSE [reader[u] EXCEPT !.mixed = @ \/ (reader[u].at = "data" /\ cmos_index' # cmos_index)]]
  /\ UNCHANGED <<cmos, time_buf, seconds, reads, windows>>
ReadRegister(t) ==
  /\ reader[t].at = "data"
  /\ LET got == IF reader[t].mixed THEN [i \in 1 .. Len(reader[t].got) + 1 |-> JUNK]
                ELSE Append(reader[t].got, Bcd(cmos[cmos_index]))
     IN  reader' = [reader EXCEPT ![t].got = got, ![t].from = IF @ = NoTime THEN cmos ELSE @, ![t].at = IF Len(got) < REGISTERS THEN "select" ELSE "convert"]
  /\ UNCHANGED <<cmos, cmos_index, time_buf, seconds, reads, windows>>

\* The answer: year, month, day, hour, minute, second.
WibHour(h) == IF h + WIB >= 24 THEN (h + WIB) % 24 ELSE h + WIB
ConvertTime(t) ==
  LET g == [i \in 1 .. REGISTERS |-> bcd_to_bin(reader[t].got[i])]
  IN  /\ reader[t].at = "convert"
      /\ time_buf' = [time_buf EXCEPT ![t] = <<g[6] + 2000, g[5], g[4], WibHour(g[3]), g[2], g[1]>>]
      /\ reader' = [reader EXCEPT ![t].at = "answer"]
      /\ UNCHANGED <<cmos, cmos_index, seconds, reads, windows>>

-----------------------------------------------------------------------------
(* The windows *)

\* Zeller's congruence, as in day_of_week; 0 is Sunday.
MutDayOfWeek(y, m, d) ==
  LET k == y % 100
      j == y \div 100
  IN  ((d + ((13 * ((IF m < 3 THEN m + 12 ELSE m) + 1)) \div 5) + k + (k \div 4) + (j \div 4) + (5 * j)) + 6) % 7
day_of_week(y, m, d) ==
  LET mm == IF m < 3 THEN m + 12 ELSE m
      yy == IF m < 3 THEN y - 1 ELSE y
      k == yy % 100
      j == yy \div 100
      h == (d + ((13 * (mm + 1)) \div 5) + k + (k \div 4) + (j \div 4) + (5 * j)) % 7
  IN  (h + 6) % 7

\* tick of clock.c, with the answer it got: a second that has not changed is not drawn.
Changed(t) == ~(t[6] = last_sec /\ last_sec # NO_SEC)
JamTick ==
  /\ reader[JamTask].at = "answer"
  /\ reader' = [reader EXCEPT ![JamTask].at = "idle"]
  /\ LET t == time_buf[JamTask]
     IN  IF Changed(t) THEN last_sec' = t[6] /\ jam' = [time |-> t, mixed |-> reader[JamTask].mixed] ELSE UNCHANGED <<last_sec, jam>>
  /\ UNCHANGED <<cmos, cmos_index, time_buf, seconds, reads>>
\* cmd_time of the terminal prints it.
CmdTime(t) ==
  /\ t # JamTask /\ reader[t].at = "answer"
  /\ reader' = [reader EXCEPT ![t].at = "idle"]
  /\ UNCHANGED <<cmos, cmos_index, time_buf, seconds, reads, windows>>

RtcNext ==
  \/ Second \/ JamTick
  \/ \E t \in RtcReaders : read_rtc(t) \/ SelectRegister(t) \/ ReadRegister(t) \/ ConvertTime(t) \/ CmdTime(t)
RtcSpec == RtcInit /\ [][RtcNext]_rtcVars

-----------------------------------------------------------------------------
(* Properties *)

\* Days from 1 January 2000, a Saturday.
DaysSince(y, m, d) ==
  (365 * (y - 2000)) + ((y - 2000 + 3) \div 4) + MapThenSumSet(LAMBDA k : MonthDays(y - 2000, k), 1 .. m - 1) + (d - 1)

\* The answer that a clock reading asks for: the time in Jakarta, with the date of
\* Greenwich.
Answer(c) == <<c[6] + 2000, c[5], c[4], (c[3] + WIB) % 24, c[2], c[1]>>

\* Every field of an undisturbed read is one the clock had while it was read, and the
\* whole is one time if the clock did not tick meanwhile; from midnight until seven in
\* Jakarta the date is yesterday's.  The weekday is that of the calendar, on the first
\* and the last day of every month of the century.  The Jam window shows a time that was
\* read, with the second of the last read.
TimeTrue ==
  /\ \A t \in RtcReaders :
       reader[t].at = "answer" /\ ~reader[t].mixed =>
         LET before == reader[t].from
             after == NextSecond(before)
         IN  /\ time_buf[t][6] = before[1]
             /\ MaxSeconds = 1 => \A i \in 1 .. REGISTERS : time_buf[t][i] \in {Answer(before)[i], Answer(after)[i]}
             /\ cmos = before => time_buf[t] = Answer(before)
  /\ seconds = 0 /\ (\A t \in RtcReaders : reader[t] = NotReading) =>
       \A y \in 2000 .. 2099, m \in 1 .. 12 : \A d \in {1, MonthDays(y - 2000, m)} :
         day_of_week(y, m, d) = (DaysSince(y, m, d) + 6) % 7
  /\ jam # NoTime => jam.time[6] = last_sec /\ (jam.mixed \/ last_sec \in 0 .. 59)

=============================================================================
