------------------------------ MODULE Syscall ------------------------------
(***************************************************************************)
(* The calls of kernel/syscall.c that carry data across the user boundary: *)
(* each copies its strings in, clamps the length it was given, tests the   *)
(* caller's buffer, works on a bounce buffer of the kernel, copies the     *)
(* result out and frees the bounce.  The callers run on different CPUs,    *)
(* so that the steps of two calls come in any order; kmalloc may fail.     *)
(*                                                                         *)
(* A buffer is the number of bytes that are mapped from its start, -1 for  *)
(* a null pointer, and whether the caller is in ring 0.  An input byte is  *)
(* its place in what the caller was sent; a byte of the file is the call   *)
(* that wrote it.  LIMIT stands for UC_MAX_KBD, UC_MAX_SOCK, UC_MAX_IO,    *)
(* UC_MAX_FILE, UC_MAX_ENTRIES and the 16 windows.                         *)
(***************************************************************************)
EXTENDS Integers, Sequences, FiniteSets

CONSTANTS
  CALLERS,        \* tasks
  LIMIT,          \* the most bytes a call moves
  Lengths,        \* lengths the callers pass
  CallBuffers,        \* the buffers they pass
  MaxInput, MaxSyscalls   \* bounds

ASSUME SyscallAssumption ==
  LIMIT \in Nat /\ Lengths \subseteq Nat /\ CallBuffers \subseteq [room : Int, ring0 : BOOLEAN] /\ MaxInput \in Nat /\ MaxSyscalls \in Nat

VARIABLES
  scall,          \* per task: {} or its call
  input,          \* per task: what the keyboard, the event queue, the socket or the file holds for it
  came, given,    \* per task, history: how much input has come; what the task received
  kfile,          \* {} or the content of the file the calls name
  bounces,        \* history: bounce buffers allocated and not freed
  syscalls        \* history: calls made

callVars == <<scall, input, came, given, kfile, bounces, syscalls>>

HEAP_JUNK == -1
OldFile == <<0, 0>>

\* What kernel/usercopy.c promises (module UserCopy).
user_range_ok(b, len) == b.room >= 0 /\ (len = 0 \/ b.ring0 \/ len <= b.room)

SyscallInit ==
  /\ scall = [t \in CALLERS |-> {}]
  /\ input = [t \in CALLERS |-> <<>>] /\ came = [t \in CALLERS |-> 0] /\ given = [t \in CALLERS |-> <<>>]
  /\ kfile \in {{}, {OldFile}} /\ bounces = 0 /\ syscalls = 0

-----------------------------------------------------------------------------
(* The frame of a call *)

CallClamp(len) == IF len > LIMIT THEN LIMIT ELSE len
BeginCall(t) == scall[t] = {} /\ syscalls < MaxSyscalls /\ syscalls' = syscalls + 1

\* A call that goes on, with a bounce if it needs one; it ends here if kmalloc fails.
CallEnters(t, num, buf, asked, bounce) ==
  \/ /\ scall' = [scall EXCEPT ![t] =
          {[num |-> num, at |-> "work", buf |-> buf, asked |-> asked, data |-> <<>>, bounce |-> bounce]}]
     /\ bounces' = bounces + (IF bounce THEN 1 ELSE 0)
  \/ bounce /\ UNCHANGED <<scall, bounces>>
CallRefused == UNCHANGED <<scall, bounces>>

CallGoes(t, c) == scall' = [scall EXCEPT ![t] = {c}] /\ UNCHANGED bounces
\* The way out of a call: the bounce, if there is one, is freed.
CallReturns(t, c) ==
  /\ scall' = [scall EXCEPT ![t] = {}]
  /\ bounces' = bounces - (IF c.bounce THEN 1 ELSE 0)

-----------------------------------------------------------------------------
(* Calls that take: sys_read_keyboard and sys_get_event, whose buffer is on *)
(* the kernel stack; sys_read and sys_sock_recv, which have a bounce         *)

Taking == {"get_event", "read_keyboard", "read"}

InputComes(t) ==
  /\ came[t] < MaxInput
  /\ came' = [came EXCEPT ![t] = @ + 1]
  /\ input' = [input EXCEPT ![t] = Append(@, came[t] + 1)]
  /\ UNCHANGED <<scall, given, kfile, bounces, syscalls>>

\* The buffer is tested before anything is taken.
MutMayTake(b, asked) == asked > 0
MayTake(b, asked) == asked > 0 /\ user_range_ok(b, asked)
EnterTake(t, num, b, len) ==
  LET asked == IF num = "get_event" THEN 1 ELSE CallClamp(len)
  IN  /\ BeginCall(t)
      /\ IF MayTake(b, asked)
         THEN CallEnters(t, num, b, asked, num = "read")
         ELSE CallRefused
      /\ UNCHANGED <<input, came, given, kfile>>

TakeCall(t) ==
  \E c \in scall[t] :
    LET n == IF c.asked < Len(input[t]) THEN c.asked ELSE Len(input[t])
    IN  /\ c.num \in Taking /\ c.at = "work"
        /\ CallGoes(t, [c EXCEPT !.at = "copy", !.data = SubSeq(input[t], 1, n)])
        /\ input' = [input EXCEPT ![t] = SubSeq(@, n + 1, Len(@))]
        /\ UNCHANGED <<came, given, kfile, syscalls>>

\* copy_to_user of as many bytes as there are.
CopyOut(t) ==
  \E c \in scall[t] :
    /\ c.at = "copy"
    /\ given' = IF c.num \in Taking /\ user_range_ok(c.buf, Len(c.data))
                THEN [given EXCEPT ![t] = @ \o c.data] ELSE given
    /\ CallReturns(t, c)
    /\ UNCHANGED <<input, came, kfile, syscalls>>

-----------------------------------------------------------------------------
(* Calls that put: sys_write and sys_sock_send; sys_create_file *)

EnterPut(t, num, b, len) ==
  /\ BeginCall(t)
  /\ IF len <= LIMIT /\ len > 0 /\ (num = "create_file" \/ user_range_ok(b, len))
     THEN CallEnters(t, num, b, len, TRUE) /\ UNCHANGED kfile
     ELSE /\ CallRefused
          /\ kfile' = IF num = "create_file" /\ len = 0 /\ kfile = {} THEN {<<>>} ELSE kfile
  /\ UNCHANGED <<input, came, given>>

\* copy_from_user, which fails only where sys_create_file did not test the buffer before;
\* then vfs_write, ksock_send (modules VfsFd and NetSock) or kfs_create_file.
PutCall(t) ==
  \E c \in scall[t] :
    /\ c.num \in {"write", "create_file"} /\ c.at = "work"
    /\ kfile' = IF c.num = "create_file" /\ kfile = {} /\ user_range_ok(c.buf, c.asked)
                THEN {[i \in 1 .. c.asked |-> syscalls]} ELSE kfile
    /\ CallReturns(t, c)
    /\ UNCHANGED <<input, came, given, syscalls>>

\* sys_fs_delete, with its string copied in.
CallDeletes(t) ==
  /\ BeginCall(t)
  /\ kfile' = {}
  /\ UNCHANGED <<scall, input, came, given, bounces>>

-----------------------------------------------------------------------------
(* sys_read_file_to_buffer, sys_get_file_list and sys_kwm_get_windows *)

FileSize == IF kfile = {} THEN 0 ELSE Len(CHOOSE f \in kfile : TRUE)

\* The size is asked in one section of fs_lock, the file is read in another.
EnterFile(t, b, cap) ==
  /\ BeginCall(t)
  /\ IF FileSize > 0 /\ FileSize <= cap /\ FileSize <= LIMIT /\ user_range_ok(b, FileSize)
     THEN CallEnters(t, "read_file", b, FileSize, TRUE)
     ELSE CallRefused
  /\ UNCHANGED <<input, came, given, kfile>>
ReadFile(t) ==
  \E c \in scall[t] :
    /\ c.num = "read_file" /\ c.at = "work"
    /\ \/ /\ kfile # {} /\ FileSize <= c.asked
          /\ \E f \in kfile :
               CallGoes(t, [c EXCEPT !.at = "copy",
                          !.data = [i \in 1 .. c.asked |-> IF i <= Len(f) THEN f[i] ELSE HEAP_JUNK]])
       \/ /\ kfile = {} \/ FileSize > c.asked
          /\ CallReturns(t, c)
    /\ UNCHANGED <<input, came, given, kfile, syscalls>>

EnterList(t, b, maxn) ==
  /\ BeginCall(t)
  /\ IF CallClamp(maxn) > 0 /\ user_range_ok(b, CallClamp(maxn))
     THEN CallEnters(t, "list", b, CallClamp(maxn), TRUE)
     ELSE CallRefused
  /\ UNCHANGED <<input, came, given, kfile>>
ListCall(t, count) ==
  \E c \in scall[t] :
    /\ c.num = "list" /\ c.at = "work" /\ count <= c.asked
    /\ CallGoes(t, [c EXCEPT !.at = "copy", !.data = [i \in 1 .. count |-> i]])
    /\ UNCHANGED <<input, came, given, kfile, syscalls>>

SyscallNext ==
  \E t \in CALLERS :
    \/ InputComes(t) \/ TakeCall(t) \/ CopyOut(t) \/ PutCall(t) \/ CallDeletes(t) \/ ReadFile(t)
    \/ \E b \in CallBuffers, len \in Lengths :
         \/ \E num \in Taking : EnterTake(t, num, b, len)
         \/ \E num \in {"write", "create_file"} : EnterPut(t, num, b, len)
         \/ EnterFile(t, b, len)
         \/ EnterList(t, b, len)
    \/ \E count \in Lengths : ListCall(t, count)
SyscallSpec == SyscallInit /\ [][SyscallNext]_callVars

-----------------------------------------------------------------------------
(* Properties *)

\* No input is lost on the way to its reader, whatever buffer and length it passed: what
\* it has, what its call has in hand and what still waits are all that came, in order.
InputReachesReader ==
  \A t \in CALLERS :
    LET hands == {c.data : c \in {d \in scall[t] : d.num \in Taking}}
        hand == IF hands = {} THEN <<>> ELSE CHOOSE h \in hands : TRUE
    IN  given[t] \o hand \o input[t] = [i \in 1 .. came[t] |-> i]

\* No bounce buffer outlives its call, on any path; no call writes more than it was
\* asked for, or past the end of the caller's buffer; and the bytes of a file that reach
\* a caller were all written by one call, but for what the bounce held before where the
\* file was replaced by a shorter one between the size and the read.
BouncesReturned ==
  /\ bounces = Cardinality({t \in CALLERS : \E c \in scall[t] : c.bounce})
  /\ \A t \in CALLERS : \A c \in scall[t] :
       /\ Len(c.data) <= c.asked /\ c.asked <= LIMIT
       /\ c.at = "copy" => user_range_ok(c.buf, Len(c.data))
       /\ c.num = "read_file" => Cardinality({c.data[i] : i \in DOMAIN c.data} \ {HEAP_JUNK}) <= 1

=============================================================================
