-------------------------------- MODULE Ping --------------------------------
(***************************************************************************)
(* kernel/net_ping.c: kernel_ping, its callbacks, and the path of an ICMP  *)
(* packet through raw_input and ip4_input of the lwIP under third_party.   *)
(*                                                                         *)
(* A ping holds ping_busy from its first step to its last; the waits are   *)
(* sti;hlt, so that the scheduler may run another task of the same CPU.    *)
(* One that finds ping_busy taken spins with interrupts off and keeps its  *)
(* CPU.  The lwIP calls are atomic, by net_lock.  A sequence number is the *)
(* clock's lower 16 bits; it is fresh here, for the echo requests of a     *)
(* ping are a second apart and MaxSeq is far below a wrap of the clock.    *)
(***************************************************************************)
EXTENDS Integers, FiniteSets

CONSTANTS
  PTASKS, CpuOf(_),    \* tasks, and the CPU each runs on
  Hosts,               \* names that can be pinged; a host stands for its address too
  ECHOES,              \* echo requests of one ping (4)
  MaxSeq               \* bound: echo requests sent

ASSUME PingAssumption == ECHOES \in Nat /\ MaxSeq \in Nat

VARIABLES
  ping_busy,           \* {} or the task that holds the lock
  ping,                \* per task: {} or its call
  ping_pcb,            \* {} or the task whose raw pcb is registered with lwIP
  ping_seq, ping_done, dns_done, dns_result,
  queries,             \* names the resolver has not answered yet
  echoes,              \* requests whose reply may still come
  answered,            \* history: requests whose reply reached the callback in time
  frees                \* history: how often the last packet's pbuf was freed

pingVars == <<ping_busy, ping, ping_pcb, ping_seq, ping_done, dns_done, dns_result,
              queries, echoes, answered, frees>>
dnsState == <<dns_done, dns_result, queries>>
echo     == <<ping_seq, ping_done, echoes, answered, frees>>

NOBODY == "no address"

PingInit ==
  /\ ping_busy = {} /\ ping_pcb = {}
  /\ ping = [t \in PTASKS |-> {}]
  /\ ping_seq = 0 /\ ping_done = FALSE /\ dns_done = FALSE /\ dns_result = NOBODY
  /\ queries = {} /\ echoes = {} /\ answered = {} /\ frees = 1

\* A task that spins for ping_busy keeps every other task off its CPU.
Spins(t) == \E c \in ping[t] : c.at = "spin" /\ ping_busy # {}
CanRun(t) == \A u \in PTASKS \ {t} : CpuOf(u) = CpuOf(t) => ~Spins(u)
Stage(t, at) == {c \in ping[t] : c.at = at /\ CanRun(t)}
To(t, c, at) == ping' = [ping EXCEPT ![t] = {[c EXCEPT !.at = at]}]

kernel_ping(t, host) ==
  /\ ping[t] = {} /\ CanRun(t) /\ ping_seq < MaxSeq
  /\ ping' = [ping EXCEPT ![t] =
       {[at |-> "spin", host |-> host, dest |-> NOBODY, late |-> FALSE, seqs |-> {}, i |-> 0, success |-> 0]}]
  /\ UNCHANGED <<ping_busy, ping_pcb, dnsState, echo>>

TakesBusy(t) ==
  \E c \in Stage(t, "spin") :
    /\ ping_busy = {}
    /\ ping_busy' = {t}
    /\ To(t, c, "resolve")
    /\ UNCHANGED <<ping_pcb, dnsState, echo>>

\* Every return gives ping_busy back.
PingReturns(t) ==
  /\ ping' = [ping EXCEPT ![t] = {}]
  /\ ping_busy' = {}

\* No address on the interface yet.
NoAddress(t) ==
  /\ Stage(t, "resolve") # {}
  /\ PingReturns(t)
  /\ UNCHANGED <<ping_pcb, dnsState, echo>>

\* dns_gethostbyname: known at once, asked, or refused.
Resolve(t) ==
  \E c \in Stage(t, "resolve") :
    /\ ping' = [ping EXCEPT ![t] = {[c EXCEPT !.at = "resolved", !.late = queries # {}]}]
    /\ \/ dns_done' = TRUE /\ dns_result' = c.host /\ UNCHANGED queries
       \/ dns_done' = FALSE /\ dns_result' = NOBODY /\ queries' = queries \cup {c.host}
       \/ dns_done' = FALSE /\ dns_result' = NOBODY /\ UNCHANGED queries
    /\ UNCHANGED <<ping_busy, ping_pcb, echo>>

\* dns_found_cb, from the poll: an answer, or none, for a name asked by this or by
\* an earlier call.
dns_found_cb(host, addr) ==
  /\ host \in queries
  /\ queries' = queries \ {host}
  /\ dns_done' = TRUE /\ dns_result' = addr
  /\ UNCHANGED <<ping_busy, ping, ping_pcb, echo>>

\* The wait for the name ends, by an answer or after five seconds.
HostNotFound(t) ==
  /\ Stage(t, "resolved") # {}
  /\ ~dns_done \/ dns_result = NOBODY
  /\ PingReturns(t)
  /\ UNCHANGED <<ping_pcb, dnsState, echo>>
HostFound(t) ==
  \E c \in Stage(t, "resolved") :
    /\ dns_done /\ dns_result # NOBODY
    /\ ping' = [ping EXCEPT ![t] = {[c EXCEPT !.at = "echo", !.dest = dns_result]}]
    /\ UNCHANGED <<ping_busy, ping_pcb, dnsState, echo>>

-----------------------------------------------------------------------------
(* net_ping_once *)

\* raw_new fails: the request counts as lost.
NoPcb(t) ==
  \E c \in Stage(t, "echo") :
    /\ To(t, c, "next")
    /\ UNCHANGED <<ping_busy, ping_pcb, dnsState, echo>>

\* raw_new, raw_recv, raw_bind and ping_send; a send that fails removes the pcb.
Send(t, ok) ==
  \E c \in Stage(t, "echo") :
    /\ ping_seq < MaxSeq
    /\ ping_pcb' = {t}
    /\ ping_seq' = ping_seq + 1 /\ ping_done' = FALSE
    /\ echoes' = IF ok THEN echoes \cup {ping_seq + 1} ELSE echoes
    /\ ping' = [ping EXCEPT ![t] = {[c EXCEPT !.at = IF ok THEN "wait" ELSE "unsent", !.seqs = @ \cup {ping_seq + 1}]}]
    /\ UNCHANGED <<ping_busy, dnsState, answered, frees>>

SendFailed(t) ==
  \E c \in Stage(t, "unsent") :
    /\ ping_pcb' = {}
    /\ To(t, c, "next")
    /\ UNCHANGED <<ping_busy, dnsState, echo>>

\* The wait ends, by a reply or after four seconds: raw_remove.
Removed(t) == {}
RawRemove(t) ==
  \E c \in Stage(t, "wait") :
    /\ ping_pcb' = Removed(t)
    /\ To(t, c, "removed")
    /\ UNCHANGED <<ping_busy, dnsState, echo>>
Count(t) ==
  \E c \in Stage(t, "removed") :
    /\ ping' = [ping EXCEPT ![t] = {[c EXCEPT !.at = "next", !.success = @ + (IF ping_done THEN 1 ELSE 0)]}]
    /\ UNCHANGED <<ping_busy, ping_pcb, dnsState, echo>>

\* The loop of kernel_ping, and its end.
NextEcho(t) ==
  \E c \in Stage(t, "next") :
    /\ c.i + 1 < ECHOES
    /\ ping' = [ping EXCEPT ![t] = {[c EXCEPT !.at = "echo", !.i = @ + 1]}]
    /\ UNCHANGED <<ping_busy, ping_pcb, dnsState, echo>>
Statistics(t) ==
  \E c \in Stage(t, "next") :
    /\ c.i + 1 = ECHOES
    /\ PingReturns(t)
    /\ UNCHANGED <<ping_pcb, dnsState, echo>>

-----------------------------------------------------------------------------
(* An ICMP packet arrives, in the poll of the timer *)

\* ping_recv_cb: the reply to the request that is waited for.
MutMatches(seq) == TRUE
Matches(seq) == seq = ping_seq

\* ping_recv_cb frees the packet on each of its paths, and returns 1 only for the
\* reply it waits for.  lwIP frees the packet unless the callback returned 1.
ping_recv_cb(reply, seq) ==
  LET called == ping_pcb # {}
      eaten == called /\ reply /\ Matches(seq)
  IN  /\ frees' = (IF called THEN 1 ELSE 0) + (IF eaten THEN 0 ELSE 1)
      /\ ping_done' = (ping_done \/ eaten)
      /\ answered' = IF called /\ reply /\ seq = ping_seq THEN answered \cup {seq} ELSE answered

EchoReply(seq) ==
  /\ seq \in echoes
  /\ echoes' = echoes \ {seq}
  /\ ping_recv_cb(TRUE, seq)
  /\ UNCHANGED <<ping_busy, ping, ping_pcb, ping_seq, dnsState>>

\* Any other ICMP packet, an echo request from another machine among them.
OtherIcmp ==
  /\ ping_recv_cb(FALSE, 0)
  /\ UNCHANGED <<ping_busy, ping, ping_pcb, ping_seq, dnsState, echoes>>

PingStep(t) ==
  \/ \E host \in Hosts : kernel_ping(t, host)
  \/ TakesBusy(t) \/ NoAddress(t) \/ Resolve(t) \/ HostNotFound(t) \/ HostFound(t) \/ NoPcb(t)
  \/ \E ok \in BOOLEAN : Send(t, ok)
  \/ SendFailed(t) \/ RawRemove(t) \/ Count(t) \/ NextEcho(t) \/ Statistics(t)
PingNext ==
  \/ \E t \in PTASKS : PingStep(t)
  \/ \E host \in Hosts : \E addr \in {host, NOBODY} : dns_found_cb(host, addr)
  \/ \E seq \in echoes : EchoReply(seq)
  \/ OtherIcmp
PingSpec == PingInit /\ [][PingNext]_pingVars

-----------------------------------------------------------------------------
(* Properties *)

\* What a ping counts is what came back: as many successes as requests of its own
\* were answered while it waited, however late other replies come; its raw pcb is
\* registered exactly while it waits; and it pings the host it was asked to ping,
\* unless the resolver still owed an answer to an earlier call when it began.
PingExact ==
  \A t \in PTASKS : \A c \in ping[t] :
    /\ c.at \in {"next", "echo"} => c.success = Cardinality(c.seqs \cap answered)
    /\ (t \in ping_pcb) = (c.at \in {"wait", "unsent"})
    /\ c.dest \in {c.host, NOBODY} \/ c.late

\* Every packet that lwIP hands to the callback is freed once: by the callback if it
\* returns 1, by lwIP if it returns 0 (raw.h: "0 if the packet lives on").
PbufFreedOnce == frees = 1

=============================================================================
