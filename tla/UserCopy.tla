----------------------------- MODULE UserCopy -----------------------------
(***************************************************************************)
(* The boundary between system calls and the caller's memory,              *)
(* kernel/usercopy.c: every pointer an application passes is checked       *)
(* against the user range and its page tables before a byte is touched.    *)
(* Addresses have 2^64 = VA values and wrap; a page has PG bytes; the user *)
(* range ends at USER_MAX (UC_USER_VA_MAX).  syscall_handler uses the      *)
(* three calls for every pointer argument.                                 *)
(***************************************************************************)
EXTENDS Naturals, FiniteSets

CONSTANTS VA, PG, USER_MAX, MAX_RANGE,
          Addrs, Lens       \* pointers and lengths passed by callers

ASSUME CopyAssumption ==
  /\ VA \in Nat /\ PG \in Nat /\ USER_MAX \in Nat /\ MAX_RANGE \in Nat
  /\ PG > 1 /\ USER_MAX % PG = 0 /\ USER_MAX < VA
  /\ Addrs \subseteq 0 .. VA - 1 /\ Lens \subseteq Nat

VARIABLES mapped,    \* the pages mapped in the caller's address space
          nul,       \* the address of the only zero byte
          req,       \* the call: which, from_user, uaddr, len (or cap)
          i, checked_page, touched, result

copyVars == <<mapped, nul, req, i, checked_page, touched, result>>

PageOf(a) == a - (a % PG)
UserPages == {PageOf(a) : a \in 0 .. USER_MAX - 1}
KernelPages == {PageOf(a) : a \in USER_MAX .. VA - 1}

CopyInit ==
  /\ \E user \in SUBSET UserPages : mapped = user \cup KernelPages
  /\ nul \in Addrs
  /\ req \in [fn : {"copy", "strncpy"}, from_user : BOOLEAN, uaddr : Addrs, len : Lens]
  /\ i = 0 /\ checked_page = 1 /\ touched = {} /\ result = "pending"

MutLastPage(u, n) == PageOf(u)
LastPage(u, n) == PageOf((u + n) - 1)

user_range_ok ==
  LET u == req.uaddr
      n == req.len
  IN /\ u # 0
     /\ n # 0 => /\ n <= MAX_RANGE /\ (u + n) % VA >= u
                 /\ req.from_user =>
                      /\ u < USER_MAX /\ n <= USER_MAX - u
                      /\ \A p \in UserPages : PageOf(u) <= p /\ p <= LastPage(u, n) => p \in mapped

\* copy_from_user and copy_to_user.
Copy ==
  /\ result = "pending" /\ req.fn = "copy"
  /\ result' = IF user_range_ok THEN "ok" ELSE "refused"
  /\ touched' = IF user_range_ok THEN {a \in 0 .. VA - 1 : req.uaddr <= a /\ a < req.uaddr + req.len}
                                 ELSE {}
  /\ UNCHANGED <<mapped, nul, req, i, checked_page>>

\* strncpy_from_user, one byte at a time; a page is looked up when the
\* pointer enters it.
Refused(addr) ==
  /\ req.from_user
  /\ \/ addr < req.uaddr
     \/ PageOf(addr) # checked_page /\ (PageOf(addr) >= USER_MAX \/ PageOf(addr) \notin mapped)

Finish(r) == result' = r /\ UNCHANGED <<mapped, nul, req, i, checked_page>>

strncpy_from_user ==
  /\ result = "pending" /\ req.fn = "strncpy"
  /\ IF req.uaddr = 0 \/ req.len = 0 THEN Finish("refused") /\ UNCHANGED touched
     ELSE IF i >= req.len - 1 THEN Finish("ok") /\ UNCHANGED touched
     ELSE \E addr \in {(req.uaddr + i) % VA} :
            IF Refused(addr) THEN Finish("refused") /\ UNCHANGED touched
            ELSE /\ touched' = touched \cup {addr}
                 /\ IF addr = nul THEN Finish("ok")
                    ELSE /\ i' = i + 1 /\ checked_page' = PageOf(addr)
                         /\ UNCHANGED <<mapped, nul, req, result>>

CopyNext == Copy \/ strncpy_from_user

CopySpec == CopyInit /\ [][CopyNext]_copyVars

---------------------------------------------------------------------------

\* The bytes a call needs: its whole range, or the string up to its zero
\* byte or the buffer's last place.
Needed ==
  IF req.fn = "copy" THEN {req.uaddr + k : k \in 0 .. req.len} \ {req.uaddr + req.len}
  ELSE {(req.uaddr + k) % VA : k \in {k \in 0 .. req.len :
          k + 1 < req.len /\ \A j \in 0 .. req.len : j < k => (req.uaddr + j) % VA # nul}}

UserByte(a) == a < USER_MAX /\ PageOf(a) \in mapped

\* For a call from ring 3 the kernel touches no byte outside the caller's
\* mapped user pages, and refuses a pointer exactly when a byte the call
\* needs lies outside them (or the pointer is null, the string buffer empty,
\* or the range over the limit): a short string at the end of the last mapped
\* page is read, a range that wraps or ends one byte too far is not.
CopySound ==
  req.from_user =>
    /\ \A a \in touched : UserByte(a)
    /\ result # "pending" =>
         (result = "ok" <=> /\ req.uaddr # 0
                            /\ \A a \in Needed : UserByte(a)
                            /\ IF req.fn = "copy" THEN req.len <= MAX_RANGE ELSE req.len > 0)
===========================================================================
