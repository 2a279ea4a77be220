------------------------------ MODULE Session ------------------------------
(***************************************************************************)
(* The console session: first-boot set-up and the login loop               *)
(* (apps/login.c), the shell and its commands (apps/shell.c), and the way  *)
(* an application started from the shell ends: syscall 33 loads it over    *)
(* the shell's task, syscall 34 jumps back into user_shell on the stack    *)
(* pointer the shell saved (kernel/syscall.c).                             *)
(*                                                                         *)
(* users.sys is the sequence of its lines, NONE when there is no file.     *)
(* "frames" holds the return target of every activation of user_shell on   *)
(* the boot stack, oldest first; user_login's own frame lies below them.   *)
(* Commands that only print are left out; start, ping and refresh are in   *)
(* Vmm, Ping and Clock.                                                    *)
(***************************************************************************)
EXTENDS Naturals, Sequences, FiniteSets, SequencesExt

CONSTANTS UserNames,   \* names typed at adduser and at the login page
          Passwords,
          MaxUsers,    \* bound: lines of users.sys
          MaxShells,   \* bound: activations of user_shell
          MaxBoots     \* bound: power cycles

NONE == "none"
ROOT == "root"
PROMPT == "prompt"

VARIABLES users,               \* the file users.sys
          program,              \* which loop the console task is in
          current_uid,
          frames, g_shell_return_rsp,
          kept_users,              \* adduser's copy of the file, line appended
          sock,                \* nettest holds a socket
          boots,
          accounts, damaged,   \* history: accounts made; users.sys was lost
          launched             \* history: an app ended in this session

sessionVars == <<users, program, current_uid, frames, g_shell_return_rsp,
                 kept_users, sock, boots, accounts, damaged, launched>>

Account(u, p, id) == [user |-> u, pass |-> p, uid |-> id]

\* What the machine does from power-on: user_login looks for users.sys.
Started(file) == IF file = NONE THEN "setup" ELSE "login"

SessionInit ==
  /\ users = NONE /\ program = Started(NONE) /\ current_uid = 0
  /\ frames = <<>> /\ g_shell_return_rsp = 0
  /\ kept_users = <<>> /\ sock = FALSE /\ boots = 0
  /\ accounts = {} /\ damaged = FALSE /\ launched = FALSE

Files == <<users, accounts, damaged>>
Stack == <<frames, g_shell_return_rsp, launched>>

\* The history: an account was written to the file; the file was lost.
Made(lines) == accounts' = IF damaged THEN accounts ELSE accounts \cup {Last(lines)}
Lost == damaged' = TRUE /\ accounts' = {}

\* first_time_setup: the result of sys_create_file is not looked at.
first_time_setup(p) ==
  /\ program = "setup"
  /\ \/ users' = <<Account(ROOT, p, 0)>> /\ Made(users') /\ UNCHANGED damaged
     \/ users' = NONE /\ Lost
  /\ program' = "login"
  /\ UNCHANGED <<current_uid, Stack, kept_users, sock, boots>>

\* parse_auth: the first line whose name and password both match.
Matching(u, p) == IF users = NONE THEN {}
                  ELSE {i \in DOMAIN users : users[i].user = u /\ users[i].pass = p}

parse_auth(u, p) == \* {} when no line matches
  {users[i].uid : i \in {j \in Matching(u, p) : \A k \in Matching(u, p) : j <= k}}

\* A refused login only prints and sleeps.  On success the desktop is
\* spawned (Vmm!sys_spawn) and user_shell is called.
Login(u, p) ==
  /\ program = "login"
  /\ \E id \in parse_auth(u, p) : current_uid' = id
  /\ program' = PROMPT
  /\ frames' = <<"login">> /\ launched' = FALSE
  /\ UNCHANGED <<Files, g_shell_return_rsp, kept_users, sock, boots>>

AtPrompt == program = PROMPT

Logout ==
  /\ AtPrompt
  /\ program' = IF Last(frames) = "login" THEN "login" ELSE "lost"
  /\ frames' = Front(frames)
  /\ UNCHANGED <<Files, current_uid, g_shell_return_rsp, launched, kept_users, sock, boots>>

Lines == IF users = NONE THEN <<>> ELSE users

\* adduser numbers the new account by the lines already in the file.
MutNewUid(lines) == 1000
NewUid(lines) == (1000 + Len(lines)) - 1

adduser(u, p) ==
  /\ AtPrompt /\ current_uid = 0
  /\ Len(Lines) < MaxUsers
  /\ kept_users' = Append(Lines, Account(u, p, NewUid(Lines)))
  /\ program' = "delete"
  /\ UNCHANGED <<Files, current_uid, Stack, sock, boots>>

\* The file is deleted, then written again from the buffer; whether the
\* second call succeeded is not looked at.
DeleteUsers ==
  /\ program = "delete" /\ program' = "create"
  /\ users' = NONE
  /\ UNCHANGED <<accounts, damaged, current_uid, Stack, kept_users, sock, boots>>

CreateUsers ==
  /\ program = "create" /\ program' = PROMPT
  /\ \/ users' = kept_users /\ Made(kept_users) /\ UNCHANGED damaged
     \/ Lost /\ UNCHANGED users
  /\ kept_users' = <<>>
  /\ UNCHANGED <<current_uid, Stack, sock, boots>>

\* hapus users.sys, and format.
LoseUsers ==
  /\ AtPrompt /\ users # NONE
  /\ users' = NONE /\ Lost
  /\ UNCHANGED <<program, current_uid, Stack, kept_users, sock, boots>>

\* sleep waits for any key.
Sleep == /\ AtPrompt /\ program' = "asleep"
         /\ UNCHANGED <<Files, current_uid, Stack, kept_users, sock, boots>>

Wake == /\ program = "asleep" /\ program' = PROMPT
        /\ UNCHANGED <<Files, current_uid, Stack, kept_users, sock, boots>>

\* nettest: socket, connect, send, recv, close; each call may fail.
NetTest ==
  /\ AtPrompt /\ program' = "connect" /\ sock' = TRUE
  /\ UNCHANGED <<Files, current_uid, Stack, kept_users, boots>>

AfterConnect(connected) == IF connected THEN "exchange" ELSE "close"

Connected ==
  /\ program = "connect"
  /\ \E connected \in BOOLEAN : program' = AfterConnect(connected)
  /\ UNCHANGED <<Files, current_uid, Stack, kept_users, sock, boots>>

Exchanged ==
  /\ program = "exchange" /\ program' = "close"
  /\ UNCHANGED <<Files, current_uid, Stack, kept_users, sock, boots>>

SockClose ==
  /\ program = "close" /\ program' = PROMPT /\ sock' = FALSE
  /\ UNCHANGED <<Files, current_uid, Stack, kept_users, boots>>

\* An unknown word runs /apps/<word>.elf when it exists.  The stack pointer
\* is saved first, in the middle of user_shell; sys_exec returns only when
\* the file cannot be loaded.
sys_exec(loads) ==
  /\ AtPrompt
  /\ g_shell_return_rsp' = Len(frames)
  /\ program' = IF loads THEN "app" ELSE PROMPT
  /\ UNCHANGED <<Files, current_uid, frames, launched, kept_users, sock, boots>>

\* sys_exit jumps to user_shell: a new activation below the saved stack
\* pointer, without a return address of its own.
sys_exit ==
  /\ program = "app" /\ Len(frames) < MaxShells
  /\ g_shell_return_rsp # 0
  /\ frames' = Append(SubSeq(frames, 1, g_shell_return_rsp), "stale")
  /\ program' = PROMPT /\ launched' = TRUE
  /\ UNCHANGED <<Files, current_uid, g_shell_return_rsp, kept_users, sock, boots>>

\* restart, shutdown, or the power failing at any moment; only the disk
\* survives, without what adduser had not written back.
PowerCycle ==
  /\ boots < MaxBoots /\ boots' = boots + 1
  /\ program' = Started(users)
  /\ IF program = "create" THEN Lost ELSE UNCHANGED <<accounts, damaged>>
  /\ current_uid' = 0 /\ frames' = <<>> /\ g_shell_return_rsp' = 0
  /\ kept_users' = <<>> /\ sock' = FALSE /\ launched' = FALSE
  /\ UNCHANGED users

Command ==
  \/ Logout \/ LoseUsers \/ Sleep \/ Wake
  \/ \E u \in UserNames, p \in Passwords : adduser(u, p)
  \/ DeleteUsers \/ CreateUsers
  \/ NetTest \/ Connected \/ Exchanged \/ SockClose
  \/ \E loads \in BOOLEAN : sys_exec(loads)

SessionNext ==
  \/ \E p \in Passwords : first_time_setup(p)
  \/ \E u \in UserNames \cup {ROOT}, p \in Passwords : Login(u, p)
  \/ Command \/ sys_exit \/ PowerCycle

SessionSpec == SessionInit /\ [][SessionNext]_sessionVars

----------------------------------------------------------------------------

\* Accounts outlive adduser's rewriting of users.sys and every restart: as
\* long as the file was not deleted, and no power cut or failing create hit
\* between its deletion and its re-creation, every account ever made is in
\* it under a number of its own.  A session is always one of a made account,
\* a session in which no application ended has a way back to the login page,
\* and the shell shows its prompt only after nettest gave its socket back.
SessionSound ==
  /\ damaged \/ program = "create" \/ accounts = ToSet(Lines)
  /\ damaged \/ \A i, j \in DOMAIN Lines : Lines[i].uid = Lines[j].uid => i = j
  /\ frames # <<>> => current_uid \in {a.uid : a \in accounts} \/ damaged
  /\ AtPrompt => ~sock
  /\ ~launched => ToSet(frames) \subseteq {"login"} /\ program # "lost"

\* shell.c's help says of logout "Kembali ke halaman Login" (back to the
\* login page): ending user_shell returns into user_login's loop.
LogoutReturns == program # "lost"
============================================================================
