------------------------------ MODULE Console ------------------------------
(***************************************************************************)
(* The programs of the console: zen, the line editor (apps/zen.c), the     *)
(* prompt of the shell (apps/shell.c) with the terminal window that runs   *)
(* the same commands (user_apps/terminal.c), and the string functions of   *)
(* the kernel (kernel/string.c).  The three share nothing but these names. *)
(*                                                                         *)
(* zen asks for the file's size, allocates a buffer, reads the file into   *)
(* it, edits at the end, doubles the buffer when it is full, and at the    *)
(* end deletes the file and creates it anew with the bytes before the      *)
(* first NUL.  Other tasks write the same file between two of its system   *)
(* calls.  A byte is NUL, a letter, or JUNK_BYTE, what the heap held       *)
(* before: the grown half of a buffer is not cleared.                      *)
(*                                                                         *)
(* Names that start with Mut are slips of the code.                        *)
(***************************************************************************)
EXTENDS Integers, Sequences, SequencesExt, FiniteSetsExt

CONSTANTS
  Letters,             \* what is typed
  CAPACITY,            \* of the first buffer (32)
  ZenFiles,            \* what the file may hold before, and what others write
  MaxTyped             \* bound: keys and sessions together

NUL == "nul"
JUNK_BYTE == "junk"
NoFile == <<"no file">>

VARIABLES
  zenfile,             \* NoFile or its bytes
  zen,                 \* where the editor is: "shell", "sized", "opened", "typing", "saving", "deleted"
  current_capacity, text_buffer, zcursor,
  typed,               \* history: the text on the screen
  beyond,              \* bytes behind the buffer up to the next NUL of the heap
  grown, brim,         \* history: the buffer has grown; the file read filled it to the brim
  saved,               \* history: the text of the last session, as the file should hold it
  zenKeys              \* history

zenVars == <<zenfile, zen, current_capacity, text_buffer, zcursor, typed, beyond, grown, brim, saved, zenKeys>>
zenText == <<current_capacity, text_buffer, zcursor, typed, beyond, grown, brim>>

ZenInit ==
  /\ zenfile \in ZenFiles /\ zen = "shell"
  /\ current_capacity = CAPACITY /\ text_buffer = <<>> /\ zcursor = 0
  /\ typed = <<>> /\ beyond = 0 /\ grown = FALSE /\ brim = FALSE /\ saved = zenfile /\ zenKeys = 0

\* sys_file_exists, sys_file_size: room for the file, and a buffer to type in.
zen_main ==
  /\ zen = "shell" /\ zenKeys < MaxTyped /\ zen' = "sized"
  /\ current_capacity' = IF zenfile # NoFile /\ Len(zenfile) >= CAPACITY THEN Len(zenfile) + CAPACITY ELSE CAPACITY
  /\ text_buffer' = <<>> /\ zcursor' = 0 /\ typed' = <<>>
  /\ zenKeys' = zenKeys + 1
  /\ UNCHANGED <<zenfile, beyond, grown, brim, saved>>

\* sys_alloc: nothing is done without a buffer; zen_memset.
ZenAlloc(ok) ==
  /\ zen = "sized" /\ zen' = IF ok THEN "opened" ELSE "shell"
  /\ text_buffer' = [i \in 1 .. current_capacity |-> NUL]
  /\ beyond' \in 0 .. 1
  /\ UNCHANGED <<zenfile, current_capacity, zcursor, typed, grown, brim, saved, zenKeys>>

\* zen_strlen: up to the first NUL, in the buffer or behind it.
zen_strlen(b) == Min({i - 1 : i \in {k \in 1 .. Len(b) : b[k] = NUL}} \cup {Len(b) + beyond})

\* sys_file_exists, sys_read_file_to_buffer, whose result is not looked at: a file that has
\* become too long for the buffer is not read.
Fits == Len(zenfile) <= current_capacity
ReadIn ==
  /\ zen = "opened" /\ zen' = "typing"
  /\ IF zenfile # NoFile /\ Fits
     THEN /\ text_buffer' = [i \in 1 .. current_capacity |-> IF i <= Len(zenfile) THEN zenfile[i] ELSE NUL]
          /\ zcursor' = zen_strlen(text_buffer') /\ typed' = zenfile
          /\ brim' = (Len(zenfile) = current_capacity)
     ELSE brim' = FALSE /\ UNCHANGED <<text_buffer, zcursor, typed>>
  /\ grown' = FALSE
  /\ UNCHANGED <<zenfile, current_capacity, beyond, saved, zenKeys>>

ZenKey == zen = "typing" /\ zenKeys < MaxTyped /\ zenKeys' = zenKeys + 1
ZenBackspace ==
  /\ ZenKey /\ zcursor > 0
  /\ zcursor' = zcursor - 1 /\ text_buffer' = [text_buffer EXCEPT ![zcursor] = NUL]
  /\ typed' = IF typed = <<>> THEN <<>> ELSE Front(typed)
  /\ UNCHANGED <<zenfile, zen, current_capacity, beyond, grown, brim, saved>>

\* A letter, with room for the NUL behind it.
MutFull == zcursor >= current_capacity
Full == zcursor >= current_capacity - 1
ZenType(c) ==
  /\ ZenKey /\ ~Full
  /\ text_buffer' = [text_buffer EXCEPT ![zcursor + 1] = c] /\ zcursor' = zcursor + 1
  /\ typed' = Append(typed, c)
  /\ UNCHANGED <<zenfile, zen, current_capacity, beyond, grown, brim, saved>>
\* sys_realloc: the new half is as the heap left it, here with that many bytes of old
\* data in front of NULs.
ZenGrow(c, left) ==
  /\ ZenKey /\ Full
  /\ text_buffer' = [i \in 1 .. 2 * current_capacity |->
                       IF i = zcursor + 1 THEN c ELSE IF i <= current_capacity THEN text_buffer[i] ELSE IF i <= current_capacity + left THEN JUNK_BYTE ELSE NUL]
  /\ current_capacity' = 2 * current_capacity /\ zcursor' = zcursor + 1
  /\ typed' = Append(typed, c) /\ grown' = TRUE
  /\ beyond' \in 0 .. 1
  /\ UNCHANGED <<zenfile, zen, brim, saved>>
\* No memory: the text so far is saved.
ZenNoMemory ==
  /\ ZenKey /\ Full /\ zen' = "saving"
  /\ UNCHANGED <<zenfile, zenText, saved>>
ZenEscape ==
  /\ zen = "typing" /\ zen' = "saving"
  /\ UNCHANGED <<zenfile, zenText, saved, zenKeys>>

\* fs_delete, then sys_create_file, which fails if another task made the file meanwhile,
\* or the disk is full.
ZenDelete ==
  /\ zen = "saving" /\ zen' = "deleted"
  /\ zenfile' = NoFile
  /\ UNCHANGED <<zenText, saved, zenKeys>>
Stored(b) == [i \in 1 .. zen_strlen(b) |-> IF i <= Len(b) THEN b[i] ELSE JUNK_BYTE]
ZenCreate(ok) ==
  /\ zen = "deleted" /\ zen' = "shell"
  /\ LET made == ok /\ zenfile = NoFile
     IN  /\ zenfile' = IF made THEN Stored(text_buffer) ELSE zenfile
         /\ saved' = IF made THEN typed ELSE zenfile
  /\ UNCHANGED <<zenText, zenKeys>>

\* Another task writes the file anew, or deletes it.
OtherWrites(f) ==
  /\ zen \in {"sized", "opened", "deleted"} /\ zenfile # f
  /\ zenfile' = f /\ saved' = f
  /\ UNCHANGED <<zen, zenText, zenKeys>>

ZenNext ==
  \/ zen_main \/ ReadIn \/ ZenBackspace \/ ZenNoMemory \/ ZenEscape \/ ZenDelete
  \/ \E ok \in BOOLEAN : ZenAlloc(ok) \/ ZenCreate(ok)
  \/ \E c \in Letters : ZenType(c)
  \/ \E c \in Letters, left \in {0, 1, current_capacity} : ZenGrow(c, left)
  \/ \E f \in ZenFiles : OtherWrites(f)
ZenSpec == ZenInit /\ [][ZenNext]_zenVars

-----------------------------------------------------------------------------
(* Properties *)

\* The text in the buffer is the text on the screen, however often it grew, and the
\* cursor leaves room for the NUL behind it.  What a session saves is that text; only
\* after the buffer has grown may what the heap held before follow it in the file.  The
\* exception is a file that another task makes just as long as the buffer, between the
\* question for its size and the read.
ZenTrue ==
  /\ zen \in {"typing", "saving", "deleted"} /\ ~brim =>
       /\ zcursor = Len(typed) /\ SubSeq(text_buffer, 1, zcursor) = typed
       /\ zcursor < current_capacity /\ Len(text_buffer) = current_capacity
       /\ ~grown => zen_strlen(text_buffer) = zcursor
  /\ zen = "shell" /\ zenfile # NoFile /\ ~brim =>
       /\ IsPrefix(saved, zenfile)
       /\ grown \/ zenfile = saved

-----------------------------------------------------------------------------
(* user_apps/terminal.c, the terminal window, and the prompt of             *)
(* apps/shell.c.  Both read a line, take the first word for a command and   *)
(* the rest for its argument; commands of more than one system call leave   *)
(* room for other tasks between two calls.  A line is a sequence of         *)
(* symbols: a command word is one symbol, and so is each letter of a name   *)
(* and each digit of a number.  A message is one symbol too.                *)

CONSTANTS
  TermLines,           \* lines typed into the window
  ShellLines,          \* lines typed at the prompt
  RootNames,           \* the files in the root directory, in its order
  AppNames,            \* the files that /apps/ may hold
  TermContents,        \* what a file may hold
  OUT_MAX,             \* TextEdit::MAX_TEXT
  READ_MAX,            \* bytes that baca allocates (8192)
  NAME_MAX,            \* letters taken of a program's name (27)
  PATH_CAP,            \* the array for its path (40)
  LINE_MAX,            \* letters of a line at the prompt (255)
  UINT_SPAN,           \* 2^32
  Rates,               \* that timer_set_refresh_rate knows
  Tids,                \* task numbers sys_spawn may return
  MaxCommands,         \* bound: lines entered
  MaxMeddling          \* bound: changes by other tasks

SPACE == " "
ENDLINE == "eol"
EXT == <<".", "e", "l", "f">>
APPS == <<"/apps/">>
DigitOf == [d \in {"0", "1", "2", "3", "4", "5", "6", "7", "8", "9"} |->
              CASE d = "0" -> 0 [] d = "1" -> 1 [] d = "2" -> 2 [] d = "3" -> 3 [] d = "4" -> 4
                [] d = "5" -> 5 [] d = "6" -> 6 [] d = "7" -> 7 [] d = "8" -> 8 [] OTHER -> 9]
NumeralOf(k) == CHOOSE d \in DOMAIN DigitOf : DigitOf[d] = k

VARIABLES
  disk,                \* what each path holds, NoFile if there is none
  term,                \* where the window's callback is
  term_arg, term_sz,   \* its argument or path; the size it asked for
  term_out,            \* the text of the window
  printed,             \* history: all that was appended since the last clear
  read_back,           \* history: the file when its size was asked and when it was read, and what was shown
  prompt_at,           \* where the shell is
  cmd_buffer, onscreen,\* the line at the prompt; history: what the screen shows of it
  hz,                  \* the refresh rate, and as it was typed
  ran,                 \* history: programs started: what was typed, and the file
  tid,                 \* the task sys_spawn returned last, and the numeral printed
  commands, meddled,
  seat                 \* which of the two is used: the other's changes of files are Meddle
termVars == <<seat, disk, term, term_arg, term_sz, term_out, printed, read_back, prompt_at,
              cmd_buffer, onscreen, hz, ran, tid, commands, meddled>>
windowVars == <<term, term_arg, term_sz, term_out, printed, read_back>>
promptVars == <<prompt_at, cmd_buffer, onscreen, hz>>

TermPaths == {<<n>> : n \in Range(RootNames)} \cup {APPS \o a : a \in AppNames}
TermInit ==
  /\ seat \in {"window", "prompt"}
  /\ \E f \in {NoFile, <<"a">>} : disk = [p \in TermPaths |-> f]
  /\ term = "idle" /\ term_arg = <<>> /\ term_sz = 0 /\ term_out = <<>> /\ printed = <<>>
  /\ read_back = [sized |-> <<>>, shown |-> <<>>, file |-> <<>>]
  /\ prompt_at = "keys" /\ cmd_buffer = <<>> /\ onscreen = <<>> /\ hz = [set |-> 100, typed |-> <<"1", "0", "0">>]
  /\ ran = {} /\ tid = [task |-> 0, shown |-> <<"0">>] /\ commands = 0 /\ meddled = 0

Kept(s, n) == SubSeq(s, 1, IF n < Len(s) THEN n ELSE Len(s))

\* The line up to its first space, and what is behind that space.
Spaces(l) == {i \in DOMAIN l : l[i] = SPACE}
Word(l) == IF Spaces(l) = {} THEN l ELSE SubSeq(l, 1, Min(Spaces(l)) - 1)
Argument(l) == IF Spaces(l) = {} THEN <<>> ELSE SubSeq(l, Min(Spaces(l)) + 1, Len(l))

\* num_to_str, itoa: the digits from the last to the first, then turned round.
num_to_str[n \in 0 .. UINT_SPAN - 1] ==
  IF n < 10 THEN <<NumeralOf(n)>> ELSE Append(num_to_str[n \div 10], NumeralOf(n % 10))
\* parse_uint: leading spaces are skipped, -1 stands for a refusal.
Unspaced(s) == LET k == {i \in DOMAIN s : s[i] # SPACE} IN IF k = {} THEN <<>> ELSE SubSeq(s, Min(k), Len(s))
parse_uint(s) ==
  LET t == Unspaced(s)
  IN  IF t = <<>> \/ \E i \in DOMAIN t : t[i] \notin DOMAIN DigitOf THEN -1
      ELSE FoldLeft(LAMBDA v, d : (v * 10 + DigitOf[d]) % UINT_SPAN, 0, t)

\* build_app_path, and the name start makes of its argument.
build_app_path(elf) == Kept(APPS \o elf, PATH_CAP - 1)
HasExt(s) == Len(s) >= 4 /\ SubSeq(s, Len(s) - 3, Len(s)) = EXT
ElfName(arg) == LET s == Kept(arg, NAME_MAX) IN IF HasExt(s) THEN s ELSE s \o EXT
Launch(arg, path, who) == [typed |-> arg, path |-> path, by |-> who]

-----------------------------------------------------------------------------
(* The terminal window *)

\* ui_textedit_append, as often as a command calls it.
Say(s) ==
  /\ printed' = printed \o s
  /\ term_out' = Kept(term_out \o s, OUT_MAX - 1)
outln(s) == Append(s, ENDLINE)
Echo(l) == <<"kyuzen@de> ">> \o outln(l)

\* on_enter: the line is shown, then the command runs.
Entered(l, next) ==
  /\ term = "idle" /\ commands < MaxCommands
  /\ commands' = commands + 1 /\ term' = next
  /\ UNCHANGED <<promptVars, meddled>>
Answers(l, reply) ==
  /\ Entered(l, "idle") /\ Say(Echo(l) \o reply)
  /\ UNCHANGED <<term_arg, term_sz, read_back, ran, tid>>
Goes(l, next, arg) ==
  /\ Entered(l, next) /\ Say(Echo(l)) /\ term_arg' = arg
  /\ UNCHANGED <<disk, term_sz, read_back, ran, tid>>
\* A later step of the same command ends it with a message.
Ends(reply) == term' = "idle" /\ Say(reply)

ASK == {"baca", "hapus", "mkdir", "ping", "start"}     \* commands that need an argument
FACTS == {"help", "fetch", "sched", "time"}            \* one that only prints
Known == ASK \cup FACTS \cup {"clear", "ls", "echo", "shutdown", "restart"}
Of(l, c) == Word(l) = <<c>>
\* Nothing entered, a command that prints, an argument left out, a word it does not know.
cmd_prints(l) ==
  /\ Answers(l, CASE l = <<>> -> <<>>
                  [] Of(l, "echo") /\ Argument(l) # <<>> -> outln(Argument(l))
                  [] \E c \in FACTS : Of(l, c) -> outln(<<"facts">>)
                  [] \E c \in ASK \cup {"echo"} : Of(l, c) -> outln(<<"usage">>)
                  [] OTHER -> <<"unknown">> \o outln(Word(l)))
  /\ \/ l = <<>> \/ Of(l, "echo") \/ \E c \in FACTS : Of(l, c)
     \/ (\E c \in ASK : Of(l, c)) /\ Argument(l) = <<>>
     \/ l # <<>> /\ \A c \in Known : ~Of(l, c)
  /\ UNCHANGED disk
cmd_clear(l) ==
  /\ Of(l, "clear") /\ Entered(l, "idle")
  /\ term_out' = <<>> /\ printed' = <<>>
  /\ UNCHANGED <<disk, term_arg, term_sz, read_back, ran, tid>>
cmd_ls(l) ==
  /\ Of(l, "ls")
  /\ LET here == SelectSeq(RootNames, LAMBDA n : disk[<<n>>] # NoFile)
     IN  \/ Answers(l, IF here = <<>> THEN outln(<<"kosong">>)
                       ELSE FlattenSeq([i \in DOMAIN here |-> outln(<<here[i]>>)]))
         \/ Answers(l, outln(<<"gagal">>))
  /\ UNCHANGED disk
\* The result of fs_delete is not looked at.
cmd_hapus(l) ==
  /\ Of(l, "hapus") /\ Argument(l) # <<>>
  /\ disk' = [p \in TermPaths |-> IF p = Argument(l) THEN NoFile ELSE disk[p]]
  /\ Answers(l, outln(<<"dihapus">>))
\* What the kernel answers to sys_mkdir and sys_ping.
cmd_call(l, ok) ==
  /\ Of(l, "mkdir") \/ Of(l, "ping")
  /\ Argument(l) # <<>>
  /\ Answers(l, outln(IF ok THEN <<"done">> ELSE <<"gagal">>))
  /\ UNCHANGED disk
cmd_power(l) ==
  /\ Of(l, "shutdown") \/ Of(l, "restart")
  /\ Goes(l, "off", <<>>)

Held(p) == IF p \in TermPaths THEN disk[p] ELSE NoFile

\* cmd_baca: sys_file_exists; sys_file_size and sys_alloc; sys_read_file_to_buffer.
cmd_baca(l) ==
  /\ Of(l, "baca") /\ Argument(l) # <<>>
  /\ IF Held(Argument(l)) = NoFile
     THEN Answers(l, outln(<<"tidak ada">>)) /\ UNCHANGED disk
     ELSE Goes(l, "size", Argument(l))
MutReadSize(n) == IF n >= READ_MAX THEN READ_MAX - 1 ELSE IF n > 0 THEN n - 1 ELSE 0
ReadSize(n) == IF n >= READ_MAX THEN READ_MAX - 1 ELSE n
BacaSize(ok) ==
  /\ term = "size"
  /\ term_sz' = IF Held(term_arg) = NoFile THEN 0 ELSE ReadSize(Len(Held(term_arg)))
  /\ IF ok THEN term' = "read" /\ UNCHANGED <<printed, term_out>> ELSE Ends(outln(<<"OOM">>))
  /\ read_back' = [sized |-> Held(term_arg), shown |-> <<>>, file |-> <<>>]
  /\ UNCHANGED <<disk, term_arg, ran, tid, commands, meddled, promptVars>>
\* The buffer is of zeros, one longer than the size; a file longer than that is not read.
BacaRead ==
  /\ term = "read"
  /\ LET f == Held(term_arg)
     IN  IF f # NoFile /\ Len(f) <= term_sz + 1
         THEN /\ Ends(outln(Kept(f, term_sz)))
              /\ read_back' = [read_back EXCEPT !.shown = Kept(f, term_sz), !.file = f]
         ELSE Ends(outln(<<"gagal">>)) /\ UNCHANGED read_back
  /\ UNCHANGED <<disk, term_arg, term_sz, ran, tid, commands, meddled, promptVars>>

\* cmd_start: sys_file_exists; sys_spawn, which looks for the file again.
cmd_start(l) ==
  /\ Of(l, "start") /\ Argument(l) # <<>>
  /\ IF Held(build_app_path(ElfName(Argument(l)))) = NoFile
     THEN Answers(l, outln(<<"tidak ada">>)) /\ UNCHANGED disk
     ELSE Goes(l, "spawn", Argument(l))
Spawned(arg, path, who, t) ==
  /\ ran' = ran \cup {Launch(arg, path, who)}
  /\ tid' = [task |-> t, shown |-> num_to_str[t]]
StartSpawn(ok, t) ==
  /\ term = "spawn"
  /\ LET path == build_app_path(ElfName(term_arg))
     IN  IF ok /\ Held(path) # NoFile
         THEN Spawned(term_arg, path, "start", t) /\ Ends(outln(ElfName(term_arg) \o num_to_str[t]))
         ELSE Ends(outln(<<"gagal">>)) /\ UNCHANGED <<ran, tid>>
  /\ UNCHANGED <<disk, term_arg, term_sz, read_back, commands, meddled, promptVars>>
-----------------------------------------------------------------------------
(* The prompt of the shell *)

\* A key is taken while there is room for it, and printed.
ShellKey(c) ==
  /\ prompt_at = "keys" /\ Len(cmd_buffer) < LINE_MAX /\ commands < MaxCommands
  /\ cmd_buffer' = Append(cmd_buffer, c) /\ onscreen' = Append(onscreen, c)
  /\ UNCHANGED <<windowVars, disk, prompt_at, hz, ran, tid, commands, meddled>>
ShellBackspace ==
  /\ prompt_at = "keys" /\ cmd_buffer # <<>>
  /\ cmd_buffer' = Front(cmd_buffer) /\ onscreen' = Front(onscreen)
  /\ commands < MaxCommands /\ commands' = commands + 1
  /\ UNCHANGED <<windowVars, disk, prompt_at, hz, ran, tid, meddled>>

\* The line is taken: the next one starts on an empty buffer.
ShellLine(next) ==
  /\ prompt_at = "keys" /\ commands < MaxCommands
  /\ commands' = commands + 1 /\ prompt_at' = next
  /\ UNCHANGED <<windowVars, disk, ran, tid, meddled>>
ShellDone ==
  /\ cmd_buffer' = <<>> /\ onscreen' = <<>>

\* start with a name, refresh with a number, or the name of a program.
PromptName(l) == IF Of(l, "start") THEN Argument(l) ELSE Word(l)
PromptPath(l) ==
  build_app_path(IF Of(l, "start") THEN ElfName(Argument(l)) ELSE Kept(Word(l), NAME_MAX) \o EXT)
ShellPrints ==
  /\ cmd_buffer = <<>> \/ (Spaces(cmd_buffer) = {} /\ \E c \in {"start", "refresh"} : Of(cmd_buffer, c))
  /\ ShellLine("keys") /\ ShellDone
  /\ UNCHANGED hz
ShellRefresh ==
  /\ Of(cmd_buffer, "refresh") /\ Spaces(cmd_buffer) # {}
  /\ ShellLine("keys") /\ ShellDone
  /\ LET n == parse_uint(Argument(cmd_buffer))
     IN  hz' = IF n \in Rates THEN [set |-> n, typed |-> Unspaced(Argument(cmd_buffer))] ELSE hz
Program == /\ cmd_buffer # <<>> /\ ~Of(cmd_buffer, "refresh")
           /\ Of(cmd_buffer, "start") => Spaces(cmd_buffer) # {}
ShellLooks ==
  /\ Program
  /\ IF Held(PromptPath(cmd_buffer)) = NoFile
     THEN ShellLine("keys") /\ ShellDone
     ELSE ShellLine("launch") /\ UNCHANGED <<cmd_buffer, onscreen>>
  /\ UNCHANGED hz
\* sys_spawn, or sys_exec, after which the prompt starts anew (Session).
ShellLaunch(ok, t) ==
  /\ prompt_at = "launch" /\ prompt_at' = "keys" /\ ShellDone
  /\ IF ok /\ Held(PromptPath(cmd_buffer)) # NoFile
     THEN Spawned(PromptName(cmd_buffer), PromptPath(cmd_buffer),
                  IF Of(cmd_buffer, "start") THEN "start" ELSE "word", t)
     ELSE UNCHANGED <<ran, tid>>
  /\ UNCHANGED <<windowVars, disk, hz, commands, meddled>>

\* Another task writes a file, or deletes it, between two system calls.
Meddle(p, f) ==
  /\ meddled < MaxMeddling /\ (term # "idle" \/ prompt_at # "keys")
  /\ disk[p] # f /\ disk' = [disk EXCEPT ![p] = f]
  /\ meddled' = meddled + 1
  /\ UNCHANGED <<windowVars, promptVars, ran, tid, commands>>

Typing(c) == \E l \in ShellLines : IsPrefix(Append(cmd_buffer, c), l)
WindowNext ==
  \/ \E l \in TermLines :
       \/ cmd_prints(l) \/ cmd_clear(l) \/ cmd_ls(l) \/ cmd_hapus(l) \/ cmd_power(l)
       \/ cmd_baca(l) \/ cmd_start(l) \/ \E ok \in BOOLEAN : cmd_call(l, ok)
  \/ BacaRead
  \/ \E ok \in BOOLEAN : BacaSize(ok)
  \/ \E ok \in BOOLEAN, t \in Tids : StartSpawn(ok, t)
PromptNext ==
  \/ \E ok \in BOOLEAN, t \in Tids : ShellLaunch(ok, t)
  \/ \E c \in UNION {Range(l) : l \in ShellLines} : Typing(c) /\ ShellKey(c)
  \/ ShellBackspace \/ ShellPrints \/ ShellRefresh \/ ShellLooks
TermNext ==
  /\ UNCHANGED seat
  /\ \/ seat = "window" /\ WindowNext
     \/ seat = "prompt" /\ PromptNext
     \/ \E p \in TermPaths, f \in TermContents : Meddle(p, f)
TermSpec == TermInit /\ [][TermNext]_termVars

\* The window holds what its commands printed since it was cleared, until it is full.
\* baca shows the file as it is when it is read: all of it if it is shorter than the buffer
\* and was not touched since its size was asked, and never more than one letter too few.  The
\* program that is started, from the window or the prompt, is the one whose name was
\* typed, with or without its ending, for every name that is not cut; and the path is never
\* cut behind it.  The refresh rate is the number typed unless that overflows, and the task
\* number shown is the task that runs.
ValueOf(s) == FoldLeft(LAMBDA v, d : v * 10 + DigitOf[d], 0, s)
TermTrue ==
  /\ term_out = Kept(printed, OUT_MAX - 1)
  /\ IsPrefix(read_back.shown, read_back.file) /\ Len(read_back.file) - Len(read_back.shown) <= 1
  /\ read_back.file = read_back.sized /\ Len(read_back.file) < READ_MAX => read_back.shown = read_back.file
  /\ \A r \in ran :
       /\ HasExt(r.path)
       /\ Len(r.typed) <= NAME_MAX =>
            r.path = IF r.by # "word" /\ HasExt(r.typed) THEN APPS \o r.typed ELSE APPS \o r.typed \o EXT
  /\ onscreen = cmd_buffer
  /\ ValueOf(hz.typed) < UINT_SPAN => hz.set = ValueOf(hz.typed)
  /\ parse_uint(tid.shown) = tid.task

-----------------------------------------------------------------------------
(* kernel/string.c.  Pointers are places of one small arena whose last byte *)
(* is a NUL that no call overwrites, so that every string in it ends.       *)

CONSTANTS
  ARENA,               \* its bytes before any call
  MaxStrings           \* bound: calls

VARIABLES
  arena,               \* its bytes now
  intended,            \* history: as the calls promise them
  unsafe,              \* history: a memcpy ran forward into its own source
  strings              \* calls
stringVars == <<arena, intended, unsafe, strings>>

StringInit == arena = ARENA /\ intended = ARENA /\ unsafe = FALSE /\ strings = 0

\* A loop that copies byte by byte, in the order given.
CopyLoop(d, s, order) == FoldLeft(LAMBDA a, i : [a EXCEPT ![d + i] = a[s + i]], arena, order)
Upward(n) == [i \in 1 .. n |-> i - 1]
Downward(n) == [i \in 1 .. n |-> n - i]
memcpy(d, s, n) == CopyLoop(d, s, Upward(n))
MutMemmove(d, s, n) == CopyLoop(d, s, Upward(n))
memmove(d, s, n) ==
  IF d = s \/ n = 0 THEN arena
  ELSE IF d < s \/ d >= s + n THEN CopyLoop(d, s, Upward(n))
  ELSE CopyLoop(d, s, Downward(n))
memset(d, c, n) == FoldLeft(LAMBDA a, i : [a EXCEPT ![d + i] = c], arena, Upward(n))
strlen(s) == Min({k \in 0 .. Len(arena) - s : arena[s + k] = 0})
\* Up to the NUL of the source, then NULs.
strncpy(d, s, n) ==
  LET copied == IF strlen(s) < n THEN strlen(s) ELSE n
      a == CopyLoop(d, s, Upward(copied))
  IN  FoldLeft(LAMBDA b, i : IF i < copied THEN b ELSE [b EXCEPT ![d + i] = 0], a, Upward(n))

\* The loops of the comparisons stop at the first place where they can tell.
memcmp(p, q, n) ==
  LET differ == {i \in 0 .. n - 1 : arena[p + i] # arena[q + i]}
  IN  IF differ = {} THEN 0 ELSE arena[p + Min(differ)] - arena[q + Min(differ)]
Stops(p, q) == {i \in 0 .. Len(arena) - Max({p, q}) : arena[p + i] = 0 \/ arena[p + i] # arena[q + i]}
strcmp(p, q) == arena[p + Min(Stops(p, q))] - arena[q + Min(Stops(p, q))]
strncmp(p, q, n) == IF n = 0 \/ n <= Min(Stops(p, q)) THEN 0 ELSE strcmp(p, q)

\* What they promise: the bytes of the source as they were before the call.
MovedTo(d, s, n) == [i \in DOMAIN intended |-> IF i \in d .. d + n - 1 THEN intended[s + i - d] ELSE intended[i]]
Bytes(s) == SubSeq(arena, s, s + Min({k \in 0 .. Len(arena) - s : arena[s + k] = 0}) - 1)

Call == strings < MaxStrings /\ strings' = strings + 1
CallMove(d, s, n) ==
  /\ Call /\ arena' = memmove(d, s, n)
  /\ intended' = MovedTo(d, s, n) /\ UNCHANGED unsafe
CallCopy(d, s, n) ==
  /\ Call /\ arena' = memcpy(d, s, n)
  /\ intended' = MovedTo(d, s, n)
  /\ unsafe' = (unsafe \/ d \in s + 1 .. s + n - 1)
CallSet(d, c, n) ==
  /\ Call /\ arena' = memset(d, c, n)
  /\ intended' = [i \in DOMAIN intended |-> IF i \in d .. d + n - 1 THEN c ELSE intended[i]]
  /\ UNCHANGED unsafe
CallNCopy(d, s, n) ==
  /\ Call /\ (d + n <= s \/ s + strlen(s) < d)
  /\ arena' = strncpy(d, s, n)
  /\ intended' = [i \in DOMAIN intended |->
                    IF i \notin d .. d + n - 1 THEN intended[i]
                    ELSE IF i - d < Len(Bytes(s)) THEN Bytes(s)[(i - d) + 1] ELSE 0]
  /\ UNCHANGED unsafe

StringNext ==
  \E d, s \in 1 .. Len(ARENA) - 1, n \in 0 .. Len(ARENA) - 1 :
    /\ d + n <= Len(ARENA) /\ s + n <= Len(ARENA)
    /\ CallMove(d, s, n) \/ CallCopy(d, s, n) \/ CallNCopy(d, s, n) \/ CallSet(d, ARENA[s], n)
StringSpec == StringInit /\ [][StringNext]_stringVars

\* memmove gives the bytes the source had before the call however the two overlap, memcpy
\* does so when it does not run forward into its source, and strncpy fills up with NULs.
\* strcmp is zero exactly for equal strings and orders them as a dictionary does; memcmp and
\* strncmp do so for as many bytes as they are given.
Before(a, b) ==
  \/ Len(a) < Len(b) /\ a = SubSeq(b, 1, Len(a))
  \/ \E k \in 1 .. Len(a) : k <= Len(b) /\ a[k] < b[k] /\ SubSeq(a, 1, k - 1) = SubSeq(b, 1, k - 1)
StringsTrue ==
  ~unsafe =>
    /\ arena = intended
    /\ \A p, q \in DOMAIN arena :
         /\ (strcmp(p, q) = 0) = (Bytes(p) = Bytes(q))
         /\ (strcmp(p, q) < 0) = Before(Bytes(p), Bytes(q))
         /\ \A n \in 0 .. Len(arena) - Max({p, q}) :
              /\ (memcmp(p, q, n) = 0) = (SubSeq(arena, p, p + n - 1) = SubSeq(arena, q, q + n - 1))
              /\ (strncmp(p, q, n) = 0) = (Kept(Bytes(p), n) = Kept(Bytes(q), n))

=============================================================================
