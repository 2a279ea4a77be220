------------------------------- MODULE VfsFd -------------------------------
(***************************************************************************)
(* kernel/vfs_fd.c: file descriptors over KyuzenFS, and the file calls of  *)
(* kernel/syscall.c that reach KyuzenFS directly.                          *)
(*                                                                         *)
(* The tasks run on different CPUs.  A call of KyuzenFS is one section     *)
(* under fs_lock and is seen here by what it promises (files of module     *)
(* KyuzenFS): a path holds nothing, a file or a folder.  vfs_lock guards   *)
(* the table.  vfs_open makes its calls of KyuzenFS before it takes        *)
(* vfs_lock, and a flush makes two while it holds it, so that a call of    *)
(* another task may come between any two of them.                          *)
(*                                                                         *)
(* A byte is the task that wrote it, or JUNK: what kmalloc and krealloc    *)
(* leave in memory nobody has written.  A descriptor has two history       *)
(* fields: opened is the path the caller gave, odd says that a seek went   *)
(* past the end (then or in an earlier life of the file), or that the file *)
(* was shorter when it was read than when its size was asked.              *)
(* Names that start with Mut are slips of the code.                        *)
(***************************************************************************)
EXTENDS Integers, Sequences, FiniteSets, FiniteSetsExt

CONSTANTS
  VTASKS,        \* task ids
  VFS_MAX_FDS,   \* 16
  MIN_CAP,       \* 64
  UINT32_MAX,    \* 2^32 - 1
  Names,         \* the paths of the callers
  Short(_),      \* path_copy: the path cut to VFS_MAX_PATH - 1 characters
  OpenFlags,     \* sets of flags the callers pass
  Counts,        \* lengths of a write
  MaxFileCalls   \* bound on the calls

ASSUME VfsAssumption ==
  /\ VFS_MAX_FDS \in Nat \ {0} /\ MIN_CAP \in Nat \ {0} /\ UINT32_MAX \in Nat
  /\ \A n \in Names : Short(n) \in Names
  /\ Counts \subseteq Nat /\ MaxFileCalls \in Nat

VARIABLES
  store,       \* KyuzenFS: path -> {} or one object
  fds,         \* the table: task -> fd -> {} or one descriptor
  vfs_lock,    \* {} or the task that holds it
  opening,     \* task -> {} or the vfs_open it is in
  closing,     \* task -> the fds it still has to close, under vfs_lock
  deleted,     \* the flush has passed kfs_delete_file
  bufs,        \* history: heap buffers allocated and not freed
  fileCalls    \* history: calls made

vfsVars == <<store, fds, vfs_lock, opening, closing, deleted, bufs, fileCalls>>

JUNK == "junk"
Fds  == 0 .. VFS_MAX_FDS - 1
File(c) == [kind |-> "file", content |-> c]
Folder  == [kind |-> "folder", content |-> <<>>]
Junk(n) == [i \in 1 .. n |-> JUNK]
\* kfs_get_file_size: 0 for a folder and for nothing.
SizeOf(p) == IF store[p] = {} THEN 0 ELSE Len((CHOOSE o \in store[p] : TRUE).content)

VfsInit ==
  /\ store \in [Names -> {{}} \cup {{File(<<t, t>>)} : t \in VTASKS}]
  /\ fds = [t \in VTASKS |-> [f \in Fds |-> {}]]
  /\ vfs_lock = {}
  /\ opening = [t \in VTASKS |-> {}]
  /\ closing = [t \in VTASKS |-> <<>>]
  /\ deleted = FALSE
  /\ bufs = 0
  /\ fileCalls = 0

-----------------------------------------------------------------------------
(* Calls *)

\* The task is in no call.
Outside(t) == opening[t] = {} /\ closing[t] = <<>>
NewCall(t) ==
  /\ Outside(t)
  /\ fileCalls < MaxFileCalls
  /\ fileCalls' = fileCalls + 1

\* vfs_open, up to kfs_exists.
vfs_open(t, p, flags) ==
  /\ NewCall(t)
  /\ store[p] # {} \/ "CREAT" \in flags
  /\ opening' = [opening EXCEPT ![t] =
       {[at |-> "size", path |-> p, flags |-> flags, exists |-> store[p] # {}]}]
  /\ UNCHANGED <<store, fds, vfs_lock, closing, deleted, bufs>>

\* kfs_get_file_size, and the buffer; kmalloc may have no memory.
OpenSize(t) ==
  \E o \in opening[t] :
    /\ o.at = "size"
    /\ LET n == IF o.exists THEN SizeOf(o.path) ELSE 0
       IN  \/ /\ opening' = [opening EXCEPT ![t] =
                    {[at |-> "read", path |-> o.path, flags |-> o.flags, exists |-> o.exists,
                      fsize |-> n, buf |-> Junk(Max({n, MIN_CAP})), odd |-> FALSE]}]
              /\ bufs' = bufs + 1
           \/ opening' = [opening EXCEPT ![t] = {}] /\ UNCHANGED bufs
    /\ UNCHANGED <<store, fds, vfs_lock, closing, deleted, fileCalls>>

\* What an open that reads nothing starts with: O_TRUNC, or a new file.
StartsEmpty(o) == [o EXCEPT !.at = "install", !.fsize = 0]
\* kfs_read_to_buffer has put the content at the start of the buffer.
ReadsIn(o, c) ==
  [o EXCEPT !.at = "install",
            !.buf = [i \in 1 .. Len(o.buf) |-> IF i <= Len(c) THEN c[i] ELSE o.buf[i]],
            !.odd = Len(c) < o.fsize \/ \E i \in 1 .. Len(c) : c[i] = JUNK]

\* kfs_read_to_buffer; it fails on a path that is gone or no longer fits.
OpenRead(t) ==
  \E o \in opening[t] :
    /\ o.at = "read"
    /\ \/ /\ ~(o.exists /\ "TRUNC" \notin o.flags /\ o.fsize > 0)
          /\ opening' = [opening EXCEPT ![t] = {StartsEmpty(o)}]
          /\ UNCHANGED bufs
       \/ /\ o.exists /\ "TRUNC" \notin o.flags /\ o.fsize > 0
          /\ \E x \in store[o.path] :
               /\ Len(x.content) <= Len(o.buf)
               /\ opening' = [opening EXCEPT ![t] = {ReadsIn(o, x.content)}]
          /\ UNCHANGED bufs
       \/ /\ o.exists /\ "TRUNC" \notin o.flags /\ o.fsize > 0
          /\ \A x \in store[o.path] : Len(x.content) > Len(o.buf)
          /\ opening' = [opening EXCEPT ![t] = {}]
          /\ bufs' = bufs - 1
    /\ UNCHANGED <<store, fds, vfs_lock, closing, deleted, fileCalls>>

\* The descriptor that vfs_open fills in.
Opened(o) ==
  [path |-> Short(o.path), buf |-> o.buf, size |-> o.fsize,
   pos |-> IF "APPEND" \in o.flags THEN o.fsize ELSE 0, flags |-> o.flags,
   dirty |-> ~o.exists \/ "TRUNC" \in o.flags, opened |-> o.path, odd |-> o.odd]

\* The table is full: the buffer is freed.
MutNoSlot == UNCHANGED bufs
NoSlot == bufs' = bufs - 1

\* The section of vfs_open under vfs_lock.
OpenInstall(t) ==
  \E o \in opening[t] :
    /\ o.at = "install" /\ vfs_lock = {}
    /\ LET free == {f \in Fds : fds[t][f] = {}}
       IN  \/ /\ free # {}
              /\ fds' = [fds EXCEPT ![t][Min(free)] = {Opened(o)}]
              /\ UNCHANGED bufs
           \/ free = {} /\ NoSlot /\ UNCHANGED fds
    /\ opening' = [opening EXCEPT ![t] = {}]
    /\ UNCHANGED <<store, vfs_lock, closing, deleted, fileCalls>>

\* A call that works on one descriptor under vfs_lock.
OnFd(t, f, vf) ==
  /\ NewCall(t)
  /\ vfs_lock = {}
  /\ vf \in fds[t][f]
  /\ UNCHANGED <<store, vfs_lock, opening, closing, deleted, bufs>>

vfs_read(t, f, count) ==
  \E vf \in fds[t][f] :
    /\ OnFd(t, f, vf)
    /\ "WRONLY" \notin vf.flags
    /\ fds' = [fds EXCEPT ![t][f] =
         {[vf EXCEPT !.pos = @ + Min({count, Max({vf.size - vf.pos, 0})})]}]

\* ensure_cap: the capacity doubles, in 32 bits, until need fits.
Doublings(cap) == {cap * 2^k : k \in 0 .. UINT32_MAX} \cap 0 .. UINT32_MAX
NewCap(cap, need) ==
  IF need <= cap THEN {cap}
  ELSE {c \in Doublings(cap) : c >= need /\ (c \div 2 < need)}

\* krealloc keeps the bytes of the old buffer.
Grown(vf, c) == [i \in 1 .. c |-> IF i <= Len(vf.buf) THEN vf.buf[i] ELSE JUNK]

\* vfs_write, of count bytes.  krealloc may have no memory; O_APPEND has then
\* already moved the position.
vfs_write(t, f, count) ==
  \E vf \in fds[t][f] :
    /\ OnFd(t, f, vf)
    /\ vf.flags \cap {"WRONLY", "RDWR"} # {}
    /\ LET pos == IF "APPEND" \in vf.flags THEN vf.size ELSE vf.pos
       IN  \/ \E c \in NewCap(Len(vf.buf), pos + count) :
                fds' = [fds EXCEPT ![t][f] =
                  {[vf EXCEPT !.buf = [i \in 1 .. c |-> IF i \in pos + 1 .. pos + count THEN t
                                                        ELSE Grown(vf, c)[i]],
                              !.pos = pos + count, !.size = Max({vf.size, pos + count}),
                              !.dirty = TRUE, !.odd = @ \/ pos > vf.size]}]
           \/ /\ pos + count > Len(vf.buf)
              /\ fds' = [fds EXCEPT ![t][f] = {[vf EXCEPT !.pos = pos]}]

\* vfs_lseek; the three origins reach every position.
vfs_lseek(t, f, pos) ==
  \E vf \in fds[t][f] :
    /\ OnFd(t, f, vf)
    /\ pos \in 0 .. UINT32_MAX
    /\ fds' = [fds EXCEPT ![t][f] = {[vf EXCEPT !.pos = pos]}]

-----------------------------------------------------------------------------
(* Closing *)

\* vfs_close of one descriptor, vfs_close_all of every one: vfs_lock is taken.
Close(t, todo) ==
  /\ NewCall(t)
  /\ vfs_lock = {}
  /\ todo # <<>>
  /\ vfs_lock' = {t}
  /\ closing' = [closing EXCEPT ![t] = todo]
  /\ UNCHANGED <<store, fds, opening, deleted, bufs>>
vfs_close(t, f) == fds[t][f] # {} /\ Close(t, <<f>>)
vfs_close_all(t) ==
  Close(t, SelectSeq([i \in 1 .. VFS_MAX_FDS |-> i - 1], LAMBDA f : fds[t][f] # {}))

\* The descriptor that is being closed.
Closing(t) == IF closing[t] = <<>> THEN {} ELSE fds[t][Head(closing[t])]

\* flush_locked: kfs_exists and kfs_delete_file, which refuses a folder.
FlushDelete(t) ==
  \E vf \in Closing(t) :
    /\ vf.dirty /\ ~deleted
    /\ deleted' = TRUE
    /\ store' = [store EXCEPT ![vf.path] = @ \cap {Folder}]
    /\ UNCHANGED <<fds, vfs_lock, opening, closing, bufs, fileCalls>>

\* The buffer is freed and the slot given up; the last one releases vfs_lock.
SlotFreed(t) ==
  /\ fds' = [fds EXCEPT ![t][Head(closing[t])] = {}]
  /\ closing' = [closing EXCEPT ![t] = Tail(@)]
  /\ bufs' = bufs - 1
  /\ deleted' = FALSE
  /\ vfs_lock' = IF Len(closing[t]) = 1 THEN {} ELSE vfs_lock
  /\ UNCHANGED <<opening, fileCalls>>

\* flush_locked: kfs_create_file, whose failure nobody sees: the path may be
\* taken again or a folder, and the disk may be full.
FlushCreate(t) ==
  \E vf \in Closing(t) :
    /\ vf.dirty /\ deleted
    /\ \/ store[vf.path] = {} /\ store' = [store EXCEPT ![vf.path] = {File(SubSeq(vf.buf, 1, vf.size))}]
       \/ UNCHANGED store
    /\ SlotFreed(t)
CloseClean(t) ==
  \E vf \in Closing(t) : ~vf.dirty /\ UNCHANGED store /\ SlotFreed(t)

-----------------------------------------------------------------------------
(* sys_create_file, sys_mkdir, sys_fs_delete, sys_fs_format: KyuzenFS alone. *)
FsCall(t, after) ==
  /\ NewCall(t)
  /\ store' = after
  /\ UNCHANGED <<fds, vfs_lock, opening, closing, deleted, bufs>>
sys_create_file(t, p, n) ==
  store[p] = {} /\ FsCall(t, [store EXCEPT ![p] = {File([i \in 1 .. n |-> t])}])
sys_mkdir(t, p) == store[p] = {} /\ FsCall(t, [store EXCEPT ![p] = {Folder}])
sys_fs_delete(t, p) == store[p] \ {Folder} # {} /\ FsCall(t, [store EXCEPT ![p] = {}])
sys_fs_format(t) == FsCall(t, [p \in Names |-> {}])

VfsStep(t) ==
  \/ \E p \in Names, flags \in OpenFlags : vfs_open(t, p, flags)
  \/ OpenSize(t) \/ OpenRead(t) \/ OpenInstall(t)
  \/ \E f \in Fds, n \in Counts : vfs_read(t, f, n) \/ vfs_write(t, f, n)
  \/ \E f \in Fds, pos \in 0 .. UINT32_MAX : vfs_lseek(t, f, pos)
  \/ \E f \in Fds : vfs_close(t, f)
  \/ vfs_close_all(t)
  \/ FlushDelete(t) \/ FlushCreate(t) \/ CloseClean(t)
  \/ \E p \in Names, n \in Counts : sys_create_file(t, p, n)
  \/ \E p \in Names : sys_mkdir(t, p) \/ sys_fs_delete(t, p)
  \/ sys_fs_format(t)
VfsNext == \E t \in VTASKS : VfsStep(t)
VfsSpec == VfsInit /\ [][VfsNext]_vfsVars

-----------------------------------------------------------------------------
(* Properties *)

Descriptors == UNION {fds[t][f] : t \in VTASKS, f \in Fds}

\* Every buffer belongs to a descriptor or to a vfs_open that is under way, and no
\* descriptor lost its own, on the error paths of vfs_open and of a close too;
\* the valid bytes of a descriptor lie within its buffer.
BuffersAccounted ==
  /\ bufs = Cardinality({<<t, f>> \in VTASKS \X Fds : fds[t][f] # {}})
              + Cardinality({t \in VTASKS : \E o \in opening[t] : o.at # "size"})
  /\ \A vf \in Descriptors : vf.size <= Len(vf.buf)

\* Memory nobody has written never becomes file content: the valid bytes of a
\* descriptor were read from the file or written by a task, unless a seek past the
\* end left a hole or the file changed its size while vfs_open was loading it.
NoJunkInFile == \A vf \in Descriptors : ~vf.odd => \A i \in 1 .. vf.size : vf.buf[i] # JUNK

\* A close writes the file that was opened, and no other: vfs.h has descriptors
\* "over KyuzenFS" that "close flushes back if dirty".
CloseKeepsOthers ==
  [][\A t \in VTASKS : \A vf \in Closing(t) :
       (FlushDelete(t) \/ FlushCreate(t)) => \A p \in Names \ {vf.opened} : store'[p] = store[p]]_vfsVars

=============================================================================
