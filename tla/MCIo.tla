-------------------------------- MODULE MCIo --------------------------------
(* Devices for TLC: the file system, the descriptors above it and the disk  *)
(* driver below it; sockets, ping and the network card; the compositor and  *)
(* the GPU driver; keyboard, mouse and text console.  Side by side: unit is *)
(* the one that moves in a behaviour, the others stay as they were.         *)
EXTENDS KyuzenFS, VfsFd, Ata, NetSock, Ping, Nic, Display, Gpu, Syscall,
        Input, Tty

VARIABLE unit

-----------------------------------------------------------------------------
(* Instances *)

\* KyuzenFS: two names at the root, of which one may be a folder with a file in it;
\* an empty file, one of a sector and one of two.
MCPaths    == {<<"a">>, <<"b">>, <<"a", "b">>}
MCContents == {<<>>, <<1>>, <<2, 1>>}

\* VfsFd: a path of more than 22 characters, and what path_copy leaves of it.
MCNames    == {"short", "long"}
MCShort(n) == "short"
MCFlags    == {{"RDWR", "CREAT"}, {"WRONLY", "CREAT", "TRUNC"}, {"RDWR", "APPEND"}}

\* Ping: the callers share a CPU.
MCCpuOf(t) == 0

\* Display: inside, half off at the lower right, half off at the left.
MCDrawRects == {R(0, 0, 1, 1), R(2, 1, 2, 2), R(-1, 0, 2, 2)}

\* Gpu: memory for nothing, for the queues only, for one surface, and with a gap.
MCFreePages == {1 .. 3, 1 .. 9, 1 .. 12, (1 .. 14) \ {11}}
MCScreens(n) == n = 2

\* Syscall: a buffer of two bytes, and a null pointer.
MCBuffers == [room : {-1, 2}, ring0 : {FALSE}]

\* Input: two keys of one scan code apart from the prefix, and a letter.
MCKeys == {[code |-> "1D", ext |-> FALSE, mod |-> "ctrl", text |-> FALSE],
           [code |-> "1D", ext |-> TRUE, mod |-> "ctrl", text |-> FALSE],
           [code |-> "a", ext |-> FALSE, mod |-> "none", text |-> TRUE]}

\* Mouse: no motion, a small one with the wheel, one that overflows.
MCMotions == {<<0, 0, 0>>, <<1, -2, 1>>, <<5, 1, 0>>}
MCDeltas == {-1, 1}
MCOwner(x, y) == IF x > 1 THEN 1 ELSE -1

-----------------------------------------------------------------------------
MCInit ==
  /\ unit \in {"kfs", "vfs", "ata", "socket", "ping", "nic", "display", "gpu", "syscall",
               "input", "tty", "mouse"}
  /\ VfsInit /\ (unit = "vfs" \/ \A n \in Names : store[n] = {})
  /\ AtaInit /\ (unit = "ata" \/ \A l \in LBAS, i \in 1 .. WORDS : sectors[l][i] = 0)
  /\ DisplayInit /\ (unit = "display" \/ surface = <<>>)
  /\ GpuInit /\ (unit = "gpu" \/ pmm = 1 .. 3)
  /\ SyscallInit /\ (unit = "syscall" \/ kfile = {})
  /\ MouseInit /\ (unit = "mouse" \/ mouse_has_wheel)
  /\ Init /\ NetInit /\ PingInit /\ NicInit /\ InputInit /\ TtyInit
MCNext ==
  \/ unit = "kfs" /\ Next
       /\ UNCHANGED <<unit, vfsVars, ataVars, netVars, pingVars, nicVars, displayVars, gpuVars, callVars,
                      inputVars, ttyVars, mouseVars>>
  \/ unit = "vfs" /\ VfsNext
       /\ UNCHANGED <<unit, vars, ataVars, netVars, pingVars, nicVars, displayVars, gpuVars, callVars,
                      inputVars, ttyVars, mouseVars>>
  \/ unit = "ata" /\ AtaNext
       /\ UNCHANGED <<unit, vars, vfsVars, netVars, pingVars, nicVars, displayVars, gpuVars, callVars,
                      inputVars, ttyVars, mouseVars>>
  \/ unit = "socket" /\ NetNext
       /\ UNCHANGED <<unit, vars, vfsVars, ataVars, pingVars, nicVars, displayVars, gpuVars, callVars,
                      inputVars, ttyVars, mouseVars>>
  \/ unit = "ping" /\ PingNext
       /\ UNCHANGED <<unit, vars, vfsVars, ataVars, netVars, nicVars, displayVars, gpuVars, callVars,
                      inputVars, ttyVars, mouseVars>>
  \/ unit = "nic" /\ NicNext
       /\ UNCHANGED <<unit, vars, vfsVars, ataVars, netVars, pingVars, displayVars, gpuVars, callVars,
                      inputVars, ttyVars, mouseVars>>
  \/ unit = "display" /\ DisplayNext
       /\ UNCHANGED <<unit, vars, vfsVars, ataVars, netVars, pingVars, nicVars, gpuVars, callVars,
                      inputVars, ttyVars, mouseVars>>
  \/ unit = "gpu" /\ GpuNext
       /\ UNCHANGED <<unit, vars, vfsVars, ataVars, netVars, pingVars, nicVars, displayVars, callVars,
                      inputVars, ttyVars, mouseVars>>
  \/ unit = "syscall" /\ SyscallNext
       /\ UNCHANGED <<unit, vars, vfsVars, ataVars, netVars, pingVars, nicVars, displayVars, gpuVars,
                      inputVars, ttyVars, mouseVars>>
  \/ unit = "input" /\ InputNext
       /\ UNCHANGED <<unit, vars, vfsVars, ataVars, netVars, pingVars, nicVars, displayVars, gpuVars,
                      callVars, ttyVars, mouseVars>>
  \/ unit = "tty" /\ TtyNext
       /\ UNCHANGED <<unit, vars, vfsVars, ataVars, netVars, pingVars, nicVars, displayVars, gpuVars,
                      callVars, inputVars, mouseVars>>
  \/ unit = "mouse" /\ MouseNext
       /\ UNCHANGED <<unit, vars, vfsVars, ataVars, netVars, pingVars, nicVars, displayVars, gpuVars,
                      callVars, inputVars, ttyVars>>
MCSpec ==
  MCInit /\ [][MCNext]_<<unit, vars, vfsVars, ataVars, netVars, pingVars, nicVars,
                         displayVars, gpuVars, callVars, inputVars, ttyVars, mouseVars>>

\* One unit by itself.
VfsAlone == unit = "vfs" /\ MCSpec
PingAlone == unit = "ping" /\ MCSpec

-----------------------------------------------------------------------------
(* Properties.  Those of the file system are evaluated where it moves. *)

\* The image after any sequence of calls and power cuts: files that do not overlap, a
\* FAT without sectors that belong to nobody, and a count that is right.
FsSound == unit = "kfs" => TypeOK /\ WellFormed /\ NoLeak /\ CountExact

\* What was stored is what is read, across power cuts outside the windows.
FsReadBack == unit = "kfs" => ReadBack

\* A buffer of a descriptor or of a call is neither lost nor shared, and what reaches the
\* file or the caller was read or written: no heap junk, and no input taken and dropped.
BuffersSound == BuffersAccounted /\ NoJunkInFile /\ InputReachesReader /\ BouncesReturned

\* The console as the user knows it: the text of the terminal through scrolling back
\* (tty.c) and the pointer with its buttons (mouse.c).
ConsoleTrue == ScrollbackFaithful /\ CursorTrue

=============================================================================
