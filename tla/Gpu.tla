-------------------------------- MODULE Gpu --------------------------------
(***************************************************************************)
(* The VirtIO-GPU backend of the graphics layer: graphics/ghal.c picks it  *)
(* when drivers/graphics/hw can bring the device up; graphics/backend/     *)
(* virtio_gpu.c turns surfaces into device resources with commands, which  *)
(* virtio_gpu_dev.c copies into one buffer and sends through the split     *)
(* virtqueue of virtqueue.c, one at a time, polling for the answer.        *)
(*                                                                         *)
(* The poll gives up after a while, and the device may answer later: it    *)
(* then runs what the buffer holds by that time.  The ring of available    *)
(* chains is a sequence, which num_free keeps shorter than the ring.       *)
(*                                                                         *)
(* Names that start with Mut are slips of the code.                        *)
(***************************************************************************)
EXTENDS Integers, Sequences, FiniteSets, SequencesExt

CONSTANTS
  QSIZE,               \* descriptors of the control queue
  FreePages,           \* the sets of pages that may be free at first
  QueuePages,          \* pages of a virtqueue: descriptors, available, used
  BufferPages,         \* VGPU_CMD_MAX_PAGES
  Sizes,               \* pages of a surface
  Screens(_),          \* is a surface of this size the size of the scanout
  MaxCommands,         \* bound: commands sent
  MaxSurfaces          \* bound: surfaces created

ASSUME GpuAssumption ==
  QSIZE \in Nat \ {0} /\ QueuePages \in Nat \ {0} /\ BufferPages \in Nat \ {0} /\ Sizes \subseteq Nat \ {0}

NOTHING == [op |-> "none"]

VARIABLES
  g_active,            \* the step of the bring-up, then "virtio-gpu" or "software"
  pmm,                 \* free pages
  driver_pages,                \* pages of the queues and of the command buffers, in order
  vq,                  \* [free_head, num_free, last_count, avail, used]
  buffer,              \* cmd_pages: the command last copied there
  resp_page,           \* the number of the command answered there, 0 none
  waiting,                \* virtio_gpu_dev_command in progress: [n, head] or NOTHING
  job,                 \* operation of the backend in progress
  surfaces,            \* live surfaces: [id, pages, scanout_set]
  device,              \* [backing: resource -> pages, scanout]
  g_resource_counter, commands,
  ran,                 \* history: numbers of the commands the device has run
  timeouts, refused,   \* history: chains given up, and commands the device refused
  lied                 \* history: a command was reported done and was not

gpuVars == <<g_active, pmm, driver_pages, vq, buffer, resp_page, waiting, job, surfaces, device,
             g_resource_counter, commands, ran, timeouts, refused, lied>>
queueVars == <<vq, buffer, resp_page, waiting, device, commands, ran, timeouts, refused, lied>>

GpuInit ==
  /\ g_active = "pci" /\ pmm \in FreePages /\ driver_pages = <<>>
  /\ vq = [free_head |-> 0, num_free |-> QSIZE, last_count |-> 0, avail |-> <<>>, used |-> <<>>]
  /\ buffer = NOTHING /\ resp_page = 0 /\ waiting = NOTHING /\ job = NOTHING
  /\ surfaces = {} /\ device = [backing |-> <<>>, scanout |-> 0]
  /\ g_resource_counter = 1 /\ commands = 0
  /\ ran = {} /\ timeouts = 0 /\ refused = FALSE /\ lied = FALSE

\* gpu_alloc_page, gpu_alloc_pages: the lowest free pages, in order.
LowestPages(n) == [k \in 1 .. n |-> CHOOSE p \in pmm : Cardinality({q \in pmm : q < p}) = k - 1]

-----------------------------------------------------------------------------
(* Bring-up: virtio_gpu_dev_probe, then GET_DISPLAY_INFO *)

IsUp(step, next) == g_active = step /\ g_active' = next /\ UNCHANGED <<queueVars, job, surfaces, g_resource_counter>>
\* pci_find_virtio_gpu, parse_capabilities, map_mmio, negotiate_features: any may fail,
\* and ghal_init goes on to the software backend.
Found == IsUp("pci", "caps") /\ UNCHANGED <<pmm, driver_pages>>
Capable == IsUp("caps", "features") /\ UNCHANGED <<pmm, driver_pages>>
Negotiated == IsUp("features", "controlq") /\ UNCHANGED <<pmm, driver_pages>>
Fallback == \E s \in {"pci", "caps", "features", "ok"} : IsUp(s, "software") /\ UNCHANGED <<pmm, driver_pages>>

\* virtq_init: when a page is missing the queue's own go back, those of the other
\* queue do not; then the command buffers.
Takes(n) == /\ Cardinality(pmm) >= n
            /\ pmm' = pmm \ ToSet(LowestPages(n)) /\ driver_pages' = driver_pages \o LowestPages(n)
Lacking(n) == Cardinality(pmm) < n /\ UNCHANGED <<pmm, driver_pages>>
setup_queues ==
  \/ IsUp("controlq", "cursorq") /\ Takes(QueuePages)
  \/ IsUp("cursorq", "ok") /\ Takes(QueuePages)
  \/ \E s \in {"controlq", "cursorq"} : IsUp(s, "software") /\ Lacking(QueuePages)
finalize_driver_ok == IsUp("ok", "buffers") /\ UNCHANGED <<pmm, driver_pages>>
\* As many command pages as there are, one at least, and one for the answer.
CommandBuffers ==
  LET n == IF Cardinality(pmm) < BufferPages THEN Cardinality(pmm) ELSE BufferPages
  IN  \/ IsUp("buffers", "info") /\ Cardinality(pmm) > n /\ n > 0 /\ Takes(n + 1)
      \/ IsUp("buffers", "software") /\ Cardinality(pmm) <= n /\ Takes(n)
CmdPages == Len(driver_pages) - 2 * QueuePages - 1

-----------------------------------------------------------------------------
(* A command *)

\* The descriptors of a command: its pages, and one for the answer.
Buffers(cmd) == (IF cmd.op = "attach" THEN 2 ELSE 1) + 1

\* virtio_gpu_dev_command: copies the command, virtq_submit, virtq_notify.
Submitted(cmd) ==
  /\ waiting = NOTHING /\ commands < MaxCommands
  /\ Buffers(cmd) - 1 <= CmdPages /\ Buffers(cmd) <= vq.num_free
  /\ commands' = commands + 1
  /\ buffer' = [cmd |-> cmd, n |-> commands + 1]
  /\ resp_page' = 0
  /\ waiting' = [op |-> "waits", n |-> commands + 1, head |-> vq.free_head]
  /\ vq' = [vq EXCEPT !.free_head = (@ + Buffers(cmd)) % QSIZE, !.num_free = @ - Buffers(cmd),
                      !.last_count = Buffers(cmd), !.avail = Append(@, vq.free_head)]
  /\ UNCHANGED <<device, ran, timeouts, refused, lied>>
\* No room in the buffer or in the queue: the command fails at once.
NoRoom(cmd) ==
  /\ waiting = NOTHING /\ (Buffers(cmd) - 1 > CmdPages \/ Buffers(cmd) > vq.num_free)
  /\ UNCHANGED queueVars

\* The device (external) takes the chains in order, and runs or refuses what the
\* buffer holds.
Applied(cmd) ==
  CASE cmd.op = "attach" -> [device EXCEPT !.backing = [i \in DOMAIN @ \cup {cmd.id} |->
                                              IF i = cmd.id THEN cmd.pages ELSE @[i]]]
    [] cmd.op = "unref" -> [backing |-> [i \in DOMAIN device.backing \ {cmd.id} |-> device.backing[i]],
                            scanout |-> IF device.scanout = cmd.id THEN 0 ELSE device.scanout]
    [] cmd.op = "scanout" -> [device EXCEPT !.scanout = cmd.id]
    [] OTHER -> device
DeviceRuns ==
  /\ vq.avail # <<>> /\ buffer # NOTHING
  /\ vq' = [vq EXCEPT !.avail = Tail(@), !.used = Append(@, Head(vq.avail))]
  /\ ran' = ran \cup {buffer.n}
  /\ \/ device' = Applied(buffer.cmd) /\ resp_page' = buffer.n /\ UNCHANGED refused
     \/ resp_page' = 0 /\ refused' = TRUE /\ UNCHANGED device
  /\ UNCHANGED <<buffer, waiting, commands, timeouts, lied>>

\* virtq_wait: skips the answers to other chains, and on its own gives the
\* descriptors back and starts the ring over.
IsOurs(u, head) == u = head
Answer == {i \in DOMAIN vq.used : IsOurs(vq.used[i], waiting.head)
                                   /\ \A j \in 1 .. i - 1 : ~IsOurs(vq.used[j], waiting.head)}
MutGivenBack(n) == IF n > QSIZE THEN QSIZE ELSE n - vq.last_count
GivenBack(n) == IF n > QSIZE THEN QSIZE ELSE n
Answered(i) ==
  /\ vq' = [vq EXCEPT !.num_free = GivenBack(@ + vq.last_count), !.free_head = 0,
                      !.used = SubSeq(@, i + 1, Len(@))]
  /\ waiting' = NOTHING
  /\ lied' = (lied \/ (resp_page # 0 /\ waiting.n \notin ran))
  /\ UNCHANGED <<buffer, resp_page, device, commands, ran, timeouts, refused>>
TimedOut ==
  /\ waiting # NOTHING /\ Answer = {}
  /\ vq' = [vq EXCEPT !.used = <<>>]
  /\ waiting' = NOTHING
  /\ timeouts' = timeouts + vq.last_count
  /\ UNCHANGED <<buffer, resp_page, device, commands, ran, refused, lied>>

-----------------------------------------------------------------------------
(* Surfaces: each operation is a row of commands *)

Cmd(op, s) == [op |-> op, id |-> s.id, pages |-> s.pages]
Freeing(pages) == pmm' = pmm \cup ToSet(pages)

\* virtio_init: the display's size, without which the backend is given up.
GetDisplayInfo ==
  /\ g_active = "info" /\ job = NOTHING
  /\ job' = [op |-> "info", todo |-> <<[op |-> "info"]>>, s |-> NOTHING]
  /\ UNCHANGED <<g_active, pmm, driver_pages, queueVars, surfaces, g_resource_counter>>

\* virtio_surface_create: all its pages or none.
virtio_surface_create(n) ==
  /\ g_active = "virtio-gpu" /\ job = NOTHING /\ g_resource_counter <= MaxSurfaces
  /\ Cardinality(pmm) >= n
  /\ LET s == [id |-> g_resource_counter, pages |-> LowestPages(n), scanout_set |-> FALSE]
     IN  job' = [op |-> "create", s |-> s,
                 todo |-> <<Cmd("create", s), Cmd("attach", s)>>
                            \o (IF Screens(n) THEN <<Cmd("scanout", s)>> ELSE <<>>)]
  /\ pmm' = pmm \ ToSet(LowestPages(n))
  /\ g_resource_counter' = g_resource_counter + 1
  /\ UNCHANGED <<g_active, driver_pages, queueVars, surfaces>>

\* virtio_surface_destroy: a detach that names no resource, then unref, then the pages.
virtio_surface_destroy(s) ==
  /\ g_active = "virtio-gpu" /\ job = NOTHING
  /\ job' = [op |-> "destroy", s |-> s, todo |-> <<[op |-> "detach"], Cmd("unref", s)>>]
  /\ surfaces' = surfaces \ {s}
  /\ UNCHANGED <<g_active, pmm, driver_pages, queueVars, g_resource_counter>>

\* virtio_present: scanout until it worked once, transfer, flush.
virtio_present(s) ==
  /\ g_active = "virtio-gpu" /\ job = NOTHING
  /\ job' = [op |-> "present", s |-> s,
             todo |-> (IF ~s.scanout_set /\ Screens(Len(s.pages)) THEN <<Cmd("scanout", s)>> ELSE <<>>)
                        \o <<Cmd("transfer", s), Cmd("flush", s)>>]
  /\ UNCHANGED <<g_active, pmm, driver_pages, queueVars, surfaces, g_resource_counter>>

\* What the backend does with the result of a command.
Rest == Tail(job.todo)
Stops == job' = NOTHING
GoesOn == job' = [job EXCEPT !.todo = Rest]
After(cmd, ok) ==
  CASE job.op = "info" -> /\ GoesOn
                          /\ g_active' = IF ok THEN "virtio-gpu" ELSE "software"
                          /\ UNCHANGED <<pmm, surfaces>>
    [] job.op = "create" /\ cmd.op = "create" /\ ~ok -> Stops /\ Freeing(job.s.pages) /\ UNCHANGED <<g_active, surfaces>>
    [] job.op = "create" /\ cmd.op = "attach" /\ ~ok ->
         /\ job' = [job EXCEPT !.op = "destroy", !.todo = <<Cmd("unref", job.s)>>]
         /\ UNCHANGED <<g_active, pmm, surfaces>>
    [] job.op = "create" /\ cmd.op = "attach" /\ ok ->
         GoesOn /\ surfaces' = surfaces \cup {job.s} /\ UNCHANGED <<g_active, pmm>>
    [] job.op = "present" /\ cmd.op = "scanout" /\ ok ->
         /\ GoesOn
         /\ surfaces' = (surfaces \ {job.s}) \cup {[job.s EXCEPT !.scanout_set = TRUE]}
         /\ UNCHANGED <<g_active, pmm>>
    [] job.op = "destroy" /\ cmd.op = "unref" -> GoesOn /\ Freeing(job.s.pages) /\ UNCHANGED <<g_active, surfaces>>
    [] OTHER -> GoesOn /\ UNCHANGED <<g_active, pmm, surfaces>>

Sends == job # NOTHING /\ job.todo # <<>> /\ Submitted(Head(job.todo))
         /\ UNCHANGED <<g_active, pmm, driver_pages, job, surfaces, g_resource_counter>>
Refuse == /\ job # NOTHING /\ job.todo # <<>>
         /\ NoRoom(Head(job.todo)) /\ After(Head(job.todo), FALSE)
         /\ UNCHANGED <<driver_pages, g_resource_counter>>
Ends(ok) == job.todo # <<>> /\ After(Head(job.todo), ok) /\ UNCHANGED <<driver_pages, g_resource_counter>>
Succeeds == waiting # NOTHING /\ \E i \in Answer : Answered(i) /\ Ends(resp_page # 0)
GivesUp == TimedOut /\ Ends(FALSE)
JobOver == /\ job # NOTHING /\ job.todo = <<>> /\ Stops
           /\ UNCHANGED <<g_active, pmm, driver_pages, queueVars, surfaces, g_resource_counter>>

GpuNext ==
  \/ Found \/ Capable \/ Negotiated \/ Fallback \/ setup_queues \/ finalize_driver_ok \/ CommandBuffers
  \/ GetDisplayInfo \/ \E n \in Sizes : virtio_surface_create(n)
  \/ \E s \in surfaces : virtio_surface_destroy(s) \/ virtio_present(s)
  \/ Sends \/ Refuse \/ Succeeds \/ GivesUp \/ JobOver
  \/ DeviceRuns /\ UNCHANGED <<g_active, pmm, driver_pages, job, surfaces, g_resource_counter>>
GpuSpec == GpuInit /\ [][GpuNext]_gpuVars

-----------------------------------------------------------------------------
(* Properties *)

\* A command reported as done has been run by the device, even after earlier commands
\* were given up and answered late; and the descriptors that are not free are those of
\* the command in progress and of the commands given up, which never come back: so
\* many timeouts leave the queue without room for good.
CommandsReal ==
  /\ ~lied
  /\ vq.num_free = QSIZE - timeouts - (IF waiting = NOTHING THEN 0 ELSE vq.last_count)

\* The memory behind a resource of the device is not handed out again: a page is
\* free, or the driver's, or of one surface; and unless a command was given up, refused
\* or did not fit, the device only uses pages of the surface whose resource it is.
Used == {job.s : j \in {x \in {job} : x # NOTHING /\ x.op = "create"}} \cup surfaces
BackingHeld ==
  /\ \A s, t \in Used : s.id = t.id \/ ToSet(s.pages) \cap ToSet(t.pages) = {}
  /\ \A s \in surfaces : ToSet(s.pages) \cap (pmm \cup ToSet(driver_pages)) = {}
  /\ timeouts = 0 /\ ~refused =>
       \A i \in DOMAIN device.backing : ToSet(device.backing[i]) \cap pmm = {}

\* Both: a success is real, and memory the device still uses is not handed out.
GpuSound == CommandsReal /\ BackingHeld

\* The linear buffer of a surface, from its first page on, lies in its own pages
\* (virtio_surface_upload, virtio_fill_rect and virtio_blit write it as one array).
SurfaceLinear ==
  \A s \in surfaces : \A i \in DOMAIN s.pages : s.pages[i] = s.pages[1] + i - 1

=============================================================================
