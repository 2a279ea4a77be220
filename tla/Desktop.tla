------------------------------ MODULE Desktop -------------------------------
(***************************************************************************)
(* The desktop program, user_apps/desktop.c, on libgui's window            *)
(* (apps/libgui.c): launcher icons from a scan of /apps, a taskbar from    *)
(* the window list it polls every POLL iterations of its event loop, and a *)
(* canvas it draws only when something changed.                            *)
(*                                                                         *)
(* /apps is a function from program names to what the manifest makes of    *)
(* them: a label and colour (one number, "face"), hidden or not.  The      *)
(* windows of the other tasks and the disk change at any step.             *)
(***************************************************************************)
EXTENDS Naturals, Sequences, FiniteSets, SequencesExt

CONSTANTS Programs, Faces,  \* .elf files, and what their manifests say
          WinIds, Titles,   \* the window manager's slots, window titles
          POLL, SCAN,       \* iterations between two polls, polls between scans
          SUM,              \* the modulus of the scan's checksum
          CAP,              \* icons that fit on the screen
          MaxChanges        \* bound: changes outside the desktop

ASSUME DesktopAssumption == POLL > 0 /\ SCAN > 0 /\ CAP > 0

HIDDEN == 0
NOWIN == "closed"

VARIABLES apps_dir,               \* /apps
          kwm, kwm_focus,             \* titles of the open windows; the focused one
          g_apps, g_apps_sum, g_wins,
          canvas,                 \* what the screen shows: icons and buttons
          loop, iteration, polls, do_render,
          gui,                    \* the window record's allocations
          changes, outdated, misled  \* history

desktopVars == <<apps_dir, kwm, kwm_focus, g_apps, g_apps_sum, g_wins, canvas, loop,
                 iteration, polls, do_render, gui, changes, outdated, misled>>

Blank == [icons |-> <<>>, buttons |-> <<>>]

DesktopInit ==
  /\ apps_dir \in [Programs -> Faces \cup {HIDDEN}]
  /\ kwm = [w \in WinIds |-> NOWIN] /\ kwm_focus = 0
  /\ g_apps = <<>> /\ g_apps_sum = 0 /\ g_wins = <<>>
  /\ canvas = Blank /\ loop = "create" /\ iteration = 0 /\ polls = 0
  /\ do_render = FALSE /\ gui = {}
  /\ changes = 0 /\ outdated = FALSE /\ misled = FALSE

world == <<apps_dir, kwm, kwm_focus, changes>>
lists == <<g_apps, g_apps_sum, g_wins>>

\* discover_apps: one entry for each program whose manifest does not hide
\* it, in directory order; and the checksum of what the icons show.
Sorted(S) == SetToSortSeq(S, <)

Scanned == LET shown == SelectSeq(Sorted(Programs), LAMBDA p : apps_dir[p] # HIDDEN)
           IN [i \in DOMAIN shown |-> [elf |-> shown[i], face |-> apps_dir[shown[i]]]]

Checksum(list) == FoldLeft(LAMBDA s, e : (s * 31 + e.face) % SUM, Len(list), list)

\* winlist_changed: the slots in use.
Listed == LET open == SelectSeq(Sorted(WinIds), LAMBDA w : kwm[w] # NOWIN)
          IN [i \in DOMAIN open |-> [win_id |-> open[i], title |-> kwm[open[i]],
                                     focused |-> open[i] = kwm_focus]]

MutDiffers(a, b) == Len(a) # Len(b)
Differs(a, b) == a # b

\* render: the icons that fit, one button for each listed window.
Face(list) == [i \in 1 .. (IF Len(list) < CAP THEN Len(list) ELSE CAP) |-> list[i].face]
Rendered == [icons |-> Face(g_apps), buttons |-> g_wins]

Shown(pictures, i, p) == i \in DOMAIN pictures /\ pictures[i] = p

\* gui_create_desktop: the record, the canvas, the window; a failure frees
\* what there is and the program exits.
gui_create_desktop ==
  /\ loop = "create"
  /\ \/ gui' = {} /\ loop' = "exited"
        /\ UNCHANGED <<lists, do_render>>
     \/ /\ gui' = {"record", "canvas", "window"} /\ loop' = "event" /\ do_render' = TRUE
        /\ g_apps' = Scanned /\ g_apps_sum' = Checksum(Scanned) /\ UNCHANGED g_wins
  /\ UNCHANGED <<world, canvas, iteration, polls, outdated, misled>>

\* One event, or none; any event makes the screen be drawn again.  A click on
\* a taskbar button activates the window id the list holds.
Quiet == /\ loop = "event" /\ loop' = "poll"
         /\ UNCHANGED <<world, lists, canvas, iteration, polls, do_render, gui, outdated, misled>>

OtherEvent == /\ loop = "event" /\ loop' = "poll" /\ do_render' = TRUE
              /\ UNCHANGED <<world, lists, canvas, iteration, polls, gui, outdated, misled>>

Honest(i) == /\ Shown(canvas.buttons, i, g_wins[i])
             /\ outdated \/ kwm[g_wins[i].win_id] = g_wins[i].title

ClickButton(i) ==
  /\ loop = "event" /\ loop' = "poll" /\ do_render' = TRUE
  /\ i \in DOMAIN g_wins
  /\ kwm_focus' = IF kwm[g_wins[i].win_id] # NOWIN THEN g_wins[i].win_id ELSE kwm_focus
  /\ misled' = (misled \/ (~do_render /\ ~Honest(i)))
  /\ UNCHANGED <<apps_dir, kwm, changes, lists, canvas, iteration, polls, gui, outdated>>

\* A click on an icon spawns the program of that place in the list.
ClickIcon(i) ==
  /\ loop = "event" /\ loop' = "poll" /\ do_render' = TRUE
  /\ i \in DOMAIN Face(g_apps)
  /\ misled' = (misled \/ (~do_render /\ ~Shown(canvas.icons, i, g_apps[i].face)))
  /\ UNCHANGED <<world, lists, canvas, iteration, polls, gui, outdated>>

\* The bytes after a title's end are not initialised, so that equal lists
\* may compare as different.
PollDue == loop = "poll" /\ iteration = POLL - 1

Poll ==
  /\ PollDue /\ iteration' = 0 /\ loop' = "draw"
  /\ g_wins' = Listed /\ outdated' = FALSE
  /\ polls' = (polls + 1) % SCAN
  /\ IF polls = SCAN - 1
       THEN g_apps' = Scanned /\ g_apps_sum' = Checksum(Scanned)
       ELSE UNCHANGED <<g_apps, g_apps_sum>>
  /\ \E junk \in BOOLEAN :
       do_render' = (do_render \/ junk \/ Differs(g_wins, Listed) \/ g_apps_sum' # g_apps_sum)
  /\ UNCHANGED <<world, canvas, gui, misled>>

NoPoll ==
  /\ loop = "poll" /\ iteration < POLL - 1 /\ iteration' = iteration + 1 /\ loop' = "draw"
  /\ UNCHANGED <<world, lists, canvas, polls, do_render, gui, outdated, misled>>

render ==
  /\ loop = "draw" /\ loop' = "event"
  /\ canvas' = IF do_render THEN Rendered ELSE canvas
  /\ do_render' = FALSE
  /\ UNCHANGED <<world, lists, iteration, polls, gui, outdated, misled>>

\* The other tasks: windows open, close, change title; files change.
Outside ==
  /\ changes < MaxChanges /\ changes' = changes + 1
  /\ \/ /\ \E w \in WinIds, t \in Titles \cup {NOWIN} :
             /\ kwm' = [kwm EXCEPT ![w] = t]
             /\ kwm_focus' = IF t = NOWIN THEN (IF kwm_focus = w THEN 0 ELSE kwm_focus) ELSE w
        /\ outdated' = TRUE /\ UNCHANGED apps_dir
     \/ /\ \E p \in Programs, f \in Faces \cup {HIDDEN} : apps_dir' = [apps_dir EXCEPT ![p] = f]
        /\ UNCHANGED <<kwm, kwm_focus, outdated>>
  /\ UNCHANGED <<lists, canvas, loop, iteration, polls, do_render, gui, misled>>

DesktopNext ==
  \/ gui_create_desktop \/ Quiet \/ OtherEvent
  \/ (\E i \in DOMAIN g_wins : ClickButton(i))
  \/ (\E i \in DOMAIN g_apps : ClickIcon(i))
  \/ Poll \/ NoPoll \/ render \/ Outside

DesktopSpec == DesktopInit /\ [][DesktopNext]_desktopVars

----------------------------------------------------------------------------

\* Although the canvas is drawn only when something changed, whenever the
\* desktop looks for a click it shows exactly the icons and the buttons the
\* click will be resolved with; so a click starts the program, and (unless
\* the windows changed since the last poll) activates the window, whose
\* picture is under the pointer.  A program that could not make its window
\* keeps no memory.
DesktopTrue ==
  /\ loop = "event" /\ ~do_render => canvas = Rendered
  /\ ~misled
  /\ loop = "exited" => gui = {}

-----------------------------------------------------------------------------
(***************************************************************************)
(* The Explorer and the programs it hands files to: user_apps/fileman.c,   *)
(* notepad.c and viewer.c.  The Explorer names the chosen file in edit.tmp *)
(* or view.tmp, destroys its window and replaces itself (sys_exec) by the  *)
(* Text Editor or the Image Viewer, which reads and deletes the note and   *)
(* goes back to the Explorer when it is closed.  The desktop starts the    *)
(* same programs in tasks of their own, so several of them share the two   *)
(* notes and the documents.  Every system call is one step.  What a        *)
(* document says is left out: only which one is opened, and which exist.   *)
(***************************************************************************)

CONSTANTS ATASKS,        \* tasks running these programs
          Texts, Images, \* the documents, .txt and .png
          MaxStarts      \* bound: programs the desktop starts

ABSENT == "absent"
DEFAULT == "catatan.txt"   \* the editor's name for a new file
MIXED == "mixed"           \* a name cut to the length of another one

Docs == Texts \cup Images

NoteOf(prog) == IF prog = "notepad" THEN "edit.tmp" ELSE "view.tmp"
Opener(d) == IF d \in Texts THEN "notepad" ELSE "viewer"

Idle == [prog |-> "none", at |-> "idle", g_files |-> <<>>, selected |-> 0,
         g_from_fileman |-> FALSE, name |-> DEFAULT, size |-> ABSENT, chosen |-> ABSENT]

VARIABLES docs,     \* the documents there are
          notes,    \* edit.tmp and view.tmp: a document's name, or ABSENT
          app,      \* what each task runs
          starts,
          touched   \* history: tasks whose note another task wrote or deleted

appVars == <<docs, notes, app, starts, touched>>

AppsInit ==
  /\ docs = Docs
  /\ notes = [n \in {"edit.tmp", "view.tmp"} |-> ABSENT]
  /\ app = [t \in ATASKS |-> Idle]
  /\ starts = 0 /\ touched = {}

At(t, prog, at) == app[t].prog = prog /\ app[t].at = at
Reads(t, at) == app[t].prog \in {"notepad", "viewer"} /\ app[t].at = at

\* fill_table: the rows change, the table's selection does not.
Shows == SetToSeq(docs)

\* A task between naming its file and deleting the note.
Handing(t, note) ==
  \/ At(t, "explorer", "exec") /\ NoteOf(Opener(app[t].chosen)) = note
  \/ app[t].chosen # ABSENT /\ NoteOf(app[t].prog) = note
     /\ app[t].at \in {"start", "size", "read", "consume"}

Disturbs(t, note) ==
  touched' = touched \cup {u \in ATASKS \ {t} :
                             Handing(u, note) \/ At(u, "explorer", "name")}

\* The desktop's icon, or the program another one is replaced by.
Start(t, prog) ==
  /\ app[t] = Idle /\ starts < MaxStarts
  /\ starts' = starts + 1
  /\ app' = [app EXCEPT ![t] = [Idle EXCEPT !.prog = prog, !.at = "start"]]
  /\ touched' = touched \ {t}
  /\ UNCHANGED <<docs, notes>>

\* fileman.c: main and do_refresh.
fill_table(t) ==
  /\ At(t, "explorer", "start") \/ At(t, "explorer", "run")
  /\ app' = [app EXCEPT ![t].g_files = Shows, ![t].at = "run"]
  /\ UNCHANGED <<docs, notes, starts, touched>>

Select(t) ==
  /\ At(t, "explorer", "run")
  /\ \E i \in DOMAIN app[t].g_files : app' = [app EXCEPT ![t].selected = i]
  /\ UNCHANGED <<docs, notes, starts, touched>>

\* do_open: an old note is deleted, the new one created (which fails when
\* there is one again), the window destroyed, the program replaced.
do_open(t) ==
  /\ At(t, "explorer", "run") /\ app[t].selected \in DOMAIN app[t].g_files
  /\ \E d \in {app[t].g_files[app[t].selected]} :
       /\ app' = [app EXCEPT ![t].at = "name", ![t].chosen = d]
       /\ notes' = [notes EXCEPT ![NoteOf(Opener(d))] = ABSENT]
       /\ IF notes[NoteOf(Opener(d))] # ABSENT
            THEN Disturbs(t, NoteOf(Opener(d))) ELSE UNCHANGED touched
  /\ UNCHANGED <<docs, starts>>

WriteNote(t) ==
  /\ At(t, "explorer", "name")
  /\ \E n \in {NoteOf(Opener(app[t].chosen))} :
       IF notes[n] = ABSENT
         THEN notes' = [notes EXCEPT ![n] = app[t].chosen] /\ Disturbs(t, n)
         ELSE UNCHANGED <<notes, touched>>
  /\ app' = [app EXCEPT ![t].at = "exec"]
  /\ UNCHANGED <<docs, starts>>

\* sys_exec comes back when the program cannot be loaded, to a callback of
\* a window that is no longer there.
Exec(t, loads) ==
  /\ At(t, "explorer", "exec")
  /\ app' = [app EXCEPT ![t] =
       IF loads THEN [Idle EXCEPT !.prog = Opener(app[t].chosen), !.at = "start",
                                  !.chosen = app[t].chosen]
                ELSE [@ EXCEPT !.at = "wrecked"]]
  /\ UNCHANGED <<docs, notes, starts, touched>>

\* notepad.c and viewer.c, main: is there a note, how long, what does it
\* say, delete it.
NoteExists(t) ==
  /\ Reads(t, "start")
  /\ app' = [app EXCEPT ![t].at = IF notes[NoteOf(app[t].prog)] = ABSENT
                                  THEN "open" ELSE "size"]
  /\ UNCHANGED <<docs, notes, starts, touched>>

NoteSize(t) ==
  /\ Reads(t, "size")
  /\ \E n \in {notes[NoteOf(app[t].prog)]} :
       app' = [app EXCEPT ![t].size = n,
                          ![t].at = IF n = ABSENT THEN "consume" ELSE "read"]
  /\ UNCHANGED <<docs, notes, starts, touched>>

NoteRead(t) ==
  /\ Reads(t, "read")
  /\ \E n \in {notes[NoteOf(app[t].prog)]} :
       app' = [app EXCEPT ![t].at = "consume", ![t].g_from_fileman = TRUE,
                          ![t].name = IF n = app[t].size THEN n ELSE MIXED]
  /\ UNCHANGED <<docs, notes, starts, touched>>

MutConsumed(t) == notes
Consumed(t) == [notes EXCEPT ![NoteOf(app[t].prog)] = ABSENT]

NoteConsume(t) ==
  /\ Reads(t, "consume")
  /\ notes' = Consumed(t)
  /\ app' = [app EXCEPT ![t].at = "open"]
  /\ IF notes[NoteOf(app[t].prog)] # ABSENT
       THEN Disturbs(t, NoteOf(app[t].prog)) ELSE UNCHANGED touched
  /\ UNCHANGED <<docs, starts>>

\* menu_open, and show_file.
OpenDoc(t) ==
  /\ Reads(t, "open")
  /\ app' = [app EXCEPT ![t].at = "run"]
  /\ UNCHANGED <<docs, notes, starts, touched>>

\* Another name is typed into the text box.
Rename(t, d) ==
  /\ At(t, "notepad", "run")
  /\ app' = [app EXCEPT ![t].name = d]
  /\ UNCHANGED <<docs, notes, starts, touched>>

\* menu_save: an existing file is deleted, then created again.
menu_save(t) ==
  /\ At(t, "notepad", "run") /\ app[t].name \in Docs
  /\ docs' = docs \ {app[t].name}
  /\ app' = [app EXCEPT ![t].at = "save"]
  /\ UNCHANGED <<notes, starts, touched>>

SaveCreate(t) ==
  /\ At(t, "notepad", "save")
  /\ docs' = docs \cup {app[t].name}
  /\ app' = [app EXCEPT ![t].at = "run"]
  /\ UNCHANGED <<notes, starts, touched>>

\* Closing the window: back to the Explorer, or out.
Closes(t) ==
  /\ Reads(t, "run") \/ At(t, "explorer", "run")
  /\ app' = [app EXCEPT ![t] =
       IF app[t].g_from_fileman
         THEN [Idle EXCEPT !.prog = "explorer", !.at = "start"] ELSE Idle]
  /\ touched' = touched \ {t}
  /\ UNCHANGED <<docs, notes, starts>>

AppStep(t) ==
  \/ \E prog \in {"explorer", "notepad", "viewer"} : Start(t, prog)
  \/ fill_table(t) \/ Select(t) \/ do_open(t) \/ WriteNote(t)
  \/ \E loads \in BOOLEAN : Exec(t, loads)
  \/ NoteExists(t) \/ NoteSize(t) \/ NoteRead(t) \/ NoteConsume(t)
  \/ OpenDoc(t) \/ (\E d \in Texts : Rename(t, d))
  \/ menu_save(t) \/ SaveCreate(t) \/ Closes(t)

AppsNext == \E t \in ATASKS : AppStep(t)

AppsSpec == AppsInit /\ [][AppsNext]_appVars

-----------------------------------------------------------------------------

Saving(d) == \E t \in ATASKS : At(t, "notepad", "save") /\ app[t].name = d

\* A program the Explorer starts opens the file that was chosen, unless
\* another task wrote or deleted the note on the way; a note outlives no
\* hand-over (so a program the desktop starts finds one only while another
\* task's is under way) except after a program that could not be loaded; and
\* a document is missing only while an editor is saving it.
HandOver ==
  /\ \A t \in ATASKS : /\ Reads(t, "open") /\ app[t].chosen # ABSENT
                       /\ t \notin touched
                       => app[t].name = app[t].chosen
  /\ \A n \in DOMAIN notes :
       notes[n] # ABSENT => \E t \in ATASKS : Handing(t, n) \/ app[t].at = "wrecked"
  /\ \A d \in Docs \ docs : Saving(d)
=============================================================================
