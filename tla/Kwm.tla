-------------------------------- MODULE Kwm --------------------------------
(***************************************************************************)
(* kernel/gfx/kwm.c with the repaint side of kernel/gfx/compositor.c: the  *)
(* table of windows, its stacking order, focus and drag session, and the   *)
(* dirty region that must grow with every visible change.                  *)
(*                                                                         *)
(* A call changes the table in one section under kwm_lock and marks the    *)
(* screen dirty afterwards, without the lock: pending holds the marks that *)
(* calls still have to make.  The compositor takes the dirty region under  *)
(* one lock and paints it under another.  All of this treats one pixel as  *)
(* any other, so the model follows one, chosen at the start: whether it is *)
(* in the dirty region, in the region the compositor has taken, and, as    *)
(* history, whether its picture has changed since it was painted (stale).  *)
(* Shadows, rounded corners, transparency and the cursor are left out.     *)
(* Definitions whose name starts with Mut are slips of the code, used by   *)
(* no specification.                                                       *)
(***************************************************************************)
EXTENDS Integers, FiniteSets, FiniteSetsExt

CONSTANTS
  Apps, Shells,    \* tasks that create windows, tasks that create the desktop
  NoTask,
  MAX_WINDOWS,
  TITLEBAR_H, CLOSE_BTN_W,
  FbWidth, FbHeight,
  Pixels,          \* the pixels one of which is followed
  Geometries,      \* position and size a task may ask for: [x, y, w, h]
  MaxZ,            \* bound on next_z_index
  MaxPending,      \* bound on the marks outstanding
  CreateAtLimit    \* may a window be created when z-indexes are renumbered?

ASSUME KwmAssumption ==
  /\ NoTask \notin Apps \cup Shells
  /\ {MAX_WINDOWS, TITLEBAR_H, CLOSE_BTN_W, FbWidth, FbHeight} \subseteq Nat \ {0}
  /\ Pixels \subseteq (0 .. FbWidth - 1) \X (0 .. FbHeight - 1)
  /\ Geometries \subseteq [x : Int, y : Int, w : Nat \ {0}, h : Nat \ {0}]
  /\ CreateAtLimit \in BOOLEAN /\ MaxZ \in Nat \ {0}

VARIABLES
  win, next_z_index, focused, dragged, drag_offset, alt_tab_active,
  pixel, pending, dirty, taken, stale

table   == <<win, next_z_index, focused, dragged, drag_offset>>
display == <<pixel, dirty, taken>>
vars    == <<table, alt_tab_active, pending, display, stale>>

-----------------------------------------------------------------------------
(* Windows *)

Slots == 0 .. MAX_WINDOWS - 1
None  == -1
Free  == [active |-> FALSE, x |-> 0, y |-> 0, w |-> 0, h |-> 0, z |-> 0,
          owner |-> NoTask, desktop |-> FALSE]

Screen == (0 .. FbWidth - 1) \X (0 .. FbHeight - 1)
Area(x, y, w, h) == (x .. x + w - 1) \X (y .. y + h - 1)

Titlebar(w) == IF w.desktop THEN 0 ELSE TITLEBAR_H
Frame(w)    == Area(w.x, w.y, w.w, w.h + Titlebar(w))
Content(w)  == Area(w.x, w.y + Titlebar(w), w.w, w.h)

Active(ws)  == {i \in Slots : ws[i].active}
Regular(ws) == {i \in Active(ws) : ~ws[i].desktop}

\* The order in which composite_windows_in_rect paints: by z, then by slot.
Below(ws, i, j) == ws[i].z < ws[j].z \/ (ws[i].z = ws[j].z /\ i < j)

\* kwm_hit_test_locked: the highest z at a point; of equals the lowest slot.
HitTest(ws, p) ==
  LET at == {i \in Active(ws) : p \in Frame(ws[i])}
  IN  IF at = {} THEN None
      ELSE CHOOSE i \in at : \A j \in at \ {i} :
             ws[j].z < ws[i].z \/ (ws[j].z = ws[i].z /\ i < j)

\* kwm_refocus_locked
Refocus(ws) ==
  IF Regular(ws) = {} THEN None
  ELSE CHOOSE i \in Regular(ws) : \A j \in Regular(ws) \ {i} :
         ws[j].z < ws[i].z \/ (ws[j].z = ws[i].z /\ i < j)

\* kwm_normalize_zindex_locked: renumber the regular windows from 1, keeping
\* their order.
Normalized(ws) ==
  [i \in Slots |-> IF i \in Regular(ws)
                   THEN [ws[i] EXCEPT !.z =
                           1 + Cardinality({j \in Regular(ws) : Below(ws, j, i)})]
                   ELSE ws[i]]

\* The test every raise but a click makes: renumber once next_z_index has passed
\* MAX_WINDOWS.
Settled(ws, z)  == IF z > MAX_WINDOWS THEN Normalized(ws) ELSE ws
NextAfter(ws, z) == IF z > MAX_WINDOWS THEN Cardinality(Regular(ws)) + 1 ELSE z

-----------------------------------------------------------------------------
(* The picture: composite_windows_in_rect at one pixel *)

\* The loop over z stops at next_z_index.
MutDrawn == {i \in Active(win) : win[i].z < next_z_index - 1}
Drawn == {i \in Active(win) : win[i].z <= next_z_index}

\* The last window painted at a pixel, and whether the tint of the focus shows.
TopAt(p) ==
  LET at == {i \in Drawn : p \in Frame(win[i])}
  IN  IF at = {} THEN None ELSE CHOOSE i \in at : \A j \in at \ {i} : Below(win, j, i)
Look ==
  LET i == TopAt(pixel)
  IN  <<i, i # None /\ i = focused /\ pixel \notin Content(win[i])>>

-----------------------------------------------------------------------------
(* Marks: calls made after kwm_lock has been released *)

\* kwm_frame_dirty looks at the window when it runs; of the calls with a fixed
\* rectangle those count that cover the pixel.
FrameMarks(S) == S \ {None}
AreaMark(S)   == IF pixel \in S THEN {None} ELSE {}

\* A call that changes the picture and has these marks to make.
Issue(marks) ==
  /\ pending' = pending \cup marks
  /\ stale' = (stale \/ Look' # Look)
Room == Cardinality(pending) <= MaxPending

\* kwm_free_slot for the slots in S
Freed(S) == [i \in Slots |-> IF i \in S THEN Free ELSE win[i]]
MutEndDrag(S) == dragged' = dragged
EndDrag(S) == dragged' = IF dragged \in S THEN None ELSE dragged

-----------------------------------------------------------------------------
(* System calls *)

\* kwm_create_window.  The renumbering does not see the new window, whose slot
\* becomes active afterwards.
CreateWindow(t, g) ==
  /\ Room /\ next_z_index < MaxZ
  /\ CreateAtLimit \/ next_z_index < MAX_WINDOWS
  /\ Slots \ Active(win) # {}
  /\ LET i == Min(Slots \ Active(win))
     IN  /\ win' = [Settled(win, next_z_index + 1) EXCEPT ![i] =
                      [active |-> TRUE, x |-> g.x, y |-> g.y, w |-> g.w, h |-> g.h,
                       z |-> next_z_index, owner |-> t, desktop |-> FALSE]]
         /\ next_z_index' = NextAfter(win, next_z_index + 1)
         /\ focused' = i
         /\ UNCHANGED <<dragged, drag_offset, alt_tab_active, display>>
         /\ Issue(FrameMarks({i, focused}))

\* kwm_create_desktop
NoDesktop == \A i \in Active(win) : ~win[i].desktop
CreateDesktop(t) ==
  /\ Room
  /\ NoDesktop
  /\ Slots \ Active(win) # {}
  /\ win' = [win EXCEPT ![Min(Slots \ Active(win))] =
               [active |-> TRUE, x |-> 0, y |-> 0, w |-> FbWidth, h |-> FbHeight,
                z |-> 0, owner |-> t, desktop |-> TRUE]]
  /\ UNCHANGED <<next_z_index, focused, dragged, drag_offset, alt_tab_active,
                 display>>
  /\ Issue(AreaMark(Screen))

\* kwm_update_window and kwm_set_title, each by the owner
UpdateWindow(i) ==
  /\ Room /\ win[i].active
  /\ stale' = (stale \/ (TopAt(pixel) = i /\ pixel \in Content(win[i])))
  /\ pending' = pending \cup AreaMark(Content(win[i]))
  /\ UNCHANGED <<table, alt_tab_active, display>>
SetTitle(i) ==
  /\ Room /\ win[i].active
  /\ stale' = (stale \/ (TopAt(pixel) = i /\ pixel \notin Content(win[i])))
  /\ pending' = pending \cup FrameMarks({i})
  /\ UNCHANGED <<table, alt_tab_active, display>>

\* Give window i the next z-index and the focus.
Raise(i) ==
  LET ws == [win EXCEPT ![i].z = next_z_index]
  IN  /\ win' = Settled(ws, next_z_index + 1)
      /\ next_z_index' = NextAfter(ws, next_z_index + 1)
      /\ focused' = i

\* kwm_activate_window; its second renumbering changes nothing.
ActivateWindow(i) ==
  /\ Room /\ next_z_index < MaxZ
  /\ i \in Regular(win)
  /\ Raise(i)
  /\ UNCHANGED <<dragged, drag_offset, alt_tab_active, display>>
  /\ Issue(FrameMarks({i, focused}))

\* kwm_destroy_window, called for the owner
DestroyWindow(i) ==
  /\ Room /\ win[i].active
  /\ win' = Freed({i})
  /\ EndDrag({i})
  /\ focused' = IF focused = i THEN Refocus(Freed({i})) ELSE focused
  /\ UNCHANGED <<next_z_index, drag_offset, alt_tab_active, display>>
  /\ Issue(AreaMark(Area(win[i].x, win[i].y, win[i].w, win[i].h + TITLEBAR_H))
             \cup IF focused = i THEN FrameMarks({focused'}) ELSE {})

\* kwm_destroy_windows_of, when task t exits or executes another program
DestroyWindowsOf(t) ==
  LET mine == {i \in Active(win) : win[i].owner = t}
  IN  /\ Room
      /\ win' = Freed(mine)
      /\ EndDrag(mine)
      /\ focused' = IF focused \in mine THEN Refocus(Freed(mine)) ELSE focused
      /\ UNCHANGED <<next_z_index, drag_offset, alt_tab_active, display>>
      /\ Issue(AreaMark(Screen))

\* kwm_destroy_all_windows
DestroyAllWindows ==
  /\ Room
  /\ win' = Freed(Slots)
  /\ EndDrag(Slots)
  /\ focused' = None
  /\ UNCHANGED <<next_z_index, drag_offset, alt_tab_active, display>>
  /\ Issue(AreaMark(Screen))

-----------------------------------------------------------------------------
(* kwm_process_mouse, called by the mouse interrupt *)

MouseUp ==
  /\ dragged # None
  /\ dragged' = None
  /\ UNCHANGED <<win, next_z_index, focused, drag_offset, alt_tab_active, pending,
                 display, stale>>

\* The drag of a window keeps its frame on the screen.
Clamp(at, size, limit) ==
  LET low == IF at < 0 THEN 0 ELSE at
  IN  IF low + size > limit THEN limit - size ELSE low

DragMove(p) ==
  /\ Room /\ dragged # None
  /\ LET w == win[dragged]
         moved == [w EXCEPT !.x = Clamp(p[1] - drag_offset[1], w.w, FbWidth),
                            !.y = Clamp(p[2] - drag_offset[2], w.h + TITLEBAR_H, FbHeight)]
     IN  /\ win' = [win EXCEPT ![dragged] = moved]
         /\ UNCHANGED <<next_z_index, focused, dragged, drag_offset, alt_tab_active,
                        display>>
         /\ Issue(AreaMark(Frame(w) \cup Frame(moved)))

\* A press of the left button that is no drag, on target (None: on no window).
Click(p, target) == Room /\ dragged = None /\ HitTest(win, p) = target

\* On the desktop window the focus stays.
ClickDesktop(p, i) ==
  /\ Click(p, i) /\ win[i].desktop
  /\ UNCHANGED <<table, alt_tab_active, display>>
  /\ Issue(FrameMarks({i, focused}))

\* On no window: the keyboard goes back to the terminal.
ClickEmpty(p) ==
  /\ Click(p, None)
  /\ focused' = None
  /\ UNCHANGED <<win, next_z_index, dragged, drag_offset, alt_tab_active, display>>
  /\ Issue(FrameMarks({focused}))

\* kwm_bring_to_front with the focus; it does not renumber.
BringToFront(i) ==
  /\ next_z_index < MaxZ
  /\ win' = [win EXCEPT ![i].z = next_z_index]
  /\ next_z_index' = next_z_index + 1
  /\ focused' = i

OnTitlebar(p, i) == p[2] < win[i].y + TITLEBAR_H
OnClose(p, i)    == OnTitlebar(p, i) /\ p[1] >= win[i].x + win[i].w - CLOSE_BTN_W

\* Elsewhere on a window; on the title bar it starts a drag.
ClickWindow(p, i) ==
  /\ Click(p, i) /\ ~win[i].desktop /\ ~OnClose(p, i)
  /\ BringToFront(i)
  /\ IF OnTitlebar(p, i)
     THEN dragged' = i /\ drag_offset' = <<p[1] - win[i].x, p[2] - win[i].y>>
     ELSE UNCHANGED <<dragged, drag_offset>>
  /\ UNCHANGED <<alt_tab_active, display>>
  /\ Issue(FrameMarks({i, focused}))

\* On the close button: EVENT_WIN_CLOSE is sent to the owner and the call returns
\* before it marks anything, so what it changes is not counted as stale.
ClickClose(p, i) ==
  /\ Click(p, i) /\ ~win[i].desktop /\ OnClose(p, i)
  /\ BringToFront(i)
  /\ UNCHANGED <<dragged, drag_offset, alt_tab_active, pending, display, stale>>

-----------------------------------------------------------------------------
(* kwm_handle_shortcut, called by the keyboard interrupt *)

\* Of the windows in S the one with the lowest z, of equals the lowest slot.
Lowest(S) == CHOOSE i \in S : \A j \in S \ {i} : Below(win, i, j)

\* kwm_cycle_focus_locked: the next window above the focused one, or the lowest.
CycleTarget ==
  LET seen  == {i \in Regular(win) : win[i].z < next_z_index}
      above == {i \in seen : win[i].z > win[focused].z}
  IN  IF focused = None THEN Refocus(win)
      ELSE IF above # {} THEN Lowest(above)
      ELSE IF seen # {} THEN Lowest(seen) ELSE None

AltTab ==
  /\ Room /\ next_z_index < MaxZ
  /\ IF CycleTarget # None THEN Raise(CycleTarget)
     ELSE focused' = None /\ UNCHANGED <<win, next_z_index>>
  /\ alt_tab_active' = TRUE
  /\ UNCHANGED <<dragged, drag_offset, display>>
  /\ Issue(FrameMarks({focused, focused'}))

AltRelease ==
  /\ alt_tab_active
  /\ alt_tab_active' = FALSE
  /\ UNCHANGED <<table, pending, display, stale>>

-----------------------------------------------------------------------------
(* The compositor *)

\* kwm_frame_dirty, then screen_mark_dirty
MutCovers(m) == m = None \/ (win[m].active /\ pixel \in Content(win[m]))
Covers(m) == m = None \/ (win[m].active /\ pixel \in Frame(win[m]))
MarkDirty(m) ==
  /\ pending' = pending \ {m}
  /\ dirty' = (dirty \/ Covers(m))
  /\ UNCHANGED <<table, alt_tab_active, pixel, taken, stale>>

\* compositor_flush takes the dirty region, then paints it.
FlushTake ==
  /\ ~taken /\ dirty
  /\ taken' = TRUE
  /\ dirty' = FALSE
  /\ UNCHANGED <<table, alt_tab_active, pixel, pending, stale>>
FlushPaint ==
  /\ taken
  /\ taken' = FALSE
  /\ stale' = FALSE
  /\ UNCHANGED <<table, alt_tab_active, pixel, pending, dirty>>

-----------------------------------------------------------------------------
Init ==
  /\ win = [i \in Slots |-> Free]
  /\ next_z_index = 1
  /\ focused = None
  /\ dragged = None
  /\ drag_offset = <<0, 0>>
  /\ alt_tab_active = FALSE
  /\ pixel \in Pixels
  /\ pending = {}
  /\ dirty = FALSE /\ taken = FALSE /\ stale = FALSE

Next ==
  \/ \E t \in Apps, g \in Geometries : CreateWindow(t, g)
  \/ \E t \in Shells : CreateDesktop(t)
  \/ \E t \in Apps \cup Shells : DestroyWindowsOf(t)
  \/ \E i \in Slots : UpdateWindow(i)
  \/ \E i \in Slots : SetTitle(i)
  \/ \E i \in Slots : ActivateWindow(i)
  \/ \E i \in Slots : DestroyWindow(i)
  \/ DestroyAllWindows
  \/ MouseUp
  \/ \E p \in Screen : DragMove(p)
  \/ \E p \in Screen, i \in Slots : ClickDesktop(p, i)
  \/ \E p \in Screen : ClickEmpty(p)
  \/ \E p \in Screen, i \in Slots : ClickWindow(p, i)
  \/ \E p \in Screen, i \in Slots : ClickClose(p, i)
  \/ AltTab
  \/ AltRelease
  \/ \E m \in pending : MarkDirty(m)
  \/ FlushTake
  \/ FlushPaint

Spec == Init /\ [][Next]_vars

-----------------------------------------------------------------------------
(* Properties *)

\* An active window has an owner, z-indexes stay in their range, and focus, drag
\* session and outstanding marks name slots of the table.
TypeOK ==
  /\ \A i \in Slots :
       /\ win[i].active => win[i].owner \in Apps \cup Shells
       /\ win[i].z \in 0 .. MaxZ /\ {win[i].x, win[i].y} \subseteq Int
  /\ next_z_index \in 1 .. MaxZ
  /\ {focused, dragged} \subseteq Slots \cup {None}
  /\ pending \subseteq Slots \cup {None}
  /\ {alt_tab_active, dirty, taken, stale} \subseteq BOOLEAN

\* The drag session and the focus name windows that exist and are not the
\* desktop, whatever was destroyed in between by another task (kwm.c:135-136).
NoDanglingSession == {focused, dragged} \subseteq Regular(win) \cup {None}

\* The window that holds the focus is the topmost one: create, click, taskbar,
\* Alt-Tab and the choice after a destruction (kwm.c:119-120) agree about it, and
\* renumbering keeps it so (kwm.c:30-31).
FocusIsTop ==
  focused # None => \A j \in Regular(win) \ {focused} : Below(win, j, focused)

\* What every operation of the window manager leaves behind: the table is well formed,
\* the drag session and the focus are windows of it, and the focus is on the top one.
KwmSound == TypeOK /\ NoDanglingSession /\ FocusIsTop

\* A click goes to the window whose pixel the user sees: kwm_hit_test_locked and
\* the compositor's loop up to next_z_index (compositor.c:210, "Composite every
\* window overlapping r") pick the same one.
ClickHitsWhatIsSeen == \A p \in Screen : HitTest(win, p) = TopAt(p)

\* kwm.c:75: every visible change is followed by a repaint.  A pixel that is out
\* of date is in the dirty region, or a call or the compositor is about to deal
\* with it; only the close button changes pixels without a mark.
RepaintComplete == stale => dirty \/ taken \/ \E m \in pending : Covers(m)

=============================================================================
