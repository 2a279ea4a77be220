------------------------------ MODULE UiWindow ------------------------------
(***************************************************************************)
(* apps/libui.cpp: the window of the widget toolkit, from the events the   *)
(* kernel sends to the widgets' states and the callbacks of the            *)
(* application.                                                            *)
(*                                                                         *)
(* A widget is what its class does with a click, a drag and a release.     *)
(* Where the mouse is is what a hit test finds there: the part of an open  *)
(* dialog, an open menu, and the widget or bar beneath.  The kernel sends  *)
(* a press or a release to the window under the cursor, so a window can    *)
(* see either without the other.  A callback may show a dialog or a toast. *)
(*                                                                         *)
(* Names that start with Mut are slips of the code.                        *)
(***************************************************************************)
EXTENDS Integers, Sequences

CONSTANTS
  Widgets,             \* widgets of the root layout
  Class(_),            \* "button", "textbox", "checkbox", "slider", "source", "target"
  Menus,               \* titles of the menu bar
  Places,              \* what the hit tests find at a position, were a dialog or a menu
                       \* open: [under, title, dialog \in {"outside", "body", "button"}, item]
  Dialogs              \* bound: the dialogs shown, in order

NOWIDGET == "none"
MENUBAR == "menubar"
TOOLBAR == "toolbar"
Bars == {MENUBAR, TOOLBAR}

VARIABLES
  at,                  \* mouse_x, mouse_y
  hovered, focused_widget, grabbed, popup, drag_src, uidialog,
  deleted,             \* dialogs that were deleted
  on,                  \* buttons drawn pressed, sliders dragging, boxes checked
  has_focus, notify_text, running, shown,
  passed,              \* history: a click or a key passed an open dialog
  replaced,            \* history: a dialog was shown while another was open
  lostUp,              \* history: a press came while an earlier one was not released
  heldDown

uiVars == <<at, hovered, focused_widget, grabbed, popup, drag_src, uidialog, deleted, on, has_focus,
            notify_text, running, shown, passed, replaced, lostUp, heldDown>>

UiInit ==
  /\ at = [under |-> NOWIDGET, title |-> NOWIDGET, dialog |-> "outside", item |-> FALSE]
  /\ hovered = NOWIDGET /\ focused_widget = NOWIDGET /\ grabbed = NOWIDGET /\ popup = NOWIDGET /\ drag_src = NOWIDGET
  /\ uidialog = NOWIDGET /\ deleted = {} /\ on = {} /\ has_focus = {}
  /\ notify_text = FALSE /\ running = TRUE /\ shown = 0
  /\ passed = FALSE /\ replaced = FALSE /\ lostUp = FALSE /\ heldDown = FALSE

Focusable(w) == w \in Widgets /\ Class(w) = "textbox"

\* pick_bar, Layout::pick
BarAt(p) == IF p.under \in Bars THEN p.under ELSE NOWIDGET
Picked(p) == p.under

-----------------------------------------------------------------------------
(* What a callback of the application may do *)

\* ui_dialog_show, open_dialog: an open dialog is deleted, hovered or not.
ShowsDialog ==
  /\ shown < Len(Dialogs) /\ shown' = shown + 1
  /\ uidialog' = Dialogs[shown + 1]
  /\ replaced' = (replaced \/ uidialog # NOWIDGET)
  /\ UNCHANGED notify_text
\* ui_window_notify
Notifies == notify_text' = TRUE /\ UNCHANGED <<shown, uidialog, replaced>>
DoesNothing == UNCHANGED <<shown, uidialog, replaced, notify_text>>
App == ShowsDialog \/ Notifies \/ DoesNothing

Callback(how) ==
  /\ App
  /\ passed' = (passed \/ (uidialog # NOWIDGET /\ how \in {"click", "menu", "key"}))
  /\ deleted' = deleted \cup ({uidialog} \ {NOWIDGET, uidialog'})
NoCallback == UNCHANGED <<shown, uidialog, replaced, notify_text, passed, deleted>>

-----------------------------------------------------------------------------
(* Mouse *)

\* set_hover(false): a button is no longer drawn pressed.
Unhovered(w) == IF w \in Widgets /\ Class(w) = "button" THEN on \ {w} ELSE on

\* Window::track_hover: an open dialog, else an open menu and the bars, else the bars
\* and the root.
HoverAt(p) ==
  IF uidialog # NOWIDGET THEN IF p.dialog # "outside" THEN uidialog ELSE NOWIDGET
  ELSE IF popup # NOWIDGET THEN IF p.item THEN popup ELSE BarAt(p)
  ELSE Picked(p)
TrackHover(p) ==
  /\ hovered' = HoverAt(p)
  /\ on' = IF HoverAt(p) # hovered THEN Unhovered(hovered) ELSE on

\* Slider::on_drag: a slider that is dragged follows, and tells the application.
Drags == grabbed \in on /\ grabbed \in Widgets /\ Class(grabbed) = "slider"

MouseMove(p) ==
  /\ running /\ at' = p
  /\ \/ drag_src # NOWIDGET /\ UNCHANGED <<hovered, on>> /\ NoCallback
     \/ drag_src = NOWIDGET /\ ~Drags /\ TrackHover(p) /\ NoCallback
  /\ UNCHANGED <<focused_widget, grabbed, popup, drag_src, has_focus, running, lostUp, heldDown>>
\* The callback comes before the hover is tracked.
MouseDrag(p) ==
  /\ running /\ at' = p /\ drag_src = NOWIDGET /\ Drags
  /\ Callback("drag")
  /\ LET over == IF uidialog' # NOWIDGET THEN IF p.dialog # "outside" THEN uidialog' ELSE NOWIDGET ELSE HoverAt(p)
     IN  /\ hovered' = over
         /\ on' = IF over # hovered THEN Unhovered(hovered) ELSE on
  /\ UNCHANGED <<focused_widget, grabbed, popup, drag_src, has_focus, running, lostUp, heldDown>>

Down == running /\ heldDown' = TRUE /\ lostUp' = (lostUp \/ heldDown)

\* A click on the toast closes it, whatever is behind.
ClickToast ==
  /\ Down /\ notify_text /\ notify_text' = FALSE
  /\ UNCHANGED <<at, hovered, focused_widget, grabbed, popup, drag_src, uidialog, deleted, on, has_focus,
                 running, shown, passed, replaced>>

\* close_dialog, then the dialog's callback, which may show the next one.
MutClosed(d) == hovered
Closed(d) == IF hovered = d THEN NOWIDGET ELSE hovered
DialogEnds ==
  /\ hovered' = Closed(uidialog)
  /\ deleted' = deleted \cup {uidialog}
  /\ UNCHANGED <<replaced, passed>>
  /\ \/ shown < Len(Dialogs) /\ shown' = shown + 1 /\ uidialog' = Dialogs[shown + 1] /\ UNCHANGED notify_text
     \/ uidialog' = NOWIDGET /\ notify_text' \in {notify_text, TRUE} /\ UNCHANGED shown

\* Dialog::on_click: only a button does anything.
ClickDialog ==
  /\ Down /\ uidialog # NOWIDGET
  /\ IF at.dialog = "button" THEN DialogEnds ELSE NoCallback /\ UNCHANGED hovered
  /\ UNCHANGED <<at, focused_widget, grabbed, popup, drag_src, on, has_focus, running>>

\* close_popup
PopupClosed == popup' = NOWIDGET /\ hovered' = IF hovered = popup THEN NOWIDGET ELSE hovered
\* With a menu open: an item, another title, a tool, or away with the menu.
ClickPopup ==
  /\ Down /\ uidialog = NOWIDGET /\ popup # NOWIDGET
  /\ \/ at.item /\ PopupClosed /\ Callback("menu")
     \/ at.item /\ UNCHANGED <<popup, hovered>> /\ NoCallback
     \/ /\ ~at.item /\ at.under = MENUBAR /\ NoCallback
        /\ IF at.title \in {NOWIDGET, popup} THEN PopupClosed
           ELSE popup' = at.title /\ UNCHANGED hovered
     \/ ~at.item /\ at.under = TOOLBAR /\ PopupClosed /\ Callback("click")
     \/ ~at.item /\ at.under \notin Bars /\ PopupClosed /\ NoCallback
  /\ UNCHANGED <<at, focused_widget, grabbed, drag_src, on, has_focus, running>>

\* A source begins a drag; any other widget is grabbed, focused when it takes text,
\* and clicked.
Toggled(w) ==
  CASE w \in Widgets /\ Class(w) = "checkbox" -> IF w \in on THEN on \ {w} ELSE on \cup {w}
    [] w \in Widgets /\ Class(w) \in {"button", "slider"} -> on \cup {w}
    [] OTHER -> on
SetFocus(w) ==
  /\ focused_widget' = w
  /\ has_focus' = IF w = focused_widget THEN has_focus
                  ELSE (has_focus \ {focused_widget}) \cup ({w} \ {NOWIDGET})
Plain == uidialog = NOWIDGET /\ popup = NOWIDGET
StartDrag ==
  /\ Down /\ Plain /\ at.under \in Widgets /\ Class(at.under) = "source"
  /\ drag_src' = at.under
  /\ NoCallback
  /\ UNCHANGED <<at, hovered, focused_widget, grabbed, popup, on, has_focus, running>>
ClickWidget ==
  /\ Down /\ Plain /\ ~(at.under \in Widgets /\ Class(at.under) = "source")
  /\ grabbed' = at.under
  /\ SetFocus(IF Focusable(at.under) THEN at.under ELSE NOWIDGET)
  /\ on' = Toggled(at.under)
  /\ IF at.under = MENUBAR THEN NoCallback /\ popup' = at.title
     ELSE /\ UNCHANGED popup
          /\ IF at.under = NOWIDGET THEN NoCallback ELSE Callback("click")
  /\ UNCHANGED <<at, hovered, drag_src, running>>

\* Left up: a drop, or the end of a grab.
Up == running /\ heldDown' = FALSE /\ UNCHANGED lostUp
Drop ==
  /\ Up /\ drag_src # NOWIDGET /\ drag_src' = NOWIDGET
  /\ IF at.under \in Widgets /\ Class(at.under) = "target" THEN Callback("drop") ELSE NoCallback
  /\ UNCHANGED <<at, hovered, focused_widget, grabbed, popup, on, has_focus, running>>
\* on_release: buttons and sliders.
Released(w) == IF w \in Widgets /\ Class(w) \in {"button", "slider"} THEN on \ {w} ELSE on
Release ==
  /\ Up /\ drag_src = NOWIDGET
  /\ on' = Released(grabbed) /\ grabbed' = NOWIDGET
  /\ NoCallback
  /\ UNCHANGED <<at, hovered, focused_widget, popup, drag_src, has_focus, running>>

-----------------------------------------------------------------------------
(* Keys, wheel, ticks, close *)

Escape ==
  /\ running
  /\ \/ popup # NOWIDGET /\ PopupClosed /\ NoCallback /\ UNCHANGED running
     \/ popup = NOWIDGET /\ uidialog # NOWIDGET /\ DialogEnds /\ UNCHANGED <<popup, running>>
     \/ popup = NOWIDGET /\ uidialog = NOWIDGET /\ running' = FALSE /\ NoCallback /\ UNCHANGED <<popup, hovered>>
  /\ UNCHANGED <<at, focused_widget, grabbed, drag_src, on, has_focus, lostUp, heldDown>>
\* A shortcut, else the focused widget; a dialog swallows both.
KeyGoes == uidialog = NOWIDGET
KeyDown ==
  /\ running /\ KeyGoes
  /\ Callback("key")
  /\ UNCHANGED <<at, hovered, focused_widget, grabbed, popup, drag_src, on, has_focus, running, lostUp, heldDown>>
\* The toast expires, the tick callback runs.
Tick ==
  /\ running
  /\ \/ notify_text /\ notify_text' = FALSE /\ UNCHANGED <<shown, uidialog, replaced, passed, deleted>>
     \/ Callback("tick")
  /\ UNCHANGED <<at, hovered, focused_widget, grabbed, popup, drag_src, on, has_focus, running, lostUp, heldDown>>
WinClose ==
  /\ running /\ running' = FALSE
  /\ UNCHANGED <<at, hovered, focused_widget, grabbed, popup, drag_src, uidialog, deleted, on, has_focus,
                 notify_text, shown, passed, replaced, lostUp, heldDown>>

UiNext ==
  \/ \E p \in Places : MouseMove(p) \/ MouseDrag(p)
  \/ ClickToast \/ ClickDialog \/ ClickPopup \/ StartDrag \/ ClickWidget
  \/ Drop \/ Release \/ Escape \/ KeyDown \/ Tick \/ WinClose
UiSpec == UiInit /\ [][UiNext]_uiVars

-----------------------------------------------------------------------------
(* Properties *)

\* No pointer of the window leads to a deleted dialog, unless one dialog was shown
\* over another; the focus flag is on the focused widget and no other; an open dialog
\* keeps clicks and keys from everything behind it; and a button drawn pressed or a
\* slider that follows the mouse is grabbed or hovered, so none is left stuck, unless
\* the window missed a release.
UiSound ==
  /\ ~replaced => {hovered, focused_widget, grabbed} \cap deleted = {}
  /\ has_focus = {focused_widget} \ {NOWIDGET}
  /\ ~passed
  /\ ~lostUp => \A w \in on : Class(w) \in {"button", "slider"} => w \in {grabbed, hovered}

=============================================================================
