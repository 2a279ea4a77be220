------------------------------ MODULE Widgets -------------------------------
(***************************************************************************)
(* The widgets of apps/libui.cpp in three parts: text fields, scrolling    *)
(* lists, and controls that divide their own rectangle.                    *)
(*                                                                         *)
(* Text: the one-line text box with the toolkit's clipboard, and the       *)
(* multi-line editor.  A character is a letter or the newline; `text`  *)
(* is the buffer up to its terminator and positions count from 0.  After   *)
(* every event the window draws, and drawing clamps the scroll position.   *)
(***************************************************************************)
EXTENDS Integers, Sequences, FiniteSetsExt, SequencesExt

CONSTANTS
  EDIT_MAX,            \* TextEdit::MAX_TEXT
  BOX_MAX,             \* TextBox::MAX_TEXT
  VIS,                 \* vis_lines
  ClickRows, ClickCols,
  Strings              \* what an application sets or appends

ASSUME EditAssumption == EDIT_MAX \in Nat \ {0} /\ BOX_MAX \in Nat \ {0} /\ VIS \in Nat \ {0}

NL == "newline"
Char == {"a", NL}

VARIABLES
  text, caret, scroll_top, readonly,
  overrun,             \* history: a character was typed into a full buffer
  scrolled,            \* history: scrolled, or text set, since the caret was brought into view
  box, box_cur, g_clipboard

editVars == <<text, caret, scroll_top, readonly, overrun, scrolled>>
boxVars == <<box, box_cur, g_clipboard>>
textVars == <<editVars, boxVars>>

EditInit ==
  /\ text = <<>> /\ caret = 0 /\ scroll_top = 0 /\ readonly \in BOOLEAN
  /\ overrun = FALSE /\ scrolled = FALSE
  /\ box = <<>> /\ box_cur = 0 /\ g_clipboard = <<>>

-----------------------------------------------------------------------------
(* Lines *)

line_at(t, i) == Cardinality({k \in 1 .. i : k <= Len(t) /\ t[k] = NL})
line_start(t, i) == Max({s \in 0 .. i : s = 0 \/ t[s] = NL})
line_end(t, i) == Min({e \in i .. Len(t) : e = Len(t) \/ t[e + 1] = NL})
total_lines(t) == line_at(t, Len(t)) + 1

clamp_scroll(t, top) == Max({0, Min({top, Max({0, total_lines(t) - VIS})})})
ensure_cursor_visible(t, c, top) ==
  LET line == line_at(t, c)
  IN  clamp_scroll(t, IF line < top THEN line
                      ELSE IF line >= top + VIS THEN line - VIS + 1 ELSE top)

\* Up and down keep the column, or stop at the end of a shorter line.
UpFrom(t, c) ==
  LET ls == line_start(t, c)
      ps == line_start(t, ls - 1)
  IN  IF ls = 0 THEN c ELSE Min({ps + (c - ls), line_end(t, ps)})
DownFrom(t, c) ==
  LET le == line_end(t, c)
  IN  IF le = Len(t) THEN c ELSE Min({le + 1 + (c - line_start(t, c)), line_end(t, le + 1)})

\* on_click: down `row` newlines, then right at most `col` characters.
ClickAt(t, row, col) ==
  LET start == IF row = 0 THEN 0
               ELSE IF row >= total_lines(t) THEN Len(t)
               ELSE CHOOSE s \in 1 .. Len(t) : t[s] = NL /\ line_at(t, s) = row
  IN  Min({start + col, line_end(t, start)})

-----------------------------------------------------------------------------
(* The editor *)

Edited(t, c) ==
  /\ text' = t /\ caret' = c
  /\ scroll_top' = ensure_cursor_visible(t, c, scroll_top)
  /\ scrolled' = FALSE
  /\ UNCHANGED <<readonly, overrun>>
  /\ UNCHANGED boxVars

\* Only an editor that is not read-only takes the focus, and the keys with it.
EditKeys == ~readonly /\ ~overrun

Inserted(t, i, ch) == SubSeq(t, 1, i) \o <<ch>> \o SubSeq(t, i + 1, Len(t))
Deleted(t, i) == SubSeq(t, 1, i) \o SubSeq(t, i + 2, Len(t))

Type(ch) == EditKeys /\ Len(text) < EDIT_MAX - 1 /\ Edited(Inserted(text, caret, ch), caret + 1)
\* insert_at returns, but the caret moves on.  What follows reads the buffer past its
\* text and is not modelled.
TypeFull ==
  /\ EditKeys /\ Len(text) >= EDIT_MAX - 1
  /\ caret' = caret + 1 /\ overrun' = TRUE
  /\ UNCHANGED <<text, scroll_top, readonly, scrolled>>
  /\ UNCHANGED boxVars
BackspaceKey == EditKeys /\ Edited(IF caret > 0 THEN Deleted(text, caret - 1) ELSE text, Max({0, caret - 1}))
\* Left, Right, Up, Down, Home, End
Arrow ==
  /\ EditKeys
  /\ \E c \in {Max({0, caret - 1}), Min({Len(text), caret + 1}), UpFrom(text, caret), DownFrom(text, caret),
               line_start(text, caret), line_end(text, caret)} : Edited(text, c)
\* Ctrl+A and Ctrl+E return at once.
CtrlMove ==
  /\ EditKeys
  /\ caret' \in {line_start(text, caret), line_end(text, caret)}
  /\ UNCHANGED <<text, scroll_top, readonly, overrun, scrolled>>
  /\ UNCHANGED boxVars
\* PgUp, PgDn: scrolled by a page, then back to where the caret is in view.
Page ==
  /\ EditKeys
  /\ \E top \in {scroll_top - VIS, scroll_top + VIS} :
       scroll_top' = ensure_cursor_visible(text, caret, clamp_scroll(text, top))
  /\ scrolled' = FALSE
  /\ UNCHANGED <<text, caret, readonly, overrun>>
  /\ UNCHANGED boxVars
ClickEdit ==
  \E row \in ClickRows, col \in ClickCols :
    ~overrun /\ Edited(text, ClickAt(text, row + scroll_top, col))
Wheel ==
  /\ ~overrun
  /\ \E delta \in {-1, 1} : scroll_top' = clamp_scroll(text, scroll_top + delta)
  /\ scrolled' = TRUE
  /\ UNCHANGED <<text, caret, readonly, overrun>>
  /\ UNCHANGED boxVars

Cut(s, max) == SubSeq(s, 1, Min({Len(s), max}))
\* ui_textedit_append follows the end; ui_textedit_set_text leaves the scroll position.
append ==
  /\ ~overrun
  /\ \E s \in Strings :
       LET t == text \o Cut(s, EDIT_MAX - 1 - Len(text))
       IN  /\ text' = t /\ caret' = Len(t)
           /\ scroll_top' = clamp_scroll(t, total_lines(t) - VIS)
  /\ scrolled' = FALSE
  /\ UNCHANGED <<readonly, overrun>>
  /\ UNCHANGED boxVars
set_text ==
  /\ ~overrun
  /\ \E s \in Strings :
       LET t == Cut(s, EDIT_MAX - 1)
       IN  text' = t /\ caret' = Len(t) /\ scroll_top' = clamp_scroll(t, scroll_top)
  /\ scrolled' = TRUE
  /\ UNCHANGED <<readonly, overrun>>
  /\ UNCHANGED boxVars
clear ==
  /\ text' = <<>> /\ caret' = 0 /\ scroll_top' = 0 /\ overrun' = FALSE /\ scrolled' = FALSE
  /\ UNCHANGED readonly
  /\ UNCHANGED boxVars

-----------------------------------------------------------------------------
(* The text box and the clipboard *)

Boxed(s) == box' = s /\ box_cur' = Len(s) /\ UNCHANGED editVars
BoxKey == Len(box) < BOX_MAX - 1 /\ Boxed(Append(box, "a")) /\ UNCHANGED g_clipboard
BoxBackspace == box # <<>> /\ Boxed(SubSeq(box, 1, Len(box) - 1)) /\ UNCHANGED g_clipboard
BoxCopy == g_clipboard' = box /\ Boxed(box)
BoxCut == g_clipboard' = box /\ Boxed(<<>>)
BoxPaste == Boxed(box \o Cut(g_clipboard, BOX_MAX - 1 - Len(box))) /\ UNCHANGED g_clipboard
BoxSet == \E s \in Strings : Boxed(Cut(s, BOX_MAX - 1)) /\ UNCHANGED g_clipboard
clipboard_set == \E s \in Strings \cup {<<>>} : g_clipboard' = s /\ UNCHANGED <<box, box_cur, editVars>>

EditNext ==
  \/ (\E ch \in Char : Type(ch)) \/ TypeFull \/ BackspaceKey \/ Arrow \/ CtrlMove \/ Page
  \/ ClickEdit \/ Wheel \/ append \/ set_text \/ clear
BoxNext == BoxKey \/ BoxBackspace \/ BoxCopy \/ BoxCut \/ BoxPaste \/ BoxSet \/ clipboard_set

-----------------------------------------------------------------------------
(* Properties *)

Column(t, c) == c - line_start(t, c)
LineLength(t, c) == line_end(t, c) - line_start(t, c)

\* Short of a character typed into a full buffer, the caret stands in the text, the
\* scroll position shows lines that exist, and the caret is in view unless the user
\* scrolled away; up, down and a click put it on the line meant, at the column meant
\* or at the end of a shorter line; and the text box never outgrows its buffer.
EditSound ==
  /\ ~overrun =>
       /\ caret \in 0 .. Len(text) /\ Len(text) < EDIT_MAX
       /\ scroll_top \in 0 .. Max({0, total_lines(text) - VIS})
       /\ ~scrolled => line_at(text, caret) \in scroll_top .. scroll_top + VIS - 1
       /\ \A c \in {UpFrom(text, caret), DownFrom(text, caret)} :
            c # caret =>
              /\ line_at(text, c) - line_at(text, caret) \in {-1, 1}
              /\ Column(text, c) = Min({Column(text, caret), LineLength(text, c)})
       /\ line_at(text, caret) > 0 => UpFrom(text, caret) < caret
       /\ line_at(text, caret) < total_lines(text) - 1 => DownFrom(text, caret) > caret
       /\ \A row \in ClickRows, col \in ClickCols :
            LET c == ClickAt(text, row, col)
            IN  row < total_lines(text) =>
                  line_at(text, c) = row /\ Column(text, c) = Min({col, LineLength(text, c)})
  /\ Len(box) < BOX_MAX /\ box_cur = Len(box)

-----------------------------------------------------------------------------
(***************************************************************************)
(* apps/libui.cpp: the scrolling widgets (Scrollable and what derives from *)
(* it: ListView, Table, TreeView), in pixels of a small widget whose top   *)
(* left corner is (0, 0).  Labels and cells are left out; a tree node is   *)
(* its depth and whether it is expanded.  C's division truncates towards   *)
(* zero.                                                                   *)
(***************************************************************************)

CONSTANTS
  ROW_H, BAR_W, HEADER_H, MIN_THUMB, LIST_H,
  MAX_ITEMS,           \* MAX_ITEMS, MAX_ROWS, MAX_NODES
  Depths,              \* depths of tree nodes
  Ys                   \* heights at which the mouse clicks

ASSUME ListAssumption ==
  /\ {ROW_H, BAR_W, HEADER_H, MIN_THUMB, LIST_H, MAX_ITEMS} \subseteq Nat \ {0}
  /\ HEADER_H + BAR_W < LIST_H

VARIABLES
  widget,              \* "list", "table", "tree"
  nodes,               \* the items: [depth, expanded]
  scroll, scroll_max,
  bar_drag,            \* NotDragged, or bar_grab_y and bar_grab_scroll
  selected, hover_row,
  emptied              \* history: the rows were cleared under the selection or the hover

listVars == <<widget, nodes, scroll, scroll_max, bar_drag, selected, hover_row, emptied>>

NotDragged == <<>>
Quot(a, b) == IF a >= 0 THEN a \div b ELSE -((-a) \div b)
Into(v, hi) == Max({0, Min({v, hi})})

ListInit ==
  /\ widget \in {"list", "table", "tree"}
  /\ nodes = <<>> /\ scroll = 0 /\ scroll_max = 0 /\ bar_drag = NotDragged
  /\ selected = -1 /\ hover_row = -1 /\ emptied = FALSE

-----------------------------------------------------------------------------
(* Geometry *)

Header == IF widget = "table" THEN HEADER_H ELSE 0

\* visible_node: what the nearest shallower node before it says.
VisibleNode(ns, i) ==
  LET above == {j \in 1 .. i - 1 : ns[j].depth < ns[i].depth}
  IN  above # {} => ns[Max(above)].expanded
Rows(ns) == IF widget = "tree" THEN {i \in 1 .. Len(ns) : VisibleNode(ns, i)} ELSE 1 .. Len(ns)
\* node_at_vis; positions of a plain list are its indices.
AtRow(ns, r) ==
  IF \E i \in Rows(ns) : Cardinality({j \in Rows(ns) : j < i}) = r
  THEN (CHOOSE i \in Rows(ns) : Cardinality({j \in Rows(ns) : j < i}) = r) - 1
  ELSE -1

\* set_scroll_view
ScrollView(ns) ==
  LET max == Max({0, Cardinality(Rows(ns)) * ROW_H - (LIST_H - Header - BAR_W)})
  IN  scroll_max' = max /\ scroll' = Min({scroll, max})

\* bar_thumb_h and the room the thumb moves in
Thumb == Max({MIN_THUMB, ((LIST_H - BAR_W) * (LIST_H - BAR_W)) \div (scroll_max + (LIST_H - BAR_W))})
BarRange == LIST_H - Thumb

\* The row a click at y means; a division, also of what lies above the first row.
RowAt(y) == AtRow(nodes, Quot(scroll + y - Header, ROW_H))
RowOver(y) == IF y >= Header THEN RowAt(y) ELSE -1

-----------------------------------------------------------------------------
(* Operations *)

\* add_item, add_row, add_node
add_item ==
  /\ Len(nodes) < MAX_ITEMS
  /\ \E d \in (IF widget = "tree" THEN Depths ELSE {0}), e \in (IF widget = "tree" THEN BOOLEAN ELSE {TRUE}) :
       LET ns == Append(nodes, [depth |-> d, expanded |-> e])
       IN  nodes' = ns /\ ScrollView(ns)
  /\ UNCHANGED <<widget, bar_drag, selected, hover_row, emptied>>
\* ui_table_clear: the selection and the hover stay.
table_clear ==
  /\ widget = "table" /\ nodes' = <<>> /\ ScrollView(<<>>)
  /\ emptied' = (selected # -1 \/ hover_row # -1)
  /\ UNCHANGED <<widget, bar_drag, selected, hover_row>>

list_scroll ==
  /\ \E delta \in {-1, 1} : scroll' = Into(scroll + delta * ROW_H, scroll_max)
  /\ UNCHANGED <<widget, nodes, scroll_max, bar_drag, selected, hover_row, emptied>>

ClickBar(y) ==
  /\ bar_drag' = <<y, scroll>>
  /\ scroll' = Into(IF BarRange > 0 THEN Quot((y - Thumb \div 2) * scroll_max, BarRange) ELSE scroll, scroll_max)
  /\ UNCHANGED <<widget, nodes, scroll_max, selected, hover_row, emptied>>
DragBar(y) ==
  /\ bar_drag # NotDragged
  /\ scroll' = IF BarRange <= 0 THEN scroll
               ELSE Into(bar_drag[2] + Quot((y - bar_drag[1]) * scroll_max, BarRange), scroll_max)
  /\ UNCHANGED <<widget, nodes, scroll_max, bar_drag, selected, hover_row, emptied>>
ReleaseBar ==
  /\ bar_drag # NotDragged /\ bar_drag' = NotDragged
  /\ UNCHANGED <<widget, nodes, scroll, scroll_max, selected, hover_row, emptied>>

\* on_content_click: a tree's marker expands or collapses, the label selects.
ClickRow(y) ==
  /\ RowAt(y) >= 0
  /\ selected' = RowAt(y)
  /\ emptied' = (emptied /\ hover_row # -1)
  /\ UNCHANGED <<widget, nodes, scroll, scroll_max, bar_drag, hover_row>>
ClickMarker(y) ==
  /\ widget = "tree" /\ RowAt(y) >= 0
  /\ LET ns == [nodes EXCEPT ![RowAt(y) + 1].expanded = ~@]
     IN  nodes' = ns /\ ScrollView(ns)
  /\ UNCHANGED <<widget, bar_drag, selected, hover_row, emptied>>

TrackRow(y) ==
  /\ hover_row' = RowOver(y)
  /\ emptied' = (emptied /\ selected # -1)
  /\ UNCHANGED <<widget, nodes, scroll, scroll_max, bar_drag, selected>>
LeaveList ==
  /\ hover_row' = -1 /\ emptied' = (emptied /\ selected # -1)
  /\ UNCHANGED <<widget, nodes, scroll, scroll_max, bar_drag, selected>>

ListNext ==
  \/ add_item \/ table_clear \/ list_scroll \/ ReleaseBar \/ LeaveList
  \/ \E y \in Ys : ClickBar(y) \/ DragBar(y) \/ ClickRow(y) \/ ClickMarker(y) \/ TrackRow(y)
ListSpec == ListInit /\ [][ListNext]_listVars

-----------------------------------------------------------------------------
(* Properties *)

\* draw: where the rows are.
DrawnAt(y) ==
  {i \in Rows(nodes) :
     LET top == Header + Cardinality({j \in Rows(nodes) : j < i}) * ROW_H - scroll
     IN  y >= Header /\ top <= y /\ y < top + ROW_H}

\* The scroll position stays within what there is to scroll; below a table's header the
\* row a click or a hover means is the row drawn there; the last row can be brought
\* into view; and the selection and the hover are rows there are, unless the
\* application cleared the table.
ListSound ==
  /\ scroll \in 0 .. scroll_max
  /\ \A y \in Header .. LIST_H - 1 : DrawnAt(y) = {i \in Rows(nodes) : i - 1 = RowAt(y)}
  /\ Header + Cardinality(Rows(nodes)) * ROW_H - scroll_max <= LIST_H
  /\ ~emptied => {selected, hover_row} \subseteq -1 .. Len(nodes) - 1

-----------------------------------------------------------------------------
(***************************************************************************)
(* apps/libui.cpp: the controls that divide their own rectangle: tool bar, *)
(* menu bar, menu and the buttons of a dialog, which highlight the part    *)
(* under the mouse and run the callback of the part that is clicked; the   *)
(* slider, whose handle is drawn from the value that the mouse set; and    *)
(* the image of user_apps/viewer.c, which is zoomed.                       *)
(*                                                                         *)
(* Widths and heights are those of a small control in the corner (0, 0);   *)
(* a dialog is its row of buttons, and a label its length in pixels.  C's  *)
(* division truncates towards zero.                                        *)
(*                                                                         *)
(* Names that start with Mut are slips of the code.                        *)
(***************************************************************************)

CONSTANTS
  BarWidths,           \* widths of a window, and so of its bars
  CellH,               \* height of a bar, a menu's item and a dialog's button
  EDGE,                \* a menu's edge above its items (2)
  GAP, MARGIN, MIN_W,  \* a dialog: between buttons, beside them, least width
  LabelWidths,         \* widths of a dialog's buttons
  MAX_CELLS,           \* MAX_BTNS, MAX_TITLES, MAX_ITEMS
  SLIDER_W, HANDLE_W,
  Ranges,              \* a slider's [min, max] as asked for
  MIN_SCALE, MAX_SCALE, SCALE_STEP,
  NaturalWidths,       \* the natural widths of the pictures; 0 cannot be decoded
  Spots                \* where the mouse may be: [x, y]

VARIABLES
  control,             \* "toolbar", "menubar", "menu", "dialog", "slider", "image"
  width,
  cells,               \* the parts: their own widths, which only a dialog looks at
  hover_idx,           \* -1 or the part highlighted
  pressed_idx,         \* history: the part clicked since the mouse moved, NoClick before
  spot,                \* history: where the mouse was last
  slider,              \* [min, max, val, dragging]
  iw, shown_w, g_scale,\* the picture's own width, the widget's, the viewer's zoom
  decoded              \* px # 0

controlVars == <<control, width, cells, hover_idx, pressed_idx, spot, slider, iw, shown_w, g_scale, decoded>>
partState == <<control, width, cells, hover_idx, pressed_idx, spot>>
picture == <<iw, shown_w, g_scale, decoded>>

NoClick == -2
Origin == [x |-> 0, y |-> 0]     \* where a window takes the mouse to be before it moves
CQuot(a, b) == IF a >= 0 THEN a \div b ELSE -((-a) \div b)
Within(v, lo, hi) == Max({lo, Min({v, hi})})

\* Slider: a range that is empty or upside down has one step.
NewSlider(r) == [min |-> r[1], max |-> IF r[2] <= r[1] THEN r[1] + 1 ELSE r[2], val |-> r[1], dragging |-> FALSE]

ControlInit ==
  /\ control \in {"toolbar", "menubar", "menu", "dialog", "slider", "image"}
  /\ width \in BarWidths /\ (control \in {"slider", "image"} => width = Max(BarWidths))
  /\ cells = <<>> /\ hover_idx = -1 /\ pressed_idx = NoClick /\ spot = Origin
  /\ \E r \in Ranges : slider = NewSlider(r) /\ (control # "slider" => r = CHOOSE q \in Ranges : TRUE)
  /\ iw = 0 /\ shown_w = 0 /\ g_scale = 100 /\ decoded = FALSE

-----------------------------------------------------------------------------
(* The parts of a bar, a menu, a dialog *)

Sum(ws) == FoldSeq(LAMBDA a, b : a + b, 0, ws)
\* btn_total, and the constructor's width.
Buttons(ws) == Sum(ws) + (GAP * (Len(ws) - 1))
DialogW == Max({MIN_W, Buttons(cells) + MARGIN})
\* btn_x
ButtonX(i) == ((DialogW - Buttons(cells)) \div 2) + Sum(SubSeq(cells, 1, i)) + (GAP * i)

\* The part at a place, from 0, or -1: of a dialog, a tool bar, a menu bar, a menu.
hit_button(p) ==
  LET on == {k \in 0 .. Len(cells) - 1 : p.x >= ButtonX(k) /\ p.x < ButtonX(k) + cells[k + 1]}
  IN  IF on = {} \/ p.y < 0 \/ p.y >= CellH THEN -1 ELSE CHOOSE k \in on : TRUE
ToolAt(p) ==
  LET i == CQuot(p.x, width \div Len(cells))
  IN  IF p.y < 0 \/ p.y >= CellH \/ i < 0 \/ i >= Len(cells) THEN -1 ELSE i
MenuTitleAt(p) ==
  LET i == CQuot(p.x, width \div Len(cells))
  IN  IF p.y < 0 \/ p.y >= CellH \/ p.x < 0 \/ p.x >= width \/ i >= Len(cells) THEN -1 ELSE i
MutEdge == EDGE + 1
Edge == EDGE
ItemAt(p) ==
  LET i == CQuot(p.y - Edge, CellH)
  IN  IF i < 0 \/ i >= Len(cells) \/ p.x < 0 \/ p.x >= width THEN -1 ELSE i
PartAt(p) ==
  CASE control = "dialog" -> hit_button(p)
    [] control = "toolbar" -> ToolAt(p)
    [] control = "menubar" -> MenuTitleAt(p)
    [] control = "menu" -> ItemAt(p)

\* Widget::pick: the rectangle of the control.
Inside(p) ==
  /\ p.x >= 0 /\ p.y >= 0
  /\ p.x < (IF control = "dialog" THEN DialogW ELSE width)
  /\ p.y < (IF control = "menu" THEN (Len(cells) * CellH) + (2 * EDGE) ELSE CellH)

\* draw: the rectangle that is highlighted for part i.
DrawnItem(i) == [x |-> 0, y |-> EDGE + (i * CellH), w |-> width, h |-> CellH]
DrawnButton(i) == [x |-> ButtonX(i), y |-> 0, w |-> cells[i + 1], h |-> CellH]
DrawnTool(i) == [x |-> i * (width \div Len(cells)), y |-> 0, w |-> width \div Len(cells), h |-> CellH]
DrawnPart(i) ==
  CASE control = "menu" -> DrawnItem(i)
    [] control = "dialog" -> DrawnButton(i)
    [] OTHER -> DrawnTool(i)

AddCell(w) ==
  /\ spot = Origin
  /\ cells' = IF Len(cells) < MAX_CELLS THEN Append(cells, w) ELSE cells
  /\ UNCHANGED <<control, width, hover_idx, pressed_idx, spot, slider, picture>>
add_button == control = "toolbar" /\ AddCell(0)
add_menu == control = "menubar" /\ AddCell(0)
add_menu_item == control = "menu" /\ AddCell(0)
DialogButton(w) == control = "dialog" /\ AddCell(w)

\* track_hover of the window and of the control; set_hover(false) when it leaves.
TrackPart(p) ==
  /\ cells # <<>> /\ spot' = p
  /\ hover_idx' = IF Inside(p) THEN PartAt(p) ELSE -1
  /\ pressed_idx' = NoClick
  /\ UNCHANGED <<control, width, cells, slider, picture>>
\* on_click, at the place of the last move: the callback of the part.
ClickPart ==
  /\ cells # <<>> /\ pressed_idx' = IF Inside(spot) THEN PartAt(spot) ELSE -1
  /\ UNCHANGED <<control, width, cells, hover_idx, spot, slider, picture>>

-----------------------------------------------------------------------------
(* Slider *)

\* clamp_to, set_value
Span(s) == s.max - s.min
ClampTo(s, x) == [s EXCEPT !.val = Within(s.min + CQuot(x * Span(s), SLIDER_W - HANDLE_W), s.min, s.max)]
\* draw
HandleX(s) == ((s.val - s.min) * (SLIDER_W - HANDLE_W)) \div (s.max - s.min)

SlideClick(x) ==
  /\ control = "slider" /\ x >= 0 /\ x < SLIDER_W
  /\ slider' = [ClampTo(slider, x) EXCEPT !.dragging = TRUE]
  /\ spot' = [x |-> x, y |-> 0]
  /\ UNCHANGED <<control, width, cells, hover_idx, pressed_idx, picture>>
SlideDrag(x) ==
  /\ control = "slider" /\ slider.dragging
  /\ slider' = ClampTo(slider, x)
  /\ spot' = [x |-> x, y |-> 0]
  /\ UNCHANGED <<control, width, cells, hover_idx, pressed_idx, picture>>
SlideRelease ==
  /\ slider.dragging /\ slider' = [slider EXCEPT !.dragging = FALSE]
  /\ UNCHANGED <<partState, picture>>
\* ui_slider_set_value, from the application.
SetValue(v) ==
  /\ control = "slider" /\ ~slider.dragging
  /\ slider' = [slider EXCEPT !.val = Within(v, slider.min, slider.max)]
  /\ UNCHANGED <<partState, picture>>

-----------------------------------------------------------------------------
(* Image, and the viewer's zoom *)

\* Image::set_scale
Scaled(percent) == IF iw > 0 THEN (iw * Within(percent, MIN_SCALE, MAX_SCALE)) \div 100 ELSE shown_w
\* show_file, Image::set_file: a picture that cannot be decoded leaves the old size.
ShowFile(natural) ==
  /\ control = "image"
  /\ decoded' = (natural > 0)
  /\ iw' = IF natural > 0 THEN natural ELSE iw
  /\ shown_w' = IF iw' > 0 THEN iw' ELSE shown_w
  /\ g_scale' = 100
  /\ UNCHANGED <<partState, slider>>
\* zoom_plus, zoom_minus
Zoomed(d) == IF d > 0 THEN IF g_scale < MAX_SCALE THEN g_scale + d ELSE g_scale
             ELSE IF g_scale > MIN_SCALE THEN g_scale + d ELSE g_scale
Zoom(d) ==
  /\ control = "image"
  /\ g_scale' = Zoomed(d) /\ shown_w' = Scaled(g_scale')
  /\ UNCHANGED <<partState, slider, iw, decoded>>

ControlNext ==
  \/ add_button \/ add_menu \/ add_menu_item
  \/ \E w \in LabelWidths : DialogButton(w)
  \/ \E p \in Spots : TrackPart(p)
  \/ ClickPart
  \/ \E x \in -2 .. SLIDER_W + 2 : SlideClick(x) \/ SlideDrag(x)
  \/ SlideRelease
  \/ \E r \in Ranges : \E v \in {r[1] - 1, r[1] + 1, r[2] + 1} : SetValue(v)
  \/ \E n \in NaturalWidths : ShowFile(n)
  \/ \E d \in {-SCALE_STEP, SCALE_STEP} : Zoom(d)
ControlSpec == ControlInit /\ [][ControlNext]_controlVars

-----------------------------------------------------------------------------
(* Properties *)

\* Once it has moved, the mouse presses what it highlights: the part that would run is the one drawn under
\* the mouse, except on the edge of a menu, which counts as its first item; the parts of
\* a dialog lie inside it; a slider's value stays in its range, reaches both ends, and
\* its handle is drawn where the mouse put it, less than a step and a pixel to the left;
\* the picture is shown at the scale that the viewer counts.
ControlSound ==
  /\ pressed_idx \in {NoClick, hover_idx} \/ spot = Origin
  /\ cells # <<>> /\ hover_idx >= 0 =>
       LET r == DrawnPart(hover_idx)
       IN  /\ spot.x >= r.x /\ spot.x < r.x + r.w /\ spot.y < r.y + r.h
           /\ spot.y >= r.y \/ (control = "menu" /\ spot.y < EDGE /\ hover_idx = 0)
  /\ control = "dialog" => \A i \in 0 .. Len(cells) - 1 : ButtonX(i) >= 0 /\ ButtonX(i) + cells[i + 1] <= DialogW
  /\ slider.val \in slider.min .. slider.max
  /\ slider.dragging =>
       LET x == Within(spot.x, 0, SLIDER_W - HANDLE_W)
       IN  /\ HandleX(slider) <= x
           /\ (x - HandleX(slider) - 1) * (slider.max - slider.min) < SLIDER_W - HANDLE_W
           /\ spot.x <= 0 => slider.val = slider.min
           /\ spot.x >= SLIDER_W - HANDLE_W => slider.val = slider.max
  /\ iw > 0 => shown_w = (iw * g_scale) \div 100
  /\ g_scale \in MIN_SCALE .. MAX_SCALE
=============================================================================
