------------------------------ MODULE Layouts ------------------------------
(***************************************************************************)
(* apps/libui.cpp: the widget tree of a window.  A layout places its       *)
(* children when it is drawn; a tab and a scroll view clip what they draw; *)
(* a hit test walks the same tree without drawing it.  The window draws    *)
(* the tree after every click, wheel step and callback, so what a click    *)
(* finds is what the last drawing left behind.                             *)
(*                                                                         *)
(* A widget without children is its rectangle.  Positions are the pixels   *)
(* of a small window; the root layout is a VBox in its corner.             *)
(*                                                                         *)
(* Names that start with Mut are slips of the code.                        *)
(***************************************************************************)
EXTENDS Integers, Sequences, SequencesExt, FiniteSetsExt

CONSTANTS
  Nodes,               \* widgets that can be added below the root
  NodeClass(_),        \* "hbox", "vbox", "tab", "view", "leaf"
  Sizes,               \* what a leaf may measure after a change: [w, h]
  SizeOf(_),           \* the size each is made with
  SPACING, STRIP_H, VIEW_BAR_W, MAX_CHILDREN,
  Points,              \* where the mouse may be: [x, y]
  MaxResizes           \* bound: sizes changed by callbacks

ROOT_BOX == "root"
ClassOf(n) == IF n = ROOT_BOX THEN "vbox" ELSE NodeClass(n)
Boxes == {n \in Nodes \cup {ROOT_BOX} : ClassOf(n) \in {"hbox", "vbox"}}
Part(n, i) == [widget |-> n, part |-> i]     \* a title of a tab, a view's bar, or all of it
WHOLE == 0
BAR == -1
Nothing == Part("nothing", WHOLE)

VARIABLES
  below,               \* children of a layout, panels of a tab, child of a view
  place,               \* x, y, w, h
  active,              \* the tab's panel
  vscroll, vscroll_max,\* of the view
  painted,             \* what the last drawing put on the screen, in order
  resized, shownOnce

layVars == <<below, place, active, vscroll, vscroll_max, painted, resized, shownOnce>>

LayInit ==
  /\ below = [n \in Nodes \cup {ROOT_BOX} |-> <<>>]
  /\ place = [n \in Nodes \cup {ROOT_BOX} |->
                IF n \in Boxes THEN [x |-> 0, y |-> 0, w |-> 0, h |-> 0]
                ELSE [x |-> 0, y |-> 0, w |-> SizeOf(n).w, h |-> SizeOf(n).h]]
  /\ active = 1 /\ vscroll = 0 /\ vscroll_max = 0
  /\ painted = <<>> /\ resized = 0 /\ shownOnce = FALSE

In(r, p) == p.x >= r.x /\ p.x < r.x + r.w /\ p.y >= r.y /\ p.y < r.y + r.h

-----------------------------------------------------------------------------
(* Drawing: on a record of what it changes, with the clip of the painter *)

NoClip == <<>>
\* Painter::rect
Clipped(r, clip) ==
  IF clip = NoClip THEN r
  ELSE LET x == Max({r.x, clip.x})
           y == Max({r.y, clip.y})
       IN  [x |-> x, y |-> y, w |-> Min({r.x + r.w, clip.x + clip.w}) - x, h |-> Min({r.y + r.h, clip.y + clip.h}) - y]
Paint(s, what, r) == [s EXCEPT !.painted = Append(@, [what |-> what, at |-> Clipped(r, s.clip)])]
Moved(s, n, x, y) == [s EXCEPT !.place[n].x = x, !.place[n].y = y]

\* VBox::arrange and HBox::arrange: by the sizes the children have before they are
\* drawn; the layout's own size is the sum.
Step(size) == size + SPACING
Arrange(s, n) ==
  LET kids == below[n]
      down == ClassOf(n) = "vbox"
      Before(i) == FoldSeq(LAMBDA k, sum : sum + Step(IF down THEN s.place[k].h ELSE s.place[k].w), 0, SubSeq(kids, 1, i - 1))
      me == s.place[n]
      total == Before(Len(kids) + 1)
      placed == [k \in DOMAIN s.place |->
                   IF \E i \in 1 .. Len(kids) : kids[i] = k
                   THEN LET i == CHOOSE i \in 1 .. Len(kids) : kids[i] = k
                        IN  IF down THEN [s.place[k] EXCEPT !.x = me.x, !.y = me.y + Before(i)]
                            ELSE [s.place[k] EXCEPT !.x = me.x + Before(i), !.y = me.y]
                   ELSE s.place[k]]
  IN  [s EXCEPT !.place = IF down THEN [placed EXCEPT ![n].h = total]
                          ELSE [placed EXCEPT ![n].w = total, ![n].h = Max({0} \cup {s.place[k].h : k \in ToSet(kids)})]]

\* Scrollable::set_scroll_max
ScrollMaxed(s, n, height) ==
  LET most == Max({0, height - (s.place[n].h - VIEW_BAR_W)})
  IN  [s EXCEPT !.scroll_max = most, !.scroll = Min({s.scroll, most})]
ContentW(s, n) == IF s.scroll_max > 0 THEN s.place[n].w - VIEW_BAR_W ELSE s.place[n].w

\* Tab::title_at
TitleAt(n, r, p) ==
  LET k == Len(below[n])
      i == (p.x - r.x) \div (r.w \div k)
  IN  IF k = 0 \/ i >= k THEN 0 ELSE i + 1

RECURSIVE DrawNode(_, _)
\* Layout::draw
DrawBox(s, n) == FoldLeft(LAMBDA t, k : DrawNode(t, k), Arrange(s, n), below[n])
\* Tab::draw: the titles, then the active panel clipped to the tab.
DrawTab(s, n) ==
  LET r == s.place[n]
      k == Len(below[n])
      titles == FoldLeft(LAMBDA t, i : Paint(t, Part(n, i), [x |-> r.x + (i - 1) * (r.w \div k), y |-> r.y, w |-> r.w \div k, h |-> STRIP_H]),
                         s, [i \in 1 .. k |-> i])
      area == [x |-> r.x, y |-> r.y + STRIP_H, w |-> r.w, h |-> r.h - STRIP_H]
  IN  IF s.active > k THEN titles
      ELSE [DrawNode([titles EXCEPT !.place[below[n][s.active]] = area, !.clip = area], below[n][s.active]) EXCEPT !.clip = NoClip]
\* ScrollView::draw: once to measure, once to show, then the bar.
DrawView(s, n) ==
  LET r == s.place[n]
      child == below[n][1]
      first == DrawNode([Moved(s, child, r.x, r.y - s.scroll) EXCEPT !.clip = r], child)
      measured == ScrollMaxed(first, n, first.place[child].h)
      second == DrawNode([measured EXCEPT !.clip = [r EXCEPT !.w = ContentW(measured, n)]], child)
      Bar(t) == IF t.scroll_max = 0 THEN t
                ELSE Paint(t, Part(n, BAR), [r EXCEPT !.x = r.x + r.w - VIEW_BAR_W, !.w = VIEW_BAR_W])
  IN  IF below[n] = <<>> THEN Bar(Paint(s, Part(n, WHOLE), r)) ELSE Bar([second EXCEPT !.clip = NoClip])
DrawNode(s, n) ==
  CASE ClassOf(n) \in {"vbox", "hbox"} -> DrawBox(s, n)
    [] ClassOf(n) = "tab" -> DrawTab(s, n)
    [] ClassOf(n) = "view" -> DrawView(s, n)
    [] OTHER -> Paint(s, Part(n, WHOLE), s.place[n])

Now == [place |-> place, active |-> active, scroll |-> vscroll, scroll_max |-> vscroll_max, painted |-> <<>>, clip |-> NoClip]
\* Window::render, from a state s of the tree
DrawnTree(s) == DrawNode([s EXCEPT !.painted = <<>>, !.clip = NoClip], ROOT_BOX)
ShowsTree(tree) ==
  \E s \in {tree} :
    /\ place' = s.place /\ active' = s.active /\ vscroll' = s.scroll /\ vscroll_max' = s.scroll_max
    /\ painted' = SelectSeq(s.painted, LAMBDA e : e.at.w > 0 /\ e.at.h > 0)

-----------------------------------------------------------------------------
(* Hit tests and clicks *)

RECURSIVE Pick(_, _, _)
\* Layout::pick, Tab::pick, Widget::pick
MutTopmost(ks) == ks
Topmost(ks) == Reverse(ks)
Pick(s, n, p) ==
  LET hits == SelectSeq([i \in 1 .. Len(below[n]) |-> Pick(s, Topmost(below[n])[i], p)], LAMBDA h : h # Nothing.widget)
      r == s.place[n]
  IN  CASE n \in Boxes -> IF hits = <<>> THEN Nothing.widget ELSE hits[1]
        [] ClassOf(n) = "tab" /\ ~(p.y >= r.y /\ p.y < r.y + STRIP_H) ->
             IF s.active <= Len(below[n]) THEN Pick(s, below[n][s.active], p) ELSE Nothing.widget
        [] OTHER -> IF In(IF ClassOf(n) = "tab" THEN [r EXCEPT !.h = STRIP_H] ELSE r, p) THEN n ELSE Nothing.widget

RECURSIVE OnClick(_, _, _)
\* on_click of the class: what acts on the click, and what the tree is after it.
BarHit(r, p) == p.x >= r.x + r.w - VIEW_BAR_W
OnClick(s, n, p) ==
  LET r == s.place[n]
      title == TitleAt(n, r, p)
      child == below[n][1]
      moved == Moved(s, child, r.x, r.y - s.scroll)
      inner == Pick(moved, child, p)
  IN  CASE ClassOf(n) = "tab" ->
             IF title = 0 THEN [tree |-> s, acts |-> Nothing]
             ELSE [tree |-> [s EXCEPT !.active = title], acts |-> Part(n, title)]
        [] ClassOf(n) = "view" /\ BarHit(r, p) ->
             [tree |-> s, acts |-> IF s.scroll_max = 0 THEN Nothing ELSE Part(n, BAR)]
        [] ClassOf(n) = "view" /\ ~BarHit(r, p) /\ below[n] # <<>> ->
             IF inner = Nothing.widget THEN [tree |-> moved, acts |-> Nothing] ELSE OnClick(moved, inner, p)
        [] OTHER -> [tree |-> s, acts |-> Part(n, WHOLE)]
\* The left button, in Window::run
ClickedAt(p) ==
  LET hit == Pick(Now, ROOT_BOX, p)
  IN  IF hit = Nothing.widget THEN [tree |-> Now, acts |-> Nothing] ELSE OnClick(Now, hit, p)

-----------------------------------------------------------------------------
(* Actions *)

Attached == {ROOT_BOX} \cup UNION {ToSet(below[n]) : n \in Nodes \cup {ROOT_BOX}}

\* Layout::add, Tab::add and ScrollView::set_child, before the window runs; a view is
\* given one child.
AddChild(n, c) ==
  /\ ~shownOnce /\ n \in Attached /\ c \notin Attached
  /\ below' = [below EXCEPT ![n] = IF Len(@) < MAX_CHILDREN THEN Append(@, c) ELSE @]
  /\ UNCHANGED <<place, active, painted, resized, shownOnce>>
AddToBox(n, c) == n \in Boxes /\ AddChild(n, c) /\ UNCHANGED <<vscroll, vscroll_max>>
AddPanel(n, c) == ClassOf(n) = "tab" /\ AddChild(n, c) /\ UNCHANGED <<vscroll, vscroll_max>>
set_child(n, c) ==
  /\ ClassOf(n) = "view" /\ below[n] = <<>> /\ AddChild(n, c)
  /\ LET s == ScrollMaxed(Now, n, place[c].h) IN vscroll' = s.scroll /\ vscroll_max' = s.scroll_max

\* Window::run draws the tree and starts to read events.
FirstRender ==
  /\ ~shownOnce /\ shownOnce' = TRUE
  /\ ShowsTree(DrawnTree([Now EXCEPT !.place[ROOT_BOX].x = SPACING, !.place[ROOT_BOX].y = SPACING]))
  /\ UNCHANGED <<below, resized>>
\* An event that changes no widget: a hover, a key.
Redraw ==
  /\ shownOnce /\ ShowsTree(DrawnTree(Now))
  /\ UNCHANGED <<below, resized, shownOnce>>
\* A tab's title, or the bar of a view, which scrolls to where it is clicked in the
\* rounding of Widgets.  A leaf runs a callback: Redraw or Resize.
ClickTree(p) ==
  /\ shownOnce
  /\ \E c \in {ClickedAt(p)} :
       \/ c.acts.part > WHOLE /\ ShowsTree(DrawnTree(c.tree))
       \/ c.acts.part = BAR /\ \E to \in 0 .. vscroll_max : ShowsTree(DrawnTree([c.tree EXCEPT !.scroll = to]))
  /\ UNCHANGED <<below, resized, shownOnce>>
\* ui_widget_set_size, in a callback: a label, an image at another scale.
Resize(n, size) ==
  /\ shownOnce /\ resized < MaxResizes /\ resized' = resized + 1 /\ n \in Attached /\ ClassOf(n) = "leaf"
  /\ ShowsTree(DrawnTree([Now EXCEPT !.place[n].w = size.w, !.place[n].h = size.h]))
  /\ UNCHANGED <<below, shownOnce>>

LayNext ==
  \/ \E n \in Nodes \cup {ROOT_BOX}, c \in Nodes : AddToBox(n, c) \/ AddPanel(n, c) \/ set_child(n, c)
  \/ FirstRender \/ Redraw
  \/ \E p \in Points : ClickTree(p)
  \/ \E n \in Nodes, size \in Sizes : Resize(n, size)
LaySpec == LayInit /\ [][LayNext]_layVars

-----------------------------------------------------------------------------
(* Properties *)

Seen(p) ==
  LET hits == SelectSeq(painted, LAMBDA e : In(e.at, p))
  IN  IF hits = <<>> THEN Nothing ELSE hits[Len(hits)].what

RECURSIVE Under(_)
Under(n) == {n} \cup UNION {Under(c) : c \in ToSet(below[n])}
\* A tab clips what it draws and not what it picks.
PastTab(p) ==
  \E n \in Attached \ {ROOT_BOX} :
    /\ NodeClass(n) = "tab" /\ ~In(place[n], p)
    /\ \/ Pick(Now, ROOT_BOX, p) \in Under(n)
       \/ \E v \in Attached \ {ROOT_BOX} : NodeClass(v) = "view" /\ n \in Under(v)

\* A view whose content shrank clamps its scroll after it has placed the content.
Slipped ==
  \E v \in Attached \ {ROOT_BOX} :
    NodeClass(v) = "view" /\ below[v] # <<>> /\ place[below[v][1]].y # place[v].y - vscroll

\* A click acts on what is seen under the mouse, or on nothing.
SeenIsHit ==
  shownOnce /\ ~Slipped => \A p \in Points : ClickedAt(p).acts \in {Seen(p), Nothing} \/ PastTab(p)

\* Once the tree has been drawn as often as layouts are nested, no widget is drawn
\* over another: the sizes that a layout places its children by are then the sizes
\* they have.  A tab or view inside the other draws past it.
Clippers == {n \in Attached \ {ROOT_BOX} : NodeClass(n) \in {"tab", "view"}}
SettledTree == DrawnTree(DrawnTree(Now))
SettledApart ==
  shownOnce /\ (\A m, n \in Clippers : n \in Under(m) => m = n) =>
    \E s \in {SettledTree} : \A i \in 1 .. Len(s.painted) : \A j \in i + 1 .. Len(s.painted) :
      \/ s.painted[i].what.widget = s.painted[j].what.widget \/ s.painted[j].what.part = BAR
      \/ \A p \in Points : ~(In(s.painted[i].at, p) /\ In(s.painted[j].at, p))

=============================================================================
