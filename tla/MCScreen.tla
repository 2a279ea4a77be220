------------------------------ MODULE MCScreen ------------------------------
(* The desktop for TLC: the window manager, the widget library and the      *)
(* programs on top of it, side by side: unit is the one that moves in a     *)
(* behaviour, the others stay as they were.                                 *)
EXTENDS Kwm, UiWindow, Widgets, Layouts, Session, Desktop,
  WallClock, Calc, Console, Raster

VARIABLE unit

toolVars == <<rtcVars, calcVars, zenVars, termVars, stringVars, rasterVars>>
desktopWide == <<vars, uiVars, editVars, boxVars, listVars, layVars, controlVars,
                 sessionVars, appVars, desktopVars>>

-----------------------------------------------------------------------------
(* Instances *)

\* Kwm: a screen of two by two cells, and windows that cover it, dragged half off it.
\* Title bar and content in the right column.
MCGeometries == {[x |-> 0, y |-> 0, w |-> 2, h |-> 1]}
MCPixels == {<<1, 0>>, <<1, 1>>}

\* UiWindow: one widget of each kind that treats the mouse in its own way.
MCClass(w) == w
MCDialogs == <<"d1", "d2">>
Place(u, t, d, i) == [under |-> u, title |-> t, dialog |-> d, item |-> i]
MCPlaces ==
  {Place("none", "none", "outside", FALSE), Place("button", "none", "button", TRUE),
   Place("textbox", "none", "outside", TRUE), Place("slider", "none", "body", FALSE),
   Place("source", "none", "outside", FALSE), Place("target", "none", "button", FALSE),
   Place("menubar", "file", "outside", FALSE), Place("menubar", "edit", "outside", FALSE),
   Place("menubar", "none", "outside", FALSE), Place("toolbar", "none", "body", FALSE)}

MCStrings == {<<"a", NL, "a">>, <<NL, NL, "a", "a", NL>>}

\* Layouts: a row, a tab and a view, a wide leaf and a tall one, and two sizes that
\* make a content longer or shorter than the view it is in.
MCNodeClass(n) == CASE n = "row" -> "hbox" [] n \in {"tab", "view"} -> n [] OTHER -> "leaf"
MCSizeOf(n) ==
  CASE n = "tab" -> [w |-> 4, h |-> 3] [] n = "view" -> [w |-> 3, h |-> 3]
    [] n = "wide" -> [w |-> 2, h |-> 1] [] OTHER -> [w |-> 1, h |-> 2]
MCSizes == {[w |-> 1, h |-> 4], [w |-> 3, h |-> 1]}
MCPoints == [x : {1, 2, 4}, y : {1, 2, 3, 5}]

\* Widgets: bars whose width the number of their parts divides or not; a range of
\* fewer steps than pixels, one of more, and one upside down.
MCSpots == [x : {-1, 0, 3, 5, 9}, y : {0, 1, 2, 7}]
MCRanges == {<<0, 3>>, <<-2, 20>>, <<5, 1>>}

\* WallClock: an evening at the end of February or of the century.
MCBootDates == {<<99, 12, 31>>, <<24, 2, 28>>, <<23, 2, 28>>}

\* Console: no file, and files that are shorter than the first buffer, fill it, or do not fit.
MCZenFiles == {NoFile, <<"a">>, <<"a", "a">>, <<"a", "a", "a">>}

MCTermContents == {NoFile, <<>>, <<"x">>, <<"x", "y">>, <<"x", "y", "z">>, <<"x", "y", "z", "w">>}
\* Every command, with and without its argument; names of programs with and without their
\* ending, and one that is too long; numbers in the range of their type and beyond it.
MCTermLines ==
  {<<>>, <<"ls">>, <<"clear">>, <<"help">>, <<"echo", SPACE, "a">>, <<"echo">>, <<SPACE, "a">>,
   <<"baca", SPACE, "r">>, <<"baca">>, <<"hapus", SPACE, "r">>, <<"mkdir", SPACE, "r">>, <<"restart">>,
   <<"start", SPACE, "a">>, <<"start", SPACE, "a">> \o EXT, <<"start", SPACE, "a", "a">> \o EXT}
MCShellLines ==
  {<<"start">>, <<"start", SPACE, "a">>, <<"a">>, <<"a">> \o EXT, <<"refresh", SPACE, "6", "0">>,
   <<"refresh", SPACE, "3", "1", "6">>, <<"refresh", SPACE, SPACE, "1", "0", "0">>}
MCRootNames == <<"r">>
MCAppNames == {<<"a">> \o EXT, <<"a", "a", ".", "e", "l">> \o EXT}
MCArena == <<2, 1, 2, 0, 1, 0>>

\* Raster: shapes that hang over each side of the buffer, and a clip rectangle in its
\* middle and one at its edge.
MCClips == {RectAt(1, 1, 2, 2), RectAt(3, 0, 2, 4)}
MCLefts == {-1, 1, 3}
MCTops == {-2, 0, 2}
MCRings == <<4, 2>>
MCWords == {<<"a">>, <<"a", "a">>, <<"a", NEWLINE, "a", "a">>}

-----------------------------------------------------------------------------
MCInit ==
  /\ unit \in {"kwm", "window", "edit", "box", "list", "layout", "control",
               "session", "apps", "desktop", "clock", "calc", "zen",
               "terminal", "strings", "raster"}
  /\ Init /\ (unit = "kwm" \/ pixel = <<1, 0>>)
  /\ EditInit /\ (unit \in {"edit", "box"} \/ readonly)
  /\ ListInit /\ (unit = "list" \/ widget = "list")
  /\ DesktopInit /\ (unit = "desktop" \/ \A p \in Programs : apps_dir[p] = HIDDEN)
  /\ ControlInit /\ (unit = "control" \/ (control = "image" /\ width = Max(BarWidths)))
  /\ RtcInit /\ (unit = "clock" \/ cmos[6] = 24)
  /\ ZenInit /\ (unit = "zen" \/ zenfile = NoFile)
  /\ TermInit /\ (unit = "terminal" \/ (seat = "window" /\ \A f \in DOMAIN disk : disk[f] = NoFile))
  /\ RasterInit /\ (unit = "raster" \/ (topic = "paint" /\ backend /\ scissor = {}))
  /\ StringInit /\ CalcInit /\ UiInit /\ LayInit /\ SessionInit /\ AppsInit
MCNext ==
  \/ unit = "kwm" /\ Next
       /\ UNCHANGED <<unit, uiVars, editVars, boxVars, listVars, layVars, controlVars,
                      sessionVars, appVars, desktopVars, toolVars>>
  \/ unit = "window" /\ UiNext
       /\ UNCHANGED <<unit, vars, editVars, boxVars, listVars, layVars, controlVars,
                      sessionVars, appVars, desktopVars, toolVars>>
  \/ unit = "edit" /\ EditNext
       /\ UNCHANGED <<unit, vars, uiVars, boxVars, listVars, layVars, controlVars,
                      sessionVars, appVars, desktopVars, toolVars>>
  \/ unit = "box" /\ BoxNext
       /\ UNCHANGED <<unit, vars, uiVars, editVars, listVars, layVars, controlVars,
                      sessionVars, appVars, desktopVars, toolVars>>
  \/ unit = "list" /\ ListNext
       /\ UNCHANGED <<unit, vars, uiVars, editVars, boxVars, layVars, controlVars,
                      sessionVars, appVars, desktopVars, toolVars>>
  \/ unit = "layout" /\ LayNext
       /\ UNCHANGED <<unit, vars, uiVars, editVars, boxVars, listVars, controlVars,
                      sessionVars, appVars, desktopVars, toolVars>>
  \/ unit = "control" /\ ControlNext
       /\ UNCHANGED <<unit, vars, uiVars, editVars, boxVars, listVars, layVars,
                      sessionVars, appVars, desktopVars, toolVars>>
  \/ unit = "session" /\ SessionNext
       /\ UNCHANGED <<unit, vars, uiVars, editVars, boxVars,
                      listVars, layVars, controlVars, appVars, desktopVars, toolVars>>
  \/ unit = "apps" /\ AppsNext
       /\ UNCHANGED <<unit, vars, uiVars, editVars, boxVars,
                      listVars, layVars, controlVars, sessionVars, desktopVars, toolVars>>
  \/ unit = "desktop" /\ DesktopNext
       /\ UNCHANGED <<unit, vars, uiVars, editVars, boxVars,
                      listVars, layVars, controlVars, sessionVars, appVars, toolVars>>
  \/ unit = "clock" /\ RtcNext
       /\ UNCHANGED <<unit, desktopWide, calcVars, zenVars, termVars, stringVars, rasterVars>>
  \/ unit = "calc" /\ CalcNext
       /\ UNCHANGED <<unit, desktopWide, rtcVars, zenVars, termVars, stringVars, rasterVars>>
  \/ unit = "zen" /\ ZenNext
       /\ UNCHANGED <<unit, desktopWide, rtcVars, calcVars, termVars, stringVars, rasterVars>>
  \/ unit = "terminal" /\ TermNext
       /\ UNCHANGED <<unit, desktopWide, rtcVars, calcVars, zenVars, stringVars, rasterVars>>
  \/ unit = "strings" /\ StringNext
       /\ UNCHANGED <<unit, desktopWide, rtcVars, calcVars, zenVars, termVars, rasterVars>>
  \/ unit = "raster" /\ RasterNext
       /\ UNCHANGED <<unit, desktopWide, rtcVars, calcVars, zenVars, termVars, stringVars>>
MCSpec ==
  MCInit /\ [][MCNext]_<<unit, desktopWide, toolVars>>

\* The window manager by itself.
KwmAlone == unit = "kwm" /\ MCSpec

-----------------------------------------------------------------------------
(* Properties: each about the unit that moves. *)

\* The widgets of libui.cpp keep their own state in order: the pointers of the window,
\* the caret and scroll position of the text widgets, the rows of the lists, and the
\* tree whose drawing and whose hit test agree, the parts of bars, menus and dialogs.
\* What they and the compositor draw is the shape that was asked for, cut to the clip
\* rectangle, in buffers that are large enough.
WidgetsSound ==
  /\ unit = "window" => UiSound
  /\ unit \in {"edit", "box"} => EditSound
  /\ unit = "list" => ListSound
  /\ unit = "layout" => SeenIsHit /\ SettledApart
  /\ unit = "control" => ControlSound
  /\ unit = "raster" => PaintTrue /\ BuffersHeld

\* The programs say what is true: a document reaches the program it was handed to, the
\* clocks show the time of the chip, the calculator the sum on paper, a session of the
\* editor saves the text that was typed, the terminal and the prompt run the program and
\* show the file that was named, and the string functions they rest on do what they promise.
AppsTrue ==
  /\ unit = "apps" => HandOver
  /\ unit = "calc" => CalcTrue
  /\ unit = "zen" => ZenTrue
  /\ unit = "clock" => TimeTrue
  /\ unit = "terminal" => TermTrue
  /\ unit = "strings" => StringsTrue

=============================================================================
