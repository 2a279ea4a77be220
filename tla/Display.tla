------------------------------ MODULE Display ------------------------------
(***************************************************************************)
(* From a drawing call to the screen: kernel/gfx/fb.c draws into the base  *)
(* canvas and marks the rectangle dirty (kernel/display.c), compositor_    *)
(* flush takes the dirty list, copies those rectangles to the back buffer, *)
(* draws the cursor there, uploads them to the surface of the graphics     *)
(* layer and presents their bounding rectangle (graphics/ghal.c, backend/  *)
(* software.c), or without a surface copies them to the framebuffer.       *)
(*                                                                         *)
(* Programs draw on other CPUs while the timer interrupt flushes: a call   *)
(* writes pixels and then marks them; a flush takes the list under its     *)
(* lock and works from the copy.  Windows are in Kwm.                      *)
(*                                                                         *)
(* Names that start with Mut are slips of the code.                        *)
(***************************************************************************)
EXTENDS Integers, Sequences, FiniteSets, FiniteSetsExt, SequencesExt

CONSTANTS
  SCREEN_W, SCREEN_H,
  MAX_DIRTY_REGIONS,
  CursorWidth, CursorHeight,
  DrawRects,           \* rectangles that are drawn, on the screen or not
  Colors,
  MaxDraws, MaxMoves   \* bounds

ASSUME DisplayAssumption ==
  /\ {SCREEN_W, SCREEN_H, MAX_DIRTY_REGIONS, CursorWidth, CursorHeight} \subseteq Nat \ {0}

R(x, y, w, h) == [x |-> x, y |-> y, w |-> w, h |-> h]
AllPixels == (0 .. SCREEN_W - 1) \X (0 .. SCREEN_H - 1)
NoFrame == [at |-> "none"]
ARROW == -1

VARIABLES
  base_canvas, backbuffer,
  surface,             \* pixels of g_main_surface, <<>> when there is none
  framebuffer,
  g_screen_dirty,      \* [regions, collapsed]
  mouse,               \* mouse_x, mouse_y
  last_cursor,         \* g_last_cursor_x, g_last_cursor_y, <<-1, -1>> at first
  flushing,               \* compositor_flush in progress
  unmarked,            \* rectangles that calls have drawn and not yet marked
  draws, moves

displayVars == <<base_canvas, backbuffer, surface, framebuffer, g_screen_dirty, mouse,
                 last_cursor, flushing, unmarked, draws, moves>>

InRect(p, r) == p[1] >= r.x /\ p[1] < r.x + r.w /\ p[2] >= r.y /\ p[2] < r.y + r.h
InSome(p, rects) == \E r \in rects : InRect(p, r)
Cursor(at) == R(at[1], at[2], CursorWidth, CursorHeight)

\* rect_intersect with the screen.
Clipped(r) ==
  LET x0 == Max({r.x, 0})
      y0 == Max({r.y, 0})
  IN  R(x0, y0, Min({r.x + r.w, SCREEN_W}) - x0, Min({r.y + r.h, SCREEN_H}) - y0)
OnScreen(r) == Clipped(r).w > 0 /\ Clipped(r).h > 0

\* rect_union, and the bounding rectangle of compositor_flush
MutUnion(a, b) ==
  LET x0 == Min({a.x, b.x})
      y0 == Min({a.y, b.y})
  IN  R(x0, y0, Max({a.w, b.w}), Max({a.h, b.h}))
Union(a, b) ==
  LET x0 == Min({a.x, b.x})
      y0 == Min({a.y, b.y})
  IN  R(x0, y0, Max({a.x + a.w, b.x + b.w}) - x0, Max({a.y + a.h, b.y + b.h}) - y0)
Box(rects) == FoldLeft(Union, Head(rects), Tail(rects))

\* dirty_region_mark: beyond the limit the list becomes one bounding rectangle.
dirty_region_mark(list, r) ==
  IF r.w = 0 \/ r.h = 0 THEN list
  ELSE IF list.collapsed THEN [list EXCEPT !.regions[1] = Union(@, r)]
  ELSE IF Len(list.regions) >= MAX_DIRTY_REGIONS
    THEN [regions |-> <<Union(Box(list.regions), r)>>, collapsed |-> TRUE]
  ELSE [list EXCEPT !.regions = Append(@, r)]
dirty_region_clear == [regions |-> <<>>, collapsed |-> FALSE]

DisplayInit ==
  \E black \in {[p \in AllPixels |-> 0]} :
    /\ base_canvas = black /\ backbuffer = black /\ framebuffer = black
    /\ surface \in {<<>>, black}
    /\ g_screen_dirty = dirty_region_clear
    /\ mouse = <<0, 0>> /\ last_cursor = <<-1, -1>>
    /\ flushing = NoFrame /\ unmarked = {} /\ draws = 0 /\ moves = 0

-----------------------------------------------------------------------------
(* Drawing *)

\* draw_rect, draw_pixel, draw_char, draw_image: clipped to the canvas.
Fill(image, r, c) == [p \in AllPixels |-> IF InRect(p, r) THEN c ELSE image[p]]
draw_rect(r, c) ==
  /\ draws < MaxDraws /\ draws' = draws + 1
  /\ base_canvas' = Fill(base_canvas, r, c)
  /\ unmarked' = unmarked \cup {r}
  /\ UNCHANGED <<backbuffer, surface, framebuffer, g_screen_dirty, mouse, last_cursor, flushing, moves>>
screen_mark_dirty(r) ==
  /\ g_screen_dirty' = dirty_region_mark(g_screen_dirty, r)
  /\ unmarked' = unmarked \ {r}
  /\ UNCHANGED <<base_canvas, backbuffer, surface, framebuffer, mouse, last_cursor, flushing, draws, moves>>
MouseMoves(at) ==
  /\ moves < MaxMoves /\ moves' = moves + 1
  /\ mouse' = at
  /\ UNCHANGED <<base_canvas, backbuffer, surface, framebuffer, g_screen_dirty, last_cursor, flushing, unmarked, draws>>

-----------------------------------------------------------------------------
(* compositor_flush *)

\* The list, with the cell the cursor leaves and the one it takes.
Folded(list, at) ==
  dirty_region_mark(IF last_cursor[1] >= 0 THEN dirty_region_mark(list, Cursor(last_cursor)) ELSE list,
                    Cursor(at))
TakeFrame ==
  /\ flushing = NoFrame
  /\ \E list \in {Folded(g_screen_dirty, mouse)} :
       flushing' = [at |-> "compose", dirty |-> list.regions, cursor |-> mouse]
  /\ g_screen_dirty' = dirty_region_clear
  /\ UNCHANGED <<base_canvas, backbuffer, surface, framebuffer, mouse, last_cursor, unmarked, draws, moves>>

\* blit_rect_db, viewport_render: the dirty rectangles, as far as they are on the screen.
Copied(from, to, rects) == [p \in AllPixels |-> IF InSome(p, rects) THEN from[p] ELSE to[p]]
FlushCompose ==
  /\ flushing.at = "compose"
  /\ backbuffer' = Copied(base_canvas, backbuffer, ToSet(flushing.dirty))
  /\ flushing' = [flushing EXCEPT !.at = "cursor"]
  /\ UNCHANGED <<base_canvas, surface, framebuffer, g_screen_dirty, mouse, last_cursor, unmarked, draws, moves>>
FlushCursor ==
  /\ flushing.at = "cursor"
  /\ backbuffer' = Fill(backbuffer, Cursor(flushing.cursor), ARROW)
  /\ last_cursor' = flushing.cursor
  /\ flushing' = [flushing EXCEPT !.at = "upload"]
  /\ UNCHANGED <<base_canvas, surface, framebuffer, g_screen_dirty, mouse, unmarked, draws, moves>>

Visible == SelectSeq(flushing.dirty, OnScreen)
\* ghal_surface_upload of each rectangle, then one ghal_present: sw_surface_upload,
\* sw_present.
FlushUpload ==
  /\ flushing.at = "upload" /\ surface # <<>>
  /\ surface' = Copied(backbuffer, surface, ToSet(flushing.dirty))
  /\ flushing' = [flushing EXCEPT !.at = "present"]
  /\ UNCHANGED <<base_canvas, backbuffer, framebuffer, g_screen_dirty, mouse, last_cursor, unmarked, draws, moves>>
ghal_present ==
  /\ flushing.at = "present"
  /\ framebuffer' =
       IF Visible = <<>> THEN framebuffer
       ELSE Copied(surface, framebuffer, {Box([i \in DOMAIN Visible |-> Clipped(Visible[i])])})
  /\ flushing' = NoFrame
  /\ UNCHANGED <<base_canvas, backbuffer, surface, g_screen_dirty, mouse, last_cursor, unmarked, draws, moves>>
\* Without a surface: straight to the framebuffer.
FlushDirect ==
  /\ flushing.at = "upload" /\ surface = <<>>
  /\ framebuffer' = Copied(backbuffer, framebuffer, ToSet(flushing.dirty))
  /\ flushing' = NoFrame
  /\ UNCHANGED <<base_canvas, backbuffer, surface, g_screen_dirty, mouse, last_cursor, unmarked, draws, moves>>

DisplayNext ==
  \/ \E r \in DrawRects, c \in Colors : draw_rect(r, c)
  \/ \E r \in unmarked : screen_mark_dirty(r)
  \/ \E at \in AllPixels : MouseMoves(at)
  \/ TakeFrame \/ FlushCompose \/ FlushCursor \/ FlushUpload \/ ghal_present \/ FlushDirect
DisplaySpec == DisplayInit /\ [][DisplayNext]_displayVars

-----------------------------------------------------------------------------
(* Properties *)

\* Between frames, the screen shows the base canvas with the cursor of the last frame
\* over it, except where a rectangle is marked dirty or about to be marked: no drawing
\* and no trace of an old cursor is forgotten, whatever is drawn during a flush, and
\* when the list overflows into one bounding rectangle.
Wanted(p) == IF last_cursor[1] >= 0 /\ InRect(p, Cursor(last_cursor)) THEN ARROW ELSE base_canvas[p]
Owed(p) == InSome(p, ToSet(g_screen_dirty.regions) \cup unmarked)
NothingForgotten ==
  flushing = NoFrame => \A p \in AllPixels : framebuffer[p] = Wanted(p) \/ Owed(p)

=============================================================================
