------------------------------- MODULE Raster -------------------------------
(***************************************************************************)
(* What the drawing primitives write into a buffer of pixels: the toolkit's*)
(* Painter (apps/libui.cpp) over apps/libgui.c, the compositor             *)
(* (kernel/gfx/compositor.c), the display buffers (kernel/display.c), the  *)
(* software backend (graphics/backend/software.c, called through           *)
(* graphics/ghal.c), and the arithmetic they share (include/aa_math.h);    *)
(* and the allocation of the buffers.                                      *)
(*                                                                         *)
(* A buffer is memory, row after row, so that a pixel beyond the end of a  *)
(* row is one of the next row.  A pixel is one channel of FULL + 1 levels. *)
(* A primitive is the sequence of strokes its loops make; every library    *)
(* cuts a stroke to the clip rectangle in its own way.  A glyph fills its  *)
(* cell.  Beside the memory, `wanted` is the picture a pixel-by-pixel      *)
(* definition of the same shape gives.                                     *)
(*                                                                         *)
(* Names that start with Mut are slips of the code.                        *)
(***************************************************************************)
EXTENDS Integers, Sequences, FiniteSetsExt, SequencesExt

CONSTANTS
  PAINT_W, PAINT_H,    \* the buffer that is drawn into
  SOURCE_W, SOURCE_H,  \* the buffer, or the picture, that is copied from
  Lefts, Tops, Widths, Heights,  \* of the shapes, on the buffer or not
  Clips,               \* clip rectangles inside the buffer
  FULL,                \* an opaque pixel's alpha (255)
  RADIUS, CORNER,      \* of the toolkit's and of the window's corners
  RINGS, DROP,         \* a shadow's alphas from the inside out, and how much lower it lies
  GLYPH_W, GLYPH_H,    \* a character's cell (8 x 16)
  Words,               \* texts: letters and newlines
  WORD,                \* what a size in bytes is computed modulo (2^64)
  Lengths,             \* widths and heights asked for when a buffer is created
  MaxCalls             \* bound: calls that draw

ASSUME RasterAssumption ==
  /\ {PAINT_W, PAINT_H, SOURCE_W, SOURCE_H, FULL, RADIUS, CORNER, GLYPH_W, GLYPH_H, WORD} \subseteq Nat \ {0}
  /\ Lengths \subseteq Nat

RectAt(x, y, w, h) == [x |-> x, y |-> y, w |-> w, h |-> h]
PixelsOf(r) == (r.x .. r.x + r.w - 1) \X (r.y .. r.y + r.h - 1)
CoversPixel(p, r) == p[1] >= r.x /\ p[1] < r.x + r.w /\ p[2] >= r.y /\ p[2] < r.y + r.h
Buffer == RectAt(0, 0, PAINT_W, PAINT_H)
Source == RectAt(0, 0, SOURCE_W, SOURCE_H)
Memory == 0 .. PAINT_W * PAINT_H - 1
Address(p) == p[2] * PAINT_W + p[1]
PixelAt(adr) == <<adr % PAINT_W, adr \div PAINT_W>>

VARIABLES
  topic,               \* what a behaviour is about: "paint" or "buffers"
  backend,              \* ghal_init found a backend
  scissor,             \* the clip rectangle: none or one
  memory,
  wanted,              \* history: the picture as it is meant
  stray,               \* history: addresses written outside the buffer
  displaced,           \* history: a text of several lines was drawn under a clip rectangle
  calls,
  made,                \* the buffers that exist, as a sequence of [w, h, bytes, owned]
  blocks               \* blocks of the heap in use for them

paintVars == <<scissor, memory, wanted, stray, displaced, calls>>
rasterVars == <<topic, backend, paintVars, made, blocks>>

Backdrop == [adr \in Memory |-> (3 * adr) % (FULL + 1)]
RasterInit ==
  /\ topic \in {"paint", "buffers"} /\ backend \in BOOLEAN
  /\ scissor \in {{}} \cup {{c} : c \in Clips}
  /\ memory = Backdrop /\ wanted = Backdrop /\ stray = {} /\ displaced = FALSE /\ calls = 0
  /\ made = <<>> /\ blocks = 0

-----------------------------------------------------------------------------
(* aa_math.h *)

aa_mix(src, dst, a) ==
  IF a >= FULL THEN src ELSE (src * a + dst * (FULL - a)) \div FULL
aa_shade(c, pct) ==
  IF pct >= 0 THEN c + ((FULL - c) * pct) \div 100 ELSE c - (c * (-pct)) \div 100

Sq(n) == n * n
Samples == {1, 3, 5, 7} \X {1, 3, 5, 7}
\* The radius that a row of a rounded rectangle has to do with, 0 between the corners.
CornerAt(r, y, rt, rb) ==
  IF rt > 0 /\ y < r.y + rt THEN rt ELSE IF rb > 0 /\ y >= r.y + r.h - rb THEN rb ELSE 0
aa_cov(p, r, rt, rb) ==
  LET k  == CornerAt(r, p[2], rt, rb)
      cy == IF rt > 0 /\ p[2] < r.y + rt THEN r.y + rt ELSE r.y + r.h - rb
      cx == IF p[1] < r.x + k THEN r.x + k ELSE r.x + r.w - k
      hit == {s \in Samples : Sq(8 * (p[1] - cx) + s[1]) + Sq(8 * (p[2] - cy) + s[2]) <= Sq(8 * k)}
  IN  IF k = 0 \/ (p[1] >= r.x + k /\ p[1] < r.x + r.w - k) THEN FULL
      ELSE (Cardinality(hit) * FULL) \div 16

-----------------------------------------------------------------------------
(* Primitives as strokes *)

Solid(r, c) == [area |-> r, c |-> c, a |-> FULL, soft |-> FALSE]
Soft(r, c, a) == [area |-> r, c |-> c, a |-> a, soft |-> TRUE]
Dot(x, y) == RectAt(x, y, 1, 1)
Rowwise(n, Row(_)) == FlattenSeq([i \in 1 .. n |-> Row(i - 1)])
Ramp(r, y, top, bot) ==
  IF top = bot THEN top
  ELSE aa_mix(bot, top, ((y - r.y) * FULL) \div (IF r.h > 1 THEN r.h - 1 ELSE 1))

vgrad(r, top, bot) ==
  Rowwise(r.h, LAMBDA i : <<Solid(RectAt(r.x, r.y + i, r.w, 1), Ramp(r, r.y + i, top, bot))>>)

\* Both rounded rectangles: a corner's row is filled between the corners, and the pixels
\* of the corners are blended from the two ends.
RoundedRow(r, y, rt, rb, c) ==
  LET k == CornerAt(r, y, rt, rb)
      Corner(x) == Soft(Dot(x, y), c, aa_cov(<<x, y>>, r, rt, rb))
  IN  <<Solid(RectAt(r.x + k, y, r.w - 2 * k, 1), c)>>
        \o Rowwise(k, LAMBDA j : <<Corner(r.x + j), Corner(r.x + r.w - 1 - j)>>)
Rounded(r, rt, rb, top, bot) ==
  Rowwise(r.h, LAMBDA i : RoundedRow(r, r.y + i, rt, rb, Ramp(r, r.y + i, top, bot)))

Fitted(r, k) == Min({k, r.w \div 2, r.h \div 2})
rrect_grad(r, k, top, bot) == Rounded(r, Fitted(r, k), Fitted(r, k), top, bot)
round_grad_fill(r, rt, rb, top, bot) ==
  Rounded(r, Min({rt, r.w \div 2}), Min({rb, r.w \div 2}), top, bot)

\* The partly covered pixels of a corner, the straight sides, the top and the bottom.
BorderRow(r, y, k, c, a) ==
  LET Edge(x) == LET cov == aa_cov(<<x, y>>, r, k, k)
                 IN  IF cov > 0 /\ cov < FULL THEN <<Soft(Dot(x, y), c, (a * cov) \div FULL)>> ELSE <<>>
  IN  IF CornerAt(r, y, k, k) = 0
        THEN <<Soft(Dot(r.x, y), c, a), Soft(Dot(r.x + r.w - 1, y), c, a)>>
        ELSE Rowwise(k, LAMBDA j : Edge(r.x + j) \o Edge(r.x + r.w - 1 - j))
rrect_border(r, radius, c, a) ==
  LET k == Fitted(r, radius)
      Line(y) == Soft(RectAt(r.x + k, y, r.w - 2 * k, 1), c, a)
  IN  Rowwise(r.h, LAMBDA i : BorderRow(r, r.y + i, k, c, a)) \o <<Line(r.y), Line(r.y + r.h - 1)>>

\* Rings around the frame, further down than the frame; a ring's sides leave its corners
\* to its top and bottom.
MutRing(s, a) ==
  <<Soft(RectAt(s.x, s.y, s.w, 1), 0, a), Soft(RectAt(s.x, s.y + s.h - 1, s.w, 1), 0, a),
    Soft(RectAt(s.x, s.y, 1, s.h), 0, a), Soft(RectAt(s.x + s.w - 1, s.y, 1, s.h), 0, a)>>
Ring(s, a) ==
  <<Soft(RectAt(s.x, s.y, s.w, 1), 0, a), Soft(RectAt(s.x, s.y + s.h - 1, s.w, 1), 0, a),
    Soft(RectAt(s.x, s.y + 1, 1, s.h - 2), 0, a), Soft(RectAt(s.x + s.w - 1, s.y + 1, 1, s.h - 2), 0, a)>>
shadow(r) ==
  FlattenSeq([k \in DOMAIN RINGS |->
                Ring(RectAt(r.x - k, r.y - k + DROP, r.w + 2 * k, r.h + 2 * k), RINGS[k])])

\* The DDA of the close button's cross; C's division truncates.
Toward0(a, b) == IF a >= 0 THEN a \div b ELSE -((-a) \div b)
titlebar_line(from, to, c) ==
  LET dx == to[1] - from[1]
      dy == to[2] - from[2]
      steps == Max({dx, -dx, dy, -dy, 1})
  IN  [i \in 1 .. steps + 1 |->
         Solid(Dot(from[1] + Toward0(dx * (i - 1), steps), from[2] + Toward0(dy * (i - 1), steps)), c)]

-----------------------------------------------------------------------------
(* Text *)

NEWLINE == "newline"
Glyph(x, y) == RectAt(x, y, GLYPH_W, GLYPH_H)
Breaks(s, i) == Cardinality({j \in 1 .. i : s[j] = NEWLINE})
LettersOf(s) == {i \in DOMAIN s : s[i] # NEWLINE}
InOrder(S, w) == SelectSeq([i \in DOMAIN w |-> i], LAMBDA i : i \in S)

\* _lgui_draw_string_abs starts every line at x; the loop of Painter::text under a clip
\* rectangle counts the characters of all lines, and leaves out the cells it does not touch.
LineStart(s, i) == Max({0} \cup {j \in 1 .. i : s[j] = NEWLINE})
TextCell(s, i, x, y) ==
  Glyph(x + (IF scissor = {} THEN i - 1 - LineStart(s, i) ELSE i - 1) * GLYPH_W,
        y + Breaks(s, i) * GLYPH_H)
Touches(a, b) == a.x + a.w > b.x /\ a.x < b.x + b.w /\ a.y + a.h > b.y /\ a.y < b.y + b.h
ShownLetters(s, x, y) == {i \in LettersOf(s) : \A c \in scissor : Touches(TextCell(s, i, x, y), c)}
text_strokes(s, x, y, c) ==
  LET shown == InOrder(ShownLetters(s, x, y), s)
  IN  [n \in DOMAIN shown |-> Solid(TextCell(s, shown[n], x, y), c)]

\* Characters that fit in front of the close button; others than ASCII are blank.
CharFits(x, i, max_x) == x + i * GLYPH_W <= max_x
titlebar_text(s, x, y, max_x, c) ==
  LET shown == InOrder({i \in LettersOf(s) : \A j \in 1 .. i : CharFits(x, j, max_x)}, s)
  IN  [n \in DOMAIN shown |-> Solid(Glyph(x + (shown[n] - 1) * GLYPH_W, y), c)]

-----------------------------------------------------------------------------
(* Clipping *)

Clip == IF scissor = {} THEN Buffer ELSE CHOOSE c \in scissor : TRUE

rect_intersect(a, b) ==
  LET x0 == Max({a.x, b.x})
      y0 == Max({a.y, b.y})
  IN  RectAt(x0, y0, Min({a.x + a.w, b.x + b.w}) - x0, Min({a.y + a.h, b.y + b.h}) - y0)

\* Painter::rect cuts to the clip rectangle and libgui to the window; Painter::blend
\* tests every pixel for both.
PainterCut(s) ==
  IF s.soft THEN {p \in PixelsOf(s.area) : CoversPixel(p, Buffer) /\ \A c \in scissor : CoversPixel(p, c)}
  ELSE {p \in PixelsOf(IF scissor = {} THEN s.area ELSE rect_intersect(s.area, Clip)) : CoversPixel(p, Buffer)}
\* gui_draw_char knows the window only.
GlyphCut(s) == {p \in PixelsOf(s.area) : CoversPixel(p, Buffer)}
\* fill_rect_clip, blend_rect_clip, blend_px, titlebar_line, titlebar_text.
CompositorCut(s) == PixelsOf(rect_intersect(s.area, Clip))
\* rect_clip_to_buffer, display_buffer_write_pixel.
BufferCut(s) == PixelsOf(rect_intersect(s.area, Buffer))
\* sw_fill_rect: sizes without sign, cut to what is left of the surface.
SurfaceCut(r) ==
  IF r.x >= PAINT_W \/ r.y >= PAINT_H THEN RectAt(0, 0, 0, 0)
  ELSE RectAt(r.x, r.y, Min({r.w, PAINT_W - r.x}), Min({r.h, PAINT_H - r.y}))
Uncut(s) == PixelsOf(s.area)

-----------------------------------------------------------------------------
(* Copies *)

\* A read beyond the source gives what no picture holds.
SourceAt(p) == IF CoversPixel(p, Source) THEN (p[2] * SOURCE_W + p[1]) % (FULL + 1) ELSE FULL + 1
Pixelwise(r, From(_)) ==
  LET Pixel(n) == <<r.x + ((n - 1) % r.w), r.y + ((n - 1) \div r.w)>>
  IN  [n \in 1 .. Cardinality(PixelsOf(r)) |-> Solid(Dot(Pixel(n)[1], Pixel(n)[2]), From(Pixel(n)))]

\* Painter::image, scaled to the nearest pixel; the loops are cut to the clip rectangle.
MutImageSpan(r) == rect_intersect(r, RectAt(Clip.x, Clip.y, Clip.w + 1, Clip.h))
ImageSpan(r) == IF scissor = {} THEN r ELSE rect_intersect(r, Clip)
Sampled(r, p) == SourceAt(<<((p[1] - r.x) * SOURCE_W) \div r.w, ((p[2] - r.y) * SOURCE_H) \div r.h>>)
image(r) == Pixelwise(ImageSpan(r), LAMBDA p : Sampled(r, p))

\* viewport_render: columns and rows for which both buffers have a pixel.
ViewSpan(bounds, scroll) ==
  LET c0 == Max({0, -scroll[1], -bounds.x})
      c1 == Min({bounds.w, SOURCE_W - scroll[1], PAINT_W - bounds.x})
      r0 == Max({0, -scroll[2], -bounds.y})
      r1 == Min({bounds.h, SOURCE_H - scroll[2], PAINT_H - bounds.y})
  IN  RectAt(bounds.x + c0, bounds.y + r0, c1 - c0, r1 - r0)
Shifted(p, r, to) == <<p[1] - r.x + to[1], p[2] - r.y + to[2]>>
viewport_render(bounds, scroll) ==
  Pixelwise(ViewSpan(bounds, scroll), LAMBDA p : SourceAt(Shifted(p, bounds, scroll)))

\* sw_blit: the destination is cut first, then the source.
BlitSpan(r, from) ==
  IF from[1] >= SOURCE_W \/ from[2] >= SOURCE_H THEN RectAt(0, 0, 0, 0)
  ELSE [SurfaceCut(r) EXCEPT !.w = Min({@, SOURCE_W - from[1]}), !.h = Min({@, SOURCE_H - from[2]})]
sw_blit(r, from) == Pixelwise(BlitSpan(r, from), LAMBDA p : SourceAt(Shifted(p, r, from)))

-----------------------------------------------------------------------------
(* A call *)

Mixed(d, s) == IF s.soft THEN aa_mix(s.c, d, s.a) ELSE s.c
Painted(mem, strokes, cuts) ==
  [adr \in Memory |->
     LET upto[n \in 0 .. Len(strokes)] ==
           IF n = 0 THEN mem[adr]
           ELSE IF adr \in cuts[n] THEN Mixed(upto[n - 1], strokes[n]) ELSE upto[n - 1]
     IN  upto[Len(strokes)]]

\* The strokes, cut, reach the memory; Meant says what a pixel of the region becomes.
Draws(strokes, Cut(_), region, Meant(_, _)) ==
  /\ topic = "paint" /\ calls < MaxCalls /\ calls' = calls + 1
  /\ \E cuts \in {[n \in DOMAIN strokes |-> {Address(p) : p \in Cut(strokes[n])}]} :
       /\ memory' = Painted(memory, strokes, cuts)
       /\ stray' = stray \cup (UNION {cuts[n] : n \in DOMAIN cuts} \ Memory)
  /\ wanted' = [adr \in Memory |-> IF PixelAt(adr) \in region THEN Meant(PixelAt(adr), wanted[adr])
                                                            ELSE wanted[adr]]
  /\ UNCHANGED <<topic, backend, scissor, made, blocks>>

\* A point is in a rounded rectangle unless it lies beyond the centre of a corner, seen
\* from the inside, and further from it than the radius.
InRounded(q, r, rt, rb) ==
  \A left \in BOOLEAN, upper \in BOOLEAN :
    LET k  == IF upper THEN rt ELSE rb
        cx == 8 * (IF left THEN r.x + k ELSE r.x + r.w - k)
        cy == 8 * (IF upper THEN r.y + k ELSE r.y + r.h - k)
    IN  (left <=> q[1] < cx) /\ (upper <=> q[2] < cy) => Sq(q[1] - cx) + Sq(q[2] - cy) <= Sq(8 * k)
Coverage(p, r, rt, rb) ==
  (Cardinality({s \in Samples : InRounded(<<8 * p[1] + s[1], 8 * p[2] + s[2]>>, r, rt, rb)}) * FULL) \div 16
RingOf(p, r) ==
  Max({0, r.x - p[1], p[1] - (r.x + r.w - 1), r.y + DROP - p[2], p[2] - (r.y + DROP + r.h - 1)})
ClippedTo(r) == PixelsOf(r) \cap PixelsOf(Clip) \cap PixelsOf(Buffer)
Shades(r, p) == LET k == RingOf(p, r) IN IF k \in DOMAIN RINGS THEN RINGS[k] ELSE 0

Shapes == {RectAt(x, y, w, h) : x \in Lefts, y \in Tops, w \in Widths, h \in Heights}
Ink == FULL \div 2
Veil == FULL \div 3
Light == aa_shade(Ink, 14)
Dark == aa_shade(Ink, -12)

MeantRounded(p, d, r, rt, rb, top, bot) == aa_mix(Ramp(r, p[2], top, bot), d, Coverage(p, r, rt, rb))
InCorner(p, r, k) ==
  (p[1] < r.x + k \/ p[1] >= r.x + r.w - k) /\ (p[2] < r.y + k \/ p[2] >= r.y + r.h - k)
OnEdge(p, r) == p[1] \in {r.x, r.x + r.w - 1} \/ p[2] \in {r.y, r.y + r.h - 1}
MeantBorder(p, d, r, k, a) ==
  LET cov == Coverage(p, r, k, k)
  IN  IF InCorner(p, r, k) THEN IF cov < FULL THEN aa_mix(0, d, (a * cov) \div FULL) ELSE d
      ELSE IF OnEdge(p, r) THEN aa_mix(0, d, a) ELSE d
Inset(r) == RectAt(r.x + RADIUS, r.y + 1, r.w - 2 * RADIUS, 1)
MeantInset(p, d, r, pressed) == IF pressed /\ p \in PixelsOf(Inset(r)) THEN aa_mix(0, d, Veil) ELSE d

\* Painter
PainterFill(r) == Draws(<<Solid(r, Ink)>>, PainterCut, ClippedTo(r), LAMBDA p, d : Ink)
PainterGradient(r) ==
  Draws(vgrad(r, Light, Dark), PainterCut, ClippedTo(r), LAMBDA p, d : Ramp(r, p[2], Light, Dark))
PainterShadow(r) ==
  Draws(shadow(r), PainterCut, PixelsOf(Clip), LAMBDA p, d : aa_mix(0, d, Shades(r, p)))
\* Button::draw: gradient, the other way round when it is pressed, border, and then a
\* line of shade; its label is a text like others.
DrawButton(r, pressed) ==
  /\ r.w >= 2 /\ r.h >= 2
  /\ \E k \in {Max({n \in 0 .. RADIUS : 2 * n <= r.w /\ 2 * n <= r.h})},
        top \in {IF pressed THEN Dark ELSE Light}, bot \in {IF pressed THEN Light ELSE Dark} :
       Draws(rrect_grad(r, RADIUS, top, bot) \o rrect_border(r, RADIUS, 0, Veil)
               \o (IF pressed THEN <<Soft(Inset(r), 0, Veil)>> ELSE <<>>),
             PainterCut, ClippedTo(r),
             LAMBDA p, d : MeantInset(p, MeantBorder(p, MeantRounded(p, d, r, k, k, top, bot), r, k, Veil),
                                      r, pressed))
\* Without a scroll view around it, a picture lies inside its window.
PainterImage(r) ==
  /\ scissor = {} => PixelsOf(r) \subseteq PixelsOf(Buffer)
  /\ Draws(image(r), Uncut, ClippedTo(r), LAMBDA p, d : Sampled(r, p))

\* Painter::text, gui_draw_text: a cell is not cut at the clip rectangle.
Intended(w, i, x, y) ==
  Glyph(x + Cardinality({j \in 1 .. i - 1 : w[j] # NEWLINE /\ Breaks(w, j) = Breaks(w, i)}) * GLYPH_W,
        y + Breaks(w, i) * GLYPH_H)
PainterText(w, x, y) ==
  /\ Draws(text_strokes(w, x, y, Ink), GlyphCut,
           UNION {PixelsOf(Intended(w, i, x, y)) : i \in {n \in LettersOf(w) : Touches(Intended(w, n, x, y), Clip)}},
           LAMBDA p, d : Ink)
  /\ displaced' = (displaced \/ (scissor # {} /\ \E i \in DOMAIN w : w[i] = NEWLINE))

\* compositor.c
WindowShadow(r) ==
  Draws(shadow(r), CompositorCut, PixelsOf(Clip), LAMBDA p, d : aa_mix(0, d, Shades(r, p)))
\* A title bar has round corners at its top, the close button all around.
TitleBar(r, rb) ==
  /\ 2 * CORNER <= r.w /\ 2 * CORNER <= r.h
  /\ Draws(round_grad_fill(r, CORNER, rb, Light, Dark), CompositorCut, ClippedTo(r),
           LAMBDA p, d : MeantRounded(p, d, r, CORNER, rb, Light, Dark))
CloseCross(r) ==
  \E n \in {Min({r.w, r.h}) - 1} :
    Draws(titlebar_line(<<r.x, r.y>>, <<r.x + n, r.y + n>>, Ink)
            \o titlebar_line(<<r.x + n, r.y>>, <<r.x, r.y + n>>, Ink), CompositorCut,
          {p \in PixelsOf(RectAt(r.x, r.y, n + 1, n + 1)) \cap PixelsOf(Clip) :
             p[1] - r.x = p[2] - r.y \/ p[1] - r.x + p[2] - r.y = n},
          LAMBDA p, d : Ink)
TitleText(w, r) ==
  Draws(titlebar_text(w, r.x, r.y, r.x + r.w, Ink), CompositorCut,
        {p \in ClippedTo(RectAt(r.x, r.y, (r.w \div GLYPH_W) * GLYPH_W, GLYPH_H)) :
           \E i \in LettersOf(w) : p \in PixelsOf(Glyph(r.x + (i - 1) * GLYPH_W, r.y))},
        LAMBDA p, d : Ink)

\* display.c: buffers have no clip rectangle.
BufferFill(r) ==
  scissor = {} /\ Draws(<<Solid(r, Ink)>>, BufferCut, ClippedTo(r), LAMBDA p, d : Ink)
ViewportRender(r, scroll) ==
  /\ scissor = {}
  /\ Draws(viewport_render(r, scroll), Uncut,
           {p \in ClippedTo(r) : CoversPixel(Shifted(p, r, scroll), Source)},
           LAMBDA p, d : SourceAt(Shifted(p, r, scroll)))

\* software.c, through ghal.c; coordinates have no sign.
ghal_fill_rect(r) ==
  /\ backend /\ scissor = {} /\ r.x >= 0 /\ r.y >= 0
  /\ Draws(<<Solid(SurfaceCut(r), Ink)>>, Uncut, ClippedTo(r), LAMBDA p, d : Ink)
\* sw_surface_upload: the same rectangle of a frame.
FrameAt(p) == (2 * Address(p)) % (FULL + 1)
ghal_surface_upload(r) ==
  /\ backend /\ scissor = {} /\ r.x >= 0 /\ r.y >= 0
  /\ Draws(Pixelwise(SurfaceCut(r), FrameAt), Uncut, ClippedTo(r), LAMBDA p, d : FrameAt(p))
\* No scaling: both rectangles have one size.
ghal_blit(r, from) ==
  /\ backend /\ scissor = {} /\ r.x >= 0 /\ r.y >= 0
  /\ Draws(sw_blit(r, from), Uncut, {p \in ClippedTo(r) : CoversPixel(Shifted(p, r, from), Source)},
           LAMBDA p, d : SourceAt(Shifted(p, r, from)))

-----------------------------------------------------------------------------
(* Buffers *)

\* w * h * 4 modulo WORD, and the test that finds an overflow.
PixelBytes(w, h) == (w * h * 4) % WORD
MutSizeFits(w, h) == TRUE
SizeFits(w, h) == (PixelBytes(w, h) \div 4) \div w = h
Born(w, h, bytes, owned) ==
  /\ topic = "buffers" /\ Len(made) < 2
  /\ made' = Append(made, [w |-> w, h |-> h, bytes |-> bytes, owned |-> owned])
  /\ blocks' = blocks + (IF owned THEN 2 ELSE 1)
  /\ UNCHANGED <<topic, backend, paintVars>>
\* sw_surface_create, display_buffer_create; when the heap is exhausted nothing is kept.
sw_surface_create(w, h) == backend /\ w > 0 /\ h > 0 /\ SizeFits(w, h) /\ Born(w, h, PixelBytes(w, h), TRUE)
display_buffer_create(w, h) == w > 0 /\ h > 0 /\ SizeFits(w, h) /\ Born(w, h, PixelBytes(w, h), TRUE)
display_buffer_wrap(w, h, stride) == w > 0 /\ h > 0 /\ stride >= w /\ Born(w, h, stride * h * 4, FALSE)
\* sw_surface_destroy, display_buffer_destroy
BlocksOf(b) == IF b.owned THEN 2 ELSE 1
buffer_destroy(i) ==
  /\ topic = "buffers" /\ i \in DOMAIN made
  /\ blocks' = blocks - BlocksOf(made[i])
  /\ made' = RemoveAt(made, i)
  /\ UNCHANGED <<topic, backend, paintVars>>

Paints(r) ==
  \/ PainterFill(r) \/ PainterGradient(r) \/ PainterShadow(r) \/ PainterImage(r)
  \/ \E pressed \in BOOLEAN : DrawButton(r, pressed)
  \/ WindowShadow(r) \/ CloseCross(r) \/ \E rb \in {0, CORNER} : TitleBar(r, rb)
  \/ \E w \in Words : TitleText(w, r)
  \/ BufferFill(r) \/ \E scroll \in Lefts \X Tops : ViewportRender(r, scroll)
  \/ ghal_fill_rect(r) \/ ghal_surface_upload(r)
  \/ \E from \in (Lefts \cap Nat) \X (Tops \cap Nat) : ghal_blit(r, from)
RasterNext ==
  \/ \E r \in Shapes : Paints(r) /\ UNCHANGED displaced
  \/ \E w \in Words, x \in Lefts, y \in Tops : PainterText(w, x, y)
  \/ \E w, h \in Lengths : sw_surface_create(w, h) \/ display_buffer_create(w, h)
  \/ \E w, h, stride \in Lengths : display_buffer_wrap(w, h, stride)
  \/ \E i \in 1 .. 2 : buffer_destroy(i)
RasterSpec == RasterInit /\ [][RasterNext]_rasterVars

-----------------------------------------------------------------------------
(* Properties *)

\* A primitive writes inside its buffer and leaves the picture its shape defines, pixel
\* by pixel, in the clip rectangle and nothing outside it: whatever part of the shape is
\* off the buffer, no pixel is blended twice, none is missed, none of a neighbouring row
\* is hit, and no copy reads beyond its source.  Text is cut by whole cells, and a text of
\* several lines keeps its place only without a clip rectangle.
PaintTrue == stray = {} /\ (memory = wanted \/ displaced)

\* The heap holds the blocks of the buffers there are, and a buffer that owns its pixels
\* has room for all of them, also where the product of its sides wraps.
BuffersHeld ==
  /\ blocks = Cardinality({i \in DOMAIN made : made[i].owned}) + Len(made)
  /\ \A i \in DOMAIN made : made[i].bytes >= 4 * made[i].w * made[i].h
=============================================================================
