---------------------------------- MODULE Gfx ---------------------------------
(***************************************************************************)
(* The drawing library, src/lib/gfxlib.c, with the routines of             *)
(* src/drivers/framebuffer.c that draw without it.                         *)
(*                                                                         *)
(* What a routine draws is the set of words of the back buffer it writes,  *)
(* numbered as the code computes them: a word outside the buffer is        *)
(* memory of somebody else.  Colours are looked at one channel at a time.  *)
(* The sizes of the screen are unsigned in the code and coordinates are    *)
(* not, so that every comparison of the two is unsigned.                   *)
(***************************************************************************)
EXTENDS Integers, Sequences, SequencesExt, FiniteSetsExt, Invocation

CONSTANTS
    ScreenW, ScreenH,   \* fb_w, fb_h
    Places,             \* bound of the model: where things are drawn
    Sizes,              \* bound of the model: how large they are
    Glyph,              \* the side of a character: 8
    Texts,              \* bound of the model: the strings that are drawn
    Shades,             \* bound of the model: the values of a channel that are tried
    Parts,              \* bound of the model: t, how far from one colour to the other
    Rows,               \* bound of the model: the heights of gradients
    Side                \* bound of the model: the side of a picture that is blurred

ASSUME GfxAssumption ==
    /\ ScreenW \in Nat \ {0} /\ ScreenH \in Nat \ {0}
    /\ Places \subseteq Int /\ Sizes \subseteq Nat
    /\ Glyph \in Nat \ {0} /\ \A s \in Texts : s \in Seq(STRING)
    /\ Shades \subseteq 0 .. 255 /\ Parts \subseteq Int /\ Rows \subseteq Nat
    /\ Side \in Nat

Words == 0 .. ScreenW * ScreenH - 1

Word(x, y) == y * ScreenW + x

\* As the code compares n with a size of the screen: a negative n is large.
Beyond(n, limit) == n < 0 \/ n > limit

OnScreen(x, y) == x >= 0 /\ y >= 0 /\ ~Beyond(x, ScreenW - 1) /\ ~Beyond(y, ScreenH - 1)

gfx_pixel(x, y) == IF OnScreen(x, y) THEN {Word(x, y)} ELSE {}

Drawn(cells) == UNION {gfx_pixel(c[1], c[2]) : c \in cells}

-----------------------------------------------------------------------------
(* Rectangles. *)

ClippedStart(at) == IF at < 0 THEN 0 ELSE at

\* Faulty variant: what is cut off on the left is not taken from the length.
ClippedLen_Whole(at, len, limit) ==
    IF Beyond(ClippedStart(at) + len, limit) THEN limit - ClippedStart(at) ELSE len

ClippedLen(at, len, limit) ==
    LET rest == IF at < 0 THEN len + at ELSE len
    IN  IF Beyond(ClippedStart(at) + rest, limit) THEN limit - ClippedStart(at) ELSE rest

\* The cells of gfx_fill_rect(), gfx_fill_rect_alpha() and gfx_blur_region(),
\* which write without looking any further.
Block(x, y, w, h) ==
    LET cw == ClippedLen(x, w, ScreenW)
        ch == ClippedLen(y, h, ScreenH)
    IN  {<<ClippedStart(x) + i, ClippedStart(y) + j>> : i \in 0 .. cw - 1, j \in 0 .. ch - 1}

Written(cells) == {Word(c[1], c[2]) : c \in cells}

fill_rect(x, y, w, h) == Written(Block(x, y, w, h))

hline(x, y, w) == {<<x + i, y>> : i \in 0 .. w - 1}
vline(x, y, h) == {<<x, y + j>> : j \in 0 .. h - 1}

rect_outline(x, y, w, h) ==
    hline(x, y, w) \cup hline(x, y + h - 1, w) \cup vline(x, y, h) \cup vline(x + w - 1, y, h)

-----------------------------------------------------------------------------
(* Rounded rectangles. *)

in_rounded(px, py, w, h, r) ==
    LET dx == px - (IF px < r THEN r ELSE w - 1 - r)
        dy == py - (IF py < r THEN r ELSE h - 1 - r)
    IN  \/ px >= r /\ px < w - r
        \/ py >= r /\ py < h - r
        \/ dx * dx + dy * dy <= r * r

Radius(radius, w, h) ==
    LET byWidth == IF radius * 2 > w THEN w \div 2 ELSE radius
    IN  IF byWidth * 2 > h THEN h \div 2 ELSE byWidth

Inner(w, h) == (0 .. w - 1) \X (0 .. h - 1)

Rounded(w, h, radius) ==
    {c \in Inner(w, h) : in_rounded(c[1], c[2], w, h, Radius(radius, w, h))}

Moved(cells, x, y) == {<<c[1] + x, c[2] + y>> : c \in cells}

rounded_rect(x, y, w, h, radius) == Moved(Rounded(w, h, radius), x, y)

Neighbours(c) ==
    {<<c[1] - 1, c[2]>>, <<c[1] + 1, c[2]>>, <<c[1], c[2] - 1>>, <<c[1], c[2] + 1>>}

rounded_outline(x, y, w, h, radius) ==
    LET r == Radius(radius, w, h)
        in(c) == in_rounded(c[1], c[2], w, h, r)
        inner(c) == /\ c[1] \in 1 .. w - 2 /\ c[2] \in 1 .. h - 2
                    /\ in(c) /\ \A n \in Neighbours(c) : in(n)
    IN  Moved({c \in Inner(w, h) : in(c) /\ ~inner(c)}, x, y)

AtLeast(n, m) == IF n < m THEN m ELSE n

glass_highlight(x, y, w, h, radius) ==
    LET r == AtLeast(Radius(radius, w, h), 1)
        rows == AtLeast(h \div 3, 2)
    IN  Moved({c \in Inner(w, h) : c[2] < rows /\ in_rounded(c[1], c[2], w, h, r)}, x, y)

glass_specular(x, y, w, h, radius) ==
    LET r == AtLeast(Radius(radius, w, h), 1)
        sr == AtLeast((IF w < h THEN w ELSE h) \div 6, 2)
        spot == {<<w \div 4 + i, h \div 4 + j>> : i \in -sr .. sr, j \in -sr .. sr}
        near(c) == LET i == c[1] - w \div 4
                       j == c[2] - h \div 4
                   IN  i * i + j * j <= sr * sr
    IN  Moved({c \in spot : near(c) /\ in_rounded(c[1], c[2], w, h, r)}, x, y)

\* gfx_liquid_glass(): the shadow, the blur behind, the tint, the outline, the
\* highlight, the spot and the darker edge, which lies within the tint.
liquid_glass(x, y, w, h, radius) ==
    fill_rect(x + 3, y + 3, w, h) \cup fill_rect(x, y, w, h)
      \cup Drawn(rounded_rect(x + 3, y + 3, w, h, radius))
      \cup Drawn(rounded_rect(x, y, w, h, radius))
      \cup Drawn(rounded_outline(x, y, w, h, radius))
      \cup Drawn(glass_highlight(x, y, w, h, radius))
      \cup Drawn(glass_specular(x, y, w, h, radius))

circle(cx, cy, r) ==
    {<<cx + d[1], cy + d[2]>> :
        d \in {e \in (-r .. r) \X (-r .. r) : e[1] * e[1] + e[2] * e[2] <= r * r}}

-----------------------------------------------------------------------------
(* Lines. *)

Abs(n) == IF n < 0 THEN -n ELSE n

\* Faulty variant: the second step is decided with the error the first has
\* left behind.
Steps_Late(err, adx, ady) ==
    <<err > -adx, (IF err > -adx THEN err - ady ELSE err) < ady>>

Steps(err, adx, ady) == <<err > -adx, err < ady>>

\* The points from the first on, at most n of them.  C divides towards zero.
line_points(x0, y0, x1, y1, n) ==
    LET adx == Abs(x1 - x0)
        ady == Abs(y1 - y0)
        sx == IF x1 < x0 THEN -1 ELSE 1
        sy == IF y1 < y0 THEN -1 ELSE 1
        next(p) == LET s == Steps(p.err, adx, ady)
                   IN  [x |-> IF s[1] THEN p.x + sx ELSE p.x,
                        y |-> IF s[2] THEN p.y + sy ELSE p.y,
                        err |-> p.err - (IF s[1] THEN ady ELSE 0)
                                      + (IF s[2] THEN adx ELSE 0)]
        first == [x |-> x0, y |-> y0,
                  err |-> IF adx > ady THEN adx \div 2 ELSE -(ady \div 2)]
        path[k \in 1 .. n] ==
            IF k = 1 THEN <<first>>
            ELSE LET end == path[k - 1][Len(path[k - 1])]
                 IN  IF end.x = x1 /\ end.y = y1 THEN path[k - 1]
                     ELSE Append(path[k - 1], next(end))
    IN  path[n]

-----------------------------------------------------------------------------
(* Text and pictures. *)

\* Where the characters of a text begin: a newline goes down a character and
\* one, back to the first column.
CharPlaces(s, x, y, scale) ==
    LET breaks(k) == {i \in 1 .. k - 1 : s[i] = "newline"}
        column(k) == k - 1 - (IF breaks(k) = {} THEN 0 ELSE Max(breaks(k)))
    IN  {<<x + column(k) * Glyph * scale,
           y + Cardinality(breaks(k)) * (Glyph + 1) * scale>> :
           k \in {i \in 1 .. Len(s) : s[i] # "newline"}}

\* A character is as large as the largest.
text_cells(s, x, y) ==
    UNION {Moved(Inner(Glyph, Glyph), p[1], p[2]) : p \in CharPlaces(s, x, y, 1)}

text_scaled(s, x, y, scale) ==
    UNION {fill_rect(p[1] + i * scale, p[2] + j * scale, scale, scale) :
             p \in CharPlaces(s, x, y, scale), i \in 0 .. Glyph - 1, j \in 0 .. Glyph - 1}

gfx_text_width(s) == Len(s) * 8

\* Which word of the picture a cell of the screen shows.
SourceWord(i, j, sw, sh, dw, dh) == ((j * sh) \div dh) * sw + (i * sw) \div dw

blit_scaled(sw, sh, dx, dy, dw, dh) ==
    IF dw <= 0 \/ dh <= 0 \/ sw <= 0 \/ sh <= 0 THEN {}
    ELSE {[word |-> Word(dx + c[1], dy + c[2]), from |-> SourceWord(c[1], c[2], sw, sh, dw, dh)] :
            c \in {d \in Inner(dw, dh) : OnScreen(dx + d[1], dy + d[2])}}

-----------------------------------------------------------------------------
(* The size of the back buffer, and what is shown of it. *)

\* The sizes gfx_init() tries: GUI_W by GUI_H are what it tries again at last.
SizesTried(fw, fh) ==
    << [w |-> IF fw > 1920 THEN 1920 ELSE fw, h |-> IF fh > 1200 THEN 1200 ELSE fh],
       [w |-> 640, h |-> 480], [w |-> 640, h |-> 480] >>

\* A size is settled for when there is memory for it twice.  Of a size that fits
\* only once the one buffer is lost.
Tried(s, size) ==
    CASE s.there -> s
      [] ~s.there /\ 2 * size.w * size.h <= s.left -> [s EXCEPT !.size = size, !.there = TRUE]
      [] OTHER -> [s EXCEPT !.size = size, !.left = IF size.w * size.h <= @ THEN @ - size.w * size.h ELSE @]

\* gfx_init(): the first size for which there is memory twice.  When there is none
\* there is no buffer: the last try asks for the size malloc() has just refused, so
\* it cannot get the back buffer without the other one.
gfx_init_size(fw, fh, memory) ==
    LET sizes == SizesTried(fw, fh)
        start == [size |-> [w |-> 0, h |-> 0], there |-> FALSE, left |-> memory]
    IN  Tried(Tried(Tried(start, sizes[1]), sizes[2]), sizes[3])

\* gfx_present(): the last byte of the framebuffer that is copied to.
present_last(init, pitch) ==
    IF init.there THEN (init.size.h - 1) * pitch + init.size.w * 4 - 1 ELSE -1

-----------------------------------------------------------------------------
(* src/drivers/framebuffer.c and the pixels of src/drivers/vga.c: coordinates  *)
(* are unsigned there, and every pixel is looked at on its own.                *)

fb_get_pixel_ptr(x, y) ==
    IF Beyond(x, ScreenW - 1) \/ Beyond(y, ScreenH - 1) THEN {} ELSE {Word(x, y)}

fb_draw(cells) == UNION {fb_get_pixel_ptr(c[1], c[2]) : c \in cells}

fb_cells(x, y, w, h) == {<<x + i, y + j>> : i \in 0 .. w - 1, j \in 0 .. h - 1}

\* A character has a column, and a line two rows, of their own between them and
\* the next.
fb_places(s, x, y) ==
    LET breaks(k) == {i \in 1 .. k - 1 : s[i] = "newline"}
        column(k) == k - 1 - (IF breaks(k) = {} THEN 0 ELSE Max(breaks(k)))
    IN  {<<x + column(k) * (Glyph + 1), y + Cardinality(breaks(k)) * (Glyph + 2)>> :
           k \in {i \in 1 .. Len(s) : s[i] # "newline"}}

-----------------------------------------------------------------------------
(* Colours: the three channels are treated alike, so that one stands for all. *)

\* Faulty variant: the two parts add up to 256, not to 255.
Mixed_256(dst, src, a) == (src * a + dst * (256 - a)) \div 255

Mixed(dst, src, a) == (src * a + dst * (255 - a)) \div 255

Blended(dst, src, a) ==
    IF a = 0 THEN dst ELSE IF a = 255 THEN src ELSE Mixed(dst, src, a)

Lerp(a, b, t) ==
    LET at == IF t < 0 THEN 0 ELSE IF t > 256 THEN 256 ELSE t
    IN  (a * (256 - at) + b * at) \div 256

\* The row of gfx_vgradient() that is j below the top.
GradientRow(top, bottom, h, j) ==
    Lerp(top, bottom, IF h > 1 THEN (j * 256) \div (h - 1) ELSE 0)

\* One pass of gfx_blur_region() over the box from (x, y): the picture it reads
\* is the one before the pass, and the box is all it looks at.
BlurPass(picture, x, y, w, h) ==
    LET inBox(c) == c[1] \in x .. x + w - 1 /\ c[2] \in y .. y + h - 1
        at(c, n) == IF inBox(n) THEN picture[n] ELSE picture[c]
        sum(c) == picture[c] * 2 + at(c, <<c[1] - 1, c[2]>>) + at(c, <<c[1] + 1, c[2]>>)
                    + at(c, <<c[1], c[2] - 1>>) + at(c, <<c[1], c[2] + 1>>)
    IN  [c \in DOMAIN picture |-> IF inBox(c) THEN sum(c) \div 6 ELSE picture[c]]

sin_table == <<
       0,  17,  35,  52,  70,  87, 105, 122, 139, 156, 174, 191, 208, 225, 242, 259,
     276, 292, 309, 326, 342, 358, 375, 391, 407, 423, 438, 454, 469, 485, 500, 515,
     530, 545, 559, 574, 588, 602, 616, 629, 643, 656, 669, 682, 695, 707, 719, 731,
     743, 755, 766, 777, 788, 799, 809, 819, 829, 839, 848, 857, 866, 875, 883, 891,
     899, 906, 914, 921, 927, 934, 940, 946, 951, 956, 961, 966, 970, 974, 978, 982,
     985, 988, 990, 993, 995, 996, 998, 999, 999, 1000, 1000>>

\* TLA+ takes the remainder of a negative angle to be positive, as the code does
\* in a step of its own.
SinDeg(deg) ==
    LET d == deg % 360
    IN  IF d <= 90 THEN sin_table[d + 1]
        ELSE IF d <= 180 THEN sin_table[181 - d]
        ELSE IF d <= 270 THEN -sin_table[d - 179]
        ELSE -sin_table[361 - d]

CosDeg(deg) == SinDeg(deg + 90)

-----------------------------------------------------------------------------
(* The calls.  An answer is what is written. *)

gfx_clear_rgb == Invoked([fn |-> "clear"], Words)

gfx_put_pixel == \E x, y \in Places : Invoked([fn |-> "pixel", x |-> x, y |-> y], gfx_pixel(x, y))

InBox(fn, drawn(_, _, _, _)) ==
    \E x, y \in Places, w, h \in Sizes :
      Invoked([fn |-> fn, x |-> x, y |-> y, w |-> w, h |-> h], drawn(x, y, w, h))

gfx_fill_rect == InBox("fill", fill_rect)

gfx_rect_outline == InBox("outline", LAMBDA x, y, w, h : Drawn(rect_outline(x, y, w, h)))

InRoundedBox(fn, drawn(_, _, _, _, _)) ==
    \E x, y \in Places, w, h \in Sizes, radius \in {0, 1, 3} :
      Invoked([fn |-> fn, x |-> x, y |-> y, w |-> w, h |-> h, radius |-> radius],
              drawn(x, y, w, h, radius))

gfx_rounded_rect ==
    InRoundedBox("rounded", LAMBDA x, y, w, h, r : Drawn(rounded_rect(x, y, w, h, r)))

gfx_rounded_outline ==
    InRoundedBox("rounded_outline", LAMBDA x, y, w, h, r : Drawn(rounded_outline(x, y, w, h, r)))

gfx_liquid_glass == InRoundedBox("glass", liquid_glass)

gfx_circle ==
    \E x, y \in Places, r \in Sizes :
      Invoked([fn |-> "circle", x |-> x, y |-> y, r |-> r], Drawn(circle(x, y, r)))

\* One point more than a line has.
gfx_line ==
    \E x0, y0, x1, y1 \in Places :
      Invoked([fn |-> "line", x0 |-> x0, y0 |-> y0, x1 |-> x1, y1 |-> y1],
              line_points(x0, y0, x1, y1, Max({Abs(x1 - x0), Abs(y1 - y0)}) + 2))

gfx_text ==
    \E s \in Texts, x, y \in Places :
      Invoked([fn |-> "text", s |-> s, x |-> x, y |-> y], Drawn(text_cells(s, x, y)))

gfx_text_scaled ==
    \E s \in Texts, x, y \in Places, scale \in 1 .. 2 :
      Invoked([fn |-> "text_scaled", s |-> s, x |-> x, y |-> y, scale |-> scale],
              text_scaled(s, x, y, scale))

gfx_blit_argb ==
    \E x, y \in Places, w, h \in Sizes :
      Invoked([fn |-> "blit", x |-> x, y |-> y, sw |-> w, sh |-> h, w |-> w, h |-> h],
              blit_scaled(w, h, x, y, w, h))

gfx_blit_argb_scaled ==
    \E x, y \in Places, w, h, sw, sh \in Sizes :
      Invoked([fn |-> "blit", x |-> x, y |-> y, sw |-> sw, sh |-> sh, w |-> w, h |-> h],
              blit_scaled(sw, sh, x, y, w, h))

\* The sizes of a screen, and the words malloc() has left: for none of the buffers,
\* for the smallest, for those in between and for the largest.
ScreenSizes == {<<640, 400>>, <<1280, 800>>, <<2560, 1600>>}
WordsLeft == {0, 700000, 1100000, 4608000}

gfx_init_present ==
    \E mode \in ScreenSizes, memory \in WordsLeft :
      Invoked([fn |-> "init", w |-> mode[1], h |-> mode[2], memory |-> memory],
              gfx_init_size(mode[1], mode[2], memory))

fb_draw_rect ==
    InBox("fb_rect", LAMBDA x, y, w, h : fb_draw(fb_cells(x, y, w, h)))

fb_put_string ==
    \E s \in Texts, x, y \in Places :
      Invoked([fn |-> "fb_string", s |-> s, x |-> x, y |-> y],
              fb_draw(UNION {Moved(Inner(Glyph, Glyph), p[1], p[2]) : p \in fb_places(s, x, y)}))

gfx_blend ==
    \E dst, src, a \in Shades :
      Invoked([fn |-> "blend", dst |-> dst, src |-> src, a |-> a], Blended(dst, src, a))

gfx_lerp_color ==
    \E a, b \in Shades, t \in Parts :
      Invoked([fn |-> "lerp", a |-> a, b |-> b, t |-> t], Lerp(a, b, t))

gfx_vgradient ==
    \E top, bottom \in Shades, h \in Rows :
      Invoked([fn |-> "gradient", top |-> top, bottom |-> bottom, h |-> h],
              [j \in 1 .. h |-> GradientRow(top, bottom, h, j - 1)])

Square == (0 .. Side - 1) \X (0 .. Side - 1)

\* A picture of one colour but for one word.
gfx_blur_region ==
    \E spot \in Square, u, v \in {0, 7, 255}, x, y \in 0 .. 1, w, h \in 1 .. Side - 1 :
      LET picture == [c \in Square |-> IF c = spot THEN u ELSE v]
      IN  Invoked([fn |-> "blur", picture |-> picture, x |-> x, y |-> y, w |-> w, h |-> h],
                  BlurPass(picture, x, y, w, h))

gfx_sin_deg == \E deg \in -360 .. 720 : Invoked([fn |-> "sin", deg |-> deg], SinDeg(deg))
gfx_cos_deg == \E deg \in -360 .. 720 : Invoked([fn |-> "cos", deg |-> deg], CosDeg(deg))

ColourNext ==
    gfx_blend \/ gfx_lerp_color \/ gfx_vgradient \/ gfx_blur_region \/ gfx_sin_deg \/ gfx_cos_deg

GfxNext ==
    \/ ColourNext
    \/ gfx_init_present \/ fb_draw_rect \/ fb_put_string
    \/ gfx_clear_rgb \/ gfx_put_pixel \/ gfx_fill_rect \/ gfx_rect_outline
    \/ gfx_rounded_rect \/ gfx_rounded_outline \/ gfx_liquid_glass \/ gfx_circle
    \/ gfx_line \/ gfx_text \/ gfx_text_scaled \/ gfx_blit_argb \/ gfx_blit_argb_scaled

-----------------------------------------------------------------------------
(* Properties. *)

\* The cells of the screen within a box, as one would say it.
Within(x, y, w, h) ==
    {Word(c[1], c[2]) : c \in {d \in (0 .. ScreenW - 1) \X (0 .. ScreenH - 1) :
                                 /\ x <= d[1] /\ d[1] < x + w
                                 /\ y <= d[2] /\ d[2] < y + h}}

\* A box that ends left of the screen or above it: the unsigned comparison then
\* takes it to be too wide, and whole rows are painted.  Nothing in the kernel
\* draws such a box.
EndsBefore(x, y, w, h) == x + w < 0 \/ y + h < 0

\* A filled rectangle paints what of it lies on the screen, and nothing else.
FillsExactly ==
    Called("fill") =>
        /\ answer \subseteq Words
        /\ ~EndsBefore(call.x, call.y, call.w, call.h) =>
             answer = Within(call.x, call.y, call.w, call.h)

\* The rounded rectangle looks the same from left and right, above and below,
\* and its outline is what of it touches the outside.
RoundedExactly ==
    /\ Called("rounded") =>
         LET cells == Rounded(call.w, call.h, call.radius)
         IN  /\ answer \subseteq Within(call.x, call.y, call.w, call.h)
             /\ \A c \in cells : /\ <<call.w - 1 - c[1], c[2]>> \in cells
                                  /\ <<c[1], call.h - 1 - c[2]>> \in cells
    /\ Called("rounded_outline") =>
         LET cells == Rounded(call.w, call.h, call.radius)
         IN  answer = Drawn(Moved({c \in cells : ~(Neighbours(c) \subseteq cells)},
                                  call.x, call.y))

\* Glass paints its box and its shadow, three cells further, unless the box ends
\* before the screen.  A box below 8 by 8 has no room for the spot, which then
\* leaves it.
GlassWithin ==
    Called("glass") =>
        /\ answer \subseteq Words
        /\ call.w >= 8 /\ call.h >= 8 /\ ~EndsBefore(call.x, call.y, call.w, call.h) =>
             answer \subseteq Within(call.x, call.y, call.w + 3, call.h + 3)

\* A line ends, at its other end, in as many points as its longer side has; it
\* has no gaps, and stays within half a point of the true line.
LineExactly ==
    Called("line") =>
        LET adx == Abs(call.x1 - call.x0)
            ady == Abs(call.y1 - call.y0)
            longer == Max({adx, ady})
            off(p) == (p.x - call.x0) * (call.y1 - call.y0) - (p.y - call.y0) * (call.x1 - call.x0)
        IN  /\ Len(answer) = longer + 1
            /\ Last(answer).x = call.x1 /\ Last(answer).y = call.y1
            /\ \A i \in 1 .. Len(answer) - 1 :
                 /\ Abs(answer[i + 1].x - answer[i].x) <= 1
                 /\ Abs(answer[i + 1].y - answer[i].y) <= 1
            /\ \A i \in 1 .. Len(answer) : 2 * Abs(off(answer[i])) <= longer

\* A text of one line stays below its width, on the screen.
TextWithin ==
    Called("text") =>
        /\ answer \subseteq Words
        /\ "newline" \notin ToSet(call.s) =>
             answer = Within(call.x, call.y, (gfx_text_width(call.s) \div 8) * Glyph, Glyph)

\* A picture is read within its bounds, and every cell of its box that is on
\* the screen shows one of its words.
PictureRead ==
    Called("blit") =>
        /\ \A p \in answer : p.from \in 0 .. call.sw * call.sh - 1
        /\ call.sw > 0 /\ call.sh > 0 =>
             {p.word : p \in answer} = Within(call.x, call.y, call.w, call.h)

\* A framebuffer that the back buffer was not made smaller for holds all that is
\* shown; one of fewer lines than the back buffer that was settled for does not.
PresentedWithin ==
    (Called("init") /\ answer.there) =>
        \/ present_last(answer, call.w * 4) < call.h * call.w * 4
        \/ answer.size.h > call.h

\* The framebuffer's own routines paint what lies on the screen, wherever they
\* begin, since what is negative is large.
FramebufferWithin ==
    /\ Called("fb_rect") => answer = Within(call.x, call.y, call.w, call.h)
    /\ Called("fb_string") => answer \subseteq Words

\* Whatever is drawn, wherever: no word outside the back buffer is written, and
\* what is drawn is what was asked for.
DrawingExact ==
    /\ FillsExactly /\ RoundedExactly /\ GlassWithin
    /\ LineExactly /\ TextWithin /\ PictureRead
    /\ PresentedWithin /\ FramebufferWithin
    /\ call.fn \in {"clear", "pixel", "outline", "circle", "text_scaled"} =>
         answer \subseteq Words

Between(n, a, b) == Min({a, b}) <= n /\ n <= Max({a, b})

\* The square of the radius, of a thousand, within the last digit of the table.
OnCircle(n) == Between(n, 998000, 1002000)

\* A blurred box: a pixel inside lies between the extremes the box held, and the rest is untouched.
BlurredWithin(picture, blurred, x, y, w, h) ==
    LET box == {c \in Square : c[1] \in x .. x + w - 1 /\ c[2] \in y .. y + h - 1}
        values == {picture[c] : c \in box}
    IN  \A c \in Square :
          IF c \in box THEN Between(blurred[c], Min(values), Max(values))
          ELSE blurred[c] = picture[c]

\* A mixture lies between the two colours and within a byte, the ends of a
\* gradient are the colours it was given and nothing turns back on the way, a
\* blur stays between the darkest and the brightest word of its box and leaves
\* the rest alone, and sine and cosine lie on the unit circle, within the last
\* digit of the table.
ColoursBetween ==
    /\ Called("blend") => Between(answer, call.dst, call.src)
    /\ Called("lerp") =>
         /\ Between(answer, call.a, call.b)
         /\ call.t <= 0 => answer = call.a
         /\ call.t >= 256 => answer = call.b
    /\ Called("gradient") /\ call.h > 1 =>
         /\ answer[1] = call.top /\ answer[call.h] = call.bottom
         /\ \A j \in 1 .. call.h - 1 : Between(answer[j + 1], answer[j], call.bottom)
    /\ Called("blur") => BlurredWithin(call.picture, answer, call.x, call.y, call.w, call.h)
    /\ Called("sin") =>
         /\ answer = -SinDeg(call.deg + 180) /\ answer = SinDeg(180 - call.deg)
         /\ OnCircle(answer * answer + CosDeg(call.deg) * CosDeg(call.deg))
    /\ Called("cos") => answer = CosDeg(-call.deg)

=============================================================================
