------------------------------ MODULE PixelBuffer ------------------------------
(***************************************************************************)
(* Pixel formats, the geometry of the buffers the backends allocate, and   *)
(* the decoding of what the compositor drew.  Integers have the width of   *)
(* the code: u32 arithmetic wraps (release build) where it is unchecked.   *)
(***************************************************************************)
EXTENDS Naturals, Integers, Sequences

CONSTANTS
  Word,   \* 2^32
  None

ASSUME WordAssumption == Word \in Nat \ {0}

MaxI32 == Word \div 2 - 1

Ok(v) == [type |-> "ok", value |-> v]
Error(e) == [type |-> "error", error |-> e]

-----------------------------------------------------------------------------
(* PixelFormat *)

Formats == {"argb", "xrgb", "abgr", "xbgr", "rgb565", "unknown"}

\* The DRM codes; wl_shm has codes of its own for the first two.
Fourcc == [AR24 |-> "argb", XR24 |-> "xrgb", AB24 |-> "abgr", XB24 |-> "xbgr", RG16 |-> "rgb565"]

\* No size, code or row is None.
ASSUME NoneAssumption == None \notin Nat \cup {"0", "1"} \cup DOMAIN Fourcc \cup Seq(0 .. 255)

FromDrmFourcc(code) == IF code \in DOMAIN Fourcc THEN Fourcc[code] ELSE "unknown"

FromRaw(code) ==
  IF code = "0" THEN "argb" ELSE IF code = "1" THEN "xrgb" ELSE FromDrmFourcc(code)

\* Mutant: a DRM code is passed on as a wl_shm code.
ToWlShmSwapped(f) ==
  CASE f = "argb" -> "1" [] f = "xrgb" -> "0" [] f = "unknown" -> None
    [] OTHER -> CHOOSE c \in DOMAIN Fourcc : Fourcc[c] = f

ToWlShmFormat(f) ==
  CASE f = "argb" -> "0" [] f = "xrgb" -> "1" [] f = "unknown" -> None
    [] OTHER -> CHOOSE c \in DOMAIN Fourcc : Fourcc[c] = f

BytesPerPixel(f) == CASE f = "unknown" -> 0 [] f = "rgb565" -> 2 [] OTHER -> 4

-----------------------------------------------------------------------------
(* Geometries: the size of the buffer each backend asks for *)

\* Mutant: one row too few.
ExpectedSizeShort(stride, height) ==
  IF stride * height > MaxI32 \/ height = 0 THEN None ELSE stride * (height - 1)

\* A product that does not overflow, against the protocol's i32.
ExpectedSize(stride, height) == IF stride * height > MaxI32 THEN None ELSE stride * height

\* A mapping of no bytes is refused by the kernel.
Allocate(width, height, stride, format) ==
  LET size == ExpectedSize(stride, height) IN
  IF size = None THEN Error("overflow")
  ELSE IF size = 0 THEN Error("no memory")
  ELSE Ok([width |-> width, height |-> height, stride |-> stride, format |-> format,
           size |-> size])

KnownSize(width, height) == width > 0 /\ height > 0

AsU32(n) == n % Word

WestonGeometry(width, height, format) ==
  LET stride == (AsU32(width) * BytesPerPixel(format)) % Word IN
  IF ~KnownSize(width, height) THEN Error("unknown size")
  ELSE IF format = "unknown" THEN Error("unsupported format")
  ELSE IF stride % 4 # 0 THEN Error("not aligned")
  ELSE Allocate(AsU32(width), AsU32(height), stride, format)

\* take_shot, of an output of this size.
AglGeometry(width, height) ==
  IF ~KnownSize(width, height) THEN Error("unknown size")
  ELSE Allocate(AsU32(width), AsU32(height), (AsU32(width) * 4) % Word, "xrgb")

\* The compositor decides on the stride, too.
WlrGeometry(width, height, stride, format) ==
  IF ToWlShmFormat(format) = None THEN Error("unsupported format")
  ELSE Allocate(width, height, stride, format)

-----------------------------------------------------------------------------
(* Decoding *)

Scale5(c) == c * 8 + c \div 4
Scale6(c) == c * 4 + c \div 16

DecodePixel(px, format) ==
  CASE format = "argb" -> <<px[3], px[2], px[1], px[4]>>
    [] format = "xrgb" -> <<px[3], px[2], px[1], 255>>
    [] format = "abgr" -> px
    [] format = "xbgr" -> <<px[1], px[2], px[3], 255>>
    [] format = "rgb565" ->
         LET v == px[1] + 256 * px[2] IN
         <<Scale5(v \div 2048), Scale6((v \div 32) % 64), Scale5(v % 32), 255>>

\* A buffer is a geometry with the bytes drawn into it as `data`.
Row(b, y) ==
  LET start == y * b.stride IN
  IF start >= Word \/ start + b.stride > Len(b.data) THEN None
  ELSE SubSeq(b.data, start + 1, start + b.stride)

\* Mutant: what a short row lacks is left black.
PixelRgba8Padding(b, x, y) ==
  LET bpp == BytesPerPixel(b.format)
      row == Row(b, y)
  IN IF bpp = 0 THEN Error("unsupported format")
     ELSE IF row = None THEN Error("buffer shorter than height")
     ELSE IF (x + 1) * bpp > Len(row) THEN Ok(<<0, 0, 0, 255>>)
     ELSE Ok(DecodePixel(SubSeq(row, x * bpp + 1, (x + 1) * bpp), b.format))

PixelRgba8(b, x, y) ==
  LET bpp == BytesPerPixel(b.format)
      row == Row(b, y)
  IN IF bpp = 0 THEN Error("unsupported format")
     ELSE IF row = None THEN Error("buffer shorter than height")
     ELSE IF (x + 1) * bpp > Len(row) THEN Error("row shorter than width")
     ELSE Ok(DecodePixel(SubSeq(row, x * bpp + 1, (x + 1) * bpp), b.format))

\* decode_row_into of every row: all the pixels, or the first error.
Rows(b) ==
  LET image == [y \in 0 .. b.height - 1 |-> [x \in 0 .. b.width - 1 |-> PixelRgba8(b, x, y)]]
      Fails(y) == \E x \in DOMAIN image[y] : image[y][x].type = "error"
  IN IF \E y \in DOMAIN image : Fails(y)
       THEN LET y == CHOOSE z \in DOMAIN image : Fails(z) /\ \A w \in 0 .. z - 1 : ~Fails(w)
            IN image[y][CHOOSE x \in DOMAIN image[y] : image[y][x].type = "error"]
       ELSE Ok([y \in DOMAIN image |-> [x \in DOMAIN image[y] |-> image[y][x].value]])

\* The encoder refuses an image without pixels.
EncodePng(b) == IF b.width = 0 \/ b.height = 0 THEN Error("encoding") ELSE Rows(b)

\* Mutant: the halves are swapped.
CenterColorSwapped(b) == PixelRgba8(b, b.height \div 2, b.width \div 2)

CenterColor(b) == PixelRgba8(b, b.width \div 2, b.height \div 2)
================================================================================
