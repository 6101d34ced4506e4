---------------------------- MODULE PortalDataProofs ----------------------------
(***************************************************************************)
(* Proofs about PortalData, for integers of any width, any images and any  *)
(* files: a captured buffer holds its rows, so that it is decoded or seen  *)
(* to be too narrow, and the settings are what the deciding lines say.     *)
(* Nothing is ever computed from an earlier output, so every theorem rests *)
(* on one invariant: the output is none, or what its input determines.     *)
(***************************************************************************)
EXTENDS PortalData, WellFoundedInduction, SequenceTheorems, TLAPS

-----------------------------------------------------------------------------
(* Numbers *)

\* A set of natural numbers that is not empty has a least element, and Min is that
\* element (Iterator::position, the first file that can be read).
LEMMA LeastNatural ==
  ASSUME NEW S \in SUBSET Nat, S # {}
  PROVE  /\ Min(S) \in S
         /\ \A k \in S : Min(S) <= k
<1> DEFINE less == OpToRel(<, Nat)
<1>1. IsWellFoundedOn(less, Nat)
  BY NatLessThanWellFounded
<1>2. \A i, j \in Nat : i < j => <<i, j>> \in less
  BY DEF OpToRel
<1> HIDE DEF less
<1>3. PICK m \in S : \A k \in S : <<k, m>> \notin less
  BY <1>1, WFMin
<1>4. \A k \in S : m <= k
  <2> SUFFICES ASSUME NEW k \in S, ~(m <= k)
               PROVE  FALSE
    OBVIOUS
  <2>1. k \in Nat /\ m \in Nat /\ k < m
    OBVIOUS
  <2>2. <<k, m>> \in less
    BY <1>2, <2>1
  <2> QED
    BY <1>3, <2>2
<1> QED
  BY <1>4 DEF Min

\* Rows follow one another.
LEMMA ProductSteps ==
  ASSUME NEW a \in Nat, NEW c \in Nat
  PROVE  a * c \in Nat /\ (a + 1) * c = a * c + c
OBVIOUS

\* More rows take more bytes.
LEMMA ProductGrows ==
  ASSUME NEW a \in Nat, NEW b \in Nat, NEW c \in Nat, a <= b
  PROVE  a * c \in Nat /\ b * c \in Nat /\ a * c <= b * c
<1>1. PICK d \in Nat : b = a + d
  BY b - a \in Nat
<1>2. b * c = a * c + d * c
  BY <1>1
<1>3. a * c \in Nat /\ d * c \in Nat
  OBVIOUS
<1> QED
  BY <1>2, <1>3

-----------------------------------------------------------------------------
(* Decoding *)

\* A buffer that was allocated: its memory is as long as its rows together, which
\* an i32 can tell, and its pixels have a known format.
IsBuffer(b) ==
  /\ b.width \in Nat /\ b.height \in Nat \ {0} /\ b.stride \in Nat
  /\ b.format \in Formats \ {"unknown"}
  /\ b.data \in Seq(0 .. 255)
  /\ Len(b.data) = b.stride * b.height /\ Len(b.data) <= MaxI32

\* The bytes of a part of a memory that lies in it.
LEMMA PartOf ==
  ASSUME NEW d \in Seq(0 .. 255), NEW start \in Nat, NEW s \in Nat, start + s <= Len(d)
  PROVE  /\ SubSeq(d, start + 1, start + s) \in Seq(0 .. 255)
         /\ Len(SubSeq(d, start + 1, start + s)) = s
<1> DEFINE first == start + 1
           last == start + s
<1>1. first \in Int /\ last \in Int /\ last - first + 1 = s /\ (first <= last <=> s # 0)
  OBVIOUS
<1>2. DOMAIN d = 1 .. Len(d) /\ Len(d) \in Nat
  OBVIOUS
<1>3. \A i \in first .. last : d[i] \in 0 .. 255
  <2> SUFFICES ASSUME NEW i \in start + 1 .. start + s
               PROVE  d[i] \in 0 .. 255
    OBVIOUS
  <2>1. PICK n \in Nat : n = Len(d)
    BY <1>2
  <2>2. i \in 1 .. n
    BY <2>1
  <2> QED
    BY <2>1, <2>2
<1> HIDE DEF first, last
<1>4. /\ SubSeq(d, first, last) \in Seq(0 .. 255)
      /\ Len(SubSeq(d, first, last)) = IF first <= last THEN last - first + 1 ELSE 0
  BY <1>1, <1>3, SubSeqProperties
<1>5. Len(SubSeq(d, first, last)) = s
  BY <1>1, <1>4
<1> QED
  BY <1>4, <1>5 DEF first, last

\* No row begins or ends outside of the memory (raw_row).
LEMMA RowHeld ==
  ASSUME NEW b, IsBuffer(b), NEW y \in 0 .. b.height - 1
  PROVE  Row(b, y) # None /\ Len(Row(b, y)) = b.stride
<1>1. PICK h \in Nat \ {0} : h = b.height
  BY DEF IsBuffer
<1>2. PICK s \in Nat : s = b.stride
  BY DEF IsBuffer
<1>3. PICK d \in Seq(0 .. 255) : d = b.data
  BY DEF IsBuffer
<1>4. Len(d) = s * h /\ Len(d) <= MaxI32
  BY <1>1, <1>2, <1>3 DEF IsBuffer
<1>5. y \in Nat /\ y + 1 \in Nat /\ y + 1 <= h
  BY <1>1
<1>6. PICK start \in Nat : start = y * s
  BY <1>2, <1>5, ProductGrows
<1>7. start + s = (y + 1) * s
  BY <1>2, <1>5, <1>6, ProductSteps
<1>8. start + s <= Len(d)
  <2>1. (y + 1) * s <= h * s /\ h * s = s * h
    BY <1>1, <1>2, <1>5, ProductGrows
  <2> QED
    BY <1>4, <1>7, <2>1
<1>9. start < Word /\ Word \in Nat
  <2>1. MaxI32 < Word /\ MaxI32 \in Int /\ Word \in Nat
    BY WordAssumption DEF MaxI32
  <2>2. PICK n \in Nat : n = Len(d)
    BY <1>3
  <2>3. n <= MaxI32
    BY <1>4, <2>2
  <2>4. start + s <= n
    BY <1>8, <2>2
  <2>5. start <= n
    BY <1>2, <1>6, <2>2, <2>4
  <2> QED
    BY <1>6, <2>1, <2>2, <2>3, <2>5
<1>10. Row(b, y) = SubSeq(d, start + 1, start + s)
  <2>1. ~(start >= Word) /\ ~(start + s > Len(d))
    <3>1. Len(d) \in Nat
      BY <1>3
    <3> QED
      BY <1>2, <1>6, <1>8, <1>9, <3>1
  <2> QED
    BY <1>2, <1>3, <1>6, <2>1 DEF Row
<1>11. SubSeq(d, start + 1, start + s) \in Seq(0 .. 255) /\ Len(SubSeq(d, start + 1, start + s)) = s
  BY <1>2, <1>3, <1>6, <1>8, PartOf
<1> QED
  BY <1>2, <1>10, <1>11, NoneAssumption

\* A pixel of a buffer can be decoded, but for those that its row is too short for.
LEMMA PixelHeld ==
  ASSUME NEW b, IsBuffer(b), NEW x \in Nat, NEW y \in 0 .. b.height - 1
  PROVE  /\ BytesPerPixel(b.format) \in {2, 4}
         /\ IF (x + 1) * BytesPerPixel(b.format) > b.stride
              THEN PixelRgba8(b, x, y) = Error("row shorter than width")
              ELSE \E v : PixelRgba8(b, x, y) = Ok(v)
<1>1. BytesPerPixel(b.format) \in {2, 4}
  BY DEF IsBuffer, Formats, BytesPerPixel
<1>2. Row(b, y) # None /\ Len(Row(b, y)) = b.stride
  BY RowHeld
<1> DEFINE n == BytesPerPixel(b.format)
<1> HIDE DEF n
<1>3. n = BytesPerPixel(b.format) /\ n # 0
  BY <1>1 DEF n
<1>4. CASE (x + 1) * n > b.stride
  <2>1. PixelRgba8(b, x, y) = Error("row shorter than width")
    BY <1>2, <1>3, <1>4 DEF PixelRgba8
  <2> QED
    BY <1>1, <1>3, <1>4, <2>1
<1>5. CASE ~((x + 1) * n > b.stride)
  <2>1. \E v : PixelRgba8(b, x, y) = Ok(v)
    BY <1>2, <1>3, <1>5 DEF PixelRgba8
  <2> QED
    BY <1>1, <1>3, <1>5, <2>1
<1> QED
  BY <1>4, <1>5

-----------------------------------------------------------------------------
(* Allocating *)

\* What is drawn into a mapping are bytes, as many as it has.
LEMMA DrawnBytes ==
  ASSUME NEW size \in Nat
  PROVE  Drawn(size) \in Seq(0 .. 255) /\ Len(Drawn(size)) = size
<1>1. \A i \in 1 .. size : (37 * i) % 256 \in 0 .. 255
  OBVIOUS
<1>2. Drawn(size) \in [1 .. size -> 0 .. 255]
  BY <1>1 DEF Drawn
<1> QED
  BY <1>2

\* A geometry that is not refused is that of a buffer (expected_size, ShmBuffer).
LEMMA AllocatedBuffer ==
  ASSUME NEW w \in Nat, NEW h \in Nat, NEW s \in Nat, NEW f \in Formats \ {"unknown"},
         NEW g, g = Allocate(w, h, s, f), g.type # "error"
  PROVE  /\ g.value.width = w /\ g.value.height = h /\ g.value.stride = s /\ g.value.format = f
         /\ IsBuffer(Filled(g.value))
<1> DEFINE size == ExpectedSize(s, h)
<1>1. s * h \in Nat
  BY ProductSteps
<1>2. size # None /\ size # 0
  BY DEF Allocate, Error
<1>3. size = s * h /\ s * h <= MaxI32
  <2>1. MaxI32 \in Int
    BY WordAssumption DEF MaxI32
  <2>2. ~(s * h > MaxI32)
    BY <1>2 DEF ExpectedSize
  <2>3. size = s * h
    BY <2>2 DEF ExpectedSize
  <2> QED
    BY <1>1, <2>1, <2>2, <2>3
<1>4. h # 0
  BY <1>2, <1>3
<1>5. g = Ok([width |-> w, height |-> h, stride |-> s, format |-> f, size |-> size])
  BY <1>2 DEF Allocate
<1> HIDE DEF size
<1>6. /\ g.value.width = w /\ g.value.height = h /\ g.value.stride = s /\ g.value.format = f
      /\ g.value.size = size
  BY <1>5 DEF Ok
<1>7. size \in Nat
  BY <1>1, <1>3
<1>8. Drawn(size) \in Seq(0 .. 255) /\ Len(Drawn(size)) = size
  BY <1>7, DrawnBytes
<1>9. /\ Filled(g.value).width = w /\ Filled(g.value).height = h /\ Filled(g.value).stride = s
      /\ Filled(g.value).format = f /\ Filled(g.value).data = Drawn(size)
  BY <1>6 DEF Filled
<1>10. IsBuffer(Filled(g.value))
  BY <1>3, <1>4, <1>8, <1>9 DEF IsBuffer
<1> QED
  BY <1>6, <1>10

\* An i32 that is not negative is the same number as a u32.
LEMMA SameAsU32 ==
  ASSUME NEW n \in 0 .. MaxI32
  PROVE  AsU32(n) = n /\ n \in Nat
<1>1. MaxI32 < Word /\ MaxI32 \in Int /\ Word \in Nat \ {0}
  BY WordAssumption DEF MaxI32
<1> QED
  BY <1>1 DEF AsU32

\* The stride of the code that computes it, from the width and the format.
ComputedStride(w, f) == (w * BytesPerPixel(f)) % Word

\* It is a u32.
LEMMA StrideIsU32 ==
  ASSUME NEW w \in Nat, NEW f \in Formats
  PROVE  ComputedStride(w, f) \in Nat
<1>1. BytesPerPixel(f) \in Nat
  BY DEF Formats, BytesPerPixel
<1>2. w * BytesPerPixel(f) \in Nat
  BY <1>1, ProductSteps
<1> QED
  BY <1>2, WordAssumption DEF ComputedStride

\* The formats that the codes stand for.
LEMMA KnownFormats ==
  ASSUME NEW code
  PROVE  FromDrmFourcc(code) \in Formats /\ FromRaw(code) \in Formats
BY DEF FromDrmFourcc, FromRaw, Formats, Fourcc

\* A geometry that is refused has no buffer.
LEMMA Refused ==
  ASSUME NEW e
  PROVE  Error(e).type = "error"
BY DEF Error

\* What each backend asks for, when it is not refused, is a buffer, and where the
\* code computes the stride it is that of the width, which the mode told.
LEMMA GeometryIsBuffer ==
  ASSUME NEW image \in Images, NEW g, g = Geometry(image), g.type # "error",
         NEW b, b = Filled(g.value)
  PROVE  /\ IsBuffer(b)
         /\ image.backend # "wlr" => b.width \in 1 .. MaxI32
                                     /\ b.stride = ComputedStride(b.width, b.format)
<1>1. /\ b.width = g.value.width /\ b.height = g.value.height
      /\ b.stride = g.value.stride /\ b.format = g.value.format
  BY DEF Filled
<1>2. CASE image.backend = "weston"
  <2>1. image.width \in -MaxI32 - 1 .. MaxI32 /\ image.height \in -MaxI32 - 1 .. MaxI32
    BY <1>2, ImagesAssumption
  <2> DEFINE f == FromDrmFourcc(image.code)
  <2>2. f \in Formats
    BY KnownFormats
  <2>3. g = WestonGeometry(image.width, image.height, f)
    BY <1>2 DEF Geometry
  <2> HIDE DEF f
  <2>4. /\ KnownSize(image.width, image.height) /\ f # "unknown"
        /\ g = Allocate(AsU32(image.width), AsU32(image.height),
                        ComputedStride(AsU32(image.width), f), f)
    <3>1. KnownSize(image.width, image.height) /\ f # "unknown"
      BY <2>3, Refused DEF WestonGeometry
    <3>2. ComputedStride(AsU32(image.width), f) % 4 = 0
      BY <2>3, <3>1, Refused DEF WestonGeometry, ComputedStride
    <3> QED
      BY <2>3, <3>1, <3>2 DEF WestonGeometry, ComputedStride
  <2>5. MaxI32 \in Int
    BY WordAssumption DEF MaxI32
  <2>6. image.width \in 1 .. MaxI32 /\ image.height \in 1 .. MaxI32
    BY <2>1, <2>4, <2>5 DEF KnownSize
  <2>7. /\ AsU32(image.width) = image.width /\ image.width \in Nat
        /\ AsU32(image.height) = image.height /\ image.height \in Nat
    BY <2>5, <2>6, SameAsU32
  <2>8. ComputedStride(image.width, f) \in Nat
    BY <2>2, <2>7, StrideIsU32
  <2>9. /\ g.value.width = image.width /\ g.value.stride = ComputedStride(image.width, f)
        /\ g.value.format = f /\ IsBuffer(Filled(g.value))
    BY <2>2, <2>4, <2>7, <2>8, AllocatedBuffer
  <2> QED
    BY <1>1, <2>6, <2>9
<1>3. CASE image.backend = "agl"
  <2>1. image.width \in -MaxI32 - 1 .. MaxI32 /\ image.height \in -MaxI32 - 1 .. MaxI32
    BY <1>3, ImagesAssumption
  <2>2. "xrgb" \in Formats \ {"unknown"} /\ BytesPerPixel("xrgb") = 4
    BY DEF Formats, BytesPerPixel
  <2>3. g = AglGeometry(image.width, image.height)
    BY <1>3 DEF Geometry
  <2>4. /\ KnownSize(image.width, image.height)
        /\ g = Allocate(AsU32(image.width), AsU32(image.height),
                        ComputedStride(AsU32(image.width), "xrgb"), "xrgb")
    <3>1. KnownSize(image.width, image.height)
      BY <2>3, Refused DEF AglGeometry
    <3> QED
      BY <2>2, <2>3, <3>1 DEF AglGeometry, ComputedStride
  <2>5. MaxI32 \in Int
    BY WordAssumption DEF MaxI32
  <2>6. image.width \in 1 .. MaxI32 /\ image.height \in 1 .. MaxI32
    BY <2>1, <2>4, <2>5 DEF KnownSize
  <2>7. /\ AsU32(image.width) = image.width /\ image.width \in Nat
        /\ AsU32(image.height) = image.height /\ image.height \in Nat
    BY <2>5, <2>6, SameAsU32
  <2>8. ComputedStride(image.width, "xrgb") \in Nat
    BY <2>2, <2>7, StrideIsU32
  <2>9. /\ g.value.width = image.width /\ g.value.stride = ComputedStride(image.width, "xrgb")
        /\ g.value.format = "xrgb" /\ IsBuffer(Filled(g.value))
    BY <2>2, <2>4, <2>7, <2>8, AllocatedBuffer
  <2> QED
    BY <1>1, <2>6, <2>9
<1>4. CASE image.backend = "wlr"
  <2>1. image.width \in Nat /\ image.height \in Nat /\ image.stride \in Nat
    BY <1>4, ImagesAssumption, WordAssumption
  <2> DEFINE f == FromRaw(image.code)
  <2>2. f \in Formats
    BY KnownFormats
  <2>3. g = WlrGeometry(image.width, image.height, image.stride, f)
    BY <1>4 DEF Geometry
  <2> HIDE DEF f
  <2>4. ToWlShmFormat(f) # None /\ g = Allocate(image.width, image.height, image.stride, f)
    BY <2>3, Refused DEF WlrGeometry
  <2>5. f # "unknown"
    BY <2>4 DEF ToWlShmFormat
  <2>6. IsBuffer(Filled(g.value))
    BY <2>1, <2>2, <2>4, <2>5, AllocatedBuffer
  <2> QED
    BY <1>4, <2>6
<1>5. image.backend \in {"weston", "agl", "wlr"}
  BY ImagesAssumption
<1> QED
  BY <1>2, <1>3, <1>4, <1>5

-----------------------------------------------------------------------------
(* Encoding *)

\* The pixels of a buffer that its rows are too short for.
Missing(b, y) == {x \in 0 .. b.width - 1 : PixelRgba8(b, x, y).type = "error"}

\* decode_row_into of all rows gives the pixels, or the error of one of them.
LEMMA RowsDecoded ==
  ASSUME NEW b, b.width \in Nat, b.height \in Nat
  PROVE  \/ \E y \in 0 .. b.height - 1 : \E x \in Missing(b, y) : Rows(b) = PixelRgba8(b, x, y)
         \/ /\ \A y \in 0 .. b.height - 1 : Missing(b, y) = {}
            /\ Rows(b) = Ok([y \in 0 .. b.height - 1 |->
                              [x \in 0 .. b.width - 1 |-> PixelRgba8(b, x, y).value]])
<1> DEFINE image == [y \in 0 .. b.height - 1 |-> [x \in 0 .. b.width - 1 |-> PixelRgba8(b, x, y)]]
           Fails(y) == \E x \in DOMAIN image[y] : image[y][x].type = "error"
           First(y) == Fails(y) /\ \A w \in 0 .. y - 1 : ~Fails(w)
           chosen == CHOOSE y \in DOMAIN image : First(y)
           pixel == CHOOSE x \in DOMAIN image[chosen] : image[chosen][x].type = "error"
<1>1. /\ DOMAIN image = 0 .. b.height - 1
      /\ \A y \in 0 .. b.height - 1 :
           /\ DOMAIN image[y] = 0 .. b.width - 1
           /\ \A x \in 0 .. b.width - 1 : image[y][x] = PixelRgba8(b, x, y)
  OBVIOUS
<1>2. Rows(b) = IF \E y \in DOMAIN image : Fails(y) THEN image[chosen][pixel]
                ELSE Ok([y \in DOMAIN image |-> [x \in DOMAIN image[y] |-> image[y][x].value]])
  BY DEF Rows
<1> HIDE DEF image
<1>3. \A y \in 0 .. b.height - 1 : Fails(y) <=> Missing(b, y) # {}
  BY <1>1 DEF Missing
<1>4. CASE \E y \in DOMAIN image : Fails(y)
  <2> DEFINE failing == {y \in DOMAIN image : Fails(y)}
  <2>1. failing \in SUBSET Nat /\ failing # {}
    BY <1>1, <1>4
  <2>2. Min(failing) \in failing /\ \A y \in failing : Min(failing) <= y
    BY <2>1, LeastNatural
  <2>3. First(Min(failing)) /\ Min(failing) \in DOMAIN image
    <3> SUFFICES ASSUME NEW w \in 0 .. Min(failing) - 1, Fails(w)
                 PROVE  FALSE
      BY <2>2
    <3>1. Min(failing) \in 0 .. b.height - 1
      BY <1>1, <2>2
    <3>2. w \in 0 .. b.height - 1 /\ w < Min(failing)
      BY <3>1
    <3>3. w \in failing
      BY <1>1, <3>2
    <3> QED
      BY <2>2, <3>1, <3>2, <3>3
  <2>4. chosen \in DOMAIN image /\ Fails(chosen)
    BY <2>3
  <2>5. pixel \in DOMAIN image[chosen] /\ image[chosen][pixel].type = "error"
    BY <2>4
  <2> HIDE DEF chosen, pixel
  <2>6. Rows(b) = PixelRgba8(b, pixel, chosen)
    BY <1>1, <1>2, <1>4, <2>4, <2>5
  <2>7. chosen \in 0 .. b.height - 1 /\ pixel \in Missing(b, chosen)
    BY <1>1, <2>4, <2>5 DEF Missing
  <2> QED
    BY <2>6, <2>7
<1>5. CASE ~ \E y \in DOMAIN image : Fails(y)
  <2>1. \A y \in 0 .. b.height - 1 : Missing(b, y) = {}
    BY <1>1, <1>3, <1>5
  <2>2. Rows(b) = Ok([y \in DOMAIN image |-> [x \in DOMAIN image[y] |-> image[y][x].value]])
    BY <1>2, <1>5
  <2>3. [y \in DOMAIN image |-> [x \in DOMAIN image[y] |-> image[y][x].value]]
        = [y \in 0 .. b.height - 1 |-> [x \in 0 .. b.width - 1 |-> PixelRgba8(b, x, y).value]]
    BY <1>1
  <2> QED
    BY <2>1, <2>2, <2>3
<1> QED
  BY <1>4, <1>5

\* A buffer is encoded with all its pixels, or its rows are narrower than the image.
LEMMA PngEncoded ==
  ASSUME NEW b, IsBuffer(b), NEW png, png = EncodePng(b)
  PROVE  \/ /\ b.width # 0 /\ png = Ok(png.value)
            /\ \A y \in 0 .. b.height - 1, x \in 0 .. b.width - 1 :
                 PixelRgba8(b, x, y) = Ok(png.value[y][x])
            /\ b.width * BytesPerPixel(b.format) <= b.stride
         \/ png = Error("encoding")
         \/ /\ png = Error("row shorter than width")
            /\ b.stride < b.width * BytesPerPixel(b.format)
<1>1. PICK w \in Nat : w = b.width
  BY DEF IsBuffer
<1>2. PICK h \in Nat \ {0} : h = b.height
  BY DEF IsBuffer
<1>3. PICK s \in Nat : s = b.stride
  BY DEF IsBuffer
<1>4. PICK n \in {2, 4} : n = BytesPerPixel(b.format)
  BY <1>2, 0 \in Nat, 0 \in 0 .. b.height - 1, PixelHeld
<1>5. \A y \in 0 .. h - 1, x \in 0 .. w - 1 :
        IF (x + 1) * n > s THEN PixelRgba8(b, x, y) = Error("row shorter than width")
        ELSE \E v : PixelRgba8(b, x, y) = Ok(v)
  <2> SUFFICES ASSUME NEW y \in 0 .. h - 1, NEW x \in 0 .. w - 1
               PROVE  IF (x + 1) * n > s
                        THEN PixelRgba8(b, x, y) = Error("row shorter than width")
                        ELSE \E v : PixelRgba8(b, x, y) = Ok(v)
    OBVIOUS
  <2>1. x \in Nat /\ y \in 0 .. b.height - 1
    BY <1>1, <1>2
  <2> QED
    BY <1>3, <1>4, <2>1, PixelHeld
<1>6. CASE w = 0
  BY <1>1, <1>6 DEF EncodePng
<1>7. CASE w # 0
  <2>1. png = Rows(b)
    BY <1>1, <1>2, <1>7 DEF EncodePng
  <2>2. CASE \E y \in 0 .. b.height - 1 : \E x \in Missing(b, y) : Rows(b) = PixelRgba8(b, x, y)
    <3>1. PICK y \in 0 .. h - 1, x \in 0 .. w - 1 :
            PixelRgba8(b, x, y).type = "error" /\ png = PixelRgba8(b, x, y)
      BY <1>1, <1>2, <2>1, <2>2 DEF Missing
    <3>2. (x + 1) * n > s /\ PixelRgba8(b, x, y) = Error("row shorter than width")
      <4>1. \A v : Ok(v).type # "error"
        BY DEF Ok
      <4> QED
        BY <1>5, <3>1, <4>1
    <3>3. (x + 1) * n <= w * n /\ x + 1 \in Nat
      BY <1>1, <1>4, <3>1, ProductGrows
    <3>4. s < w * n
      <4>1. PICK p \in Nat : p = (x + 1) * n
        BY <1>4, <3>3, ProductSteps
      <4>2. PICK q \in Nat : q = w * n
        BY <1>1, <1>4, ProductSteps
      <4>3. s < p /\ p <= q
        BY <1>3, <3>2, <3>3, <4>1, <4>2
      <4> QED
        BY <1>3, <4>1, <4>2, <4>3
    <3> QED
      BY <1>1, <1>3, <1>4, <3>1, <3>2, <3>4
  <2>3. CASE /\ \A y \in 0 .. b.height - 1 : Missing(b, y) = {}
             /\ Rows(b) = Ok([y \in 0 .. b.height - 1 |->
                               [x \in 0 .. b.width - 1 |-> PixelRgba8(b, x, y).value]])
    <3>1. \A y \in 0 .. h - 1, x \in 0 .. w - 1 : PixelRgba8(b, x, y).type # "error"
      BY <1>1, <1>2, <2>3 DEF Missing
    <3>2. \A y \in 0 .. h - 1, x \in 0 .. w - 1 :
            ~((x + 1) * n > s) /\ \E v : PixelRgba8(b, x, y) = Ok(v)
      BY <1>5, <3>1, Refused
    <3>3. \A y \in 0 .. h - 1, x \in 0 .. w - 1 :
            png.value[y][x] = PixelRgba8(b, x, y).value
      BY <1>1, <1>2, <2>1, <2>3 DEF Ok
    <3>4. \A y \in 0 .. h - 1, x \in 0 .. w - 1 : PixelRgba8(b, x, y) = Ok(png.value[y][x])
      BY <3>2, <3>3 DEF Ok
    <3>5. w * n <= s
      <4>1. 0 \in 0 .. h - 1 /\ w - 1 \in 0 .. w - 1 /\ (w - 1) + 1 = w
        BY <1>1, <1>2, <1>7
      <4>2. ~(w * n > s)
        BY <3>2, <4>1
      <4>3. w * n \in Nat
        BY <1>1, <1>4, ProductSteps
      <4> QED
        BY <1>3, <4>2, <4>3
    <3>6. png = Ok(png.value)
      BY <2>1, <2>3 DEF Ok
    <3> QED
      BY <1>1, <1>2, <1>3, <1>4, <1>7, <3>4, <3>5, <3>6
  <2> QED
    BY <1>1, <1>2, <2>2, <2>3, RowsDecoded
<1> QED
  BY <1>6, <1>7

-----------------------------------------------------------------------------
(* The invariant *)

\* The output is none, or what the input determines.
Determined ==
  /\ input \in [type : {"image"}, image : Images]
         \cup [type : {"settings"}, files : Files, patterns : Patterns]
  /\ \/ output = Nothing
     \/ input.type = "image" /\ output = Outcome(input.image)
     \/ input.type = "settings" /\ output = Reply(input.files, input.patterns)

\* No step makes an output of anything but the input, which stays as it is.
THEOREM OutputIsDetermined == Spec => []Determined
<1>1. Init => Determined
  BY DEF Init, Determined
<1>2. Determined /\ [Next]_vars => Determined'
  <2> SUFFICES ASSUME Determined, [Next]_vars
               PROVE  Determined'
    OBVIOUS
  <2>1. CASE Capture
    BY <2>1 DEF Determined, Capture
  <2>2. CASE Answer
    BY <2>2 DEF Determined, Answer
  <2>3. CASE UNCHANGED vars
    BY <2>3 DEF Determined, vars
  <2> QED
    BY <2>1, <2>2, <2>3 DEF Next
<1> QED
  BY <1>1, <1>2, PTL DEF Spec

\* What was captured is a buffer, and both answers are made of it.
LEMMA CapturedBuffer ==
  ASSUME Determined, Captured
  PROVE  /\ IsBuffer(output.buffer)
         /\ output.png = EncodePng(output.buffer) /\ output.color = CenterColor(output.buffer)
         /\ input.image.backend # "wlr" =>
              /\ output.buffer.width \in 1 .. MaxI32
              /\ output.buffer.stride = ComputedStride(output.buffer.width, output.buffer.format)
<1> DEFINE g == Geometry(input.image)
           b == Filled(g.value)
<1>1. output = Outcome(input.image) /\ input.type = "image"
  BY DEF Determined, Captured, Nothing, Reply
<1>2. input.image \in Images
  BY <1>1 DEF Determined
<1>3. g.type # "error"
  BY <1>1 DEF Outcome, Captured
<1>4. output = [type |-> "capture", buffer |-> b, png |-> EncodePng(b), color |-> CenterColor(b)]
  BY <1>1, <1>3 DEF Outcome
<1>5. /\ IsBuffer(b)
      /\ input.image.backend # "wlr" => b.width \in 1 .. MaxI32
                                        /\ b.stride = ComputedStride(b.width, b.format)
  BY <1>2, <1>3, GeometryIsBuffer
<1> HIDE DEF b
<1> QED
  BY <1>4, <1>5

\* The centre of an image is one of its pixels.
LEMMA CenterInside ==
  ASSUME NEW n \in Nat \ {0}
  PROVE  n \div 2 \in 0 .. n - 1
OBVIOUS

-----------------------------------------------------------------------------
(* Of a captured image *)

\* The memory that was allocated holds every row, whatever the compositor asked
\* for: decoding fails only for rows narrower than the image (decode_row_into).
THEOREM RowsAlwaysFit == Spec => []RowsFit
<1>1. Determined => RowsFit
  <2> SUFFICES ASSUME Determined, Captured
               PROVE  /\ Error("buffer shorter than height") \notin {output.png, output.color}
                      /\ output.png = Error("row shorter than width") =>
                           output.buffer.stride
                             < output.buffer.width * BytesPerPixel(output.buffer.format)
    BY DEF RowsFit
  <2> DEFINE b == output.buffer
  <2>1. IsBuffer(b) /\ output.png = EncodePng(b) /\ output.color = CenterColor(b)
    BY CapturedBuffer
  <2> HIDE DEF b
  <2>2. Error("row shorter than width") # Error("buffer shorter than height")
        /\ Error("encoding") # Error("buffer shorter than height")
        /\ Error("encoding") # Error("row shorter than width")
    BY DEF Error
  <2>3. \A v, e : Ok(v) # Error(e)
    BY DEF Ok, Error
  <2>4. output.color # Error("buffer shorter than height")
    <3>1. b.height \div 2 \in 0 .. b.height - 1 /\ b.width \div 2 \in Nat
      BY <2>1, CenterInside DEF IsBuffer
    <3>2. \/ PixelRgba8(b, b.width \div 2, b.height \div 2) = Error("row shorter than width")
          \/ \E v : PixelRgba8(b, b.width \div 2, b.height \div 2) = Ok(v)
      BY <2>1, <3>1, PixelHeld
    <3> QED
      BY <2>1, <2>2, <2>3, <3>2 DEF CenterColor
  <2>5. output.png # Error("buffer shorter than height")
    BY <2>1, <2>2, <2>3, PngEncoded
  <2>6. output.png = Error("row shorter than width") => b.stride < b.width * BytesPerPixel(b.format)
    BY <2>1, <2>2, <2>3, PngEncoded
  <2> QED
    BY <2>4, <2>5, <2>6 DEF b
<1> QED
  BY <1>1, OutputIsDetermined, PTL

\* PickColor and Screenshot agree: the sampled pixel is the centre of the image,
\* also when the rows are padded or fewer than the columns (center_color).
THEOREM SampleAlwaysCenter == Spec => []SampleIsCenter
<1>1. Determined => SampleIsCenter
  <2> SUFFICES ASSUME Determined, Captured, output.png.type = "ok"
               PROVE  output.color
                        = Ok(output.png.value[output.buffer.height \div 2][output.buffer.width \div 2])
    BY DEF SampleIsCenter
  <2> DEFINE b == output.buffer
             png == output.png
  <2>1. IsBuffer(b) /\ png = EncodePng(b) /\ output.color = CenterColor(b)
    BY CapturedBuffer
  <2>2. png.type = "ok"
    OBVIOUS
  <2> HIDE DEF b, png
  <2>3. \A e : png # Error(e)
    BY <2>2 DEF Error
  <2>4. /\ b.width # 0
        /\ \A y \in 0 .. b.height - 1, x \in 0 .. b.width - 1 :
             PixelRgba8(b, x, y) = Ok(png.value[y][x])
    BY <2>1, <2>3, PngEncoded
  <2>5. b.height \div 2 \in 0 .. b.height - 1 /\ b.width \div 2 \in 0 .. b.width - 1
    BY <2>1, <2>4, CenterInside DEF IsBuffer
  <2>6. output.color = Ok(png.value[b.height \div 2][b.width \div 2])
    BY <2>1, <2>4, <2>5 DEF CenterColor
  <2> QED
    BY <2>6 DEF b, png
<1> QED
  BY <1>1, OutputIsDetermined, PTL

\* The bytes of a row that wrapped are fewer than those of half of the pixels.
LEMMA WrappedIsNarrow ==
  ASSUME NEW w \in 1 .. MaxI32, NEW n \in {2, 4}, (w * n) % Word # w * n
  PROVE  /\ w * n > (w * n) % Word
         /\ (w \div 2 + 1) * n > (w * n) % Word
<1>1. /\ MaxI32 \in Int /\ Word \in Nat \ {0} /\ 2 * MaxI32 + 2 <= Word
  BY WordAssumption DEF MaxI32
<1>2. w \in Nat /\ 2 * w + 2 <= Word
  BY <1>1
<1>3. n = 4
  <2> SUFFICES ASSUME n = 2
               PROVE  FALSE
    OBVIOUS
  <2>1. w * 2 \in 0 .. Word - 1
    BY <1>1, <1>2
  <2>2. (w * 2) % Word = w * 2
    BY <1>1, <2>1
  <2> QED
    BY <2>2
<1>4. w * 4 >= Word
  <2> SUFFICES ASSUME w * 4 < Word
               PROVE  FALSE
    BY <1>1, <1>2
  <2>1. w * 4 \in 0 .. Word - 1
    BY <1>1, <1>2
  <2>2. (w * 4) % Word = w * 4
    BY <1>1, <2>1
  <2> QED
    BY <1>3, <2>2
<1>5. (w * 4) % Word = w * 4 - Word
  <2>1. w * 4 - Word \in 0 .. Word - 1
    BY <1>1, <1>2, <1>4
  <2>2. w * 4 = 1 * Word + (w * 4 - Word)
    BY <1>1, <1>2
  <2> QED
    BY <1>1, <1>2, <2>1, <2>2
<1>6. PICK half \in Nat : half = w \div 2 /\ w <= 2 * half + 1
  BY <1>2
<1>7. (half + 1) * 4 > w * 4 - Word
  BY <1>1, <1>2, <1>6
<1> QED
  BY <1>1, <1>2, <1>3, <1>5, <1>6, <1>7

\* A stride that has wrapped is never taken for an image, nor for a pixel of one:
\* what a backend that computes the stride shows is as wide as it says.
THEOREM WrappedStaysHidden == Spec => []WrappedNeverShown
<1>1. Determined => WrappedNeverShown
  <2> SUFFICES ASSUME Determined, Captured, input.image.backend # "wlr",
                      output.png.type = "ok" \/ output.color.type = "ok"
               PROVE  output.buffer.stride
                        = output.buffer.width * BytesPerPixel(output.buffer.format)
    BY DEF WrappedNeverShown
  <2> DEFINE b == output.buffer
             png == output.png
             n == BytesPerPixel(b.format)
  <2>1. /\ IsBuffer(b) /\ png = EncodePng(b) /\ output.color = CenterColor(b)
        /\ b.width \in 1 .. MaxI32 /\ b.stride = (b.width * n) % Word
    BY CapturedBuffer DEF ComputedStride
  <2>2. png.type = "ok" \/ output.color.type = "ok"
    OBVIOUS
  <2> HIDE DEF b, png
  <2>3. b.width \div 2 \in Nat /\ b.height \div 2 \in 0 .. b.height - 1
    BY <2>1, CenterInside DEF IsBuffer
  <2>4. n \in {2, 4}
    BY <2>1, <2>3, PixelHeld
  <2> HIDE DEF n
  <2>5. ASSUME b.stride # b.width * n
        PROVE  b.width * n > b.stride /\ (b.width \div 2 + 1) * n > b.stride
    BY <2>1, <2>4, <2>5, WrappedIsNarrow
  <2>6. CASE png.type = "ok"
    <3>1. \A e : png # Error(e)
      BY <2>6 DEF Error
    <3>2. b.width * n <= b.stride
      BY <2>1, <3>1, PngEncoded DEF n
    <3>3. b.width \in Nat /\ b.width * n \in Nat /\ b.stride \in Nat
      BY <2>1, <2>4, ProductSteps DEF IsBuffer
    <3> QED
      BY <2>5, <3>2, <3>3 DEF b, n
  <2>7. CASE output.color.type = "ok"
    <3>1. ~((b.width \div 2 + 1) * n > b.stride)
      BY <2>1, <2>3, <2>7, PixelHeld, Refused DEF CenterColor, n
    <3> QED
      BY <2>5, <3>1 DEF b, n
  <2> QED
    BY <2>2, <2>6, <2>7
<1> QED
  BY <1>1, OutputIsDetermined, PTL

\* A format's wl_shm code is the code of that format.
LEMMA CodesAgree ==
  ASSUME NEW f \in Formats
  PROVE  FromRaw(ToWlShmFormat(f)) = f
<1>1. ASSUME NEW c \in {"AR24", "XR24", "AB24", "XB24", "RG16"}
      PROVE  FromRaw(c) = Fourcc[c] /\ c \in DOMAIN Fourcc
  BY DEF FromRaw, FromDrmFourcc, Fourcc
<1>2. CASE f = "argb"
  BY <1>2 DEF ToWlShmFormat, FromRaw
<1>3. CASE f = "xrgb"
  BY <1>3 DEF ToWlShmFormat, FromRaw
<1>4. CASE f = "unknown"
  <2>1. ToWlShmFormat(f) = None
    BY <1>4 DEF ToWlShmFormat
  <2>2. None \notin {"0", "1"} \cup DOMAIN Fourcc
    BY NoneAssumption
  <2>3. FromRaw(None) = "unknown"
    BY <2>2 DEF FromRaw, FromDrmFourcc
  <2> QED
    BY <1>4, <2>1, <2>3
<1>5. CASE f \in {"abgr", "xbgr", "rgb565"}
  <2> DEFINE c == CHOOSE code \in DOMAIN Fourcc : Fourcc[code] = f
  <2>1. ToWlShmFormat(f) = c
    BY <1>5 DEF ToWlShmFormat
  <2>2. \E code \in DOMAIN Fourcc : Fourcc[code] = f
    BY <1>5 DEF Fourcc
  <2>3. c \in DOMAIN Fourcc /\ Fourcc[c] = f
    BY <2>2
  <2> HIDE DEF c
  <2>4. DOMAIN Fourcc = {"AR24", "XR24", "AB24", "XB24", "RG16"}
    BY DEF Fourcc
  <2> QED
    BY <1>1, <2>1, <2>3, <2>4
<1> QED
  BY <1>2, <1>3, <1>4, <1>5 DEF Formats

\* The buffer's wl_shm format is the format its pixels are decoded as.
THEOREM FormatAlwaysSurvives == Spec => []FormatSurvives
<1>1. Determined => FormatSurvives
  BY CapturedBuffer, CodesAgree DEF FormatSurvives, IsBuffer
<1> QED
  BY <1>1, OutputIsDetermined, PTL

-----------------------------------------------------------------------------
(* Parsing *)

\* The largest number of a set.
LEMMA MaxOf ==
  ASSUME NEW S \in SUBSET Int, NEW m \in S, \A k \in S : k <= m
  PROVE  Max(S) = m
<1>1. m \in S /\ \A k \in S : m >= k
  OBVIOUS
<1>2. Max(S) \in S /\ \A k \in S : Max(S) >= k
  BY <1>1 DEF Max
<1>3. Max(S) >= m /\ m >= Max(S) /\ Max(S) \in Int /\ m \in Int
  BY <1>1, <1>2
<1> QED
  BY <1>3

\* What has been read of the lines with these numbers, in terms of what had been
\* read without the last of them: the equation that FoldLeft solves.
FoldsLines(f, lines, k) ==
  f = [T \in SUBSET (1 .. k) |->
        IF T = {} THEN Default ELSE WithLine(f[T \ {Max(T)}], lines[Max(T)])]

\* The configuration is what has been read of all the lines.
LEMMA ParseConfigFolds ==
  ASSUME NEW lines \in Seq(Lines)
  PROVE  ParseConfig(lines) = (CHOOSE f : FoldsLines(f, lines, Len(lines)))[1 .. Len(lines)]
<1>1. DOMAIN lines = 1 .. Len(lines)
  OBVIOUS
<1>2. ParseConfig(lines) =
        (CHOOSE f : f = [T \in SUBSET (DOMAIN lines) |->
                          IF T = {} THEN Default
                          ELSE WithLine(f[T \ {Max(T)}], lines[Max(T)])])[DOMAIN lines]
  BY Zenon DEF ParseConfig, FoldLeft, MapThenFoldSet
<1> QED
  BY Zenon, <1>1, <1>2 DEF FoldsLines

\* There is a solution, however many the lines: the first number of lines for which
\* there was none would have one, that of the lines before the last continued.
LEMMA FoldExists ==
  ASSUME NEW lines, NEW n \in Nat
  PROVE  \E f : FoldsLines(f, lines, n)
<1> DEFINE unsolved == {k \in Nat : ~ \E f : FoldsLines(f, lines, k)}
<1>1. SUFFICES ASSUME unsolved # {}
               PROVE  FALSE
  OBVIOUS
<1>2. PICK k \in unsolved : \A j \in unsolved : k <= j
  BY <1>1, LeastNatural
<1>3. CASE k = 0
  <2> DEFINE f == [T \in SUBSET (1 .. 0) |-> Default]
  <2>1. \A T \in SUBSET (1 .. 0) : T = {}
    OBVIOUS
  <2>2. FoldsLines(f, lines, 0)
    BY <2>1 DEF FoldsLines
  <2> HIDE DEF f
  <2> QED
    BY <1>2, <1>3, <2>2
<1>4. CASE k # 0
  <2>1. k \in Nat /\ k - 1 \in Nat
    BY <1>2, <1>4
  <2>2. k - 1 \notin unsolved
    BY <1>2, <2>1
  <2>3. PICK g : FoldsLines(g, lines, k - 1)
    BY <2>1, <2>2
  <2> DEFINE f == [T \in SUBSET (1 .. k) |->
                    IF k \in T THEN WithLine(g[T \ {k}], lines[k]) ELSE g[T]]
             Step(T) == IF T = {} THEN Default ELSE WithLine(f[T \ {Max(T)}], lines[Max(T)])
  <2>4. \A T \in SUBSET (1 .. k - 1) :
          /\ T \in SUBSET (1 .. k) /\ k \notin T /\ f[T] = g[T]
          /\ g[T] = IF T = {} THEN Default ELSE WithLine(g[T \ {Max(T)}], lines[Max(T)])
    <3>1. \A T \in SUBSET (1 .. k - 1) : T \in SUBSET (1 .. k) /\ k \notin T
      BY <2>1
    <3>2. \A T \in SUBSET (1 .. k - 1) : f[T] = g[T]
      BY <3>1
    <3>3. \A T \in SUBSET (1 .. k - 1) :
            g[T] = IF T = {} THEN Default ELSE WithLine(g[T \ {Max(T)}], lines[Max(T)])
      BY Zenon, <2>3 DEF FoldsLines
    <3> QED
      BY <3>1, <3>2, <3>3
  <2>5. ASSUME NEW T \in SUBSET (1 .. k)
        PROVE  f[T] = Step(T)
    <3>1. CASE k \in T
      <4>1. Max(T) = k
        BY <2>1, <3>1, MaxOf
      <4>2. T \ {k} \in SUBSET (1 .. k - 1)
        BY <2>1
      <4>3. f[T \ {k}] = g[T \ {k}]
        BY <2>4, <4>2
      <4>4. f[T] = WithLine(g[T \ {k}], lines[k])
        BY <3>1
      <4> HIDE DEF f
      <4> QED
        BY <3>1, <4>1, <4>3, <4>4
    <3>2. CASE k \notin T
      <4>1. T \in SUBSET (1 .. k - 1)
        BY <2>1, <3>2
      <4>2. T \ {Max(T)} \in SUBSET (1 .. k - 1)
        BY <4>1
      <4>3. f[T] = g[T] /\ f[T \ {Max(T)}] = g[T \ {Max(T)}]
        BY <2>4, <4>1, <4>2
      <4> HIDE DEF f
      <4> QED
        BY <2>4, <4>1, <4>3
    <3> QED
      BY <3>1, <3>2
  <2>6. f = [T \in SUBSET (1 .. k) |-> f[T]]
    OBVIOUS
  <2> HIDE DEF f
  <2>7. [T \in SUBSET (1 .. k) |-> f[T]] = [T \in SUBSET (1 .. k) |-> Step(T)]
    BY <2>5
  <2>8. FoldsLines(f, lines, k)
    BY <2>6, <2>7 DEF FoldsLines
  <2> QED
    BY <1>2, <2>8
<1> QED
  BY <1>3, <1>4

\* The configurations before the first and after each of n lines.
Stages(c, lines, n) ==
  /\ c[0] = Default
  /\ \A k \in 1 .. n : c[k] = WithLine(c[k - 1], lines[k])
  /\ ParseConfig(lines) = c[n]

\* The configuration is what the lines make of the defaults, one after another.
LEMMA ParsedInOrder ==
  ASSUME NEW lines \in Seq(Lines)
  PROVE  \E c : Stages(c, lines, Len(lines))
<1>1. PICK n \in Nat : n = Len(lines)
  OBVIOUS
<1> DEFINE f == CHOOSE g : FoldsLines(g, lines, n)
           c == [k \in 0 .. n |-> f[1 .. k]]
<1>2. FoldsLines(f, lines, n)
  BY FoldExists
<1> HIDE DEF f
<1>3. \A T \in SUBSET (1 .. n) :
        f[T] = IF T = {} THEN Default ELSE WithLine(f[T \ {Max(T)}], lines[Max(T)])
  BY Zenon, <1>2 DEF FoldsLines
<1>4. c[0] = Default
  <2>1. 1 .. 0 = {} /\ {} \in SUBSET (1 .. n) /\ 0 \in 0 .. n
    BY <1>1
  <2>2. f[{}] = Default
    BY <1>3, <2>1
  <2> QED
    BY <2>1, <2>2
<1>5. ASSUME NEW k \in 1 .. n
      PROVE  c[k] = WithLine(c[k - 1], lines[k])
  <2>1. /\ 1 .. k \in SUBSET (1 .. n) /\ k \in 1 .. k /\ k \in 0 .. n /\ k - 1 \in 0 .. n
        /\ (1 .. k) \ {k} = 1 .. k - 1
    BY <1>1
  <2>2. Max(1 .. k) = k
    <3>1. 1 .. k \in SUBSET Int /\ \A j \in 1 .. k : j <= k
      BY <1>1
    <3> QED
      BY <2>1, <3>1, MaxOf
  <2>3. f[1 .. k] = WithLine(f[1 .. k - 1], lines[k])
    BY <1>3, <2>1, <2>2
  <2> QED
    BY <2>1, <2>3
<1>6. ParseConfig(lines) = c[n]
  <2>1. ParseConfig(lines) = f[1 .. n]
    BY Zenon, <1>1, ParseConfigFolds DEF f
  <2>2. n \in 0 .. n
    BY <1>1
  <2> QED
    BY <2>1, <2>2
<1> HIDE DEF c
<1>7. Stages(c, lines, n)
  BY <1>4, <1>5, <1>6 DEF Stages
<1> QED
  BY <1>1, <1>7

-----------------------------------------------------------------------------
(* The lines that decide *)

\* A line that is about a key, and with a colour that can be shown.
Counts(line, k) ==
  line.key = k /\ (k = "accent-color" => Accent(line.value) # Unset)

\* What such a line says of it.
Says(line, k) ==
  IF k \in Numbers /\ line.value = Bad THEN Default[k]
  ELSE IF k = "accent-color" THEN Accent(line.value) ELSE line.value

\* The first n lines that are about a key, and what the last of them says.
About(lines, n, k) == {i \in 1 .. n : Counts(lines[i], k)}
Decided(lines, n, k) ==
  IF About(lines, n, k) = {} THEN Default[k] ELSE Says(lines[Max(About(lines, n, k))], k)

\* A line that counts replaces what was there of its key, and nothing else.
LEMMA LineApplied ==
  ASSUME NEW config, NEW line, config = [k \in Keys |-> config[k]]
  PROVE  WithLine(config, line)
           = [k \in Keys |-> IF Counts(line, k) THEN Says(line, k) ELSE config[k]]
<1> DEFINE next == [k \in Keys |-> IF Counts(line, k) THEN Says(line, k) ELSE config[k]]
<1>1. /\ Keys = Numbers \cup {"accent-color"} /\ "accent-color" \notin Numbers
      /\ \A k \in Numbers : Default[k] = 0
  BY DEF Keys, Numbers, Default
<1>2. CASE line.key \in Numbers
  <2> DEFINE number == IF line.value = Bad THEN 0 ELSE line.value
  <2>1. WithLine(config, line) = [config EXCEPT ![line.key] = number]
    BY <1>2 DEF WithLine
  <2>2. [config EXCEPT ![line.key] = number]
        = [k \in Keys |-> IF k = line.key THEN number ELSE config[k]]
    BY <1>1, <1>2
  <2>3. \A k \in Keys :
          (IF k = line.key THEN number ELSE config[k])
          = IF Counts(line, k) THEN Says(line, k) ELSE config[k]
    BY <1>1, <1>2 DEF Counts, Says
  <2> HIDE DEF number
  <2> QED
    BY <2>1, <2>2, <2>3
<1>3. CASE line.key = "accent-color" /\ Accent(line.value) # Unset
  <2> DEFINE colour == Accent(line.value)
  <2>1. WithLine(config, line) = [config EXCEPT !["accent-color"] = colour]
    BY <1>1, <1>3 DEF WithLine
  <2>2. [config EXCEPT !["accent-color"] = colour]
        = [k \in Keys |-> IF k = "accent-color" THEN colour ELSE config[k]]
    BY <1>1
  <2>3. \A k \in Keys :
          (IF k = "accent-color" THEN colour ELSE config[k])
          = IF Counts(line, k) THEN Says(line, k) ELSE config[k]
    BY <1>1, <1>3 DEF Counts, Says
  <2> HIDE DEF colour
  <2> QED
    BY <2>1, <2>2, <2>3
<1>4. CASE line.key \notin Numbers /\ ~(line.key = "accent-color" /\ Accent(line.value) # Unset)
  <2>1. WithLine(config, line) = config
    BY <1>4 DEF WithLine
  <2>2. \A k \in Keys : ~Counts(line, k)
    BY <1>1, <1>4 DEF Counts
  <2> QED
    BY <2>1, <2>2
<1> QED
  BY <1>2, <1>3, <1>4

\* One more line decides, if it counts.
LEMMA DecidedStep ==
  ASSUME NEW lines, NEW n \in Nat \ {0}, NEW k
  PROVE  Decided(lines, n, k)
           = IF Counts(lines[n], k) THEN Says(lines[n], k) ELSE Decided(lines, n - 1, k)
<1>1. CASE Counts(lines[n], k)
  <2>1. n \in About(lines, n, k) /\ About(lines, n, k) \in SUBSET Int
    BY <1>1 DEF About
  <2>2. \A i \in About(lines, n, k) : i <= n
    BY DEF About
  <2>3. Max(About(lines, n, k)) = n
    BY <2>1, <2>2, MaxOf
  <2> QED
    BY <1>1, <2>1, <2>3 DEF Decided
<1>2. CASE ~Counts(lines[n], k)
  <2>1. About(lines, n, k) = About(lines, n - 1, k)
    BY <1>2 DEF About
  <2> QED
    BY <1>2, <2>1 DEF Decided
<1> QED
  BY <1>1, <1>2

\* After every line the configuration is what the lines so far decide.
LEMMA ParseConfigDecided ==
  ASSUME NEW lines \in Seq(Lines)
  PROVE  ParseConfig(lines) = [k \in Keys |-> Decided(lines, Len(lines), k)]
<1>1. PICK n \in Nat : n = Len(lines)
  OBVIOUS
<1>2. PICK c : Stages(c, lines, n)
  BY <1>1, ParsedInOrder
<1> DEFINE Right(i) == c[i] = [k \in Keys |-> Decided(lines, i, k)]
           wrong == {i \in 0 .. n : ~Right(i)}
<1>3. ASSUME wrong # {}
      PROVE  FALSE
  <2>1. PICK i \in wrong : \A j \in wrong : i <= j
    <3>1. wrong \in SUBSET Nat
      OBVIOUS
    <3> HIDE DEF wrong
    <3> QED
      BY <1>3, <3>1, LeastNatural
  <2>2. CASE i = 0
    <3>1. \A k : About(lines, 0, k) = {}
      BY DEF About
    <3>2. [k \in Keys |-> Decided(lines, 0, k)] = [k \in Keys |-> Default[k]]
      BY <3>1 DEF Decided
    <3>3. Default = [k \in Keys |-> Default[k]]
      BY DEF Default
    <3> QED
      BY <1>2, <2>1, <2>2, <3>2, <3>3 DEF Stages
  <2>3. CASE i # 0
    <3>1. i \in 1 .. n /\ i - 1 \in 0 .. n /\ i - 1 < i
      BY <1>1, <2>1, <2>3
    <3>2. Right(i - 1)
      BY <2>1, <3>1
    <3>3. /\ c[i - 1] = [k \in Keys |-> c[i - 1][k]]
          /\ \A k \in Keys : c[i - 1][k] = Decided(lines, i - 1, k)
      BY <3>2
    <3>4. c[i] = [k \in Keys |-> IF Counts(lines[i], k) THEN Says(lines[i], k) ELSE c[i - 1][k]]
      <4>1. c[i] = WithLine(c[i - 1], lines[i])
        BY <1>2, <3>1 DEF Stages
      <4> QED
        BY <3>3, <4>1, LineApplied
    <3>5. \A k \in Keys :
            (IF Counts(lines[i], k) THEN Says(lines[i], k) ELSE c[i - 1][k]) = Decided(lines, i, k)
      BY <3>1, <3>3, DecidedStep
    <3>6. Right(i)
      BY <3>4, <3>5
    <3> QED
      BY <2>1, <3>6
  <2> QED
    BY <2>2, <2>3
<1>4. Right(n)
  BY <1>1, <1>3
<1> QED
  BY <1>1, <1>2, <1>4 DEF Stages

\* A colour has three parts, in the range of the interface.
LEMMA AccentInRange ==
  ASSUME NEW parts
  PROVE  Accent(parts) \in {Unset} \cup [1 .. 3 -> 0 .. One]
<1> DEFINE rgb == SelectSeq(parts, LAMBDA p : p # Bad)
<1>1. CASE Len(rgb) = 3 /\ \A i \in 1 .. 3 : rgb[i] \in 0 .. One
  <2>1. Accent(parts) = <<rgb[1], rgb[2], rgb[3]>>
    BY <1>1 DEF Accent
  <2>2. rgb[1] \in 0 .. One /\ rgb[2] \in 0 .. One /\ rgb[3] \in 0 .. One
    BY <1>1
  <2> HIDE DEF rgb
  <2>3. <<rgb[1], rgb[2], rgb[3]>> \in [1 .. 3 -> 0 .. One]
    BY <2>2
  <2> QED
    BY <2>1, <2>3
<1>2. CASE ~(Len(rgb) = 3 /\ \A i \in 1 .. 3 : rgb[i] \in 0 .. One)
  BY <1>2 DEF Accent
<1> QED
  BY <1>1, <1>2

\* The lines that are read: of the first file that can be.
LinesOf(files) ==
  IF files[1] # Bad THEN files[1] ELSE IF files[2] # Bad THEN files[2] ELSE <<>>

\* The configuration is that of those lines; without any it is the default.
LEMMA LoadConfigDecided ==
  ASSUME NEW files \in Files
  PROVE  /\ LinesOf(files) \in Seq(Lines)
         /\ LoadConfig(files)
              = [k \in Keys |-> Decided(LinesOf(files), Len(LinesOf(files)), k)]
<1> DEFINE readable == {i \in DOMAIN files : files[i] # Bad}
<1>1. /\ DOMAIN files = 1 .. 2 /\ 1 \in 1 .. 2 /\ 2 \in 1 .. 2
      /\ \A i \in 1 .. 2 : files[i] # Bad => files[i] \in Seq(Lines)
  BY FilesAssumption
<1>2. LinesOf(files) \in Seq(Lines)
  BY <1>1 DEF LinesOf
<1>3. LoadConfig(files) = IF readable = {} THEN Default ELSE ParseConfig(files[Min(readable)])
  BY DEF LoadConfig
<1>4. LoadConfig(files) = ParseConfig(LinesOf(files))
  <2>1. CASE readable = {}
    <3>1. LinesOf(files) = <<>>
      BY <1>1, <2>1 DEF LinesOf
    <3>2. ParseConfig(<<>>) = Default
      <4>1. <<>> \in Seq(Lines) /\ Len(<<>>) = 0
        OBVIOUS
      <4> QED
        BY <4>1, ParsedInOrder DEF Stages
    <3> QED
      BY <1>3, <2>1, <3>1, <3>2
  <2>2. CASE readable # {}
    <3>1. readable \in SUBSET Nat
      BY <1>1
    <3>2. \A i : i \in readable <=> i \in {1, 2} /\ files[i] # Bad
      BY <1>1
    <3> HIDE DEF readable
    <3>3. Min(readable) \in readable /\ \A i \in readable : Min(readable) <= i
      BY <2>2, <3>1, LeastNatural
    <3>4. Min(readable) = IF files[1] # Bad THEN 1 ELSE 2
      BY <3>2, <3>3
    <3>5. files[Min(readable)] = LinesOf(files)
      BY <2>2, <3>2, <3>4 DEF LinesOf
    <3> QED
      BY <1>3, <2>2, <3>5
  <2> QED
    BY <2>1, <2>2
<1> QED
  BY <1>2, <1>4, ParseConfigDecided

\* An answer is made of the configuration.
LEMMA AnsweredConfig ==
  ASSUME Determined, Answered
  PROVE  /\ input.files \in Files /\ output.config = LoadConfig(input.files)
         /\ output.all = ReadAll(output.config, input.patterns)
         /\ output.each = [n \in Namespaces |-> [k \in AskedKeys |-> Read(output.config, n, k)]]
<1>1. output # Nothing
  BY DEF Answered, Nothing
<1>2. input.type # "image"
  <2> SUFFICES ASSUME input.type = "image"
               PROVE  FALSE
    OBVIOUS
  <2>1. output = Outcome(input.image) /\ input.image \in Images
    BY <1>1 DEF Determined
  <2>2. output = Geometry(input.image) /\ Geometry(input.image).type = "error"
    BY <2>1 DEF Outcome, Answered
  <2> QED
    BY <2>2 DEF Answered
<1>3. output = Reply(input.files, input.patterns) /\ input.files \in Files
  BY <1>1, <1>2 DEF Determined
<1> QED
  BY <1>3 DEF Reply

-----------------------------------------------------------------------------
(* Of the settings *)

\* The lines of a key that decide: of numbers the last, of colours the last good one;
\* whatever the file says, a colour that is set is in the range of the interface
\* (parse_config).
THEOREM LastLineAlwaysDecides == Spec => []LastLineDecides
<1>1. Determined => LastLineDecides
  <2> SUFFICES ASSUME Determined, Answered
               PROVE  LastLineDecides
    BY DEF LastLineDecides
  <2> DEFINE lines == LinesOf(input.files)
             n == Len(lines)
             config == output.config
  <2>1. input.files \in Files /\ config = LoadConfig(input.files)
    BY AnsweredConfig
  <2>2. lines \in Seq(Lines) /\ config = [k \in Keys |-> Decided(lines, n, k)]
    BY <2>1, LoadConfigDecided
  <2>3. DOMAIN lines = 1 .. n
    BY <2>2
  <2>4. /\ Keys = Numbers \cup {"accent-color"} /\ "accent-color" \notin Numbers
        /\ Default["accent-color"] = Unset
    BY DEF Keys, Numbers, Default
  <2> DEFINE Of(k) == {i \in DOMAIN lines :
                         lines[i].key = k
                         /\ (k = "accent-color" => Accent(lines[i].value) # Unset)}
             Decides(k) == lines[Max(Of(k))].value
  <2>5. \A k : Of(k) = About(lines, n, k)
    BY <2>3 DEF About, Counts
  <2>6. \A k \in Keys :
          config[k] = IF Of(k) = {} \/ (k \in Numbers /\ Decides(k) = Bad) THEN Default[k]
                      ELSE IF k = "accent-color" THEN Accent(Decides(k)) ELSE Decides(k)
    <3> SUFFICES ASSUME NEW k \in Keys
                 PROVE  config[k] = IF Of(k) = {} \/ (k \in Numbers /\ Decides(k) = Bad)
                                      THEN Default[k]
                                    ELSE IF k = "accent-color" THEN Accent(Decides(k))
                                    ELSE Decides(k)
      OBVIOUS
    <3>1. Of(k) = About(lines, n, k)
      BY <2>5
    <3>2. config[k] = Decided(lines, n, k)
      BY <2>2
    <3> HIDE DEF Of, lines, n, config
    <3> QED
      BY <3>1, <3>2 DEF Decided, Says
  <2>7. config["accent-color"] \in {Unset} \cup [1 .. 3 -> 0 .. One]
    BY <2>4, <2>6, AccentInRange
  <2> QED
    BY <2>6, <2>7 DEF LastLineDecides, LinesOf
<1> QED
  BY <1>1, OutputIsDetermined, PTL

\* Read and ReadAll, which have each their own table, give the same values and know
\* the same keys (read, build_appearance_map).
THEOREM ReadsAlwaysAgree == Spec => []ReadsAgree
<1>1. Determined => ReadsAgree
  <2> SUFFICES ASSUME Determined, Answered, NEW name \in DOMAIN output.all, NEW key \in AskedKeys
               PROVE  output.each[name][key] =
                        IF key \in DOMAIN output.all[name] THEN <<output.all[name][key]>> ELSE <<>>
    BY DEF ReadsAgree
  <2> DEFINE config == output.config
  <2>1. input.files \in Files /\ config = LoadConfig(input.files)
    BY AnsweredConfig
  <2>2. DOMAIN config = Keys /\ config = [k \in Keys |-> config[k]]
    BY <2>1, LoadConfigDecided
  <2>3. name = Appearance /\ output.all[name] = AppearanceMap(config)
    BY AnsweredConfig DEF ReadAll
  <2>4. output.each[name][key] = Read(config, name, key)
    BY <2>3, AnsweredConfig DEF Namespaces
  <2> HIDE DEF config
  <2>5. "accent-color" \in Keys
    BY DEF Keys
  <2>6. AppearanceMap(config) =
          [k \in Keys |-> IF k = "accent-color" /\ config[k] = Unset THEN Fallback ELSE config[k]]
    BY <2>2, <2>5 DEF AppearanceMap
  <2> QED
    BY <2>3, <2>4, <2>6 DEF Read
<1> QED
  BY <1>1, OutputIsDetermined, PTL
================================================================================
