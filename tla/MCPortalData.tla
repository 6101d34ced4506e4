----------------------------- MODULE MCPortalData -----------------------------
(* Instances of PortalData for TLC: integers of six bits instead of 32, all the *)
(* widths they have, some heights and strides; files of up to two lines.        *)
EXTENDS PortalData

Image(backend, width, height, stride, code) ==
  [backend |-> backend, width |-> width, height |-> height, stride |-> stride, code |-> code]

SmallImages ==
  {Image("weston", w, h, 0, c) : w \in -32 .. 31, h \in {-1, 0, 1, 2, 3, 31},
                                 c \in {"AR24", "XR24", "AB24", "XB24", "RG16", "YUYV"}}
  \cup {Image("agl", w, h, 0, "XR24") : w \in -32 .. 31, h \in {-1, 0, 1, 2, 3, 31}}
  \cup {Image("wlr", w, h, s, c) : w \in 0 .. 5, h \in 0 .. 3, s \in 0 .. 12,
                                   c \in {"0", "1", "AB24", "RG16", "NV12"}}

Line(key, value) == [key |-> key, value |-> value]

SmallLines ==
  {Noise, Line("color-scheme", 1), Line("color-scheme", Bad), Line("contrast", 1),
   Line("reduced-motion", 1), Line("font", 1)}
  \cup {Line("accent-color", v) :
          v \in {<<0, 1, 2>>, <<2, Bad, 1, 0>>, <<3, 0, 0>>, <<0, -1, 0>>, <<1, 1>>}}

Bodies == UNION {[1 .. n -> SmallLines] : n \in 0 .. 2}

SmallFiles ==
  {<<Bad, Bad>>} \cup {<<b, Bad>> : b \in Bodies} \cup {<<Bad, b>> : b \in Bodies}
  \cup {<<<<Line("contrast", 2)>>, b>> : b \in [1 .. 1 -> SmallLines]}

Glob(n) == SubSeq(Appearance, 1, n) \o <<".", "*">>

SmallPatterns ==
  {{}, {<<>>}, {Appearance}, {Glob(0)}, {Glob(1)}, {Glob(3)}, {Glob(5)}, {Glob(6)},
   {<<"org">>, Glob(2)}, {<<"com", ".", "*">>, Glob(3)}, {<<"org">>}}
================================================================================
