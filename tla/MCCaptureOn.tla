------------------------------ MODULE MCCaptureOn ------------------------------
(* Instances of CaptureOn for TLC. *)
EXTENDS CaptureOn

\* A compositor of each kind, and one that speaks the legacy protocol, too.
Each == {{"weston", "agl"}, {"agl", "wlr"}, {"wlr"}}
WestonAndAgl == {{"weston", "agl"}}

\* SOURCE_PREFERENCE.
Preference == <<"writeback", "framebuffer">>
\* XDP_AGL_CAPTURE_SOURCE forces one source.
Forced == <<"framebuffer">>

Xrgb == {"xr24"}
NoFormats == {}

\* Two modes, one of them the other's transpose, and a square one.
ThreeModes == {<<1, 2>>, <<2, 1>>, <<2, 2>>}
================================================================================
