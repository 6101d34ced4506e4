------------------------------ MODULE PortalData ------------------------------
(***************************************************************************)
(* What the portal computes without waiting for anybody, one input at a    *)
(* time: the buffer of a capture and the decoding of its contents, and the *)
(* settings with the answers made of them.                                 *)
(***************************************************************************)
EXTENDS PixelBuffer, Settings

CONSTANTS
  Images,   \* captures: backend, width, height, stride and code of the format
  Files,    \* sequences of candidate files, each a sequence of lines or Bad
  Patterns  \* sets of namespace patterns a client may ask for

\* What an output's mode tells is an i32, what wlroots asks for is a u32.
ASSUME ImagesAssumption ==
  Images \subseteq
    [backend : {"weston", "agl"}, width : -MaxI32 - 1 .. MaxI32, height : -MaxI32 - 1 .. MaxI32,
     stride : {0}, code : STRING]
    \cup [backend : {"wlr"}, width : 0 .. Word - 1, height : 0 .. Word - 1,
          stride : 0 .. Word - 1, code : STRING]

\* The configuration of the user and that of the system.
ASSUME FilesAssumption == Files \subseteq [1 .. 2 -> {Bad} \cup Seq(Lines)]

VARIABLES input, output

vars == <<input, output>>

Nothing == [type |-> "nothing"]

Init ==
  /\ input \in [type : {"image"}, image : Images]
        \cup [type : {"settings"}, files : Files, patterns : Patterns]
  /\ output = Nothing

\* What the compositor draws: every byte tells where it is.
Drawn(size) == [i \in 1 .. size |-> (37 * i) % 256]

Geometry(i) ==
  CASE i.backend = "weston" -> WestonGeometry(i.width, i.height, FromDrmFourcc(i.code))
    [] i.backend = "agl" -> AglGeometry(i.width, i.height)
    [] i.backend = "wlr" -> WlrGeometry(i.width, i.height, i.stride, FromRaw(i.code))

\* A buffer with what was drawn into it.
Filled(g) ==
  [width |-> g.width, height |-> g.height, stride |-> g.stride, format |-> g.format,
   data |-> Drawn(g.size)]

\* A capture that succeeds is encoded (Screenshot) or sampled (PickColor).
Outcome(image) ==
  LET g == Geometry(image)
      b == Filled(g.value)
  IN IF g.type = "error" THEN g
     ELSE [type |-> "capture", buffer |-> b, png |-> EncodePng(b), color |-> CenterColor(b)]

Capture ==
  /\ input.type = "image" /\ output = Nothing
  /\ output' = Outcome(input.image)
  /\ UNCHANGED input

\* What Read is asked for: a namespace and a key that it knows, and others.
Namespaces == {Appearance, <<"org", ".", "example">>}
AskedKeys == Keys \cup {"icon-theme"}

\* The daemon has read its settings and is asked for them.
Reply(files, patterns) ==
  LET config == LoadConfig(files) IN
  [type |-> "answer", config |-> config, all |-> ReadAll(config, patterns),
   each |-> [n \in Namespaces |-> [k \in AskedKeys |-> Read(config, n, k)]]]

Answer ==
  /\ input.type = "settings" /\ output = Nothing
  /\ output' = Reply(input.files, input.patterns)
  /\ UNCHANGED input

Next == Capture \/ Answer

Spec == Init /\ [][Next]_vars

-----------------------------------------------------------------------------
(* Of a captured image *)

Captured == output.type = "capture"

\* PickColor and Screenshot agree: the sampled pixel is the centre of the image,
\* also when the rows are padded or fewer than the columns.
SampleIsCenter ==
  Captured /\ output.png.type = "ok" =>
    output.color = Ok(output.png.value[output.buffer.height \div 2][output.buffer.width \div 2])

\* A stride that has wrapped is never taken for an image, nor for a pixel of one:
\* what a backend that computes the stride shows is as wide as it says.
WrappedNeverShown ==
  Captured /\ input.image.backend # "wlr" /\ (output.png.type = "ok" \/ output.color.type = "ok") =>
    output.buffer.stride = output.buffer.width * BytesPerPixel(output.buffer.format)

\* The memory that was allocated holds every row, whatever the compositor asked
\* for: decoding fails only for rows narrower than the image.
RowsFit ==
  Captured =>
    /\ Error("buffer shorter than height") \notin {output.png, output.color}
    /\ output.png = Error("row shorter than width") =>
         output.buffer.stride < output.buffer.width * BytesPerPixel(output.buffer.format)

\* The buffer's wl_shm format is the format its pixels are decoded as.
FormatSurvives ==
  Captured => FromRaw(ToWlShmFormat(output.buffer.format)) = output.buffer.format

-----------------------------------------------------------------------------
(* Of the settings *)

Answered == output.type = "answer"

\* Read and ReadAll, which have each their own table, give the same values: for a
\* namespace in the answer of ReadAll, Read knows the same keys and no others.
ReadsAgree ==
  Answered => \A n \in DOMAIN output.all : \A k \in AskedKeys :
    output.each[n][k] =
      IF k \in DOMAIN output.all[n] THEN <<output.all[n][k]>> ELSE <<>>

\* The lines of a key that decide: of numbers the last, of colours the last good one;
\* whatever the file says, a colour that is set is in the range of the interface.
LastLineDecides ==
  Answered =>
    LET lines == IF input.files[1] # Bad THEN input.files[1]
                 ELSE IF input.files[2] # Bad THEN input.files[2] ELSE <<>>
        Of(k) == {i \in DOMAIN lines : lines[i].key = k
                                        /\ (k = "accent-color" => Accent(lines[i].value) # Unset)}
        Decides(k) == lines[Max(Of(k))].value
    IN /\ output.config["accent-color"] \in {Unset} \cup [1 .. 3 -> 0 .. One]
       /\ \A k \in Keys :
            output.config[k] =
              IF Of(k) = {} \/ (k \in Numbers /\ Decides(k) = Bad) THEN Default[k]
              ELSE IF k = "accent-color" THEN Accent(Decides(k)) ELSE Decides(k)
================================================================================
