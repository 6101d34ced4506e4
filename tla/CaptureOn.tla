------------------------------- MODULE CaptureOn -------------------------------
(***************************************************************************)
(* capture_on after the refresh: one backend is selected by what the       *)
(* compositor advertises, and performs the whole capture.  The three       *)
(* backends are composed over their common variables; the variables of a   *)
(* backend that is not selected are Unused.                                *)
(***************************************************************************)
EXTENDS Naturals, Sequences

CONSTANTS
  AdvertisedSets,   \* which capture protocols a compositor may advertise together
  MaxChanges, None,                                        \* of all backends
  SourcePreference, Supported, Unsupported, Sizes, MaxAttempts,   \* of weston
  Modes,                                                   \* of agl
  Usable, UnknownFormat, TooLarge                          \* of wlr

VARIABLES
  caps,      \* capture protocols the connection has seen
  backend,   \* the selected one
  pc, result, requests, events, destroyed, pools, changes, image,
  status,    \* of weston and agl
  geometry,  \* of weston and wlr
  candidate, attempt, format, size, sync_done, outbox, queue, info, sources, task,
  sequence, formatFrom, sizeFrom,           \* of weston
  known, next, output, logical, screenshooter, shot,   \* of agl
  state, frame, screen, refused             \* of wlr

selection == <<caps, backend>>
common == <<pc, result, requests, events, destroyed, pools, changes, image>>
westonOnly == <<candidate, attempt, format, size, sync_done, outbox, queue, info, sources, task,
                sequence, formatFrom, sizeFrom>>
aglOnly == <<known, next, output, logical, screenshooter, shot>>
wlrOnly == <<state, frame, screen, refused>>
vars == <<selection, common, status, geometry, westonOnly, aglOnly, wlrOnly>>

Weston == INSTANCE WestonCapture
Agl == INSTANCE AglScreenshot
Wlr == INSTANCE WlrScreencopy

Backends == {"weston", "agl", "wlr"}
Unused == "unused"

ASSUME CaptureOnAssumption ==
  /\ AdvertisedSets \subseteq (SUBSET Backends) \ {{}}
  /\ Weston!WestonConstants /\ Agl!AglConstants /\ Wlr!WlrConstants

\* selected_capture_backend, when there is one to select.
Selected(c) ==
  IF "weston" \in c THEN "weston" ELSE IF "agl" \in c THEN "agl" ELSE "wlr"

WestonUnused ==
  /\ candidate = Unused /\ attempt = Unused /\ format = Unused /\ size = Unused
  /\ sync_done = Unused /\ outbox = Unused /\ queue = Unused /\ info = Unused
  /\ sources = Unused /\ task = Unused /\ sequence = Unused
  /\ formatFrom = Unused /\ sizeFrom = Unused
AglUnused ==
  /\ known = Unused /\ next = Unused /\ output = Unused /\ logical = Unused
  /\ screenshooter = Unused /\ shot = Unused
WlrUnused == state = Unused /\ frame = Unused /\ screen = Unused /\ refused = Unused

Init ==
  /\ caps \in AdvertisedSets /\ backend = Selected(caps)
  /\ \/ backend = "weston" /\ Weston!Init /\ AglUnused /\ WlrUnused
     \/ backend = "agl" /\ Agl!Init /\ geometry = Unused /\ WestonUnused /\ WlrUnused
     \/ backend = "wlr" /\ Wlr!Init /\ status = Unused /\ WestonUnused /\ AglUnused

InWeston == backend = "weston" /\ UNCHANGED <<selection, aglOnly, wlrOnly>>
InAgl == backend = "agl" /\ UNCHANGED <<selection, geometry, westonOnly, wlrOnly>>
InWlr == backend = "wlr" /\ UNCHANGED <<selection, status, westonOnly, aglOnly>>

\* The capturing thread; the compositor at the requests; everybody else.
Thread == \/ InWeston /\ Weston!Thread
          \/ InAgl /\ Agl!Thread
          \/ InWlr /\ Wlr!Thread
Serve == \/ InWeston /\ Weston!Serve
         \/ InAgl /\ Agl!Serve
         \/ InWlr /\ Wlr!Serve
FlushByOther == InWeston /\ Weston!FlushByOther

Next == \/ InWeston /\ Weston!Next
        \/ InAgl /\ Agl!Next
        \/ InWlr /\ Wlr!Next

Spec == Init /\ [][Next]_vars

\* The thread runs, and its deadline ends every wait (so Thread as a whole is
\* weakly fair); the compositor handles what it receives; and the connection
\* stays in use, so that what a capture leaves in the outbox is flushed.
FairSpec == Spec /\ WF_vars(Thread) /\ WF_vars(Serve) /\ WF_vars(FlushByOther)

-----------------------------------------------------------------------------
(* Of the selected backend *)

Of(weston, agl, wlr) ==
  CASE backend = "weston" -> weston [] backend = "agl" -> agl [] backend = "wlr" -> wlr

TypeOK ==
  /\ caps \in AdvertisedSets /\ backend \in caps
  /\ Of(Weston!TypeOK, Agl!TypeOK, Wlr!TypeOK)

\* What the capture says of the image is what the compositor drew, whatever the
\* source announced, the output changed to, or the compositor's convention for
\* rotated outputs is (no wrongly-shaped image is handed back, comment of agl.rs).
DeliveredAsDrawn ==
  Of(Weston!DeliveredAsDrawn, Agl!DeliveredAsDrawn, Wlr!DeliveredAsDrawn)

\* A capture fails for its geometry only if the output changed under it, or was
\* not what the refresh had seen, and for its frame only if the compositor failed
\* it: a retry limit, a second candidate and a terminal state that cannot end a
\* capture that would have succeeded.
FailureJustified ==
  Of(Weston!RetryLimitJustified, Agl!RejectionJustified, Wlr!FailureJustified)

\* What one candidate announced "would otherwise leave stale dimensions behind
\* [...] pairing one source's geometry with another's format" (negotiate_source):
\* the reset prevents it as long as the compositor changes nothing meanwhile.
OneSourceUnlessChanged == backend = "weston" => Weston!OneSourceUnlessChanged


\* The client never asks for a capture before the previous one has retired.
NoSequenceError == backend = "weston" => Weston!NoSequenceError

Loan == INSTANCE BufferLoan WITH
  Buffers <- 1 .. (IF MaxAttempts > 2 THEN MaxAttempts ELSE 2),
  NoBuffer <- 0,
  loan <- Of(Weston!Lent, Agl!Lent, Wlr!Lent),
  finished <- Of(Weston!Finished, Agl!Finished, Wlr!Finished),
  freed <- Of(Weston!Released, Agl!Released, Wlr!Released),
  delivered <- Of(Weston!Delivered, Agl!Delivered, Wlr!Delivered)

\* Every backend keeps the promise of BufferLoan on every path: memory the
\* compositor may be writing into is never released under it, also when the
\* deadline interrupts a capture, and only a finished buffer is delivered.
LendsSafely == Loan!Spec

\* Whatever way a capture ends, the compositor is left with no object of it
\* (comment of Guard: an early return cannot leak a protocol object).
NothingLeft ==
  pc = "done" ~> Of(Weston!NothingHeld, Agl!NothingHeld, Wlr!NothingHeld)

\* Did the selected backend report that the compositor would not let it capture?
Denied ==
  /\ result.type = "error"
  /\ result.error \in Of({"no source", "failed"}, {"failed"}, {"no buffer", "failed"})

\* "Capture tries weston_capture_v1 first, falls back to agl_screenshooter, then
\* to wlr-screencopy" (README): a capture is denied only when nothing is left to
\* fall back to.
FallsBack == Denied => caps = {backend}
================================================================================
