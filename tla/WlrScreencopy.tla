----------------------------- MODULE WlrScreencopy -----------------------------
(***************************************************************************)
(* One capture by the wlr-screencopy backend: ask for a frame, wait until  *)
(* the compositor describes the buffer it wants, lend it one, wait until   *)
(* the frame is ready or failed.                                           *)
(*                                                                         *)
(* The compositor (external) is the protocol description: a frame is       *)
(* described once or fails, is copied at a repaint, and fails if the       *)
(* output has changed or gone by then.  Destroying it cancels the copy.    *)
(***************************************************************************)
EXTENDS Naturals, Sequences, SequencesExt

CONSTANTS
  Usable,         \* geometries a buffer can be allocated for
  UnknownFormat,  \* those in a format without a wl_shm equivalent
  TooLarge,       \* those whose stride * height exceeds i32::MAX
  MaxChanges,     \* bound on the output's changes
  None

WlrConstants ==
  /\ Usable \cap UnknownFormat = {} /\ TooLarge \cap (Usable \cup UnknownFormat) = {}
  /\ None \notin Usable \cup UnknownFormat \cup TooLarge
  /\ MaxChanges \in Nat

VARIABLES
  \* the capturing thread
  pc,
  state,      \* CaptureState, with the geometry it holds
  geometry,   \* the local: what the buffer was created with, or None
  destroyed,  \* has the client destroyed its frame proxy?
  result,
  \* the connection
  requests, events,
  \* the compositor
  screen,     \* what the output is captured as
  frame,      \* its frame object
  pools,      \* per buffer, what it was created with while it exists, or None
  changes,
  \* ghosts
  refused,    \* has it failed the frame?
  image       \* per buffer, the geometry of the complete image it holds, or None

clientVars == <<pc, state, geometry, destroyed, result>>
compositorVars == <<screen, frame, pools, changes, refused, image>>
vars == <<pc, state, geometry, destroyed, result, requests, events,
          screen, frame, pools, changes, refused, image>>

Geometries == Usable \cup UnknownFormat \cup TooLarge
Buffers == {1}

\* start  in capture(), before capture_output
\* offer  in dispatch_until, waits for the buffer event
\* copy   in dispatch_until, waits for ready or failed
Phases == {"start", "offer", "copy", "done"}

\* A frame is live until it is over (ready or failed); `geometry` is what it
\* was described with.
NoFrame == [type |-> "none"]
Frames == {NoFrame} \cup [type : {"described", "copying", "over"}, geometry : Geometries]

Pending == [type |-> "pending"]
Failed == [type |-> "failed"]
CaptureState ==
  {Pending, Failed} \cup [type : {"allocated", "ready"}, geometry : Geometries]

NoResult == [type |-> "none"]
Error(e) == [type |-> "error", error |-> e]
Errors == {"no buffer", "unsupported format", "overflow", "no memory", "failed", "timeout"}

TypeOK ==
  /\ pc \in Phases
  /\ state \in CaptureState
  /\ geometry \in Usable \cup {None}
  /\ destroyed \in BOOLEAN
  /\ result \in {NoResult} \cup {Error(e) : e \in Errors}
                  \cup [type : {"buffer"}, buffer : Buffers, geometry : Geometries]
  /\ screen \in Geometries
  /\ frame \in Frames
  /\ pools \in [Buffers -> Usable \cup {None}]
  /\ changes \in 0 .. MaxChanges
  /\ refused \in BOOLEAN
  /\ image \in [Buffers -> Usable \cup {None}]

Init ==
  /\ pc = "start" /\ state = Pending /\ geometry = None /\ destroyed = FALSE
  /\ result = NoResult
  /\ requests = <<>> /\ events = <<>>
  /\ screen \in Geometries /\ frame = NoFrame /\ changes = 0
  /\ pools = [b \in Buffers |-> None]
  /\ refused = FALSE
  /\ image = [b \in Buffers |-> None]

-----------------------------------------------------------------------------
(* The thread *)

Issue(reqs) == requests' = requests \o reqs

DestroyFrame == [type |-> "destroy frame"]
DestroyBuffer == [type |-> "destroy buffer", buffer |-> 1]

Return(res, reqs) ==
  /\ pc' = "done"
  /\ result' = res
  /\ destroyed' = TRUE
  /\ Issue(reqs)

Start ==
  /\ pc = "start"
  /\ pc' = "offer"
  /\ Issue(<<[type |-> "capture output"]>>)
  /\ UNCHANGED <<state, geometry, destroyed, result, events, compositorVars>>

\* The frame's handler.  Ready takes the geometry of the state it finds, and
\* is a failure in any other state.
Handle ==
  /\ pc \in {"offer", "copy"}
  /\ events # <<>>
  /\ events' = Tail(events)
  /\ state' = CASE Head(events).type = "buffer" ->
                     [type |-> "allocated", geometry |-> Head(events).geometry]
                [] Head(events).type = "ready" /\ state.type = "allocated" ->
                     [type |-> "ready", geometry |-> state.geometry]
                [] OTHER -> Failed
  /\ UNCHANGED <<pc, geometry, destroyed, result, requests, compositorVars>>

\* The frame is described: the checks in their order, then the buffer is lent.
Lend ==
  /\ pc = "offer"
  /\ state.type = "allocated"
  /\ LET g == state.geometry IN
       \/ /\ g \in UnknownFormat
          /\ Return(Error("unsupported format"), <<DestroyFrame>>) /\ UNCHANGED geometry
       \/ g \in TooLarge /\ Return(Error("overflow"), <<DestroyFrame>>) /\ UNCHANGED geometry
       \/ g \in Usable /\ Return(Error("no memory"), <<DestroyFrame>>) /\ UNCHANGED geometry
       \/ /\ g \in Usable
          /\ geometry' = g
          /\ Issue(<<[type |-> "create buffer", buffer |-> 1, geometry |-> g],
                     [type |-> "copy", buffer |-> 1]>>)
          /\ pc' = "copy"
          /\ UNCHANGED <<destroyed, result>>
  /\ UNCHANGED <<state, events, compositorVars>>

\* The frame failed before it was described, or together with it.
NoBuffer ==
  /\ pc = "offer"
  /\ state.type \notin {"pending", "allocated"}
  /\ Return(Error("no buffer"), <<DestroyFrame>>)
  /\ UNCHANGED <<state, geometry, events, compositorVars>>

\* Mutant: the second wait has the predicate of the first, "no longer pending".
IsTerminalAnyNews(s) == s.type # "pending"

IsTerminal(s) == s.type \in {"ready", "failed"}

\* take_buffer: the pixels are in the mapping, described as the state says.
TakeBuffer(s) ==
  IF s.type = "ready" THEN [type |-> "buffer", buffer |-> 1, geometry |-> s.geometry]
  ELSE Error("failed")

\* Mutant: the guards go in the order of their scopes, the buffer's first.
TeardownBufferFirst(res) == Return(res, <<DestroyBuffer, DestroyFrame>>)

\* What every way out of the second wait does, in this order.
Teardown(res) == Return(res, <<DestroyFrame, DestroyBuffer>>)

Outcome ==
  /\ pc = "copy"
  /\ IsTerminal(state)
  /\ state' = Pending
  /\ Teardown(TakeBuffer(state))
  /\ UNCHANGED <<geometry, events, compositorVars>>

\* The deadline passes, or the socket fails, in either wait.
Timeout ==
  /\ \/ pc = "offer" /\ state = Pending /\ Return(Error("timeout"), <<DestroyFrame>>)
     \/ pc = "copy" /\ ~IsTerminal(state) /\ Teardown(Error("timeout"))
  /\ UNCHANGED <<state, geometry, events, compositorVars>>

-----------------------------------------------------------------------------
(* The compositor (external) *)

\* A destroyed proxy does not get its events.
Send(e) == events' = IF destroyed THEN events ELSE Append(events, e)

\* It describes a new frame, or fails it because the output is gone.
Describe ==
  \/ /\ frame' = [type |-> "described", geometry |-> screen]
     /\ Send([type |-> "buffer", geometry |-> screen])
     /\ UNCHANGED refused
  \/ /\ frame' = [type |-> "over", geometry |-> screen]
     /\ Send([type |-> "failed"])
     /\ refused' = TRUE

\* It handles the next request; a frame that is over ignores the copy.
Serve ==
  /\ requests # <<>>
  /\ requests' = Tail(requests)
  /\ LET r == Head(requests) IN
       \/ r.type = "capture output" /\ Describe /\ UNCHANGED pools
       \/ /\ r.type = "create buffer"
          /\ pools' = [pools EXCEPT ![r.buffer] = r.geometry]
          /\ UNCHANGED <<frame, events, refused>>
       \/ /\ r.type = "copy"
          /\ frame' = IF frame.type = "described" THEN [frame EXCEPT !.type = "copying"] ELSE frame
          /\ UNCHANGED <<pools, events, refused>>
       \/ r.type = "destroy frame" /\ frame' = NoFrame /\ UNCHANGED <<pools, events, refused>>
       \/ /\ r.type = "destroy buffer"
          /\ pools' = [pools EXCEPT ![r.buffer] = None]
          /\ UNCHANGED <<frame, events, refused>>
  /\ UNCHANGED <<clientVars, screen, changes, image>>

\* A repaint copies the output into the buffer, if it still is as described.
Repaint ==
  /\ frame.type = "copying" /\ frame.geometry = screen
  /\ frame' = [frame EXCEPT !.type = "over"]
  /\ Send([type |-> "ready"])
  /\ image' = [image EXCEPT ![1] = pools[1]]
  /\ UNCHANGED <<clientVars, requests, screen, pools, changes, refused>>

\* The output is disabled, or has changed under the frame.
FailFrame ==
  /\ frame.type \in {"described", "copying"}
  /\ frame' = [frame EXCEPT !.type = "over"]
  /\ Send([type |-> "failed"])
  /\ refused' = TRUE
  /\ UNCHANGED <<clientVars, requests, screen, pools, changes, image>>

ChangeScreen(g) ==
  /\ changes < MaxChanges
  /\ g # screen
  /\ screen' = g
  /\ changes' = changes + 1
  /\ UNCHANGED <<clientVars, requests, events, frame, pools, refused, image>>

-----------------------------------------------------------------------------

Thread == Start \/ Handle \/ Lend \/ NoBuffer \/ Outcome \/ Timeout

Compositor == Serve \/ Repaint \/ FailFrame \/ \E g \in Geometries : ChangeScreen(g)

Next == Thread \/ Compositor

Spec == Init /\ [][Next]_vars

-----------------------------------------------------------------------------
(* What the capture lends, for BufferLoan *)

\* From the copy request until the frame is over or destroyed.
Lent ==
  IF frame.type = "copying" \/ \E q \in ToSet(requests) : q.type = "copy" THEN 1 ELSE 0

Finished == {b \in Buffers : image[b] # None}

\* Buffers that were created and whose destruction the compositor has handled.
Released ==
  {b \in Buffers :
     /\ geometry # None /\ pools[b] = None
     /\ ~ \E q \in ToSet(requests) : q.type = "create buffer"}

Delivered == IF result.type = "buffer" THEN result.buffer ELSE 0

\* The capture's objects are gone from the compositor.
NothingHeld == frame = NoFrame /\ \A b \in Buffers : pools[b] = None

-----------------------------------------------------------------------------
(* Safety *)

\* The image is described as the compositor drew it.
DeliveredAsDrawn == result.type = "buffer" => result.geometry = image[result.buffer]

\* The capture fails only if the compositor failed the frame: it waits for the
\* terminal state, not for any news of the frame (comment in capture).
FailureJustified == result \in {Error("no buffer"), Error("failed")} => refused
================================================================================
