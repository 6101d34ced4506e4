----------------------------- MODULE AglScreenshot -----------------------------
(***************************************************************************)
(* One capture by the legacy agl_screenshooter backend.  The protocol has  *)
(* no geometry events: the size is taken from what the last refresh knew   *)
(* of the output, and if its transform swaps the axes both orientations    *)
(* are tried, on one screenshooter object and under one deadline.          *)
(*                                                                         *)
(* The compositor (external) is the protocol description: it answers each  *)
(* take_shot with one done event, and refuses a buffer of the wrong size.  *)
(* Whether a rotated output has its mode size or the transpose is its own  *)
(* convention.  Who flushes and who reads does not matter to this backend, *)
(* so a request is on its way as soon as it is issued.                     *)
(***************************************************************************)
EXTENDS Naturals, Sequences, SequencesExt

CONSTANTS
  Modes,       \* sizes of a mode, as <<width, height>>
  MaxChanges   \* bound on the changes of mode or transform during the capture

AglConstants ==
  /\ Modes \subseteq (Nat \ {0}) \X (Nat \ {0})
  /\ MaxChanges \in Nat

VARIABLES
  \* the capturing thread
  pc,
  known,       \* the output as the last refresh saw it; <<0, 0>> before any mode event
  next,        \* index of the candidate to try, or being tried
  status,      \* AglState
  result,
  \* the connection
  requests, events,
  destroyed,   \* has the client destroyed its screenshooter proxy?
  \* the compositor
  output,      \* mode and transform of the output
  logical,     \* does it size a shot by the logical size, not by the mode?
  screenshooter, \* does the capture's screenshooter object exist?
  shot,        \* the buffer of the shot in progress, or 0
  pools,       \* per buffer, the size it was created with while it exists, or NoSize
  changes,     \* number of changes so far
  \* ghost
  image        \* per buffer, the size of the complete image it holds, or NoSize

clientVars == <<pc, known, next, status, result, destroyed>>
compositorVars == <<output, logical, screenshooter, shot, pools, changes, image>>
vars == <<pc, known, next, status, result, requests, events, destroyed,
          output, logical, screenshooter, shot, pools, changes, image>>

NoSize == <<0, 0>>
Buffers == 1 .. 2   \* the buffer of each candidate
Transpose(size) == <<size[2], size[1]>>
ShotSizes == Modes \cup {Transpose(m) : m \in Modes}
Outputs == [mode : Modes, swaps : BOOLEAN]

\* start   in capture(), before the first candidate
\* shoot   at the head of the loop over the candidates
\* await   in dispatch_until, waits for the done event
\* done    capture() has returned
Phases == {"start", "shoot", "await", "done"}

DoneStatuses == {"success", "no_memory", "bad_buffer"}

NoResult == [type |-> "none"]
Error(e) == [type |-> "error", error |-> e]
Errors == {"unknown dimensions", "no memory", "timeout", "rejected", "failed"}

\* Mutant: a rotated output is captured at its logical size only.
CandidatesLogical ==
  IF known.swaps THEN <<Transpose(known.mode)>> ELSE <<known.mode>>

\* The sizes to try, in their order.
Candidates ==
  IF known.swaps THEN <<known.mode, Transpose(known.mode)>> ELSE <<known.mode>>

TypeOK ==
  /\ pc \in Phases
  /\ known \in [mode : Modes \cup {NoSize}, swaps : BOOLEAN]
  /\ next \in Buffers
  /\ pc \in {"shoot", "await"} => next \in DOMAIN Candidates
  /\ status \in DoneStatuses \cup {"pending"}
  /\ result \in {NoResult} \cup {Error(e) : e \in Errors}
                  \cup [type : {"buffer"}, buffer : Buffers, size : ShotSizes]
  /\ destroyed \in BOOLEAN
  /\ output \in Outputs
  /\ {logical, screenshooter} \subseteq BOOLEAN
  /\ shot \in Buffers \cup {0}
  /\ pools \in [Buffers -> ShotSizes \cup {NoSize}]
  /\ changes \in 0 .. MaxChanges
  /\ image \in [Buffers -> ShotSizes \cup {NoSize}]

\* What the refresh knows of the output may be nothing, a part, or out of date:
\* the callback of an earlier refresh may have ended it (see OutputRegistry).
Init ==
  /\ output \in Outputs /\ logical \in BOOLEAN
  /\ known \in [mode : Modes \cup {NoSize}, swaps : BOOLEAN]
  /\ pc = "start" /\ next = 1 /\ status = "pending" /\ result = NoResult
  /\ requests = <<>> /\ events = <<>> /\ destroyed = FALSE
  /\ screenshooter = FALSE /\ shot = 0 /\ changes = 0
  /\ pools = [b \in Buffers |-> NoSize]
  /\ image = [b \in Buffers |-> NoSize]

-----------------------------------------------------------------------------
(* The thread *)

Issue(reqs) == requests' = requests \o reqs

DestroyBuffer == [type |-> "destroy buffer", buffer |-> next]
DestroyScreenshooter == [type |-> "destroy screenshooter"]

\* capture() returns res; the guards issue these requests.
Return(res, reqs) ==
  /\ pc' = "done"
  /\ result' = res
  /\ destroyed' = TRUE
  /\ Issue(reqs)

\* The screenshooter is bound, unless the output's size is not known.
Start ==
  /\ pc = "start"
  /\ IF known.mode = NoSize
       THEN pc' = "done" /\ result' = Error("unknown dimensions") /\ UNCHANGED requests
       ELSE pc' = "shoot" /\ Issue(<<[type |-> "bind"]>>) /\ UNCHANGED result
  /\ UNCHANGED <<known, next, status, events, destroyed, compositorVars>>

\* Mutant: nothing guards the screenshooter when take_shot returns early.
AllocationFailedLeaking ==
  /\ pc = "shoot"
  /\ Return(Error("no memory"), <<>>)
  /\ UNCHANGED <<known, next, status, events, compositorVars>>

\* take_shot cannot size or allocate the buffer; nothing of it exists yet.
AllocationFailed ==
  /\ pc = "shoot"
  /\ Return(Error("no memory"), <<DestroyScreenshooter>>)
  /\ UNCHANGED <<known, next, status, events, compositorVars>>

\* Mutant: the status of the previous candidate is still there.
TakeShotStaleStatus ==
  /\ pc = "shoot"
  /\ pc' = "await"
  /\ Issue(<<[type |-> "create buffer", buffer |-> next, size |-> Candidates[next]],
             [type |-> "take shot", buffer |-> next]>>)
  /\ UNCHANGED <<known, next, status, result, events, destroyed, compositorVars>>

\* take_shot lends a buffer of the candidate's size.
TakeShot ==
  /\ pc = "shoot"
  /\ pc' = "await"
  /\ status' = "pending"
  /\ Issue(<<[type |-> "create buffer", buffer |-> next, size |-> Candidates[next]],
             [type |-> "take shot", buffer |-> next]>>)
  /\ UNCHANGED <<known, next, result, events, destroyed, compositorVars>>

\* The handler of the queue: done, unless its object is destroyed by now.
Handle ==
  /\ pc = "await"
  /\ events # <<>>
  /\ status' = Head(events)
  /\ events' = Tail(events)
  /\ UNCHANGED <<pc, known, next, result, requests, destroyed, compositorVars>>

\* Mutant: the buffer is described by the output's mode.
CapturedAsMode == [type |-> "buffer", buffer |-> next, size |-> known.mode]

\* The buffer with the size it was created with.
Captured == [type |-> "buffer", buffer |-> next, size |-> Candidates[next]]

\* Mutant: i < len instead of i + 1 < len.
HasNextOffByOne == next <= Len(Candidates)

HasNext == next < Len(Candidates)

\* dispatch_until is satisfied.  The guards of take_shot go first; the
\* screenshooter's only when capture() returns, too.
Outcome ==
  /\ pc = "await"
  /\ status # "pending"
  /\ \/ status = "success" /\ Return(Captured, <<DestroyBuffer, DestroyScreenshooter>>)
        /\ UNCHANGED next
     \/ status = "no_memory" /\ Return(Error("failed"), <<DestroyBuffer, DestroyScreenshooter>>)
        /\ UNCHANGED next
     \/ /\ status = "bad_buffer" /\ HasNext
        /\ Issue(<<DestroyBuffer>>)
        /\ next' = next + 1
        /\ pc' = "shoot"
        /\ UNCHANGED <<result, destroyed>>
     \/ /\ status = "bad_buffer" /\ ~HasNext
        /\ Return(Error("rejected"), <<DestroyBuffer, DestroyScreenshooter>>)
        /\ UNCHANGED next
  /\ UNCHANGED <<known, status, events, compositorVars>>

\* Mutant: without destroy_now the guards run from the inside out.
TimeoutBufferFirst ==
  /\ pc = "await"
  /\ status = "pending"
  /\ Return(Error("timeout"), <<DestroyBuffer, DestroyScreenshooter>>)
  /\ UNCHANGED <<known, next, status, events, compositorVars>>

\* The deadline passes, or the socket fails: the screenshooter is destroyed
\* first, which abandons the shot.
Timeout ==
  /\ pc = "await"
  /\ status = "pending"
  /\ Return(Error("timeout"), <<DestroyScreenshooter, DestroyBuffer>>)
  /\ UNCHANGED <<known, next, status, events, compositorVars>>

-----------------------------------------------------------------------------
(* The compositor (external) *)

\* The size it wants for a shot of the output.
Wanted == IF logical /\ output.swaps THEN Transpose(output.mode) ELSE output.mode

\* It handles the next request.
Serve ==
  /\ requests # <<>>
  /\ requests' = Tail(requests)
  /\ LET r == Head(requests) IN
       \/ r.type = "bind" /\ screenshooter' = TRUE /\ UNCHANGED <<shot, pools>>
       \/ /\ r.type = "create buffer"
          /\ pools' = [pools EXCEPT ![r.buffer] = r.size]
          /\ UNCHANGED <<screenshooter, shot>>
       \/ r.type = "take shot" /\ shot' = r.buffer /\ UNCHANGED <<screenshooter, pools>>
       \/ /\ r.type = "destroy screenshooter"
          /\ screenshooter' = FALSE /\ shot' = 0
          /\ UNCHANGED pools
       \/ /\ r.type = "destroy buffer"
          /\ pools' = [pools EXCEPT ![r.buffer] = NoSize]
          /\ UNCHANGED <<screenshooter, shot>>
  /\ UNCHANGED <<clientVars, events, output, logical, changes, image>>

\* The done event of the shot in progress; a destroyed proxy does not get it.
Done(s) ==
  /\ shot # 0
  /\ shot' = 0
  /\ events' = IF destroyed THEN events ELSE Append(events, s)
  /\ UNCHANGED <<clientVars, requests, output, logical, screenshooter, pools, changes>>

Succeed ==
  /\ pools[shot] = Wanted
  /\ Done("success")
  /\ image' = [image EXCEPT ![shot] = pools[shot]]

Refuse == pools[shot] # Wanted /\ Done("bad_buffer") /\ UNCHANGED image

OutOfMemory == Done("no_memory") /\ UNCHANGED image

\* The output is rotated or changes mode.
ChangeOutput(o) ==
  /\ changes < MaxChanges
  /\ o # output
  /\ output' = o
  /\ changes' = changes + 1
  /\ UNCHANGED <<clientVars, requests, events, logical, screenshooter, shot, pools, image>>

-----------------------------------------------------------------------------

Thread == Start \/ AllocationFailed \/ TakeShot \/ Handle \/ Outcome \/ Timeout

Compositor ==
  \/ Serve
  \/ shot # 0 /\ (Succeed \/ Refuse \/ OutOfMemory)
  \/ \E o \in Outputs : ChangeOutput(o)

Next == Thread \/ Compositor

Spec == Init /\ [][Next]_vars

-----------------------------------------------------------------------------
(* What the capture lends, for BufferLoan *)

\* On loan from the moment the shot is requested until the compositor is done
\* with it or the screenshooter is destroyed.
Lent ==
  LET lent == {q.buffer : q \in {r \in ToSet(requests) : r.type = "take shot"}}
                \cup (IF shot = 0 THEN {} ELSE {shot})
  IN IF lent = {} THEN 0 ELSE CHOOSE b \in lent : TRUE

Finished == {b \in Buffers : image[b] # NoSize}

\* Did take_shot get as far as creating the buffer of the current candidate?
Created ==
  pc \in {"await", "done"} /\ result \notin {Error("unknown dimensions"), Error("no memory")}

\* Buffers that were created and whose destruction the compositor has handled.
Released ==
  {b \in Buffers :
     /\ pools[b] = NoSize
     /\ b < next \/ (b = next /\ Created)
     /\ ~ \E q \in ToSet(requests) : q.type = "create buffer" /\ q.buffer = b}

Delivered == IF result.type = "buffer" THEN result.buffer ELSE 0

\* The capture's objects are gone from the compositor: the screenshooter with
\* its shot, and the buffers with their pools.
NothingHeld == ~screenshooter /\ shot = 0 /\ \A b \in Buffers : pools[b] = NoSize

-----------------------------------------------------------------------------
(* Safety *)

\* The image is described with the size the compositor drew, whatever its
\* convention for rotated outputs and whatever changed since the refresh: no
\* wrongly-shaped image is handed back (comment of the module).
DeliveredAsDrawn == result.type = "buffer" => result.size = image[result.buffer]

\* "Whichever convention the compositor holds to, one of the two is accepted"
\* (comment of the module): a capture fails for its geometry only if the output
\* changed since the refresh, or the refresh did not see it as it was.
RejectionJustified == result = Error("rejected") => changes > 0 \/ known # output
================================================================================
