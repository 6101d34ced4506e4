----------------------------- MODULE WestonCapture -----------------------------
(***************************************************************************)
(* One capture by the weston_capture_v1 backend: negotiate a pixel source, *)
(* then lend the compositor a buffer of the announced format and size, up  *)
(* to MAX_ATTEMPTS times while it answers "retry", under one deadline.     *)
(*                                                                         *)
(* The connection is shared with other threads.  Requests are buffered     *)
(* until somebody flushes the socket; events are put on this capture's     *)
(* queue by whichever thread reads the socket, and handled only inside     *)
(* dispatch_until, which empties the queue before it looks at the state.   *)
(*                                                                         *)
(* The compositor (external) is the protocol description: it announces     *)
(* format and size of a source when the source is created and when they    *)
(* change, answers a capture with exactly one of complete, retry, failed,  *)
(* and cancels it when the source is destroyed.                            *)
(***************************************************************************)
EXTENDS Naturals, Sequences, SequencesExt

CONSTANTS
  SourcePreference, \* SOURCE_PREFERENCE, or the one source forced by the environment
  Supported,    \* formats with a wl_shm equivalent and a known pixel size
  Unsupported,  \* formats without
  Sizes,        \* sizes an output may be captured at; 0 is "unknown"
  MaxAttempts,  \* MAX_ATTEMPTS
  MaxChanges,   \* bound on the compositor's parameter changes
  None          \* no format, no buffer, no source, no capture

Sources == ToSet(SourcePreference)
Formats == Supported \cup Unsupported
Params == [format : Formats, size : Sizes]
\* What a source announces; it has neither half when it is not available, and
\* the code reckons with a source that has only one.
Offers == [format : Formats \cup {None}, size : Sizes \cup {0}]
Buffers == 1 .. MaxAttempts   \* the buffer of each attempt
Tasks == [source : Sources, buffer : Buffers]

WestonConstants ==
  /\ SourcePreference \in Seq(Sources) \ {<<>>}
  /\ \A i, j \in DOMAIN SourcePreference : SourcePreference[i] = SourcePreference[j] => i = j
  /\ Supported \cap Unsupported = {}
  /\ None \notin Formats \cup Sources /\ None \notin Params /\ None \notin Tasks
  /\ Sizes \subseteq Nat \ {0}
  /\ MaxAttempts \in Nat \ {0}
  /\ MaxChanges \in Nat

VARIABLES
  \* the capturing thread
  pc, candidate, attempt,
  format, size, status, sync_done,   \* WestonState
  geometry,    \* the locals of this attempt: format and size of the lent buffer
  destroyed,   \* sources whose proxy the client has destroyed
  result,
  \* the connection
  outbox,      \* requests not flushed yet
  requests,    \* requests on the socket
  events,      \* events on the socket
  queue,       \* events on this capture's queue
  \* the compositor
  info,        \* per source, the parameters it wants
  sources,     \* source objects that exist
  task,        \* the capture in progress: its source and buffer, or None
  pools,       \* per buffer, the parameters it was created with while it exists
  sequence,    \* has it raised the "sequence" protocol error?
  changes,     \* number of parameter changes so far
  \* ghosts
  formatFrom, sizeFrom,   \* the sources that announced `format` and `size`
  image        \* per buffer, the parameters of the complete image it holds

clientVars == <<pc, candidate, attempt, format, size, status, sync_done, geometry, destroyed,
                result, formatFrom, sizeFrom>>
compositorVars == <<info, sources, task, pools, sequence, changes, image>>
vars == <<pc, candidate, attempt, format, size, status, sync_done, geometry, destroyed, result,
          outbox, requests, events, queue,
          info, sources, task, pools, sequence, changes, formatFrom, sizeFrom, image>>

\* create     about to create the source of the current candidate
\* negotiate  in dispatch_until, waits for format and size, or for the sync
\* rejected   the candidate announced no format
\* attempt    top of the attempt loop
\* await      in dispatch_until, waits for the outcome of the capture
\* done       capture() has returned `result`
Phases == {"create", "negotiate", "rejected", "attempt", "await", "done"}

Statuses == {"pending", "complete", "retry", "failed"}

\* The errors capture() can return.
Errors == {"no source", "invalid size", "unsupported format", "no memory",
           "failed", "retry limit", "timeout"}

NoResult == [type |-> "none"]
Results == {NoResult} \cup [type : {"error"}, error : Errors]
             \cup [type : {"buffer"}, buffer : Buffers, params : Params]

TypeOK ==
  /\ pc \in Phases
  /\ candidate \in DOMAIN SourcePreference
  /\ attempt \in 0 .. MaxAttempts
  /\ format \in Formats \cup {None}
  /\ size \in Sizes \cup {0}
  /\ status \in Statuses
  /\ sync_done \in BOOLEAN
  /\ geometry \in Params \cup {None}
  /\ destroyed \subseteq Sources
  /\ result \in Results
  /\ info \in [Sources -> Offers]
  /\ sources \subseteq Sources
  /\ task \in Tasks \cup {None}
  /\ pools \in [Buffers -> Params \cup {None}]
  /\ sequence \in BOOLEAN
  /\ changes \in 0 .. MaxChanges
  /\ {formatFrom, sizeFrom} \subseteq Sources \cup {None}
  /\ image \in [Buffers -> Params \cup {None}]

Init ==
  /\ pc = "create" /\ candidate = 1 /\ attempt = 0
  /\ format = None /\ size = 0 /\ status = "pending" /\ sync_done = FALSE
  /\ geometry = None /\ destroyed = {} /\ result = NoResult
  /\ outbox = <<>> /\ requests = <<>> /\ events = <<>> /\ queue = <<>>
  /\ info \in [Sources -> Offers]
  /\ sources = {} /\ task = None
  /\ pools = [b \in Buffers |-> None]
  /\ sequence = FALSE /\ changes = 0
  /\ formatFrom = None /\ sizeFrom = None
  /\ image = [b \in Buffers |-> None]

-----------------------------------------------------------------------------
(* The connection *)

Source == SourcePreference[candidate]

\* Requests the client issues; they stay in the outbox until a flush.
Issue(reqs) == outbox' = outbox \o reqs

DestroySource == [type |-> "destroy source", source |-> Source]
DestroyBuffer == [type |-> "destroy buffer", buffer |-> attempt]

FlushOutbox ==
  /\ outbox # <<>>
  /\ requests' = requests \o outbox
  /\ outbox' = <<>>
  /\ UNCHANGED <<clientVars, events, queue, compositorVars>>

\* dispatch_until flushes before it polls.
Flush == pc \in {"negotiate", "await"} /\ FlushOutbox

\* So does the dispatch_until of any other thread on the same connection.
FlushByOther == FlushOutbox

\* A thread reads the next event from the socket: it is queued, unless the
\* client has destroyed its object.  A read of several is as many of these.
ReadEvent ==
  /\ events # <<>>
  /\ events' = Tail(events)
  /\ queue' = IF Head(events).source \in destroyed THEN queue ELSE Append(queue, Head(events))
  /\ UNCHANGED <<clientVars, outbox, requests, compositorVars>>

\* Done by this thread in dispatch_until, when its queue is empty.
Read == pc \in {"negotiate", "await"} /\ queue = <<>> /\ ReadEvent

\* Done by another thread, at any time.
ReadByOther == ReadEvent

-----------------------------------------------------------------------------
(* The handlers of the queue.  None looks at the proxy the event is for.   *)

Handle ==
  /\ pc \in {"negotiate", "await"}
  /\ queue # <<>>
  /\ queue' = Tail(queue)
  /\ LET e == Head(queue)
         Of(type, new, old) == IF e.type = type THEN new ELSE old IN
       /\ format' = Of("format", e.value, format)
       /\ formatFrom' = Of("format", e.source, formatFrom)
       /\ size' = Of("size", e.value, size)
       /\ sizeFrom' = Of("size", e.source, sizeFrom)
       /\ sync_done' = Of("done", TRUE, sync_done)
       /\ status' = IF e.type \in Statuses THEN e.type ELSE status
  /\ UNCHANGED <<pc, candidate, attempt, geometry, destroyed, result, outbox, requests, events,
                 compositorVars>>

-----------------------------------------------------------------------------
(* negotiate_source *)

\* What CreateSource and its mutant leave alone.
CreateFrame ==
  UNCHANGED <<candidate, attempt, status, geometry, destroyed, result, requests, events, queue,
              compositorVars>>

\* Mutant: only the format is reset between candidates.
CreateSourceStaleSize ==
  /\ pc = "create"
  /\ format' = None /\ sync_done' = FALSE
  /\ formatFrom' = None
  /\ Issue(<<[type |-> "create source", source |-> Source], [type |-> "sync"]>>)
  /\ pc' = "negotiate"
  /\ UNCHANGED <<size, sizeFrom>>
  /\ CreateFrame

\* The next candidate's source is created, from a clean state.
CreateSource ==
  /\ pc = "create"
  /\ format' = None /\ size' = 0 /\ sync_done' = FALSE
  /\ formatFrom' = None /\ sizeFrom' = None
  /\ Issue(<<[type |-> "create source", source |-> Source], [type |-> "sync"]>>)
  /\ pc' = "negotiate"
  /\ CreateFrame

Announced == (format # None /\ size > 0) \/ sync_done

\* dispatch_until is satisfied: the candidate is chosen if it has a format.
Negotiated ==
  /\ pc = "negotiate" /\ queue = <<>>
  /\ Announced
  /\ pc' = IF format # None THEN "attempt" ELSE "rejected"
  /\ UNCHANGED <<candidate, attempt, format, size, status, sync_done, geometry, destroyed, result,
                 formatFrom, sizeFrom, outbox, requests, events, queue, compositorVars>>

\* Mutant: a rejected source is disarmed like a chosen one, and never destroyed.
RejectLeaking ==
  /\ pc = "rejected"
  /\ IF candidate < Len(SourcePreference)
       THEN candidate' = candidate + 1 /\ pc' = "create" /\ UNCHANGED result
       ELSE /\ result' = [type |-> "error", error |-> "no source"]
            /\ pc' = "done"
            /\ UNCHANGED candidate
  /\ UNCHANGED <<attempt, format, size, status, sync_done, geometry, destroyed, formatFrom,
                 sizeFrom, outbox, requests, events, queue, compositorVars>>

\* The guard of the rejected source goes; the next candidate's turn, if any.
Reject ==
  /\ pc = "rejected"
  /\ Issue(<<DestroySource>>)
  /\ destroyed' = destroyed \cup {Source}
  /\ IF candidate < Len(SourcePreference)
       THEN candidate' = candidate + 1 /\ pc' = "create" /\ UNCHANGED result
       ELSE /\ result' = [type |-> "error", error |-> "no source"]
            /\ pc' = "done"
            /\ UNCHANGED candidate
  /\ UNCHANGED <<attempt, format, size, status, sync_done, geometry, formatFrom, sizeFrom,
                 requests, events, queue, compositorVars>>

-----------------------------------------------------------------------------
(* capture: the attempt loop *)

\* capture() returns res; the guards issue their destroy requests in this order.
Return(res, reqs) ==
  /\ result' = res
  /\ pc' = "done"
  /\ Issue(reqs)
  /\ destroyed' = destroyed \cup {Source}

Error(e) == [type |-> "error", error |-> e]

\* Mutant: the loop runs over 1..MAX_ATTEMPTS.
RefusalsOneShort ==
  IF attempt + 1 = MaxAttempts THEN {"retry limit"}
  ELSE IF format = None \/ size = 0 THEN {"invalid size"}
  ELSE IF format \in Unsupported THEN {"unsupported format"}
  ELSE {"no memory"}

\* The checks before a buffer is lent, in their order; the last is the kernel's.
Refusals ==
  IF attempt = MaxAttempts THEN {"retry limit"}
  ELSE IF format = None \/ size = 0 THEN {"invalid size"}
  ELSE IF format \in Unsupported THEN {"unsupported format"}
  ELSE {"no memory"}

GiveUp ==
  /\ pc = "attempt"
  /\ \E e \in Refusals : Return(Error(e), <<DestroySource>>)
  /\ UNCHANGED <<candidate, attempt, format, size, status, sync_done, geometry, formatFrom,
                 sizeFrom, requests, events, queue, compositorVars>>

\* A buffer is created and lent.
Attempt ==
  /\ pc = "attempt"
  /\ Refusals = {"no memory"}
  /\ attempt' = attempt + 1
  /\ status' = "pending"
  /\ geometry' = [format |-> format, size |-> size]
  /\ Issue(<<[type |-> "create buffer", buffer |-> attempt', params |-> geometry'],
             [type |-> "capture", source |-> Source, buffer |-> attempt']>>)
  /\ pc' = "await"
  /\ UNCHANGED <<candidate, format, size, sync_done, destroyed, result, formatFrom, sizeFrom,
                 requests, events, queue, compositorVars>>

\* Mutant: the buffer is described by the dispatch state, not by the locals.
CompletedFromState ==
  Return([type |-> "buffer", buffer |-> attempt, params |-> [format |-> format, size |-> size]],
         <<DestroyBuffer, DestroySource>>)

\* The buffer is handed over with the format and size it was created with.
Completed ==
  Return([type |-> "buffer", buffer |-> attempt, params |-> geometry],
         <<DestroyBuffer, DestroySource>>)

\* Mutant: an attempt that takes long is treated like a retry.
OutcomeImpatient ==
  /\ pc = "await" /\ queue = <<>>
  /\ status' = "pending"
  /\ \/ status = "complete" /\ Completed
     \/ status = "failed" /\ Return(Error("failed"), <<DestroyBuffer, DestroySource>>)
     \/ /\ status \in {"retry", "pending"}
        /\ Issue(<<DestroyBuffer>>)
        /\ pc' = "attempt"
        /\ UNCHANGED <<destroyed, result>>
  /\ UNCHANGED <<candidate, attempt, format, size, sync_done, geometry, formatFrom, sizeFrom,
                 requests, events, queue, compositorVars>>

\* dispatch_until is satisfied: the buffer is handed over, dropped, or tried again.
Outcome ==
  /\ pc = "await" /\ queue = <<>>
  /\ status # "pending"
  /\ status' = "pending"
  /\ \/ status = "complete" /\ Completed
     \/ status = "failed" /\ Return(Error("failed"), <<DestroyBuffer, DestroySource>>)
     \/ /\ status = "retry"
        /\ Issue(<<DestroyBuffer>>)
        /\ pc' = "attempt"
        /\ UNCHANGED <<destroyed, result>>
  /\ UNCHANGED <<candidate, attempt, format, size, sync_done, geometry, formatFrom, sizeFrom,
                 requests, events, queue, compositorVars>>

\* Mutant: the guards run in the order of their scopes, the buffer's first.
TimeoutBufferFirst ==
  /\ \/ pc = "negotiate" /\ ~Announced /\ Return(Error("timeout"), <<DestroySource>>)
     \/ /\ pc = "await" /\ status = "pending"
        /\ Return(Error("timeout"), <<DestroyBuffer, DestroySource>>)
  /\ queue = <<>>
  /\ UNCHANGED <<candidate, attempt, format, size, status, sync_done, geometry, formatFrom,
                 sizeFrom, requests, events, queue, compositorVars>>

\* The deadline passes (or the socket fails) in either dispatch_until: the
\* source is destroyed first, which cancels the capture, then the buffer.
Timeout ==
  /\ \/ pc = "negotiate" /\ ~Announced /\ Return(Error("timeout"), <<DestroySource>>)
     \/ /\ pc = "await" /\ status = "pending"
        /\ Return(Error("timeout"), <<DestroySource, DestroyBuffer>>)
  /\ queue = <<>>
  /\ UNCHANGED <<candidate, attempt, format, size, status, sync_done, geometry, formatFrom,
                 sizeFrom, requests, events, queue, compositorVars>>

-----------------------------------------------------------------------------
(* The compositor (external) *)

Event(type, source, value) == [type |-> type, source |-> source, value |-> value]

\* The events of s when it goes from q to p.
Announcement(s, p, q) ==
  (IF p.format \notin {None, q.format} THEN <<Event("format", s, p.format)>> ELSE <<>>)
  \o (IF p.size \notin {0, q.size} THEN <<Event("size", s, p.size)>> ELSE <<>>)

Nothing == [format |-> None, size |-> 0]

\* It handles the next request.
Serve ==
  /\ requests # <<>>
  /\ requests' = Tail(requests)
  /\ LET r == Head(requests) IN
       \/ /\ r.type = "create source"
          /\ sources' = sources \cup {r.source}
          /\ events' = events \o Announcement(r.source, info[r.source], Nothing)
          /\ UNCHANGED <<task, pools, sequence>>
       \/ /\ r.type = "sync"
          /\ events' = Append(events, Event("done", None, None))
          /\ UNCHANGED <<sources, task, pools, sequence>>
       \/ /\ r.type = "create buffer"
          /\ pools' = [pools EXCEPT ![r.buffer] = r.params]
          /\ UNCHANGED <<sources, task, sequence, events>>
       \/ /\ r.type = "capture"
          /\ IF task = None
               THEN task' = [source |-> r.source, buffer |-> r.buffer] /\ UNCHANGED sequence
               ELSE sequence' = TRUE /\ UNCHANGED task
          /\ UNCHANGED <<sources, pools, events>>
       \/ /\ r.type = "destroy source"
          /\ sources' = sources \ {r.source}
          /\ task' = IF task # None /\ task.source = r.source THEN None ELSE task
          /\ UNCHANGED <<pools, sequence, events>>
       \/ /\ r.type = "destroy buffer"
          /\ pools' = [pools EXCEPT ![r.buffer] = None]
          /\ UNCHANGED <<sources, task, sequence, events>>
  /\ UNCHANGED <<clientVars, outbox, queue, info, changes, image>>

\* It retires the capture in progress with one of the three outcomes.
Retire(outcome) ==
  /\ task # None
  /\ task' = None
  /\ events' = Append(events, Event(outcome, task.source, None))
  /\ UNCHANGED <<clientVars, outbox, requests, queue, info, sources, pools, sequence, changes>>

Compatible == pools[task.buffer] = info[task.source]

\* A repaint has copied the frame into the buffer.
Complete ==
  /\ Retire("complete")
  /\ Compatible
  /\ image' = [image EXCEPT ![task.buffer] = pools[task.buffer]]

\* The buffer does not have the parameters the source wants by now.
Retry ==
  /\ Retire("retry")
  /\ ~Compatible /\ info[task.source] \in Params
  /\ UNCHANGED image

\* Policy, a missing output or anything else.
Fail == Retire("failed") /\ UNCHANGED image

\* The output changes mode, or the source comes or goes.
ChangeInfo(s, p) ==
  /\ changes < MaxChanges
  /\ p # info[s]
  /\ changes' = changes + 1
  /\ info' = [info EXCEPT ![s] = p]
  /\ events' = IF s \in sources THEN events \o Announcement(s, p, info[s]) ELSE events
  /\ UNCHANGED <<clientVars, outbox, requests, queue, sources, task, pools, sequence, image>>

-----------------------------------------------------------------------------

Thread ==
  \/ Flush \/ Read \/ Handle
  \/ CreateSource \/ Negotiated \/ Reject \/ GiveUp \/ Attempt \/ Outcome \/ Timeout

Compositor ==
  \/ Serve \/ Complete \/ Retry \/ Fail
  \/ \E s \in Sources, p \in Offers : ChangeInfo(s, p)

Next == Thread \/ FlushByOther \/ ReadByOther \/ Compositor

Spec == Init /\ [][Next]_vars

-----------------------------------------------------------------------------
(* What the capture lends, for BufferLoan *)

InFlight == ToSet(requests \o outbox)

\* A buffer is on loan from the moment its capture request is issued until the
\* compositor retires the capture or cancels it.
Lent ==
  LET lent == {q.buffer : q \in {r \in InFlight : r.type = "capture"}}
                \cup (IF task = None THEN {} ELSE {task.buffer})
  IN IF lent = {} THEN 0 ELSE CHOOSE b \in lent : TRUE

Finished == {b \in Buffers : image[b] # None}

\* Buffers that were created and whose destruction the compositor has handled.
Released ==
  {b \in 1 .. attempt :
     /\ pools[b] = None
     /\ ~ \E q \in InFlight : q.type = "create buffer" /\ q.buffer = b}

Delivered == IF result.type = "buffer" THEN result.buffer ELSE 0

\* The capture's objects are gone from the compositor.
NothingHeld == sources = {} /\ task = None /\ \A b \in Buffers : pools[b] = None

-----------------------------------------------------------------------------
(* Safety *)

\* What capture() says of the image is what the compositor drew, even if the
\* source announced other parameters before the thread looked.
DeliveredAsDrawn == result.type = "buffer" => result.params = image[result.buffer]

\* The client never asks for a capture before the previous one has retired.
NoSequenceError == ~sequence

\* capture() gives up retrying only if the parameters changed once per attempt
\* (comment of MAX_ATTEMPTS: "a couple should always suffice").
RetryLimitJustified == result = Error("retry limit") => changes >= MaxAttempts

\* Format and size of a chosen source were announced by that source: one
\* candidate's size is never paired with another's format (comment in
\* negotiate_source).
SameSource ==
  pc \in {"attempt", "await"} => {formatFrom, sizeFrom} \subseteq {Source, None}

\* The announcements that answer the creation of a rejected candidate are never
\* taken for the next one's.  (One that follows a change may be: it can reach the
\* queue after the candidate was rejected, and no handler looks at its source.)
OneSourceUnlessChanged == changes = 0 => SameSource
================================================================================
