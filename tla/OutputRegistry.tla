----------------------------- MODULE OutputRegistry -----------------------------
(***************************************************************************)
(* The output list of one WaylandConnection, kept current by a queue that  *)
(* only refresh() dispatches.                                              *)
(*                                                                         *)
(* Outputs come and go and change mode on the compositor at any time.  The *)
(* portal learns of it from events that travel in order on the socket, and *)
(* applies them only while connect() or a refresh() dispatches the queue,  *)
(* until the callback of a wl_display.sync tells it that it has caught up. *)
(* A refresh may give up (CaptureError::Timeout) and leave its callback    *)
(* behind; the connection stays cached and the next refresh uses the same  *)
(* queue.  Any thread that reads the socket fills the queue, so how many   *)
(* events a dispatch finds there is left open.                             *)
(*                                                                         *)
(* The geometry, mode and name events of one burst are one "mode" event.   *)
(***************************************************************************)
EXTENDS Naturals, Sequences, SequencesExt

CONSTANTS
  MaxName,      \* bound on the registry names handed out (never reused)
  Modes,        \* the modes an output can have, NoMode aside
  NoMode,       \* what OutputInfo::new knows of an output: nothing (0 x 0)
  MaxInFlight,  \* bound: the compositor changes nothing with more events unread
  MaxLate       \* bound: no refresh is abandoned with more syncs unanswered

ASSUME RegistryAssumption ==
  /\ MaxName \in Nat
  /\ NoMode \notin Modes
  /\ MaxInFlight \in Nat
  /\ MaxLate \in Nat

Names == 1 .. MaxName

NoOutput == 0

VARIABLES
  \* the compositor
  present,    \* names of the outputs it has, in the order they were announced
  mode,       \* per name, the output's current mode
  bound,      \* names the portal has bound and that it will report changes of
  nextName,   \* the name of the next output
  \* the socket
  requests,   \* portal -> compositor, in order
  events,     \* compositor -> portal, in order
  \* the portal
  phase,      \* where the owner of the registry is
  outputs,    \* ProbeState::outputs
  sync_done,  \* ProbeState::sync_done
  \* ghosts, set when a refresh begins
  backlog,    \* of the events the compositor had sent by then, how many are unread
  known,      \* names of the outputs that were listed then
  late        \* was the callback of an abandoned refresh still to come?

compositorVars == <<present, mode, bound, nextName>>
ghosts == <<backlog, known, late>>
vars == <<present, mode, bound, nextName, requests, events, phase, outputs, sync_done,
          backlog, known, late>>

\* connecting: in connect(), before its roundtrip is over.  idle: nobody uses
\* the queue and the last refresh, if any, failed.  refreshing: in refresh().
\* ready: refresh() returned Ok, its caller selects an output.
Phases == {"connecting", "idle", "refreshing", "ready"}

Requests == [type : {"bind"}, name : Names] \cup [type : {"roundtrip", "sync"}]

Events == [type : {"global", "remove"}, name : Names]
            \cup [type : {"mode"}, name : Names, mode : Modes]
            \cup [type : {"roundtrip", "done"}]

OutputInfo == [name : Names, mode : Modes \cup {NoMode}]

TypeOK ==
  /\ present \in Seq(Names)
  /\ mode \in [Names -> Modes]
  /\ bound \subseteq Names
  /\ nextName \in 1 .. MaxName + 1
  /\ requests \in Seq(Requests)
  /\ events \in Seq(Events)
  /\ phase \in Phases
  /\ outputs \in Seq(OutputInfo)
  /\ sync_done \in BOOLEAN
  /\ phase = "ready" => sync_done
  /\ backlog \in Nat
  /\ known \subseteq Names
  /\ late \in BOOLEAN

-----------------------------------------------------------------------------

NewOutput(n) == [name |-> n, mode |-> NoMode]

Listed == {o.name : o \in ToSet(outputs)}

\* connect() has read the globals, bound the outputs and sent its roundtrip.
Init ==
  /\ \E k \in 0 .. MaxName :
       /\ present = [i \in 1 .. k |-> i]
       /\ nextName = k + 1
  /\ mode \in [Names -> Modes]
  /\ bound = {}
  /\ outputs = [i \in DOMAIN present |-> NewOutput(present[i])]
  /\ requests = Append([i \in DOMAIN present |-> [type |-> "bind", name |-> present[i]]],
                       [type |-> "roundtrip"])
  /\ events = <<>>
  /\ phase = "connecting"
  /\ sync_done = FALSE
  /\ backlog = 0
  /\ known = {}
  /\ late = FALSE

-----------------------------------------------------------------------------
(* The compositor *)

Send(e) == events' = Append(events, e)

\* An output is plugged in and announced.
Plug ==
  /\ nextName \in Names
  /\ Len(events) < MaxInFlight
  /\ present' = Append(present, nextName)
  /\ nextName' = nextName + 1
  /\ Send([type |-> "global", name |-> nextName])
  /\ UNCHANGED <<mode, bound, requests, phase, outputs, sync_done, ghosts>>

\* One goes away.
Unplug(n) ==
  /\ Len(events) < MaxInFlight
  /\ \E i \in DOMAIN present : present[i] = n /\ present' = RemoveAt(present, i)
  /\ bound' = bound \ {n}
  /\ Send([type |-> "remove", name |-> n])
  /\ UNCHANGED <<mode, nextName, requests, phase, outputs, sync_done, ghosts>>

\* One changes mode; only a client that has bound it is told.
ChangeMode(n, m) ==
  /\ n \in ToSet(present)
  /\ m # mode[n]
  /\ Len(events) < MaxInFlight
  /\ mode' = [mode EXCEPT ![n] = m]
  /\ IF n \in bound THEN Send([type |-> "mode", name |-> n, mode |-> m]) ELSE UNCHANGED events
  /\ UNCHANGED <<present, bound, nextName, requests, phase, outputs, sync_done, ghosts>>

\* It handles the next request.  Binding an output that is gone is harmless.
ServeBind ==
  /\ requests # <<>> /\ Head(requests).type = "bind"
  /\ requests' = Tail(requests)
  /\ LET n == Head(requests).name IN
       IF n \in ToSet(present)
         THEN bound' = bound \cup {n} /\ Send([type |-> "mode", name |-> n, mode |-> mode[n]])
         ELSE UNCHANGED <<bound, events>>
  /\ UNCHANGED <<present, mode, nextName, phase, outputs, sync_done, ghosts>>

ServeSync ==
  /\ requests # <<>> /\ Head(requests).type # "bind"
  /\ requests' = Tail(requests)
  /\ Send([type |-> IF Head(requests).type = "sync" THEN "done" ELSE "roundtrip"])
  /\ UNCHANGED <<compositorVars, phase, outputs, sync_done, ghosts>>

-----------------------------------------------------------------------------
(* The portal: the handlers of the queue *)

\* The next event is of this type, and is taken off the queue.
Receive(type) ==
  /\ phase \in {"connecting", "refreshing"}
  /\ events # <<>> /\ Head(events).type = type
  /\ events' = Tail(events)
  /\ backlog' = IF backlog > 0 THEN backlog - 1 ELSE 0
  /\ UNCHANGED <<compositorVars, known, late>>

\* Mutant: the new output is listed but not bound.
OnGlobalUnbound ==
  /\ Receive("global")
  /\ outputs' = Append(outputs, NewOutput(Head(events).name))
  /\ UNCHANGED <<phase, requests, sync_done>>

\* wl_registry.global: an output that is not listed yet is bound and listed.
OnGlobal ==
  /\ Receive("global")
  /\ LET n == Head(events).name IN
       IF n \in Listed
         THEN UNCHANGED <<outputs, requests>>
         ELSE /\ outputs' = Append(outputs, NewOutput(n))
              /\ requests' = Append(requests, [type |-> "bind", name |-> n])
  /\ UNCHANGED <<phase, sync_done>>

Positions(n) == {i \in DOMAIN outputs : outputs[i].name = n}

\* Mutant: Vec::swap_remove, which is O(1), instead of Vec::remove.
OnGlobalRemoveSwapping ==
  /\ Receive("remove")
  /\ LET pos == Positions(Head(events).name) IN
       outputs' = IF pos = {} THEN outputs
                  ELSE Front([outputs EXCEPT ![Min(pos)] = Last(outputs)])
  /\ UNCHANGED <<phase, requests, sync_done>>

\* wl_registry.global_remove: the output leaves the list, the others keep their order.
\* The release of the proxy is not modelled: the compositor has nothing more to say of
\* an output that is gone, and its name is not used again.
OnGlobalRemove ==
  /\ Receive("remove")
  /\ LET pos == Positions(Head(events).name) IN
       outputs' = IF pos = {} THEN outputs ELSE RemoveAt(outputs, Min(pos))
  /\ UNCHANGED <<phase, requests, sync_done>>

\* Mutant: finds the output by its place in the list, not by its global name.
OnModeByIndex ==
  /\ Receive("mode")
  /\ outputs' = [i \in DOMAIN outputs |->
                   IF i = Head(events).name
                     THEN [outputs[i] EXCEPT !.mode = Head(events).mode] ELSE outputs[i]]
  /\ UNCHANGED <<phase, requests, sync_done>>

\* wl_output.geometry / mode / name: found by global name, ignored if not listed.
OnMode ==
  /\ Receive("mode")
  /\ outputs' = [i \in DOMAIN outputs |->
                   IF outputs[i].name = Head(events).name
                     THEN [outputs[i] EXCEPT !.mode = Head(events).mode] ELSE outputs[i]]
  /\ UNCHANGED <<phase, requests, sync_done>>

\* wl_callback.done of any refresh, this one or an abandoned one.
OnDone ==
  /\ Receive("done")
  /\ sync_done' = TRUE
  /\ UNCHANGED <<phase, outputs, requests>>

\* The callback of connect()'s own roundtrip: the connection is usable.
EndConnect ==
  /\ Receive("roundtrip")
  /\ phase' = "idle"
  /\ UNCHANGED <<outputs, requests, sync_done>>

-----------------------------------------------------------------------------
(* The portal: refresh() *)

\* The callbacks still to come, as syncs to be answered and as answers to be read.
Syncs == {i \in DOMAIN requests : requests[i].type = "sync"}
Dones == {i \in DOMAIN events : events[i].type = "done"}

\* Mutant: sync_done is left as the previous refresh left it.
BeginRefreshNoReset ==
  /\ phase \in {"idle", "ready"}
  /\ phase' = "refreshing"
  /\ requests' = Append(requests, [type |-> "sync"])
  /\ backlog' = Len(events)
  /\ known' = Listed
  /\ late' = (Syncs \cup Dones # {})
  /\ UNCHANGED <<compositorVars, events, outputs, sync_done>>

\* refresh() clears the flag and sends a sync on the queue of the registry.
BeginRefresh ==
  /\ phase \in {"idle", "ready"}
  /\ phase' = "refreshing"
  /\ sync_done' = FALSE
  /\ requests' = Append(requests, [type |-> "sync"])
  /\ backlog' = Len(events)
  /\ known' = Listed
  /\ late' = (Syncs \cup Dones # {})
  /\ UNCHANGED <<compositorVars, events, outputs>>

\* dispatch_until finds done(state): Ok.
EndRefresh ==
  /\ phase = "refreshing"
  /\ sync_done
  /\ phase' = "ready"
  /\ UNCHANGED <<compositorVars, requests, events, outputs, sync_done, ghosts>>

\* Mutant: an expired deadline ends the loop without an error.
RefreshTimeoutOk ==
  /\ phase = "refreshing"
  /\ ~sync_done
  /\ phase' = "ready"
  /\ UNCHANGED <<compositorVars, requests, events, outputs, sync_done, ghosts>>

\* The deadline passes first: CaptureError::Timeout, and the sync is left behind.
RefreshTimeout ==
  /\ phase = "refreshing"
  /\ ~sync_done
  /\ Cardinality(Syncs) + Cardinality(Dones) <= MaxLate
  /\ phase' = "idle"
  /\ UNCHANGED <<compositorVars, requests, events, outputs, sync_done, ghosts>>

-----------------------------------------------------------------------------
(* The portal: select_output() *)

OutputSelector == [type : {"first"}] \cup [type : {"index"}, index : 0 .. MaxName]
                    \cup [type : {"name"}, name : Names]

\* The outputs a selector fits.  An output's wl_output.name, which comes with its
\* first mode, stands for its registry name.
Fits(s) ==
  {i \in DOMAIN outputs :
     CASE s.type = "first" -> i = 1
       [] s.type = "index" -> i = s.index + 1
       [] s.type = "name" -> outputs[i].name = s.name /\ outputs[i].mode # NoMode}

\* Mutant: an unknown name falls back to the first output.
SelectOutputOrFirst(s) ==
  IF Fits(s) # {} THEN outputs[Min(Fits(s))].name
  ELSE IF outputs # <<>> THEN outputs[1].name ELSE NoOutput

\* The first of them; without one the capture fails ("no such output").
SelectOutput(s) == IF Fits(s) = {} THEN NoOutput ELSE outputs[Min(Fits(s))].name

-----------------------------------------------------------------------------

Hotplug == Plug \/ \E n \in Names : Unplug(n) \/ \E m \in Modes : ChangeMode(n, m)

Serve == ServeBind \/ ServeSync

Dispatch == OnGlobal \/ OnGlobalRemove \/ OnMode \/ OnDone \/ EndConnect

Next == Hotplug \/ Serve \/ Dispatch \/ BeginRefresh \/ EndRefresh \/ RefreshTimeout

Spec == Init /\ [][Next]_vars

\* The compositor answers, captures keep being requested, and a refresh that
\* has events to read reads them (SF: it may time out in between, again and
\* again).  Nothing is assumed of plugging and unplugging.
FairSpec == Spec /\ WF_vars(Serve) /\ SF_vars(Dispatch) /\ WF_vars(BeginRefresh)

-----------------------------------------------------------------------------
(* Properties *)

\* Discovery order: the list is in the order the outputs were announced and no
\* output is in it twice, so First and Index(i) mean the same output until a
\* plug or an unplug (OutputSelector).
DiscoveryOrder ==
  \A i, j \in DOMAIN outputs : i < j => outputs[i].name < outputs[j].name

\* The list says what the compositor has.
Agrees ==
  outputs = [i \in DOMAIN present |-> [name |-> present[i], mode |-> mode[present[i]]]]

\* Until the next plug or unplug is read, a selector means the same screen to the
\* portal as to the compositor, however many of the outputs changed mode meanwhile
\* and whatever binds and refreshes are in flight; a name may be unknown as long as
\* its first burst of events is (select_output, OutputInfo::global_name).
SelectsTheScreen ==
  (\A e \in ToSet(events) : e.type \notin {"global", "remove"}) =>
    \A s \in OutputSelector :
      SelectOutput(s) \in
        CASE s.type = "first" -> {IF present = <<>> THEN NoOutput ELSE present[1]}
          [] s.type = "index" ->
               {IF s.index < Len(present) THEN present[s.index + 1] ELSE NoOutput}
          [] s.type = "name" ->
               IF s.name \notin ToSet(present) THEN {NoOutput}
               ELSE IF \E m \in ToSet(requests \o events) :
                         m.type \in {"bind", "mode"} /\ m.name = s.name
                 THEN {s.name, NoOutput} ELSE {s.name}

\* Whatever was plugged, unplugged or resized while binds and events crossed
\* on the wire: once nothing is in flight the list is exact.
ExactWhenQuiet == requests = <<>> /\ events = <<>> => Agrees

\* A refresh that returns Ok has read everything the compositor had sent when
\* it began, and has the geometry of every output it then listed - provided no
\* abandoned refresh still had a callback to come.  An output announced while
\* the refresh runs is excepted: it is bound after the sync was sent, and may
\* be returned without a geometry.
CaughtUpUnlessLate ==
  phase = "ready" /\ ~late =>
    /\ backlog = 0
    /\ \A o \in ToSet(outputs) : o.name \in known => o.mode # NoMode

\* The same without the proviso: "pull current output geometry and membership
\* from the compositor" (comment of refresh_outputs).
RefreshIsCurrent == phase = "ready" => backlog = 0

\* If the outputs stop changing, the list becomes and stays exact.
Settles == <>[][~Hotplug]_vars => <>[]Agrees
=================================================================================
