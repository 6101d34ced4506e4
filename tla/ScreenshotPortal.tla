---------------------------- MODULE ScreenshotPortal ----------------------------
(***************************************************************************)
(* The request path of the Screenshot portal: what happens between a D-Bus *)
(* call (Screenshot or PickColor) and its reply.                           *)
(*                                                                         *)
(* Every call runs capture_buffer on a thread of the blocking pool.  All   *)
(* the calls share ONE cached WaylandConnection, guarded by a mutex that   *)
(* is held while connecting but not while capturing, and each connection   *)
(* carries an output registry guarded by a second mutex that IS held while *)
(* the compositor is being waited for.                                     *)
(*                                                                         *)
(* Time is abstract here: a bounded wait may time out at any moment (see   *)
(* CaptureDeadline for the clock).  What the compositor sends during a     *)
(* refresh or a capture is the subject of OutputRegistry, WestonCapture    *)
(* and the other backends; here only the kind of result matters.           *)
(***************************************************************************)
EXTENDS Naturals, FiniteSets

CONSTANTS
  Requests,        \* calls that may be in progress together
  Conns,           \* names of connections; reused when nobody refers to one
  PoolSizes,       \* numbers of threads the blocking pool may have (tokio's default: 512)
  AdvertisedSets,  \* the sets of capture globals a compositor may advertise
  SpuriousErrors,  \* may a flush or read of a live socket fail (see README)?
  NoConn,          \* "no connection": an empty cache, a request without handle
  NoReq            \* "nobody": a mutex that is free

Backends == {"weston", "agl", "wlr"}

ASSUME PortalAssumption ==
  /\ IsFiniteSet(Requests)
  /\ NoConn \notin Conns
  /\ NoReq \notin Requests
  /\ PoolSizes \subseteq Nat \ {0}
  /\ AdvertisedSets \subseteq SUBSET Backends
  /\ SpuriousErrors \in BOOLEAN

VARIABLES
  pc,           \* where each request is, see Phases
  held,         \* the connection a request cloned out of the cache, until it replies
  outcome,      \* the Result of capture_buffer, once it has one
  cache,        \* ScreenshotPortal::connection
  cacheLock,    \* holder of the mutex around it
  outputsLock,  \* per connection, holder of the mutex around its output registry
  caps,         \* per connection, the capture globals seen when it was opened
  alive,        \* connections whose socket still works
  server,       \* the compositor process: "up" or "down"
  globals,      \* the capture globals the running compositor advertises
  daemon,       \* main(): "running", "stopping" (the runtime is dropped), "stopped"
  pool          \* number of threads of the blocking pool

portalVars == <<pc, held, outcome, cache, cacheLock, outputsLock, caps>>
worldVars == <<server, globals, daemon, pool>>
vars == <<pc, held, outcome, cache, cacheLock, outputsLock, caps, alive, server, globals,
          daemon, pool>>

(***************************************************************************)
(* idle        no call                                                     *)
(* called      the handler has handed its closure to spawn_blocking        *)
(* lock        wants the cache mutex                                       *)
(* connect     holds it and is inside probe::connect                       *)
(* refresh     has a handle, wants the connection's output-registry mutex  *)
(* refreshing  holds that mutex, waits for the compositor's sync callback  *)
(* select      wants the same mutex again, to look an output up            *)
(* capture     waits for the compositor in one of the three backends       *)
(* invalidate  got a WaylandError, wants the cache mutex to drop the entry *)
(* joined      the blocking task has ended, the handler can reply          *)
(***************************************************************************)
Phases == {"idle", "called", "lock", "connect", "refresh", "refreshing",
           "select", "capture", "invalidate", "joined"}

\* A thread of the blocking pool is taken from Start until the task ends.
Threaded == {"lock", "connect", "refresh", "refreshing", "select", "capture", "invalidate"}

\* Phases in which a request owns a clone of a WaylandConnection and uses it.
Using == {"refresh", "refreshing", "select", "capture", "invalidate"}

\* "refused": the compositor answered the capture itself with a failure.
\* "failed": no output, no capture protocol, no wl_shm, no shm memory, or a buffer
\* that cannot be encoded.
\* "wayland": CaptureError::WaylandError.
Outcomes == {"none", "ok", "refused", "failed", "timeout", "wayland"}

TypeOK ==
  /\ pc \in [Requests -> Phases]
  /\ held \in [Requests -> Conns \cup {NoConn}]
  /\ \A r \in Requests : pc[r] \in Using => held[r] # NoConn
  /\ outcome \in [Requests -> Outcomes]
  /\ cache \in Conns \cup {NoConn}
  /\ cacheLock \in Requests \cup {NoReq}
  /\ outputsLock \in [Conns -> Requests \cup {NoReq}]
  /\ caps \in [Conns -> SUBSET Backends]
  /\ alive \subseteq Conns
  /\ server \in {"up", "down"}
  /\ globals \in SUBSET Backends
  /\ daemon \in {"running", "stopping", "stopped"}
  /\ pool \in PoolSizes

Init ==
  /\ pc = [r \in Requests |-> "idle"]
  /\ held = [r \in Requests |-> NoConn]
  /\ outcome = [r \in Requests |-> "none"]
  /\ cache = NoConn
  /\ cacheLock = NoReq
  /\ outputsLock = [c \in Conns |-> NoReq]
  /\ caps = [c \in Conns |-> {}]
  /\ alive = {}
  /\ server = "up"
  /\ globals \in AdvertisedSets
  /\ daemon = "running"
  /\ pool \in PoolSizes

-----------------------------------------------------------------------------
(* Helpers *)

Goto(r, phase) == pc' = [pc EXCEPT ![r] = phase]

\* The blocking task of r ends with result e.
Join(r, e) ==
  /\ Goto(r, "joined")
  /\ outcome' = [outcome EXCEPT ![r] = e]

\* No clone of the connection is left: its name can stand for a new one.
Unreferenced(c) == cache # c /\ \A r \in Requests : held[r] # c

-----------------------------------------------------------------------------
(* The handlers, on the single-threaded runtime *)

\* A Screenshot or PickColor call arrives and its closure is spawned.
Call(r) ==
  /\ daemon = "running"
  /\ pc[r] = "idle"
  /\ Goto(r, "called")
  /\ UNCHANGED <<held, outcome, cache, cacheLock, outputsLock, caps, alive, worldVars>>

\* The pool has a thread for the closure.
Start(r) ==
  /\ daemon = "running"
  /\ pc[r] = "called"
  /\ Cardinality({q \in Requests : pc[q] \in Threaded}) < pool
  /\ Goto(r, "lock")
  /\ UNCHANGED <<held, outcome, cache, cacheLock, outputsLock, caps, alive, worldVars>>

\* The handler resumes: it saves the encoded image and replies with its URI, or
\* replies with the color, or with an error.
Reply(r) ==
  /\ daemon = "running"
  /\ pc[r] = "joined"
  /\ Goto(r, "idle")
  /\ held' = [held EXCEPT ![r] = NoConn]
  /\ outcome' = [outcome EXCEPT ![r] = "none"]
  /\ UNCHANGED <<cache, cacheLock, outputsLock, caps, alive, worldVars>>

-----------------------------------------------------------------------------
(* main(): SIGINT and SIGTERM *)

\* The select! ends, the bus connection is dropped and main() returns: the
\* handlers are gone, so that nothing is answered any more, and the runtime
\* waits for the threads of its blocking pool.
Signal ==
  /\ daemon = "running"
  /\ daemon' = "stopping"
  /\ UNCHANGED <<portalVars, alive, server, globals, pool>>

\* A thread that is done drops the closures still queued.
Discard(r) ==
  /\ daemon = "stopping"
  /\ pc[r] = "called"
  /\ Cardinality({q \in Requests : pc[q] \in Threaded}) < pool
  /\ Goto(r, "idle")
  /\ UNCHANGED <<held, outcome, cache, cacheLock, outputsLock, caps, alive, worldVars>>

\* The last thread has ended, and the process with it.
Exit ==
  /\ daemon = "stopping"
  /\ \A r \in Requests : pc[r] \notin Threaded \cup {"called"}
  /\ daemon' = "stopped"
  /\ UNCHANGED <<portalVars, alive, server, globals, pool>>

-----------------------------------------------------------------------------
(* capture_buffer: the cached connection *)

\* Mutant: unwraps the cached handle without the is_none() check.
TakeCachedUnchecked(r) ==
  /\ pc[r] = "lock"
  /\ cacheLock = NoReq
  /\ held' = [held EXCEPT ![r] = cache]
  /\ Goto(r, "refresh")
  /\ UNCHANGED <<outcome, cache, cacheLock, outputsLock, caps, alive, worldVars>>

\* The cache is filled: clone the handle and give the mutex back at once.
TakeCached(r) ==
  /\ pc[r] = "lock"
  /\ cacheLock = NoReq
  /\ cache # NoConn
  /\ held' = [held EXCEPT ![r] = cache]
  /\ Goto(r, "refresh")
  /\ UNCHANGED <<outcome, cache, cacheLock, outputsLock, caps, alive, worldVars>>

\* Mutant: the guard is dropped before connecting ("do not hold it so long").
BeginConnectUnlocked(r) ==
  /\ pc[r] = "lock"
  /\ cacheLock = NoReq
  /\ cache = NoConn
  /\ Goto(r, "connect")
  /\ UNCHANGED <<held, outcome, cache, cacheLock, outputsLock, caps, alive, worldVars>>

\* The cache is empty: keep the mutex and connect.
BeginConnect(r) ==
  /\ pc[r] = "lock"
  /\ cacheLock = NoReq
  /\ cache = NoConn
  /\ cacheLock' = r
  /\ Goto(r, "connect")
  /\ UNCHANGED <<held, outcome, cache, outputsLock, caps, alive, worldVars>>

\* Mutant: the guard lives as long as the capture, which locks again on an error.
ConnectOkHolding(r) ==
  /\ pc[r] = "connect"
  /\ server = "up"
  /\ \E c \in Conns :
       /\ Unreferenced(c)
       /\ cache' = c
       /\ held' = [held EXCEPT ![r] = c]
       /\ caps' = [caps EXCEPT ![c] = globals]
       /\ alive' = alive \cup {c}
  /\ Goto(r, "refresh")
  /\ UNCHANGED <<outcome, cacheLock, outputsLock, worldVars>>

\* The compositor answers the registry and the first roundtrip: the new
\* connection is stored, cloned, and the mutex released.
ConnectOk(r) ==
  /\ pc[r] = "connect"
  /\ server = "up"
  /\ \E c \in Conns :
       /\ Unreferenced(c)
       /\ cache' = c
       /\ held' = [held EXCEPT ![r] = c]
       /\ caps' = [caps EXCEPT ![c] = globals]
       /\ alive' = alive \cup {c}
  /\ cacheLock' = NoReq
  /\ Goto(r, "refresh")
  /\ UNCHANGED <<outcome, outputsLock, worldVars>>

\* connect() returns an error: `?` leaves the block, the cache stays empty.
ConnectError(r, e) ==
  /\ pc[r] = "connect"
  /\ cacheLock' = NoReq
  /\ Join(r, e)
  /\ UNCHANGED <<held, cache, outputsLock, caps, alive, worldVars>>

\* Nobody listens on the socket, or the compositor died during connect().
ConnectRefused(r) == server = "down" /\ ConnectError(r, "wayland")

\* A compositor that runs exposes no wl_shm, or its protocol error ends connect().
ConnectRejected(r) == server = "up" /\ \E e \in {"failed", "wayland"} : ConnectError(r, e)

\* Mutant: the error is returned and the cached connection stays.
InvalidateNothing(r) ==
  /\ pc[r] = "invalidate"
  /\ cacheLock = NoReq
  /\ Join(r, "wayland")
  /\ UNCHANGED <<held, cache, cacheLock, outputsLock, caps, alive, worldVars>>

\* A WaylandError empties the cache, whatever connection is in it by now: a call
\* that fails late drops the healthy connection another call has stored since.
Invalidate(r) ==
  /\ pc[r] = "invalidate"
  /\ cacheLock = NoReq
  /\ cache' = NoConn
  /\ Join(r, "wayland")
  /\ UNCHANGED <<held, cacheLock, outputsLock, caps, alive, worldVars>>

-----------------------------------------------------------------------------
(* capture_on: refresh the outputs, select one, run the backend *)

\* refresh_outputs locks the registry of this connection and sends a sync.
BeginRefresh(r) ==
  /\ pc[r] = "refresh"
  /\ outputsLock[held[r]] = NoReq
  /\ outputsLock' = [outputsLock EXCEPT ![held[r]] = r]
  /\ Goto(r, "refreshing")
  /\ UNCHANGED <<held, outcome, cache, cacheLock, caps, alive, worldVars>>

\* Mutant: the `?` of refresh_outputs leaves capture_buffer, not just capture_on,
\* so that only an error of the capture itself reaches the invalidation.
RefreshOnDeadReturns(r) ==
  /\ pc[r] = "refreshing"
  /\ held[r] \notin alive
  /\ outputsLock' = [outputsLock EXCEPT ![held[r]] = NoReq]
  /\ Join(r, "failed")
  /\ UNCHANGED <<held, cache, cacheLock, caps, alive, worldVars>>

\* dispatch_until meets the dead socket: its flush or its read fails.
RefreshOnDead(r) ==
  /\ pc[r] = "refreshing"
  /\ held[r] \notin alive
  /\ outputsLock' = [outputsLock EXCEPT ![held[r]] = NoReq]
  /\ Goto(r, "invalidate")
  /\ UNCHANGED <<held, outcome, cache, cacheLock, caps, alive, worldVars>>

\* dispatch_until fails on the socket of connection c.
SocketError(c) == c \notin alive \/ SpuriousErrors

\* Mutant: the guard of refresh_outputs is still held when select_output locks again.
EndRefreshHolding(r) ==
  /\ pc[r] = "refreshing"
  /\ \/ Goto(r, "select") /\ UNCHANGED <<outcome, outputsLock>>
     \/ /\ Join(r, "timeout")
        /\ outputsLock' = [outputsLock EXCEPT ![held[r]] = NoReq]
     \/ /\ SpuriousErrors /\ Goto(r, "invalidate") /\ UNCHANGED outcome
        /\ outputsLock' = [outputsLock EXCEPT ![held[r]] = NoReq]
  /\ UNCHANGED <<held, cache, cacheLock, caps, alive, worldVars>>

\* dispatch_until in refresh() returns Ok (a callback may have been received, or
\* queued, before the socket died), a Timeout (the deadline is looked at before the
\* socket is), or a WaylandError of a live socket; the mutex is released.
EndRefresh(r) ==
  /\ pc[r] = "refreshing"
  /\ outputsLock' = [outputsLock EXCEPT ![held[r]] = NoReq]
  /\ \/ Goto(r, "select") /\ UNCHANGED outcome
     \/ Join(r, "timeout")
     \/ SpuriousErrors /\ Goto(r, "invalidate") /\ UNCHANGED outcome
  /\ UNCHANGED <<held, cache, cacheLock, caps, alive, worldVars>>

\* select_output finds the output and a backend is selected, or one is missing.
SelectOutput(r) ==
  /\ pc[r] = "select"
  /\ outputsLock[held[r]] = NoReq
  /\ \/ caps[held[r]] # {} /\ Goto(r, "capture") /\ UNCHANGED outcome
     \/ Join(r, "failed")
  /\ UNCHANGED <<held, cache, cacheLock, outputsLock, caps, alive, worldVars>>

\* The closure has its buffer, and encodes it before the task ends: to a PNG
\* (encode_png) or to a color (center_color), which may fail on a good capture.
Encode(r) == Join(r, "ok") \/ Join(r, "failed")

\* The selected backend returns: a buffer, the compositor's refusal, a local
\* failure, a Timeout, or a WaylandError.
EndCapture(r) ==
  /\ pc[r] = "capture"
  /\ \/ Encode(r)
     \/ \E e \in {"refused", "failed", "timeout"} : Join(r, e)
     \/ SocketError(held[r]) /\ Goto(r, "invalidate") /\ UNCHANGED outcome
  /\ UNCHANGED <<held, cache, cacheLock, outputsLock, caps, alive, worldVars>>

-----------------------------------------------------------------------------
(* The compositor *)

\* The compositor process goes away, and every socket with it.
Crash ==
  /\ server = "up"
  /\ server' = "down"
  /\ alive' = {}
  /\ UNCHANGED <<portalVars, globals, daemon, pool>>

\* It is started again, perhaps with other globals.
Boot ==
  /\ server = "down"
  /\ server' = "up"
  /\ globals' \in AdvertisedSets
  /\ UNCHANGED <<portalVars, alive, daemon, pool>>

\* A request of r's capture is a protocol error (a withdrawn global is bound,
\* say): the compositor closes the connection r shares with others.
ProtocolError(r) ==
  /\ pc[r] = "capture"
  /\ held[r] \in alive
  /\ alive' = alive \ {held[r]}
  /\ UNCHANGED <<portalVars, worldVars>>

-----------------------------------------------------------------------------

RequestStep(r) ==
  \/ Call(r) \/ Start(r) \/ Reply(r) \/ Discard(r)
  \/ TakeCached(r) \/ BeginConnect(r) \/ ConnectOk(r)
  \/ ConnectRefused(r) \/ ConnectRejected(r) \/ Invalidate(r)
  \/ BeginRefresh(r) \/ RefreshOnDead(r) \/ EndRefresh(r)
  \/ SelectOutput(r) \/ EndCapture(r) \/ ProtocolError(r)

Next == Crash \/ Boot \/ Signal \/ Exit \/ \E r \in Requests : RequestStep(r)

Spec == Init /\ [][Next]_vars

(***************************************************************************)
(* Fairness.  A runnable thread runs (WF); a waiter of a std::sync::Mutex, *)
(* or a task queued for the pool, is not passed over for ever (SF); every  *)
(* dispatch_until ends, by its deadline if nothing else.  A request is in  *)
(* one phase at a time, so one condition can cover the steps of several    *)
(* phases.  Nothing is assumed of a compositor that runs.                  *)
(***************************************************************************)
LockStep(r) ==
  \/ TakeCached(r) \/ BeginConnect(r) \/ Invalidate(r)
  \/ BeginRefresh(r) \/ SelectOutput(r)

PortalFairness ==
  /\ WF_vars(Exit)
  /\ \A r \in Requests :
       /\ SF_vars(Start(r) \/ Discard(r))
       /\ SF_vars(LockStep(r))
       /\ WF_vars(RefreshOnDead(r) \/ EndRefresh(r) \/ EndCapture(r) \/ Reply(r))

\* The compositor may stay silent for ever, also towards connect().  Only a
\* connect() whose socket died with the compositor is sure to end, even if the
\* compositor is up again by then (SF).
SilentSpec ==
  /\ Spec
  /\ PortalFairness
  /\ \A r \in Requests : SF_vars(ConnectRefused(r))

\* While it runs the compositor answers connect(), and calls keep coming.  It
\* may still stay silent towards every refresh and every capture.  The refreshes
\* on a dead connection meet its socket in the end: only so many callbacks were
\* queued before it died, and the deadline is not always over at once.
ServedSpec ==
  /\ Spec
  /\ PortalFairness
  /\ \A r \in Requests :
       /\ WF_vars(ConnectOk(r) \/ ConnectRefused(r) \/ ConnectRejected(r))
       /\ WF_vars(Call(r))
       /\ SF_vars(RefreshOnDead(r))

-----------------------------------------------------------------------------
(* Safety *)

\* Both mutexes: the cache mutex is held exactly while connecting, so that no
\* capture ever runs under it; the output registry of a connection is held
\* exactly while its owner refreshes it, so that nobody holds one mutex while
\* waiting for another (capture_buffer, refresh_outputs, select_output).
LockDiscipline ==
  /\ \A r \in Requests : cacheLock = r <=> pc[r] = "connect"
  /\ \A r \in Requests, c \in Conns :
       outputsLock[c] = r <=> pc[r] = "refreshing" /\ held[r] = c

\* A thread connects only while the cache is empty, and it stays empty under
\* its feet: no connection that another call stored is ever overwritten.
ConnectOnlyWhenEmpty == \A r \in Requests : pc[r] = "connect" => cache = NoConn

\* When a call has failed with a WaylandError, the connection it failed on is
\* no longer in the cache, whatever the other calls did meanwhile: the next
\* request does not repeat the failure (comment of capture_buffer).
ErrorEvicts ==
  \A r \in Requests :
    pc[r] = "joined" /\ outcome[r] = "wayland" /\ held[r] # NoConn => cache # held[r]

-----------------------------------------------------------------------------
(* Liveness *)

\* As long as the daemon serves, a cached connection whose socket died does not
\* stay in the cache.
DeadEvicted ==
  \A c \in Conns : cache = c /\ c \notin alive ~> cache # c \/ daemon # "running"

\* Every Screenshot or PickColor call is answered, by a result or an error, unless
\* the daemon is stopped first.
EveryRequestAnswered ==
  \A r \in Requests : pc[r] = "called" ~> pc[r] = "idle" \/ daemon # "running"

\* A signal ends the process: main() waits for the captures in progress, and all
\* of them end.
ShutdownEnds == daemon = "stopping" ~> daemon = "stopped"

=============================================================================
