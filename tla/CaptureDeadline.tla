---------------------------- MODULE CaptureDeadline ----------------------------
(***************************************************************************)
(* The clock of capture_on: how long a request can wait on the compositor. *)
(*                                                                         *)
(* capture_on waits twice, each time under a deadline of its own: in       *)
(* refresh_outputs, which holds the mutex of the output registry all the   *)
(* while, and in the selected backend, whose attempts share one deadline.  *)
(* Between and before the two it may wait for that mutex, which has no     *)
(* deadline.  The compositor answers when it likes, or never.              *)
(*                                                                         *)
(* Time advances in Ticks.  A thread that can run does so before the next  *)
(* tick, so all the time that passes is spent waiting.  Each request is    *)
(* one capture on one cached connection; connect() has no deadline at all  *)
(* and is left out (see ScreenshotPortal).                                 *)
(***************************************************************************)
EXTENDS Naturals, FiniteSets

CONSTANTS
  Requests,     \* the captures that run at the same time
  Budget,       \* capture_timeout(), in ticks
  MaxAttempts,  \* attempts of the backend (weston: MAX_ATTEMPTS, agl: 2, wlr: 1)
  NoReq         \* nobody holds the mutex

ASSUME DeadlineAssumption ==
  /\ IsFiniteSet(Requests) /\ NoReq \notin Requests
  /\ Budget \in Nat
  /\ MaxAttempts \in Nat \ {0}

VARIABLES
  phase,    \* where each request is
  lock,     \* holder of the output registry's mutex
  left,     \* ticks until the deadline of the dispatch_until it is in
  attempt,  \* attempts its backend has made
  elapsed,  \* ticks since capture_on was called
  queued    \* ticks of those it spent waiting for the mutex

vars == <<phase, lock, left, attempt, elapsed, queued>>

N == Cardinality(Requests)

\* The counters stop one above the value any property looks at.
Cap == (N + 1) * Budget + 1

Waiting == {"refresh", "select"}         \* for the mutex
Dispatching == {"refreshing", "capture"} \* for the compositor

Phases == {"new", "done"} \cup Waiting \cup Dispatching

TypeOK ==
  /\ phase \in [Requests -> Phases]
  /\ lock \in Requests \cup {NoReq}
  /\ \A r \in Requests : lock = r <=> phase[r] = "refreshing"
  /\ left \in [Requests -> 0 .. Budget]
  /\ attempt \in [Requests -> 0 .. MaxAttempts]
  /\ elapsed \in [Requests -> 0 .. Cap]
  /\ queued \in [Requests -> 0 .. Cap]

Init ==
  /\ phase = [r \in Requests |-> "new"]
  /\ lock = NoReq
  /\ left = [r \in Requests |-> 0]
  /\ attempt = [r \in Requests |-> 0]
  /\ elapsed = [r \in Requests |-> 0]
  /\ queued = [r \in Requests |-> 0]

-----------------------------------------------------------------------------

Goto(r, p) == phase' = [phase EXCEPT ![r] = p]

StartClock(r) == left' = [left EXCEPT ![r] = Budget]

\* capture_on is called.
Enter(r) ==
  /\ phase[r] = "new"
  /\ Goto(r, "refresh")
  /\ UNCHANGED <<lock, left, attempt, elapsed, queued>>

\* refresh_outputs has the mutex; the deadline of the refresh starts now.
BeginRefresh(r) ==
  /\ phase[r] = "refresh"
  /\ lock = NoReq
  /\ lock' = r
  /\ StartClock(r)
  /\ Goto(r, "refreshing")
  /\ UNCHANGED <<attempt, elapsed, queued>>

\* Mutant: the guard outlives refresh_outputs.
EndRefreshForgotten(r) ==
  /\ phase[r] = "refreshing"
  /\ Goto(r, "select") \/ Goto(r, "done")
  /\ UNCHANGED <<lock, left, attempt, elapsed, queued>>

\* The sync callback, or the deadline, or the connection breaks.
EndRefresh(r) ==
  /\ phase[r] = "refreshing"
  /\ lock' = NoReq
  /\ Goto(r, "select") \/ Goto(r, "done")
  /\ UNCHANGED <<left, attempt, elapsed, queued>>

\* select_output has had the mutex and knows no such output, or there is no backend.
SelectNothing(r) ==
  /\ phase[r] = "select"
  /\ lock = NoReq
  /\ Goto(r, "done")
  /\ UNCHANGED <<lock, left, attempt, elapsed, queued>>

\* select_output has had the mutex; the backend takes a fresh deadline.
BeginCapture(r) ==
  /\ phase[r] = "select"
  /\ lock = NoReq
  /\ StartClock(r)
  /\ attempt' = [attempt EXCEPT ![r] = 1]
  /\ Goto(r, "capture")
  /\ UNCHANGED <<lock, elapsed, queued>>

\* Mutant: every attempt takes a deadline of its own.
RetryFreshClock(r) ==
  /\ phase[r] = "capture"
  /\ attempt[r] < MaxAttempts
  /\ attempt' = [attempt EXCEPT ![r] = @ + 1]
  /\ StartClock(r)
  /\ UNCHANGED <<phase, lock, elapsed, queued>>

\* The compositor wants another buffer: a new attempt, the same deadline.
Retry(r) ==
  /\ phase[r] = "capture"
  /\ attempt[r] < MaxAttempts
  /\ attempt' = [attempt EXCEPT ![r] = @ + 1]
  /\ UNCHANGED <<phase, lock, left, elapsed, queued>>

\* The compositor's last answer, or the deadline.
EndCapture(r) ==
  /\ phase[r] = "capture"
  /\ Goto(r, "done")
  /\ UNCHANGED <<lock, left, attempt, elapsed, queued>>

\* A thread that need not wait any longer: the mutex is free, or time is up.
MustRun(r) ==
  \/ phase[r] \in Waiting /\ lock = NoReq
  \/ phase[r] \in Dispatching /\ left[r] = 0

\* One tick passes for everybody.
Tick ==
  /\ \E r \in Requests : phase[r] \in Waiting \cup Dispatching
  /\ \A r \in Requests : ~MustRun(r)
  /\ left' = [r \in Requests |->
                IF phase[r] \in Dispatching /\ left[r] > 0 THEN left[r] - 1 ELSE left[r]]
  /\ elapsed' = [r \in Requests |->
                IF phase[r] \in Waiting \cup Dispatching /\ elapsed[r] < Cap
                  THEN elapsed[r] + 1 ELSE elapsed[r]]
  /\ queued' = [r \in Requests |->
                IF phase[r] \in Waiting /\ queued[r] < Cap THEN queued[r] + 1 ELSE queued[r]]
  /\ UNCHANGED <<phase, lock, attempt>>

Step(r) ==
  \/ Enter(r) \/ BeginRefresh(r) \/ EndRefresh(r)
  \/ SelectNothing(r) \/ BeginCapture(r) \/ Retry(r) \/ EndCapture(r)

Next == Tick \/ \E r \in Requests : Step(r)

Spec == Init /\ [][Next]_vars

-----------------------------------------------------------------------------

\* What the code does guarantee, however the compositor behaves.  Apart from the
\* mutex a capture waits for one budget in its refresh and for one in its
\* backend, whatever the number of attempts.
WaitsTwoBudgets == \A r \in Requests : elapsed[r] <= queued[r] + 2 * Budget

\* On the mutex it waits at most once for each other capture's refresh, so N
\* concurrent captures are all over after N refreshes and one capture.
WorstCase == \A r \in Requests : elapsed[r] <= (N + 1) * Budget

\* "The budget covers a whole capture, not each phase" (README of the
\* repository, XDP_AGL_CAPTURE_TIMEOUT_MS).
BudgetCoversCapture == \A r \in Requests : elapsed[r] <= Budget

================================================================================
