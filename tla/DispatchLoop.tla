----------------------------- MODULE DispatchLoop -----------------------------
(***************************************************************************)
(* dispatch_until by several threads on one connection.  Each thread has a *)
(* queue of its own, but there is one socket, and whoever reads it fills   *)
(* the queues of all.                                                      *)
(*                                                                         *)
(* The guards are wayland-client's (external): the socket is read by the   *)
(* last thread that holds one, while those that asked to read before wait, *)
(* without a deadline; a guard that is dropped instead cancels their wait  *)
(* if it was the last.  A read that puts nothing on any queue is an error: *)
(* a piece of a message, or messages that have no queue (the deletion of an *)
(* id, an event of an object destroyed since).                             *)
(***************************************************************************)
EXTENDS Naturals, FiniteSets

CONSTANTS
  Threads,
  Events,         \* events a thread waits for, `done` holds after the last
  MaxFaults,      \* bound on what goes wrong outside: messages in two pieces or without
                  \* a queue, flushes into a full socket, polls that fail
  None

ASSUME DispatchAssumption ==
  /\ IsFiniteSet(Threads) /\ None \notin Threads
  /\ {Events, MaxFaults} \subseteq Nat

VARIABLES
  pc,          \* where each thread is, see Phases
  got,         \* events each thread has handled
  expired,     \* threads whose deadline has passed
  result,
  queue,       \* number of events on each thread's queue
  prepared,    \* number of guards
  failed,      \* the error the connection keeps after a failed read
  socket,      \* per thread, number of complete messages for it on the socket
  sent,        \* per thread, number of messages sent to it
  piece,       \* the recipient of a message of which only a piece was sent, or None
  unread,      \* is that piece still on the socket?
  silent,      \* is there a complete message on the socket that has no queue?
  dead,        \* has the compositor closed the socket?
  faults

threadVars == <<pc, got, result>>
serverVars == <<sent, piece, dead>>
vars == <<pc, got, expired, result, queue, prepared, failed, socket, sent, piece, unread, silent,
          dead, faults>>

\* dispatch  head of the loop
\* flush     `done` does not hold, the deadline has not passed
\* poll      holds a guard, sleeps in poll()
\* read      holds a guard, poll() says readable
\* wait      inside read(), until the last guard is gone
Phases == {"dispatch", "flush", "poll", "read", "wait", "done"}
Results == {"none", "ok", "timeout", "closed", "would block", "poll failed"}

TypeOK ==
  /\ pc \in [Threads -> Phases]
  /\ got \in [Threads -> 0 .. Events]
  /\ expired \subseteq Threads
  /\ result \in [Threads -> Results]
  /\ queue \in [Threads -> 0 .. Events] /\ socket \in [Threads -> 0 .. Events]
  /\ sent \in [Threads -> 0 .. Events]
  /\ prepared \in 0 .. Cardinality(Threads)
  /\ piece \in Threads \cup {None}
  /\ {failed, unread, silent, dead} \subseteq BOOLEAN
  /\ faults \in 0 .. MaxFaults

Zero == [t \in Threads |-> 0]

Init ==
  /\ pc = [t \in Threads |-> "dispatch"] /\ result = [t \in Threads |-> "none"]
  /\ expired = {} /\ got = Zero /\ queue = Zero /\ socket = Zero /\ sent = Zero
  /\ prepared = 0 /\ piece = None /\ failed = FALSE /\ dead = FALSE
  /\ unread = FALSE /\ silent = FALSE /\ faults = 0

-----------------------------------------------------------------------------
(* The guards (external) *)

Readable == dead \/ unread \/ silent \/ \E t \in Threads : socket[t] > 0

\* The threads inside read() return to their loops, or with the kept error.
Woken ==
  [t \in Threads |-> IF pc[t] # "wait" THEN pc[t] ELSE IF failed' THEN "done" ELSE "dispatch"]
WokenResult == [t \in Threads |-> IF pc[t] = "wait" /\ failed' THEN "closed" ELSE result[t]]

\* The guard of t is gone without a read; t goes to `phase` with result r.
Release(t, phase, r) ==
  /\ prepared' = prepared - 1
  /\ failed' = failed
  /\ IF prepared' = 0
       THEN /\ pc' = [Woken EXCEPT ![t] = phase]
            /\ result' = [WokenResult EXCEPT ![t] = r]
       ELSE /\ pc' = [pc EXCEPT ![t] = phase]
            /\ result' = [result EXCEPT ![t] = r]
  /\ UNCHANGED <<got, queue, socket, unread, silent, serverVars>>

\* t reads the socket: all that has a queue is put there.  That nothing has is
\* an error, but not one that the connection keeps.
ReadSocket(t) ==
  LET empty == \A u \in Threads : socket[u] = 0 IN
  /\ queue' = [u \in Threads |-> queue[u] + socket[u]]
  /\ socket' = Zero /\ unread' = FALSE /\ silent' = FALSE
  /\ failed' = (failed \/ dead)
  /\ \/ /\ failed'
        /\ pc' = [Woken EXCEPT ![t] = "done"]
        /\ result' = [WokenResult EXCEPT ![t] = "closed"]
     \/ /\ ~failed' /\ empty
        /\ pc' = [Woken EXCEPT ![t] = "done"]
        /\ result' = [result EXCEPT ![t] = "would block"]
     \/ /\ ~failed' /\ ~empty
        /\ pc' = [Woken EXCEPT ![t] = "dispatch"]
        /\ UNCHANGED result

-----------------------------------------------------------------------------
(* dispatch_until *)

\* The queue is emptied; then `done` and the deadline are looked at.
Dispatch(t) ==
  /\ pc[t] = "dispatch"
  /\ got' = [got EXCEPT ![t] = @ + queue[t]]
  /\ queue' = [queue EXCEPT ![t] = 0]
  /\ LET outcome == IF got'[t] = Events THEN "ok"
                    ELSE IF t \in expired THEN "timeout" ELSE "none" IN
       /\ result' = [result EXCEPT ![t] = outcome]
       /\ pc' = [pc EXCEPT ![t] = IF outcome = "none" THEN "flush" ELSE "done"]
  /\ UNCHANGED <<expired, prepared, failed, socket, unread, silent, faults, serverVars>>

\* Mutant: prepare_read does not look at the queue.
PrepareUnchecked(t) ==
  /\ pc[t] = "flush"
  /\ pc' = [pc EXCEPT ![t] = "poll"] /\ prepared' = prepared + 1
  /\ UNCHANGED <<got, result, queue, failed, expired, socket, unread, silent, faults, serverVars>>

\* The flush succeeds.  prepare_read gives a guard, unless another thread has
\* put events on the queue since it was emptied.
Prepare(t) ==
  /\ pc[t] = "flush"
  /\ IF queue[t] = 0
       THEN pc' = [pc EXCEPT ![t] = "poll"] /\ prepared' = prepared + 1
       ELSE pc' = [pc EXCEPT ![t] = "dispatch"] /\ UNCHANGED prepared
  /\ UNCHANGED <<got, result, queue, failed, expired, socket, unread, silent, faults, serverVars>>

\* The flush fails: the socket is closed, or it is full, which is no fault of
\* the connection but ends the call all the same.
FlushFails(t) ==
  /\ pc[t] = "flush"
  /\ \/ /\ dead
        /\ result' = [result EXCEPT ![t] = "closed"]
        /\ UNCHANGED faults
     \/ /\ ~dead /\ faults < MaxFaults
        /\ result' = [result EXCEPT ![t] = "would block"]
        /\ faults' = faults + 1
  /\ pc' = [pc EXCEPT ![t] = "done"]
  /\ UNCHANGED <<got, queue, prepared, failed, expired, socket, unread, silent, serverVars>>

PollReadable(t) ==
  /\ pc[t] = "poll" /\ Readable
  /\ pc' = [pc EXCEPT ![t] = "read"]
  /\ UNCHANGED <<got, result, queue, prepared, failed, expired, socket, unread, silent, faults,
                 serverVars>>

\* Mutant: rc = 0 is not told from rc > 0.
PollTimeoutReads(t) ==
  /\ pc[t] = "poll" /\ ~Readable /\ t \in expired
  /\ pc' = [pc EXCEPT ![t] = "read"]
  /\ UNCHANGED <<got, result, queue, prepared, failed, expired, socket, unread, silent, faults,
                 serverVars>>

\* poll() times out: the guard goes, the head of the loop looks at the clock.
PollTimeout(t) ==
  /\ pc[t] = "poll" /\ ~Readable /\ t \in expired
  /\ Release(t, "dispatch", "none")
  /\ UNCHANGED <<expired, faults>>

\* Mutant: the guard outlives the retry.
PollFailsHolding(t) ==
  /\ pc[t] = "poll"
  /\ faults < MaxFaults
  /\ faults' = faults + 1
  /\ pc' = [pc EXCEPT ![t] = "dispatch"]
  /\ UNCHANGED <<got, result, queue, prepared, failed, expired, socket, unread, silent, serverVars>>

\* poll() fails.  The guard goes first; then the loop goes round if it was a
\* signal that interrupted, and any other failure ends the call.
PollFails(t) ==
  /\ pc[t] = "poll"
  /\ faults < MaxFaults
  /\ faults' = faults + 1
  /\ Release(t, "dispatch", "none") \/ Release(t, "done", "poll failed")
  /\ UNCHANGED expired

\* guard.read(): the last one reads, the others wait for it.
Read(t) ==
  /\ pc[t] = "read"
  /\ prepared' = prepared - 1
  /\ IF prepared' = 0
       THEN ReadSocket(t)
       ELSE /\ pc' = [pc EXCEPT ![t] = "wait"]
            /\ UNCHANGED <<result, queue, failed, socket, unread, silent>>
  /\ UNCHANGED <<got, expired, faults, serverVars>>

\* The deadline of a call that has not returned passes.
Expire(t) ==
  /\ t \notin expired /\ pc[t] # "done"
  /\ expired' = expired \cup {t}
  /\ UNCHANGED <<threadVars, queue, prepared, failed, socket, unread, silent, faults, serverVars>>

-----------------------------------------------------------------------------
(* The compositor (external) *)

Send(t) ==
  /\ ~dead /\ piece = None /\ sent[t] < Events
  /\ sent' = [sent EXCEPT ![t] = @ + 1]
  /\ socket' = [socket EXCEPT ![t] = @ + 1]
  /\ UNCHANGED <<threadVars, queue, prepared, failed, expired, piece, unread, silent, dead, faults>>

\* Only the first piece of a message fits the socket's buffer.
SendPiece(t) ==
  /\ ~dead /\ piece = None /\ sent[t] < Events /\ faults < MaxFaults
  /\ faults' = faults + 1
  /\ piece' = t /\ unread' = TRUE
  /\ UNCHANGED <<threadVars, queue, prepared, failed, expired, socket, sent, silent, dead>>

SendRest ==
  /\ ~dead /\ piece # None
  /\ sent' = [sent EXCEPT ![piece] = @ + 1]
  /\ socket' = [socket EXCEPT ![piece] = @ + 1]
  /\ piece' = None /\ unread' = FALSE
  /\ UNCHANGED <<threadVars, queue, prepared, failed, expired, silent, dead, faults>>

\* A message for no queue: after the destroys of a capture the id is deleted,
\* and what was sent to the object before that is dropped.
SendSilent ==
  /\ ~dead /\ piece = None /\ faults < MaxFaults
  /\ faults' = faults + 1
  /\ silent' = TRUE
  /\ UNCHANGED <<threadVars, queue, prepared, failed, expired, socket, sent, piece, unread, dead>>

Close ==
  /\ ~dead
  /\ dead' = TRUE
  /\ UNCHANGED <<threadVars, queue, prepared, failed, expired, socket, unread, silent, sent, piece,
                 faults>>

-----------------------------------------------------------------------------

Step(t) ==
  \/ Dispatch(t) \/ Prepare(t) \/ FlushFails(t)
  \/ PollReadable(t) \/ PollTimeout(t) \/ PollFails(t) \/ Read(t)

Next ==
  \/ \E t \in Threads : Step(t) \/ Expire(t) \/ Send(t) \/ SendPiece(t)
  \/ SendRest \/ SendSilent \/ Close

Spec == Init /\ [][Next]_vars

\* A runnable thread runs, and poll() returns when it can.  Nothing is assumed
\* of the compositor, nor of the clock.
FairSpec == Spec /\ \A t \in Threads : WF_vars(Step(t))

-----------------------------------------------------------------------------
(* Safety *)

\* No wake-up is lost: nothing is on the queue of a thread that sleeps until the
\* socket is readable, whoever reads it meanwhile (comment at prepare_read).
SleepsOnEmptyQueue ==
  \A t \in Threads : pc[t] \in {"poll", "read", "wait"} => queue[t] = 0

\* What poll() told a thread is still so when its read is done: no thread takes
\* the events from under another, which would then report the empty socket as a
\* broken connection (a guard of each, read() by the last, in dispatch_until).
ReadableUntilRead == \A t \in Threads : pc[t] \in {"read", "wait"} => Readable

-----------------------------------------------------------------------------
(* Liveness *)

\* A call returns once its events are sent, its deadline passes or the socket
\* is closed, although it may have to wait in read() for threads that have
\* neither (comment at the poll: the next prepare_read must not deadlock).
Returns ==
  \A t \in Threads : sent[t] = Events \/ t \in expired \/ dead ~> pc[t] = "done"
================================================================================
