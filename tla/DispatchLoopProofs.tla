--------------------------- MODULE DispatchLoopProofs ---------------------------
(***************************************************************************)
(* No wake-up is lost and nobody reads an empty socket on the word of      *)
(* poll(), for any number of threads, events and faults.  Both rest on the *)
(* count of the guards: while a thread holds one nobody else reads, so     *)
(* that its queue stays empty and what poll() has told it stays true       *)
(* (Guarded, NobodyStranded).                                              *)
(***************************************************************************)
EXTENDS DispatchLoop, FiniteSetTheorems, TLAPS

Holders == {t \in Threads : pc[t] \in {"poll", "read"}}

\* Every event sent is on the socket, on a queue, or handled.
Counted ==
  /\ \A t \in Threads : got[t] + queue[t] + socket[t] = sent[t]
  /\ piece # None => sent[piece] < Events

Guarded ==
  /\ prepared = Cardinality(Holders)
  /\ \A t \in Threads : pc[t] = "read" => Readable

\* Whoever waits inside read() waits for a guard that will go: somebody else holds one,
\* and there is something to read, so that no holder sleeps in poll() for long.
NobodyStranded ==
  \A t \in Threads : pc[t] = "wait" =>
    Readable /\ \E holder \in Threads : pc[holder] \in {"poll", "read"}

IInv == TypeOK /\ Counted /\ Guarded /\ NobodyStranded /\ SleepsOnEmptyQueue

-----------------------------------------------------------------------------
(* Guards *)

\* The threads are finitely many, and so are the guards.
LEMMA HoldersFinite == IsFiniteSet(Holders)
BY DispatchAssumption, FS_Subset DEF Holders

\* Without a guard left, the thread that gives one up is the only one that held one.
LEMMA LastGuard ==
  ASSUME Guarded, NEW t \in Threads, t \in Holders, prepared' = prepared - 1
  PROVE  /\ prepared' = Cardinality(Holders \ {t})
         /\ prepared' = 0 => Holders = {t}
<1>1. /\ IsFiniteSet(Holders \ {t})
      /\ Cardinality(Holders \ {t}) = Cardinality(Holders) - 1
  BY HoldersFinite, FS_RemoveElement
<1>2. prepared' = Cardinality(Holders \ {t})
  BY <1>1 DEF Guarded
<1>3. prepared' = 0 => Holders \ {t} = {}
  BY <1>1, <1>2, FS_EmptySet
<1> QED
  BY <1>2, <1>3

\* The threads inside read() hold no guard, wherever they are sent to.
LEMMA WokenHolders ==
  ASSUME TypeOK, NEW u \in Threads
  PROVE  /\ Woken[u] \in Phases
         /\ Woken[u] \in {"poll", "read"} => Woken[u] = pc[u] /\ u \in Holders
         /\ Woken[u] # "wait"
         /\ WokenResult[u] \in Results
BY DEF TypeOK, Woken, WokenResult, Phases, Results, Holders

-----------------------------------------------------------------------------
(* Every variable but the number of guards keeps its type, and events are *)
(* neither lost nor made up.                                              *)

Typed ==
  /\ pc \in [Threads -> Phases] /\ got \in [Threads -> 0 .. Events]
  /\ expired \subseteq Threads /\ result \in [Threads -> Results]
  /\ queue \in [Threads -> 0 .. Events] /\ socket \in [Threads -> 0 .. Events]
  /\ sent \in [Threads -> 0 .. Events]
  /\ piece \in Threads \cup {None} /\ {failed, unread, silent, dead} \subseteq BOOLEAN
  /\ faults \in 0 .. MaxFaults

\* A guard that is dropped moves threads, not events.
LEMMA ReleaseTyped ==
  ASSUME TypeOK, NEW t \in Threads, NEW phase \in Phases, NEW r \in Results, Release(t, phase, r)
  PROVE  /\ pc' \in [Threads -> Phases] /\ result' \in [Threads -> Results] /\ failed' = failed
         /\ pc'[t] = phase
         /\ \A u \in Threads \ {t} : pc'[u] = pc[u] \/ (pc[u] = "wait" /\ pc'[u] \in {"dispatch", "done"})
         /\ UNCHANGED <<got, queue, socket, unread, silent, sent, piece, dead>>
<1>1. CASE prepared' = 0
  <2>1. pc' = [Woken EXCEPT ![t] = phase] /\ result' = [WokenResult EXCEPT ![t] = r]
    BY <1>1 DEF Release
  <2>2. /\ Woken \in [Threads -> Phases] /\ WokenResult \in [Threads -> Results]
        /\ \A u \in Threads : Woken[u] = pc[u] \/ (pc[u] = "wait" /\ Woken[u] \in {"dispatch", "done"})
    BY DEF TypeOK, Woken, WokenResult, Phases, Results
  <2> QED
    BY <2>1, <2>2 DEF Release, serverVars
<1>2. CASE prepared' # 0
  BY <1>2 DEF Release, serverVars, TypeOK
<1> QED
  BY <1>1, <1>2

\* The thread that reads puts all events on the queues and wakes the others.
LEMMA ReadSocketTyped ==
  ASSUME TypeOK, Counted, NEW t \in Threads, ReadSocket(t)
  PROVE  /\ pc' \in [Threads -> Phases] /\ result' \in [Threads -> Results]
         /\ queue' \in [Threads -> 0 .. Events] /\ socket' \in [Threads -> 0 .. Events]
         /\ \A u \in Threads : queue'[u] = queue[u] + socket[u] /\ socket'[u] = 0
         /\ failed' \in BOOLEAN /\ unread' = FALSE /\ silent' = FALSE
         /\ pc'[t] \in {"dispatch", "done"}
         /\ \A u \in Threads \ {t} : pc'[u] = pc[u] \/ (pc[u] = "wait" /\ pc'[u] \in {"dispatch", "done"})
         /\ pc'[t] # "wait" /\ \A u \in Threads \ {t} : pc'[u] # "wait"
<1> USE DispatchAssumption
<1>1. /\ queue' = [u \in Threads |-> queue[u] + socket[u]] /\ socket' = [u \in Threads |-> 0]
      /\ unread' = FALSE /\ failed' \in BOOLEAN /\ silent' = FALSE
  BY DEF ReadSocket, Zero
<1>2. ASSUME NEW u \in Threads
      PROVE  queue[u] + socket[u] \in 0 .. Events
  <2>1. /\ got[u] \in 0 .. Events /\ queue[u] \in 0 .. Events /\ socket[u] \in 0 .. Events
        /\ sent[u] \in 0 .. Events /\ got[u] + queue[u] + socket[u] = sent[u] /\ Events \in Nat
    BY DEF TypeOK, Counted
  <2> QED
    BY <2>1
<1>3. queue' \in [Threads -> 0 .. Events] /\ socket' \in [Threads -> 0 .. Events]
  BY <1>1, <1>2
<1>4. /\ Woken \in [Threads -> Phases] /\ WokenResult \in [Threads -> Results]
      /\ \A u \in Threads : Woken[u] = pc[u] \/ (pc[u] = "wait" /\ Woken[u] \in {"dispatch", "done"})
      /\ \A u \in Threads : Woken[u] # "wait"
  BY DEF TypeOK, Woken, WokenResult, Phases, Results
<1>5. PICK phase \in {"dispatch", "done"} : pc' = [Woken EXCEPT ![t] = phase]
  BY DEF ReadSocket
<1>6. result' \in [Threads -> Results]
  BY <1>4 DEF ReadSocket, Results, TypeOK
<1>7. pc' \in [Threads -> Phases]
  BY <1>4, <1>5 DEF Phases
<1> QED
  BY <1>1, <1>3, <1>4, <1>5, <1>6, <1>7

\* A step keeps types and counts.
LEMMA StepTyped ==
  ASSUME TypeOK, Counted, [Next]_vars
  PROVE  Typed' /\ Counted'
<1> USE DispatchAssumption
<1>1. ASSUME NEW t \in Threads, Dispatch(t)
      PROVE  Typed' /\ Counted'
  <2>1. /\ got[t] \in 0 .. Events /\ queue[t] \in 0 .. Events /\ socket[t] \in 0 .. Events
        /\ sent[t] \in 0 .. Events /\ got[t] + queue[t] + socket[t] = sent[t] /\ Events \in Nat
    BY DEF TypeOK, Counted
  <2>2. got[t] + queue[t] \in 0 .. Events
    BY <2>1
  <2>3. got' \in [Threads -> 0 .. Events] /\ queue' \in [Threads -> 0 .. Events]
    BY <1>1, <2>1, <2>2 DEF Dispatch, TypeOK
  <2>4. pc' \in [Threads -> Phases] /\ result' \in [Threads -> Results]
    BY <1>1 DEF Dispatch, TypeOK, Phases, Results
  <2>5. UNCHANGED <<expired, failed, socket, unread, silent, faults, sent, piece, dead>>
    BY <1>1 DEF Dispatch, serverVars
  <2>6. ASSUME NEW u \in Threads
        PROVE  got'[u] + queue'[u] + socket'[u] = sent'[u]
    <3>1. CASE u = t
      <4>1. got'[t] = got[t] + queue[t] /\ queue'[t] = 0
        BY <1>1 DEF Dispatch, TypeOK
      <4> QED
        BY <2>1, <2>5, <3>1, <4>1
    <3>2. CASE u # t
      <4>1. got'[u] = got[u] /\ queue'[u] = queue[u]
        BY <1>1, <3>2 DEF Dispatch, TypeOK
      <4> QED
        BY <2>5, <4>1 DEF Counted
    <3> QED
      BY <3>1, <3>2
  <2>7. Counted'
    BY <2>5, <2>6 DEF Counted
  <2> QED
    BY <2>3, <2>4, <2>5, <2>7 DEF Typed, TypeOK
<1>2. ASSUME NEW t \in Threads, Prepare(t) \/ FlushFails(t) \/ PollReadable(t)
      PROVE  Typed' /\ Counted'
  <2>1. pc' \in [Threads -> Phases] /\ result' \in [Threads -> Results]
    BY <1>2 DEF Prepare, FlushFails, PollReadable, TypeOK, Phases, Results
  <2>2. UNCHANGED <<got, queue, expired, failed, socket, unread, silent, sent, piece, dead>>
    BY <1>2 DEF Prepare, FlushFails, PollReadable, serverVars
  <2>3. faults' \in 0 .. MaxFaults
    <3>1. faults' = faults \/ (faults < MaxFaults /\ faults' = faults + 1)
      BY <1>2 DEF Prepare, FlushFails, PollReadable
    <3> QED
      BY <3>1 DEF TypeOK
  <2> QED
    BY <2>1, <2>2, <2>3 DEF Typed, Counted, TypeOK
<1>3. ASSUME NEW t \in Threads, PollTimeout(t) \/ PollFails(t)
      PROVE  Typed' /\ Counted'
  <2>1. faults' \in 0 .. MaxFaults
    <3>1. faults' = faults \/ (faults < MaxFaults /\ faults' = faults + 1)
      BY <1>3 DEF PollTimeout, PollFails
    <3>2. faults \in 0 .. MaxFaults /\ MaxFaults \in Nat
      BY DEF TypeOK
    <3> QED
      BY <3>1, <3>2
  <2>2. expired' = expired
    BY <1>3 DEF PollTimeout, PollFails
  <2>3. PICK phase \in {"dispatch", "done"}, r \in {"none", "poll failed"} : Release(t, phase, r)
    BY <1>3 DEF PollTimeout, PollFails
  <2>4. /\ pc' \in [Threads -> Phases] /\ result' \in [Threads -> Results] /\ failed' = failed
        /\ UNCHANGED <<got, queue, socket, unread, silent, sent, piece, dead>>
    BY <2>3, ReleaseTyped DEF Phases, Results
  <2> QED
    BY <2>1, <2>2, <2>4 DEF Typed, Counted, TypeOK
<1>4. ASSUME NEW t \in Threads, Read(t)
      PROVE  Typed' /\ Counted'
  <2>1. UNCHANGED <<got, expired, faults, sent, piece, dead>>
    BY <1>4 DEF Read, serverVars
  <2>2. CASE ReadSocket(t)
    <3>1. /\ pc' \in [Threads -> Phases] /\ result' \in [Threads -> Results]
          /\ queue' \in [Threads -> 0 .. Events] /\ socket' \in [Threads -> 0 .. Events]
          /\ \A u \in Threads : queue'[u] = queue[u] + socket[u] /\ socket'[u] = 0
          /\ failed' \in BOOLEAN /\ unread' = FALSE /\ silent' = FALSE
      BY <2>2, ReadSocketTyped
    <3>2. ASSUME NEW u \in Threads
          PROVE  got'[u] + queue'[u] + socket'[u] = sent'[u]
      <4>1. /\ got[u] \in 0 .. Events /\ queue[u] \in 0 .. Events /\ socket[u] \in 0 .. Events
            /\ got[u] + queue[u] + socket[u] = sent[u]
        BY DEF TypeOK, Counted
      <4> QED
        BY <2>1, <3>1, <4>1
    <3>3. Counted'
      BY <2>1, <3>2 DEF Counted
    <3> QED
      BY <2>1, <3>1, <3>3 DEF Typed, TypeOK
  <2>3. CASE /\ pc' = [pc EXCEPT ![t] = "wait"]
             /\ UNCHANGED <<result, queue, failed, socket, unread, silent>>
    BY <2>1, <2>3 DEF Typed, Counted, TypeOK, Phases
  <2> QED
    BY <1>4, <2>2, <2>3 DEF Read
<1>5. ASSUME NEW t \in Threads, Expire(t)
      PROVE  Typed' /\ Counted'
  BY <1>5 DEF Expire, threadVars, serverVars, Typed, Counted, TypeOK
<1>6. ASSUME NEW t \in Threads, sent[t] < Events,
             sent' = [sent EXCEPT ![t] = @ + 1], socket' = [socket EXCEPT ![t] = @ + 1],
             UNCHANGED <<got, queue>>
      PROVE  /\ sent' \in [Threads -> 0 .. Events] /\ socket' \in [Threads -> 0 .. Events]
             /\ \A u \in Threads : got'[u] + queue'[u] + socket'[u] = sent'[u]
  <2>1. /\ got[t] \in 0 .. Events /\ queue[t] \in 0 .. Events /\ socket[t] \in 0 .. Events
        /\ sent[t] \in 0 .. Events /\ got[t] + queue[t] + socket[t] = sent[t] /\ Events \in Nat
    BY DEF TypeOK, Counted
  <2>2. sent[t] + 1 \in 0 .. Events /\ socket[t] + 1 \in 0 .. Events
    BY <1>6, <2>1
  <2>3. sent' \in [Threads -> 0 .. Events] /\ socket' \in [Threads -> 0 .. Events]
    BY <1>6, <2>2 DEF TypeOK
  <2>4. ASSUME NEW u \in Threads
        PROVE  got'[u] + queue'[u] + socket'[u] = sent'[u]
    <3>1. CASE u = t
      <4>1. sent'[t] = sent[t] + 1 /\ socket'[t] = socket[t] + 1
        BY <1>6 DEF TypeOK
      <4> QED
        BY <1>6, <2>1, <3>1, <4>1
    <3>2. CASE u # t
      <4>1. sent'[u] = sent[u] /\ socket'[u] = socket[u]
        BY <1>6, <3>2 DEF TypeOK
      <4> QED
        BY <1>6, <4>1 DEF Counted
    <3> QED
      BY <3>1, <3>2
  <2> QED
    BY <2>3, <2>4
<1>7. ASSUME NEW t \in Threads, Send(t)
      PROVE  Typed' /\ Counted'
  <2>1. /\ sent' \in [Threads -> 0 .. Events] /\ socket' \in [Threads -> 0 .. Events]
        /\ \A u \in Threads : got'[u] + queue'[u] + socket'[u] = sent'[u]
    BY <1>6, <1>7 DEF Send, threadVars
  <2>2. /\ UNCHANGED <<pc, got, result, queue, expired, failed, unread, silent, dead, faults>>
        /\ piece = None /\ piece' = None
    BY <1>7 DEF Send, threadVars
  <2> QED
    BY <2>1, <2>2 DEF Typed, Counted, TypeOK
<1>8. ASSUME NEW t \in Threads, SendPiece(t)
      PROVE  Typed' /\ Counted'
  <2>1. /\ piece' = t /\ sent[t] < Events /\ unread' = TRUE
        /\ faults' \in 0 .. MaxFaults
        /\ UNCHANGED <<pc, got, result, queue, expired, failed, socket, sent, silent, dead>>
    BY <1>8 DEF SendPiece, threadVars, TypeOK
  <2> QED
    BY <2>1 DEF Typed, Counted, TypeOK
<1>9. CASE SendRest
  <2>1. piece \in Threads /\ sent[piece] < Events
    BY <1>9 DEF SendRest, TypeOK, Counted
  <2>2. /\ sent' \in [Threads -> 0 .. Events] /\ socket' \in [Threads -> 0 .. Events]
        /\ \A u \in Threads : got'[u] + queue'[u] + socket'[u] = sent'[u]
    BY <1>6, <1>9, <2>1 DEF SendRest, threadVars
  <2>3. /\ UNCHANGED <<pc, got, result, queue, expired, failed, silent, dead, faults>>
        /\ piece' = None /\ unread' = FALSE
    BY <1>9 DEF SendRest, threadVars
  <2> QED
    BY <2>2, <2>3 DEF Typed, Counted, TypeOK
<1>10. CASE SendSilent \/ Close
  <2>1. /\ faults' = faults \/ (faults < MaxFaults /\ faults' = faults + 1)
        /\ silent' \in BOOLEAN /\ dead' \in BOOLEAN
    BY <1>10 DEF SendSilent, Close, TypeOK
  <2>2. UNCHANGED <<pc, got, result, queue, expired, failed, socket, sent, piece, unread>>
    BY <1>10 DEF SendSilent, Close, threadVars
  <2> QED
    BY <2>1, <2>2 DEF Typed, Counted, TypeOK
<1>11. CASE UNCHANGED vars
  BY <1>11 DEF vars, Typed, Counted, TypeOK
<1> QED
  BY <1>1, <1>2, <1>3, <1>4, <1>5, <1>7, <1>8, <1>9, <1>10, <1>11 DEF Next, Step

-----------------------------------------------------------------------------
(* Who holds a guard, and what that is worth *)

\* A thread gives up the guard that it holds; nobody else gets one.
LEMMA GuardGone ==
  ASSUME TypeOK, Guarded, NEW t \in Threads, pc[t] \in {"poll", "read"},
         prepared' = prepared - 1, pc'[t] \notin {"poll", "read"},
         \A u \in Threads \ {t} :
           pc'[u] = pc[u] \/ (pc[u] = "wait" /\ pc'[u] \in {"wait", "dispatch", "done"})
  PROVE  prepared' = Cardinality(Holders') /\ (prepared' = 0 => Holders = {t})
<1>1. t \in Holders
  BY DEF Holders
<1>2. prepared' = Cardinality(Holders \ {t}) /\ (prepared' = 0 => Holders = {t})
  BY <1>1, LastGuard
<1>3. Holders' = Holders \ {t}
  BY DEF Holders
<1> QED
  BY <1>2, <1>3

\* The guards are counted; what is readable stays so while somebody holds one.
LEMMA StepGuarded ==
  ASSUME TypeOK, Counted, Guarded, [Next]_vars
  PROVE  Guarded'
<1> USE DispatchAssumption
<1>1. ASSUME NEW t \in Threads, pc[t] \notin {"poll", "read"},
             NEW phase \in {"flush", "dispatch", "done"}, pc' = [pc EXCEPT ![t] = phase],
             UNCHANGED <<prepared, socket, unread, silent, dead>>
      PROVE  Guarded'
  <2>1. Holders' = Holders
    BY <1>1 DEF Holders, TypeOK
  <2>2. ASSUME NEW u \in Threads, pc'[u] = "read"
        PROVE  pc[u] = "read"
    BY <1>1, <2>2 DEF TypeOK
  <2> QED
    BY <1>1, <2>1, <2>2 DEF Guarded, Readable
<1>2. ASSUME NEW t \in Threads, Dispatch(t)
      PROVE  Guarded'
  <2>1. PICK phase \in {"flush", "done"} : pc' = [pc EXCEPT ![t] = phase]
    BY <1>2 DEF Dispatch
  <2> QED
    BY <1>1, <1>2, <2>1 DEF Dispatch, serverVars
<1>3. ASSUME NEW t \in Threads, Prepare(t)
      PROVE  Guarded'
  <2>1. CASE pc' = [pc EXCEPT ![t] = "poll"] /\ prepared' = prepared + 1
    <3>1. t \notin Holders /\ Holders' = Holders \cup {t}
      BY <1>3, <2>1 DEF Prepare, Holders, TypeOK
    <3>2. Cardinality(Holders') = Cardinality(Holders) + 1
      BY <3>1, HoldersFinite, FS_AddElement
    <3>3. ASSUME NEW u \in Threads, pc'[u] = "read"
          PROVE  pc[u] = "read"
      BY <2>1, <3>3 DEF TypeOK
    <3>4. UNCHANGED <<socket, unread, silent, dead>>
      BY <1>3 DEF Prepare, serverVars
    <3> QED
      BY <2>1, <3>2, <3>3, <3>4 DEF Guarded, Readable
  <2>2. CASE pc' = [pc EXCEPT ![t] = "dispatch"] /\ UNCHANGED prepared
    BY <1>1, <1>3, <2>2 DEF Prepare, serverVars
  <2> QED
    BY <1>3, <2>1, <2>2 DEF Prepare
<1>4. ASSUME NEW t \in Threads, FlushFails(t)
      PROVE  Guarded'
  BY <1>1, <1>4 DEF FlushFails, serverVars
<1>5. ASSUME NEW t \in Threads, PollReadable(t)
      PROVE  Guarded'
  <2>1. Holders' = Holders
    BY <1>5 DEF PollReadable, Holders, TypeOK
  <2>2. UNCHANGED <<prepared, socket, unread, silent, dead>> /\ Readable
    BY <1>5 DEF PollReadable, serverVars
  <2> QED
    BY <2>1, <2>2 DEF Guarded, Readable
<1>6. ASSUME NEW t \in Threads, PollTimeout(t) \/ PollFails(t)
      PROVE  Guarded'
  <2>0. PICK phase \in {"dispatch", "done"}, r \in {"none", "poll failed"} : Release(t, phase, r)
    BY <1>6 DEF PollTimeout, PollFails
  <2>1. Release(t, phase, r) /\ pc[t] = "poll" /\ prepared' = prepared - 1
    BY <1>6, <2>0 DEF PollTimeout, PollFails, Release
  <2>2. /\ pc'[t] \in {"dispatch", "done"}
        /\ \A u \in Threads \ {t} :
             pc'[u] = pc[u] \/ (pc[u] = "wait" /\ pc'[u] \in {"dispatch", "done"})
        /\ UNCHANGED <<socket, unread, silent, dead>>
    BY <2>1, ReleaseTyped DEF Phases, Results
  <2>3. prepared' = Cardinality(Holders')
    BY <2>1, <2>2, GuardGone
  <2>4. ASSUME NEW u \in Threads, pc'[u] = "read"
        PROVE  pc[u] = "read"
    BY <2>2, <2>4
  <2> QED
    BY <2>2, <2>3, <2>4 DEF Guarded, Readable
<1>7. ASSUME NEW t \in Threads, Read(t)
      PROVE  Guarded'
  <2>1. pc[t] = "read" /\ prepared' = prepared - 1 /\ UNCHANGED dead
    BY <1>7 DEF Read, serverVars
  <2>2. CASE prepared' = 0 /\ ReadSocket(t)
    <3>1. /\ pc'[t] \in {"dispatch", "done"} /\ unread' = FALSE
          /\ \A u \in Threads \ {t} :
               pc'[u] = pc[u] \/ (pc[u] = "wait" /\ pc'[u] \in {"dispatch", "done"})
      BY <2>2, ReadSocketTyped
    <3>2. prepared' = Cardinality(Holders') /\ Holders = {t}
      BY <2>1, <2>2, <3>1, GuardGone
    <3>3. \A u \in Threads : pc'[u] # "read"
      BY <3>1, <3>2 DEF Holders
    <3> QED
      BY <3>1, <3>2, <3>3 DEF Guarded
  <2>3. CASE pc' = [pc EXCEPT ![t] = "wait"] /\ UNCHANGED <<socket, unread, silent>>
    <3>1. /\ pc'[t] = "wait"
          /\ \A u \in Threads \ {t} : pc'[u] = pc[u]
      BY <2>3 DEF TypeOK
    <3>2. prepared' = Cardinality(Holders')
      BY <2>1, <3>1, GuardGone
    <3>3. ASSUME NEW u \in Threads, pc'[u] = "read"
          PROVE  pc[u] = "read"
      BY <3>1, <3>3
    <3> QED
      BY <2>1, <2>3, <3>2, <3>3 DEF Guarded, Readable
  <2> QED
    BY <1>7, <2>2, <2>3 DEF Read
<1>8. ASSUME UNCHANGED <<pc, prepared>>, Readable => Readable'
      PROVE  Guarded'
  BY <1>8 DEF Guarded, Holders
<1>9. ASSUME NEW t \in Threads, Expire(t)
      PROVE  Guarded'
  BY <1>8, <1>9 DEF Expire, threadVars, serverVars, Readable, Guarded
<1>10. ASSUME NEW t \in Threads, socket' = [socket EXCEPT ![t] = @ + 1]
       PROVE  Readable'
  <2>1. socket'[t] > 0
    BY <1>10 DEF TypeOK
  <2> QED
    BY <2>1 DEF Readable
<1>11. ASSUME NEW t \in Threads, Send(t)
       PROVE  Guarded'
  BY <1>8, <1>10, <1>11 DEF Send, threadVars, Guarded
<1>12. ASSUME NEW t \in Threads, SendPiece(t)
       PROVE  Guarded'
  <2>1. unread' /\ UNCHANGED <<pc, prepared>>
    BY <1>12 DEF SendPiece, threadVars, TypeOK
  <2> QED
    BY <1>8, <2>1 DEF Readable
<1>13. CASE SendRest
  <2>1. /\ piece \in Threads /\ socket' = [socket EXCEPT ![piece] = @ + 1] /\ ~unread'
        /\ UNCHANGED <<pc, prepared>>
    BY <1>13 DEF SendRest, threadVars, TypeOK
  <2> QED
    BY <1>8, <1>10, <2>1
<1>14. CASE SendSilent \/ Close
  BY <1>8, <1>14 DEF SendSilent, Close, threadVars, Readable, Guarded
<1>15. CASE UNCHANGED vars
  BY <1>8, <1>15 DEF vars, Readable, Guarded
<1> QED
  BY <1>2, <1>3, <1>4, <1>5, <1>6, <1>7, <1>9, <1>11, <1>12, <1>13, <1>14, <1>15 DEF Next, Step

\* A thread that begins to wait leaves somebody who can read behind, and the socket is
\* read, or a waiting thread's wait is cancelled, only with the last guard.
LEMMA StepStranded ==
  ASSUME TypeOK, Counted, Guarded, NobodyStranded, [Next]_vars
  PROVE  NobodyStranded'
<1> USE DispatchAssumption
<1>1. ASSUME Readable => Readable',
             \A u \in Threads : /\ pc[u] \in {"poll", "read"} => pc'[u] \in {"poll", "read"}
                                /\ pc'[u] = "wait" => pc[u] = "wait"
      PROVE  NobodyStranded'
  BY <1>1 DEF NobodyStranded
<1>2. ASSUME \A u \in Threads : pc'[u] # "wait"
      PROVE  NobodyStranded'
  BY <1>2 DEF NobodyStranded
<1>3. ASSUME prepared' = Cardinality(Holders'), prepared' # 0
      PROVE  \E holder \in Threads : pc'[holder] \in {"poll", "read"}
  <2>1. Holders' # {}
    BY <1>3, FS_EmptySet
  <2> QED
    BY <2>1 DEF Holders
<1>4. ASSUME NEW t \in Threads, Dispatch(t) \/ Prepare(t) \/ FlushFails(t)
      PROVE  NobodyStranded'
  <2>1. pc[t] \in {"dispatch", "flush"}
    BY <1>4 DEF Dispatch, Prepare, FlushFails
  <2>2. PICK phase \in {"dispatch", "flush", "poll", "done"} : pc' = [pc EXCEPT ![t] = phase]
    BY <1>4 DEF Dispatch, Prepare, FlushFails
  <2>3. UNCHANGED <<socket, unread, silent, dead>>
    BY <1>4 DEF Dispatch, Prepare, FlushFails, serverVars
  <2> QED
    BY <1>1, <2>1, <2>2, <2>3 DEF TypeOK, Readable
<1>5. ASSUME NEW t \in Threads, PollReadable(t)
      PROVE  NobodyStranded'
  BY <1>1, <1>5 DEF PollReadable, serverVars, TypeOK, Readable
<1>6. ASSUME NEW t \in Threads, pc[t] = "poll",
             NEW phase \in {"dispatch", "done"}, NEW r \in Results, Release(t, phase, r)
      PROVE  /\ \A u \in Threads : pc'[u] = "wait" => pc[u] = "wait" /\ prepared' # 0
             /\ prepared' = Cardinality(Holders')
             /\ UNCHANGED <<socket, unread, silent, dead>>
  <2>1. /\ pc'[t] \in {"dispatch", "done"}
        /\ \A u \in Threads \ {t} :
             pc'[u] = pc[u] \/ (pc[u] = "wait" /\ pc'[u] \in {"dispatch", "done"})
        /\ UNCHANGED <<socket, unread, silent, dead>>
    BY <1>6, ReleaseTyped DEF Phases
  <2>2. prepared' = Cardinality(Holders')
    BY <1>6, <2>1, GuardGone DEF Release
  <2>3. ASSUME prepared' = 0, NEW u \in Threads
        PROVE  pc'[u] # "wait"
    <3>1. pc' = [Woken EXCEPT ![t] = phase] /\ Woken \in [Threads -> Phases]
      BY <1>6, <2>3, WokenHolders DEF Release, Woken
    <3> QED
      BY <3>1, WokenHolders
  <2> QED
    BY <2>1, <2>2, <2>3
<1>7. ASSUME NEW t \in Threads, PollTimeout(t)
      PROVE  NobodyStranded'
  <2>1. \A u \in Threads : pc[u] # "wait"
    BY <1>7 DEF PollTimeout, NobodyStranded
  <2> QED
    BY <1>2, <1>6, <1>7, <2>1 DEF PollTimeout, Results
<1>8. ASSUME NEW t \in Threads, PollFails(t)
      PROVE  NobodyStranded'
  <2>1. /\ \A u \in Threads : pc'[u] = "wait" => pc[u] = "wait" /\ prepared' # 0
        /\ prepared' = Cardinality(Holders')
        /\ UNCHANGED <<socket, unread, silent, dead>>
    BY <1>6, <1>8 DEF PollFails, Results
  <2>2. Readable' = Readable
    BY <2>1 DEF Readable
  <2> QED
    BY <1>3, <2>1, <2>2 DEF NobodyStranded
<1>9. ASSUME NEW t \in Threads, Read(t)
      PROVE  NobodyStranded'
  <2>1. pc[t] = "read" /\ prepared' = prepared - 1 /\ UNCHANGED dead
    BY <1>9 DEF Read, serverVars
  <2>2. CASE prepared' = 0 /\ ReadSocket(t)
    BY <1>2, <2>2, ReadSocketTyped
  <2>3. CASE prepared' # 0 /\ pc' = [pc EXCEPT ![t] = "wait"] /\ UNCHANGED <<socket, unread, silent>>
    <3>1. pc'[t] = "wait" /\ \A u \in Threads \ {t} : pc'[u] = pc[u]
      BY <2>3 DEF TypeOK
    <3>2. prepared' = Cardinality(Holders')
      BY <2>1, <3>1, GuardGone
    <3>3. Readable'
      BY <2>1, <2>3 DEF Guarded, Readable
    <3> QED
      BY <1>3, <2>3, <3>2, <3>3 DEF NobodyStranded
  <2> QED
    BY <1>9, <2>2, <2>3 DEF Read
<1>10. ASSUME NEW t \in Threads, socket' = [socket EXCEPT ![t] = @ + 1]
       PROVE  Readable'
  <2>1. socket'[t] > 0
    BY <1>10 DEF TypeOK
  <2> QED
    BY <2>1 DEF Readable
<1>11. ASSUME NEW t \in Threads, Expire(t) \/ Send(t) \/ SendPiece(t)
       PROVE  NobodyStranded'
  <2>1. pc' = pc
    BY <1>11 DEF Expire, Send, SendPiece, threadVars
  <2>2. Readable => Readable'
    BY <1>10, <1>11 DEF Expire, Send, SendPiece, serverVars, Readable
  <2> QED
    BY <1>1, <2>1, <2>2
<1>12. CASE SendRest
  <2>1. /\ piece \in Threads /\ socket' = [socket EXCEPT ![piece] = @ + 1] /\ pc' = pc
    BY <1>12 DEF SendRest, threadVars, TypeOK
  <2> QED
    BY <1>1, <1>10, <2>1
<1>13. CASE SendSilent \/ Close \/ UNCHANGED vars
  BY <1>1, <1>13 DEF SendSilent, Close, vars, threadVars, Readable
<1> QED
  BY <1>4, <1>5, <1>7, <1>8, <1>9, <1>11, <1>12, <1>13 DEF Next, Step

\* The queue of a thread that sleeps stays empty.
LEMMA StepSleeps ==
  ASSUME TypeOK, Counted, Guarded, SleepsOnEmptyQueue, [Next]_vars
  PROVE  SleepsOnEmptyQueue'
<1>1. ASSUME queue' = queue,
             \A u \in Threads : pc'[u] \in {"poll", "read", "wait"} =>
               queue[u] = 0 \/ pc[u] \in {"poll", "read", "wait"}
      PROVE  SleepsOnEmptyQueue'
  BY <1>1 DEF SleepsOnEmptyQueue
<1>2. ASSUME NEW t \in Threads, Dispatch(t)
      PROVE  SleepsOnEmptyQueue'
  <2>1. PICK phase \in {"flush", "done"} : pc' = [pc EXCEPT ![t] = phase]
    BY <1>2 DEF Dispatch
  <2>2. queue' = [queue EXCEPT ![t] = 0]
    BY <1>2 DEF Dispatch
  <2> QED
    BY <2>1, <2>2 DEF SleepsOnEmptyQueue, TypeOK
<1>3. ASSUME NEW t \in Threads, Prepare(t) \/ FlushFails(t) \/ PollReadable(t)
      PROVE  SleepsOnEmptyQueue'
  BY <1>1, <1>3 DEF Prepare, FlushFails, PollReadable, TypeOK
<1>4. ASSUME NEW t \in Threads, PollTimeout(t) \/ PollFails(t)
      PROVE  SleepsOnEmptyQueue'
  <2>1. PICK phase \in {"dispatch", "done"}, r \in {"none", "poll failed"} : Release(t, phase, r)
    BY <1>4 DEF PollTimeout, PollFails
  <2>2. /\ pc'[t] \in {"dispatch", "done"} /\ queue' = queue
        /\ \A u \in Threads \ {t} :
             pc'[u] = pc[u] \/ (pc[u] = "wait" /\ pc'[u] \in {"dispatch", "done"})
    BY <2>1, ReleaseTyped DEF Phases, Results
  <2> QED
    BY <1>1, <2>2
<1>5. ASSUME NEW t \in Threads, Read(t)
      PROVE  SleepsOnEmptyQueue'
  <2>1. pc[t] = "read" /\ prepared' = prepared - 1
    BY <1>5 DEF Read
  <2>2. CASE prepared' = 0 /\ ReadSocket(t)
    <3>1. /\ pc'[t] \in {"dispatch", "done"}
          /\ \A u \in Threads \ {t} :
               pc'[u] = pc[u] \/ (pc[u] = "wait" /\ pc'[u] \in {"dispatch", "done"})
          /\ \A u \in Threads \ {t} : pc'[u] # "wait"
      BY <2>2, ReadSocketTyped
    <3>2. Holders = {t}
      BY <2>1, <2>2, <3>1, GuardGone
    <3> QED
      BY <3>1, <3>2 DEF SleepsOnEmptyQueue, Holders
  <2>3. CASE pc' = [pc EXCEPT ![t] = "wait"] /\ queue' = queue
    BY <1>1, <2>1, <2>3 DEF TypeOK
  <2> QED
    BY <1>5, <2>2, <2>3 DEF Read
<1>6. ASSUME NEW t \in Threads, Expire(t) \/ Send(t) \/ SendPiece(t)
      PROVE  SleepsOnEmptyQueue'
  BY <1>1, <1>6 DEF Expire, Send, SendPiece, threadVars
<1>7. CASE SendRest \/ SendSilent \/ Close \/ UNCHANGED vars
  BY <1>1, <1>7 DEF SendRest, SendSilent, Close, threadVars, vars
<1> QED
  BY <1>2, <1>3, <1>4, <1>5, <1>6, <1>7 DEF Next, Step

-----------------------------------------------------------------------------

\* IInv is an inductive invariant of the threads.
THEOREM Inductive == Spec => []IInv
<1>1. Init => IInv
  <2> SUFFICES ASSUME Init
               PROVE  IInv
    OBVIOUS
  <2> USE DispatchAssumption
  <2>1. Holders = {} /\ Cardinality(Holders) = 0
    <3>1. Holders = {}
      BY DEF Init, Holders
    <3> QED
      BY <3>1, FS_EmptySet
  <2>2. Cardinality(Threads) \in Nat
    BY FS_CardinalityType
  <2>3. TypeOK
    <3>1. pc \in [Threads -> Phases] /\ result \in [Threads -> Results]
      BY DEF Init, Phases, Results
    <3>2. 0 \in 0 .. Events /\ 0 \in 0 .. MaxFaults /\ 0 \in 0 .. Cardinality(Threads)
      BY <2>2
    <3>3. /\ got \in [Threads -> 0 .. Events] /\ queue \in [Threads -> 0 .. Events]
          /\ socket \in [Threads -> 0 .. Events] /\ sent \in [Threads -> 0 .. Events]
      BY <3>2 DEF Init, Zero
    <3>4. {failed, unread, silent, dead} \subseteq BOOLEAN
      BY DEF Init
    <3>5. /\ prepared \in 0 .. Cardinality(Threads) /\ faults \in 0 .. MaxFaults
          /\ expired \subseteq Threads
          /\ piece \in Threads \cup {None}
      BY <3>2 DEF Init
    <3> QED
      BY <3>1, <3>3, <3>4, <3>5 DEF TypeOK
  <2>4. Counted
    BY DEF Init, Counted, Zero
  <2>5. Guarded
    BY <2>1 DEF Init, Guarded
  <2>6. SleepsOnEmptyQueue /\ NobodyStranded
    BY DEF Init, SleepsOnEmptyQueue, NobodyStranded, Zero
  <2> QED
    BY <2>3, <2>4, <2>5, <2>6 DEF IInv
<1>2. IInv /\ [Next]_vars => IInv'
  <2> SUFFICES ASSUME IInv, [Next]_vars
               PROVE  IInv'
    OBVIOUS
  <2>1. Typed' /\ Counted' /\ Guarded' /\ NobodyStranded' /\ SleepsOnEmptyQueue'
    BY StepTyped, StepGuarded, StepStranded, StepSleeps DEF IInv
  <2>2. prepared' \in 0 .. Cardinality(Threads)
    <3>1. Holders' \in SUBSET Threads
      BY DEF Holders
    <3>2. Cardinality(Holders') \in Nat /\ Cardinality(Holders') <= Cardinality(Threads)
             /\ Cardinality(Threads) \in Nat
      BY <3>1, DispatchAssumption, FS_Subset, FS_CardinalityType
    <3> QED
      BY <2>1, <3>2 DEF Guarded
  <2>3. TypeOK'
    BY <2>1, <2>2 DEF Typed, TypeOK
  <2> QED
    BY <2>1, <2>3 DEF IInv
<1> QED
  BY <1>1, <1>2, PTL DEF Spec

\* Every variable keeps its type: there are as many guards as threads at most, and
\* a thread never handles more events than were sent to it.
THEOREM TypeCorrect == Spec => []TypeOK
<1>1. IInv => TypeOK
  BY DEF IInv
<1> QED
  BY <1>1, Inductive, PTL

\* A thread that sleeps in poll() or in read() has nothing on its queue, whoever
\* reads the socket (prepare_read in dispatch_until).
THEOREM NoWakeUpLost == Spec => []SleepsOnEmptyQueue
<1>1. IInv => SleepsOnEmptyQueue
  BY DEF IInv
<1> QED
  BY <1>1, Inductive, PTL

\* What poll() told a thread is true until its read is done: no thread takes the
\* events from under another (ReadEventsGuard::read in dispatch_until).
THEOREM NobodyReadsInVain == Spec => []ReadableUntilRead
<1>1. IInv => ReadableUntilRead
  BY DEF IInv, Guarded, NobodyStranded, ReadableUntilRead
<1> QED
  BY <1>1, Inductive, PTL

\* No set of threads waits for each other: a thread that waits in read() waits for one
\* that holds a guard, and that one has something to read (comment at the poll in
\* dispatch_until: the next prepare_read must not deadlock).
THEOREM NobodyWaitsInVain == Spec => []NobodyStranded
<1>1. IInv => NobodyStranded
  BY DEF IInv
<1> QED
  BY <1>1, Inductive, PTL
================================================================================
