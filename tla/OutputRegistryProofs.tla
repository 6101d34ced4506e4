-------------------------- MODULE OutputRegistryProofs --------------------------
(***************************************************************************)
(* What the output list is worth, for any number of outputs and modes and  *)
(* any amount of traffic in flight.                                        *)
(*                                                                         *)
(* All results look ahead at what is still on the wire.  The list stays in *)
(* discovery order because the announcements that will be appended to it   *)
(* are in that order and newer than all it holds (Ordered).  A refresh     *)
(* that ends has caught up because every output without a geometry has a   *)
(* bind, a mode or a removal under way (Drawn), which for an output that   *)
(* was listed when the refresh began is ahead of the callback of its sync  *)
(* (Ahead, Fresh); a bind that the compositor ignores is one of an output  *)
(* whose removal is under way (Accounted).  With nothing in flight the     *)
(* list is exact because what it holds and what is announced, less what is *)
(* removed, is always what there is (Mirrored; for that no name may be     *)
(* announced after its removal, NeverReused), and the last mode in flight, *)
(* or in the list if none is, is the mode (Heard).                         *)
(***************************************************************************)
EXTENDS OutputRegistry, WellFoundedInduction, SequenceTheorems, TLAPS

-----------------------------------------------------------------------------
(* Positions *)

\* A set of natural numbers that is not empty, finite or not, has a least element,
\* and Min is that element (Iterator::position, the first directory that is there).
LEMMA LeastNatural ==
  ASSUME NEW S \in SUBSET Nat, S # {}
  PROVE  /\ Min(S) \in S
         /\ \A k \in S : Min(S) <= k
<1> DEFINE less == OpToRel(<, Nat)
<1>1. IsWellFoundedOn(less, Nat)
  BY NatLessThanWellFounded
<1>2. \A i, j \in Nat : i < j => <<i, j>> \in less
  BY DEF OpToRel
<1> HIDE DEF less
<1>3. PICK m \in S : \A k \in S : <<k, m>> \notin less
  BY <1>1, WFMin
<1>4. \A k \in S : m <= k
  <2> SUFFICES ASSUME NEW k \in S, ~(m <= k)
               PROVE  FALSE
    OBVIOUS
  <2>1. k \in Nat /\ m \in Nat /\ k < m
    OBVIOUS
  <2>2. <<k, m>> \in less
    BY <1>2, <2>1
  <2> QED
    BY <1>3, <2>2
<1> QED
  BY <1>4 DEF Min

-----------------------------------------------------------------------------
(* Sequences *)

\* What Append does to the places of a sequence.
LEMMA Appended ==
  ASSUME NEW S, NEW s \in Seq(S), NEW e \in S
  PROVE  /\ Append(s, e) \in Seq(S)
         /\ Len(s) \in Nat /\ DOMAIN s = 1 .. Len(s)
         /\ Len(Append(s, e)) = Len(s) + 1 /\ DOMAIN Append(s, e) = 1 .. Len(s) + 1
         /\ \A i \in 1 .. Len(s) : Append(s, e)[i] = s[i]
         /\ Append(s, e)[Len(s) + 1] = e
OBVIOUS

\* What taking the first element away does to them.
LEMMA Taken ==
  ASSUME NEW S, NEW s \in Seq(S), s # <<>>
  PROVE  /\ Tail(s) \in Seq(S) /\ Head(s) = s[1] /\ s[1] \in S
         /\ Len(s) \in Nat \ {0} /\ DOMAIN s = 1 .. Len(s)
         /\ Len(Tail(s)) = Len(s) - 1 /\ DOMAIN Tail(s) = 1 .. Len(s) - 1
         /\ \A i \in 1 .. Len(s) - 1 : Tail(s)[i] = s[i + 1]
<1>1. Len(s) \in Nat \ {0} /\ DOMAIN s = 1 .. Len(s) /\ s[1] \in S
  OBVIOUS
<1>2. Tail(s) \in Seq(S) /\ Len(Tail(s)) = Len(s) - 1
  BY HeadTailProperties
<1>3. \A i \in 1 .. Len(s) - 1 : Tail(s)[i] = s[i + 1]
  BY <1>2, HeadTailProperties
<1>4. DOMAIN Tail(s) = 1 .. Len(s) - 1
  BY <1>2
<1>5. Head(s) = s[1]
  OBVIOUS
<1> QED
  BY <1>1, <1>2, <1>3, <1>4, <1>5

\* What Vec::remove does to them.
LEMMA Removed ==
  ASSUME NEW S, NEW s \in Seq(S), NEW k \in 1 .. Len(s)
  PROVE  /\ RemoveAt(s, k) \in Seq(S)
         /\ Len(s) \in Nat /\ DOMAIN s = 1 .. Len(s)
         /\ DOMAIN RemoveAt(s, k) = 1 .. Len(s) - 1
         /\ \A i \in 1 .. Len(s) - 1 : RemoveAt(s, k)[i] = IF i < k THEN s[i] ELSE s[i + 1]
<1> DEFINE front == SubSeq(s, 1, k - 1)
           back == SubSeq(s, k + 1, Len(s))
<1>1. Len(s) \in Nat /\ k \in Nat /\ DOMAIN s = 1 .. Len(s) /\ \A i \in 1 .. Len(s) : s[i] \in S
  OBVIOUS
<1>2. front \in Seq(S) /\ Len(front) = k - 1 /\ \A i \in 1 .. k - 1 : front[i] = s[i]
  BY <1>1, SubSeqProperties
<1>3. back \in Seq(S) /\ Len(back) = Len(s) - k /\ \A i \in 1 .. Len(s) - k : back[i] = s[k + i]
  <2>1. /\ back \in Seq(S)
        /\ Len(back) = IF k + 1 <= Len(s) THEN Len(s) - (k + 1) + 1 ELSE 0
        /\ \A i \in 1 .. Len(s) - (k + 1) + 1 : back[i] = s[(k + 1) + i - 1]
    BY <1>1, SubSeqProperties
  <2> HIDE DEF back
  <2>2. Len(back) = Len(s) - k
    <3>1. \A m \in Nat : \A j \in 1 .. m : (IF j + 1 <= m THEN m - (j + 1) + 1 ELSE 0) = m - j
      OBVIOUS
    <3>2. (IF k + 1 <= Len(s) THEN Len(s) - (k + 1) + 1 ELSE 0) = Len(s) - k
      BY <1>1, <3>1
    <3> QED
      BY <2>1, <3>2
  <2>3. ASSUME NEW i \in 1 .. Len(s) - k
        PROVE  back[i] = s[k + i]
    <3>1. i \in 1 .. Len(s) - (k + 1) + 1 /\ (k + 1) + i - 1 = k + i
      BY <1>1
    <3>2. back[i] = s[(k + 1) + i - 1]
      BY <2>1, <3>1
    <3> QED
      BY <3>1, <3>2
  <2> QED
    BY <2>1, <2>2, <2>3
<1> HIDE DEF front, back
<1>4. /\ front \o back \in Seq(S)
      /\ Len(front \o back) = Len(s) - 1
      /\ \A i \in 1 .. Len(s) - 1 :
           (front \o back)[i] = IF i <= k - 1 THEN front[i] ELSE back[i - (k - 1)]
  <2>1. /\ front \o back \in Seq(S)
        /\ Len(front \o back) = Len(front) + Len(back)
        /\ \A i \in 1 .. Len(front) + Len(back) :
             (front \o back)[i] = IF i <= Len(front) THEN front[i] ELSE back[i - Len(front)]
    BY <1>2, <1>3, ConcatProperties
  <2>2. Len(front) = k - 1 /\ Len(front) + Len(back) = Len(s) - 1
    BY <1>1, <1>2, <1>3
  <2> QED
    BY <2>1, <2>2
<1>5. RemoveAt(s, k) = front \o back
  BY DEF RemoveAt, front, back
<1>6. ASSUME NEW i \in 1 .. Len(s) - 1
      PROVE  (front \o back)[i] = IF i < k THEN s[i] ELSE s[i + 1]
  <2>1. CASE i < k
    BY <1>1, <1>2, <1>4, <2>1
  <2>2. CASE ~(i < k)
    <3>1. i - (k - 1) \in 1 .. Len(s) - k /\ k + (i - (k - 1)) = i + 1
      BY <1>1, <2>2
    <3>2. back[i - (k - 1)] = s[i + 1]
      BY <1>3, <3>1
    <3> QED
      BY <1>1, <1>4, <2>2, <3>2
  <2> QED
    BY <2>1, <2>2
<1>7. DOMAIN (front \o back) = 1 .. Len(s) - 1
  BY <1>4
<1> QED
  BY <1>1, <1>4, <1>5, <1>6, <1>7

\* The empty sequence.
LEMMA NoPlace == DOMAIN <<>> = {} /\ Len(<<>>) = 0
<1>1. Len(<<>>) = 0
  OBVIOUS
<1>2. \A i \in DOMAIN <<>> : FALSE
  OBVIOUS
<1> QED
  BY <1>1, <1>2

\* What \o does to them.
LEMMA Joined ==
  ASSUME NEW S, NEW s \in Seq(S), NEW t \in Seq(S)
  PROVE  /\ s \o t \in Seq(S)
         /\ Len(s) \in Nat /\ DOMAIN s = 1 .. Len(s)
         /\ Len(t) \in Nat /\ DOMAIN t = 1 .. Len(t)
         /\ DOMAIN (s \o t) = 1 .. Len(s) + Len(t)
         /\ \A i \in 1 .. Len(s) : (s \o t)[i] = s[i]
         /\ \A i \in 1 .. Len(t) : (s \o t)[Len(s) + i] = t[i]
<1>1. /\ s \o t \in Seq(S)
      /\ Len(s \o t) = Len(s) + Len(t)
      /\ \A i \in 1 .. Len(s) + Len(t) :
           (s \o t)[i] = IF i <= Len(s) THEN s[i] ELSE t[i - Len(s)]
  BY ConcatProperties
<1>2. Len(s) \in Nat /\ DOMAIN s = 1 .. Len(s) /\ Len(t) \in Nat /\ DOMAIN t = 1 .. Len(t)
  OBVIOUS
<1>3. DOMAIN (s \o t) = 1 .. Len(s) + Len(t)
  BY <1>1
<1>4. ASSUME NEW i \in 1 .. Len(s) PROVE (s \o t)[i] = s[i]
  <2>1. i \in 1 .. Len(s) + Len(t) /\ i <= Len(s)
    BY <1>2
  <2> QED
    BY <1>1, <2>1
<1>5. ASSUME NEW i \in 1 .. Len(t) PROVE (s \o t)[Len(s) + i] = t[i]
  <2>1. Len(s) + i \in 1 .. Len(s) + Len(t) /\ ~(Len(s) + i <= Len(s)) /\ (Len(s) + i) - Len(s) = i
    BY <1>2
  <2> QED
    BY <1>1, <2>1
<1> QED
  BY <1>1, <1>2, <1>3, <1>4, <1>5

-----------------------------------------------------------------------------
(* Two lines, one behind the other *)

\* The elements of two sequences.
LEMMA JoinedMembers ==
  ASSUME NEW S, NEW s \in Seq(S), NEW t \in Seq(S)
  PROVE  ToSet(s \o t) = ToSet(s) \cup ToSet(t)
<1> DEFINE u == s \o t
<1>1. /\ Len(s) \in Nat /\ DOMAIN s = 1 .. Len(s)
      /\ Len(t) \in Nat /\ DOMAIN t = 1 .. Len(t)
      /\ DOMAIN u = 1 .. Len(s) + Len(t)
      /\ \A i \in 1 .. Len(s) : u[i] = s[i]
      /\ \A i \in 1 .. Len(t) : u[Len(s) + i] = t[i]
  BY Joined
<1> HIDE DEF u
<1>2. \A i \in DOMAIN u : u[i] \in ToSet(s) \cup ToSet(t)
  <2> SUFFICES ASSUME NEW i \in DOMAIN u PROVE u[i] \in ToSet(s) \cup ToSet(t)
    OBVIOUS
  <2>1. CASE i <= Len(s)
    BY <1>1, <2>1 DEF ToSet
  <2>2. CASE i > Len(s)
    <3>1. i - Len(s) \in 1 .. Len(t) /\ Len(s) + (i - Len(s)) = i
      BY <1>1, <2>2
    <3> QED
      BY <1>1, <3>1 DEF ToSet
  <2> QED
    BY <1>1, <2>1, <2>2
<1>3. \A i \in DOMAIN s : s[i] \in ToSet(u)
  BY <1>1 DEF ToSet
<1>4. \A i \in DOMAIN t : t[i] \in ToSet(u)
  <2>1. \A i \in 1 .. Len(t) : Len(s) + i \in DOMAIN u
    BY <1>1
  <2> QED
    BY <1>1, <2>1 DEF ToSet
<1>5. ToSet(u) = ToSet(s) \cup ToSet(t)
  BY <1>2, <1>3, <1>4 DEF ToSet
<1> QED
  BY <1>5 DEF u

IsGlobal(e) == e.type = "global"
IsRemoval(e, n) == e.type = "remove" /\ e.name = n
IsBind(r, n) == r.type = "bind" /\ r.name = n
\* After this event the output has a mode, or is not listed any more.
Settling(e, n) == e.type \in {"mode", "remove"} /\ e.name = n

Ordered ==
  /\ DiscoveryOrder
  /\ \A j \in DOMAIN outputs : outputs[j].name < nextName
  /\ \A n \in known : n < nextName
  /\ \A i \in DOMAIN events : IsGlobal(events[i]) =>
       /\ events[i].name < nextName
       /\ \A j \in DOMAIN outputs : outputs[j].name < events[i].name
       /\ \A n \in known : n < events[i].name
       /\ \A j \in DOMAIN events : j < i /\ IsGlobal(events[j]) => events[j].name < events[i].name

\* The compositor has the output n, or its removal is an event after the k-th.
Current(n, k) ==
  \/ n \in ToSet(present)
  \/ \E i \in DOMAIN events : k < i /\ IsRemoval(events[i], n)

Accounted ==
  /\ \A j \in DOMAIN outputs : Current(outputs[j].name, 0)
  /\ \A i \in DOMAIN events : IsGlobal(events[i]) => Current(events[i].name, i)

Underway(n) ==
  \/ \E i \in DOMAIN requests : IsBind(requests[i], n)
  \/ \E i \in DOMAIN events : Settling(events[i], n)

Drawn == \A j \in DOMAIN outputs : outputs[j].mode = NoMode => Underway(outputs[j].name)

\* The mode or removal of n will be read before the callback of any sync.
Ahead(n) ==
  \/ /\ Dones = {}
     /\ \E i \in DOMAIN requests :
          IsBind(requests[i], n) /\ \A k \in Syncs : i < k
  \/ \E i \in DOMAIN events : Settling(events[i], n) /\ \A k \in Dones : i < k

Fresh ==
  phase = "refreshing" /\ ~late =>
    /\ backlog <= Len(events)
    /\ \A i \in Dones : backlog < i
    /\ sync_done => backlog = 0
    /\ \A j \in DOMAIN outputs : outputs[j].mode = NoMode /\ outputs[j].name \in known =>
         ~sync_done /\ Ahead(outputs[j].name)

IInv == TypeOK /\ Ordered /\ Accounted /\ Drawn /\ Fresh /\ CaughtUpUnlessLate

-----------------------------------------------------------------------------
(* The two channels and the list *)

\* What the compositor sends is the last event.
LEMMA Sent ==
  ASSUME TypeOK, NEW e \in Events, Send(e)
  PROVE  /\ events' \in Seq(Events)
         /\ Len(events) \in Nat /\ DOMAIN events = 1 .. Len(events)
         /\ Len(events') = Len(events) + 1 /\ DOMAIN events' = 1 .. Len(events) + 1
         /\ \A i \in 1 .. Len(events) : events'[i] = events[i]
         /\ events'[Len(events) + 1] = e
BY Appended DEF TypeOK, Send

\* What a handler receives was the first, and moves the others up.
LEMMA Received ==
  ASSUME TypeOK, NEW type, Receive(type)
  PROVE  /\ events' \in Seq(Events)
         /\ events[1] \in Events /\ Head(events) = events[1] /\ events[1].type = type
         /\ Len(events) \in Nat \ {0} /\ DOMAIN events = 1 .. Len(events)
         /\ Len(events') = Len(events) - 1 /\ DOMAIN events' = 1 .. Len(events) - 1
         /\ \A i \in 1 .. Len(events) - 1 : events'[i] = events[i + 1]
<1>1. events \in Seq(Events) /\ events # <<>> /\ events' = Tail(events) /\ Head(events).type = type
  BY DEF Receive, TypeOK
<1>2. /\ Tail(events) \in Seq(Events) /\ Head(events) = events[1] /\ events[1] \in Events
      /\ Len(events) \in Nat \ {0} /\ DOMAIN events = 1 .. Len(events)
      /\ Len(Tail(events)) = Len(events) - 1 /\ DOMAIN Tail(events) = 1 .. Len(events) - 1
      /\ \A i \in 1 .. Len(events) - 1 : Tail(events)[i] = events[i + 1]
  BY <1>1, Taken
<1> QED
  BY <1>1, <1>2

\* The compositor takes the first request.
LEMMA Served ==
  ASSUME TypeOK, requests # <<>>, requests' = Tail(requests)
  PROVE  /\ requests' \in Seq(Requests)
         /\ requests[1] \in Requests /\ Head(requests) = requests[1]
         /\ Len(requests) \in Nat \ {0} /\ DOMAIN requests = 1 .. Len(requests)
         /\ DOMAIN requests' = 1 .. Len(requests) - 1
         /\ \A i \in 1 .. Len(requests) - 1 : requests'[i] = requests[i + 1]
BY Taken DEF TypeOK

\* Events and requests have the fields that their handlers read.
LEMMA Fields ==
  /\ \A e \in Events : e.type \in {"global", "remove", "mode"} => e.name \in Names
  /\ \A e \in Events : e.type = "mode" => e.mode \in Modes
  /\ \A r \in Requests : r.type = "bind" => r.name \in Names
BY DEF Events, Requests

\* The places of the list.
LEMMA Places ==
  ASSUME TypeOK
  PROVE  /\ Len(outputs) \in Nat /\ DOMAIN outputs = 1 .. Len(outputs)
         /\ \A j \in DOMAIN outputs : outputs[j] \in OutputInfo /\ outputs[j].name \in Names
         /\ Len(events) \in Nat /\ DOMAIN events = 1 .. Len(events)
         /\ \A i \in DOMAIN events : events[i] \in Events
         /\ Len(requests) \in Nat /\ DOMAIN requests = 1 .. Len(requests)
         /\ \A i \in DOMAIN requests : requests[i] \in Requests
         /\ Names \subseteq Nat /\ nextName \in Nat
<1>1. \A o \in OutputInfo : o.name \in Names
  BY DEF OutputInfo
<1> QED
  BY <1>1, RegistryAssumption DEF TypeOK, Names

\* A new output is listed last.
LEMMA Discovered ==
  ASSUME TypeOK, NEW n \in Names, outputs' = Append(outputs, NewOutput(n))
  PROVE  /\ outputs' \in Seq(OutputInfo)
         /\ DOMAIN outputs' = 1 .. Len(outputs) + 1
         /\ \A j \in 1 .. Len(outputs) : outputs'[j] = outputs[j]
         /\ outputs'[Len(outputs) + 1].name = n
<1>1. NewOutput(n) \in OutputInfo /\ NewOutput(n).name = n
  BY DEF NewOutput, OutputInfo
<1>2. outputs \in Seq(OutputInfo)
  BY DEF TypeOK
<1> HIDE DEF NewOutput
<1> QED
  BY <1>1, <1>2, Appended

\* An output that goes leaves the others in their order.
LEMMA Forgotten ==
  ASSUME TypeOK, NEW n,
         outputs' = IF Positions(n) = {} THEN outputs ELSE RemoveAt(outputs, Min(Positions(n)))
  PROVE  /\ outputs' \in Seq(OutputInfo)
         /\ \E at \in [DOMAIN outputs' -> DOMAIN outputs] :
              /\ \A j \in DOMAIN outputs' : outputs'[j] = outputs[at[j]]
              /\ \A i, j \in DOMAIN outputs' : i < j => at[i] < at[j]
              /\ DiscoveryOrder => \A j \in DOMAIN outputs' : outputs'[j].name # n
<1> USE Places
<1> DEFINE p == Min(Positions(n))
<1>1. CASE Positions(n) = {}
  <2> DEFINE id == [j \in DOMAIN outputs |-> j]
  <2>1. outputs' = outputs
    BY <1>1
  <2>2. /\ id \in [DOMAIN outputs' -> DOMAIN outputs]
        /\ \A j \in DOMAIN outputs' : outputs'[j] = outputs[id[j]]
        /\ \A i, j \in DOMAIN outputs' : i < j => id[i] < id[j]
    BY <2>1
  <2>3. \A j \in DOMAIN outputs' : outputs'[j].name # n
    BY <1>1, <2>1 DEF Positions
  <2> HIDE DEF id
  <2> QED
    BY <2>1, <2>2, <2>3 DEF TypeOK
<1>2. CASE Positions(n) # {}
  <2> DEFINE up == [j \in 1 .. Len(outputs) - 1 |-> IF j < p THEN j ELSE j + 1]
  <2>1. Positions(n) \in SUBSET Nat
    BY DEF Positions
  <2>2. p \in Positions(n)
    BY <1>2, <2>1, LeastNatural
  <2> HIDE DEF p
  <2>3. p \in 1 .. Len(outputs) /\ outputs[p].name = n
    BY <2>2 DEF Positions
  <2>4. outputs' = RemoveAt(outputs, p)
    BY <1>2 DEF p
  <2>5. outputs \in Seq(OutputInfo)
    BY DEF TypeOK
  <2>6. /\ outputs' \in Seq(OutputInfo)
        /\ DOMAIN outputs' = 1 .. Len(outputs) - 1
        /\ \A i \in 1 .. Len(outputs) - 1 :
             outputs'[i] = IF i < p THEN outputs[i] ELSE outputs[i + 1]
    BY <2>3, <2>4, <2>5, Removed
  <2>7. up \in [DOMAIN outputs' -> DOMAIN outputs]
    BY <2>3, <2>6
  <2>8. \A j \in DOMAIN outputs' : outputs'[j] = outputs[up[j]] /\ up[j] # p
    BY <2>3, <2>6
  <2>9. \A i, j \in DOMAIN outputs' : i < j => up[i] < up[j]
    BY <2>3, <2>6
  <2> HIDE DEF up
  <2>10. ASSUME DiscoveryOrder, NEW j \in DOMAIN outputs'
         PROVE  outputs'[j].name # n
    <3>1. up[j] \in DOMAIN outputs /\ (up[j] < p \/ p < up[j])
      BY <2>3, <2>7, <2>8
    <3>2. outputs[up[j]].name < n \/ n < outputs[up[j]].name
      BY <2>3, <2>10, <3>1 DEF DiscoveryOrder
    <3>3. outputs[up[j]].name \in Nat
      BY <3>1
    <3> QED
      BY <2>8, <3>2, <3>3
  <2> QED
    BY <2>6, <2>7, <2>8, <2>9, <2>10
<1> QED
  BY <1>1, <1>2

\* An output that changes mode keeps its place and its name.
LEMMA Redrawn ==
  ASSUME TypeOK, Receive("mode"),
         outputs' = [i \in DOMAIN outputs |->
                       IF outputs[i].name = Head(events).name
                         THEN [outputs[i] EXCEPT !.mode = Head(events).mode] ELSE outputs[i]]
  PROVE  /\ outputs' \in Seq(OutputInfo)
         /\ DOMAIN outputs' = DOMAIN outputs
         /\ \A j \in DOMAIN outputs :
              /\ outputs'[j].name = outputs[j].name
              /\ IF outputs[j].name = events[1].name
                   THEN outputs'[j].mode = events[1].mode /\ events[1].mode \in Modes ELSE outputs'[j] = outputs[j]
<1>1. events[1] \in Events /\ Head(events) = events[1] /\ events[1].type = "mode"
  BY Received
<1>2. events[1].mode \in Modes
  BY <1>1, Fields
<1>3. ASSUME NEW j \in DOMAIN outputs
      PROVE  /\ outputs'[j] \in OutputInfo
             /\ outputs'[j].name = outputs[j].name
             /\ IF outputs[j].name = events[1].name
                  THEN outputs'[j].mode = events[1].mode /\ events[1].mode \in Modes ELSE outputs'[j] = outputs[j]
  <2>1. outputs[j] \in OutputInfo
    BY Places
  <2>2. outputs'[j] = IF outputs[j].name = events[1].name
                        THEN [outputs[j] EXCEPT !.mode = events[1].mode] ELSE outputs[j]
    BY <1>1
  <2> QED
    BY <1>2, <2>1, <2>2 DEF OutputInfo
<1>4. DOMAIN outputs' = DOMAIN outputs
  OBVIOUS
<1>5. outputs' \in [1 .. Len(outputs) -> OutputInfo] /\ Len(outputs) \in Nat
  BY <1>3, <1>4, Places
<1>6. outputs' \in Seq(OutputInfo)
  BY <1>5
<1> QED
  BY <1>3, <1>4, <1>6

-----------------------------------------------------------------------------
(* Types *)

\* A step keeps every variable in its type.
LEMMA StepTypeOK ==
  ASSUME TypeOK, [Next]_vars
  PROVE  TypeOK'
<1> USE RegistryAssumption
<1>1. CASE Plug
  <2>1. [type |-> "global", name |-> nextName] \in Events
    BY <1>1 DEF Plug, Events
  <2>2. events' \in Seq(Events)
    BY <1>1, <2>1, Sent DEF Plug
  <2>3. present' \in Seq(Names)
    BY <1>1, Appended DEF Plug, TypeOK
  <2>4. nextName' \in 1 .. MaxName + 1
    BY <1>1 DEF Plug, TypeOK, Names
  <2> QED
    BY <1>1, <2>2, <2>3, <2>4 DEF Plug, TypeOK, ghosts
<1>2. ASSUME NEW n \in Names, Unplug(n)
      PROVE  TypeOK'
  <2>1. [type |-> "remove", name |-> n] \in Events
    BY DEF Events
  <2>2. events' \in Seq(Events)
    BY <1>2, <2>1, Sent DEF Unplug
  <2>3. present' \in Seq(Names)
    <3>1. PICK i \in DOMAIN present : present' = RemoveAt(present, i)
      BY <1>2 DEF Unplug
    <3>2. present \in Seq(Names) /\ i \in 1 .. Len(present)
      BY DEF TypeOK
    <3> QED
      BY <3>1, <3>2, Removed
  <2> QED
    BY <1>2, <2>2, <2>3 DEF Unplug, TypeOK, ghosts
<1>3. ASSUME NEW n \in Names, NEW m \in Modes, ChangeMode(n, m)
      PROVE  TypeOK'
  <2>1. [type |-> "mode", name |-> n, mode |-> m] \in Events
    BY DEF Events
  <2>2. events' \in Seq(Events)
    <3>1. CASE Send([type |-> "mode", name |-> n, mode |-> m])
      BY <2>1, <3>1, Sent
    <3>2. CASE UNCHANGED events
      BY <3>2 DEF TypeOK
    <3> QED
      BY <1>3, <3>1, <3>2 DEF ChangeMode
  <2> QED
    BY <1>3, <2>2 DEF ChangeMode, TypeOK, ghosts
<1>4. CASE ServeBind
  <2>1. requests' \in Seq(Requests) /\ Head(requests) \in Requests /\ Head(requests).type = "bind"
    BY <1>4, Served DEF ServeBind
  <2> DEFINE n == Head(requests).name
  <2>2. n \in Names
    BY <2>1, Fields
  <2> HIDE DEF n
  <2>3. bound' \subseteq Names /\ events' \in Seq(Events)
    <3>1. CASE bound' = bound \cup {n} /\ Send([type |-> "mode", name |-> n, mode |-> mode[n]])
      <4>1. [type |-> "mode", name |-> n, mode |-> mode[n]] \in Events
        BY <2>2 DEF Events, TypeOK
      <4>2. events' \in Seq(Events)
        BY <3>1, <4>1, Sent
      <4> QED
        BY <2>2, <3>1, <4>2 DEF TypeOK
    <3>2. CASE UNCHANGED <<bound, events>>
      BY <3>2 DEF TypeOK
    <3> QED
      BY <1>4, <3>1, <3>2 DEF ServeBind, n
  <2> QED
    BY <1>4, <2>1, <2>3 DEF ServeBind, TypeOK, ghosts
<1>5. CASE ServeSync
  <2>1. requests' \in Seq(Requests)
    BY <1>5, Served DEF ServeSync
  <2>2. [type |-> IF Head(requests).type = "sync" THEN "done" ELSE "roundtrip"] \in Events
    BY DEF Events
  <2>3. events' \in Seq(Events)
    BY <1>5, <2>2, Sent DEF ServeSync
  <2> QED
    BY <1>5, <2>1, <2>3 DEF ServeSync, TypeOK, ghosts, compositorVars
<1>6. ASSUME NEW type, Receive(type)
      PROVE  /\ events' \in Seq(Events) /\ backlog' \in Nat
             /\ events[1] \in Events /\ Head(events) = events[1] /\ events[1].type = type
             /\ phase \in {"connecting", "refreshing"}
             /\ UNCHANGED <<present, mode, bound, nextName, known, late>>
  <2>1. backlog' \in Nat
    BY <1>6 DEF Receive, TypeOK
  <2> QED
    BY <1>6, <2>1, Received DEF Receive, compositorVars
<1>7. CASE OnGlobal
  <2> DEFINE n == Head(events).name
  <2>1. Receive("global")
    BY <1>7 DEF OnGlobal
  <2>2. n \in Names
    BY <1>6, <2>1, Fields
  <2> HIDE DEF n
  <2>3. outputs' \in Seq(OutputInfo) /\ requests' \in Seq(Requests)
    <3>1. CASE UNCHANGED <<outputs, requests>>
      BY <3>1 DEF TypeOK
    <3>2. CASE /\ outputs' = Append(outputs, NewOutput(n))
               /\ requests' = Append(requests, [type |-> "bind", name |-> n])
      <4>1. [type |-> "bind", name |-> n] \in Requests /\ requests \in Seq(Requests)
        BY <2>2 DEF Requests, TypeOK
      <4>2. requests' \in Seq(Requests)
        BY <3>2, <4>1, Appended
      <4> QED
        BY <2>2, <3>2, <4>2, Discovered
    <3> QED
      BY <1>7, <3>1, <3>2 DEF OnGlobal, n
  <2> QED
    BY <1>6, <1>7, <2>1, <2>3 DEF OnGlobal, TypeOK
<1>8. CASE OnGlobalRemove
  <2>1. outputs' \in Seq(OutputInfo)
    BY <1>8, Forgotten DEF OnGlobalRemove
  <2>2. Receive("remove")
    BY <1>8 DEF OnGlobalRemove
  <2> QED
    BY <1>6, <1>8, <2>1, <2>2 DEF OnGlobalRemove, TypeOK
<1>9. CASE OnMode
  <2>1. Receive("mode") /\ outputs' \in Seq(OutputInfo)
    BY <1>9, Redrawn DEF OnMode
  <2> QED
    BY <1>6, <1>9, <2>1 DEF OnMode, TypeOK
<1>10. CASE OnDone
  <2>1. Receive("done")
    BY <1>10 DEF OnDone
  <2> QED
    BY <1>6, <1>10, <2>1 DEF OnDone, TypeOK
<1>11. CASE EndConnect
  <2>1. Receive("roundtrip")
    BY <1>11 DEF EndConnect
  <2> QED
    BY <1>6, <1>11, <2>1 DEF EndConnect, TypeOK, Phases
<1>12. CASE BeginRefresh
  <2>1. [type |-> "sync"] \in Requests /\ requests \in Seq(Requests)
    BY DEF Requests, TypeOK
  <2>2. requests' \in Seq(Requests)
    BY <1>12, <2>1, Appended DEF BeginRefresh
  <2>3. known' \subseteq Names /\ backlog' \in Nat
    BY <1>12, Places DEF BeginRefresh, Listed, ToSet
  <2> QED
    BY <1>12, <2>2, <2>3 DEF BeginRefresh, TypeOK, Phases, compositorVars
<1>13. CASE EndRefresh \/ RefreshTimeout
  BY <1>13 DEF EndRefresh, RefreshTimeout, TypeOK, Phases, compositorVars, ghosts
<1>14. CASE UNCHANGED vars
  BY <1>14 DEF vars, TypeOK
<1> QED
  BY <1>1, <1>2, <1>3, <1>4, <1>5, <1>7, <1>8, <1>9, <1>10, <1>11, <1>12, <1>13, <1>14
  DEF Next, Hotplug, Serve, Dispatch

-----------------------------------------------------------------------------
(* The list and its announcements stay in order *)

\* What travels does not matter to Ordered if it is no announcement.
LEMMA SendOrdered ==
  ASSUME TypeOK, Ordered, NEW e \in Events, Send(e), ~IsGlobal(e),
         UNCHANGED <<outputs, nextName, known>>
  PROVE  Ordered'
<1>1. \A i \in DOMAIN events' : IsGlobal(events'[i]) => i \in DOMAIN events /\ events'[i] = events[i]
  BY Sent DEF IsGlobal
<1> QED
  BY <1>1 DEF Ordered, DiscoveryOrder, IsGlobal

\* It does not matter who has read what.
LEMMA ReceiveOrdered ==
  ASSUME TypeOK, Ordered, NEW type, Receive(type),
         NEW at \in [DOMAIN outputs' -> DOMAIN outputs],
         \A j \in DOMAIN outputs' : outputs'[j].name = outputs[at[j]].name,
         \A i, j \in DOMAIN outputs' : i < j => at[i] < at[j]
  PROVE  Ordered'
<1>1. nextName' = nextName /\ known' = known
  BY DEF Receive, compositorVars
<1>2. ASSUME NEW i \in DOMAIN events'
      PROVE  i \in Nat /\ i + 1 \in DOMAIN events /\ events'[i] = events[i + 1]
  BY <1>2, Received
<1>3. DiscoveryOrder'
  BY Places DEF Ordered, DiscoveryOrder
<1>4. \A j \in DOMAIN outputs' : outputs'[j].name < nextName'
  BY <1>1 DEF Ordered
<1>5. ASSUME NEW i \in DOMAIN events', IsGlobal(events'[i])
      PROVE  /\ events'[i].name < nextName'
             /\ \A j \in DOMAIN outputs' : outputs'[j].name < events'[i].name
             /\ \A n \in known' : n < events'[i].name
  BY <1>1, <1>2, <1>5 DEF Ordered
<1>6. ASSUME NEW i \in DOMAIN events', IsGlobal(events'[i]),
             NEW j \in DOMAIN events', j < i, IsGlobal(events'[j])
      PROVE  events'[j].name < events'[i].name
  <2>1. j + 1 < i + 1
    BY <1>2, <1>6
  <2> QED
    BY <1>2, <1>6, <2>1 DEF Ordered
<1>7. \A n \in known' : n < nextName'
  BY <1>1 DEF Ordered
<1> QED
  BY <1>3, <1>4, <1>5, <1>6, <1>7 DEF Ordered, IsGlobal

\* A step keeps the list, and what is announced, in discovery order.
LEMMA StepOrdered ==
  ASSUME TypeOK, Ordered, [Next]_vars
  PROVE  Ordered'
<1> USE Places
<1>1. CASE Plug
  <2> DEFINE e == [type |-> "global", name |-> nextName]
  <2>1. e \in Events /\ e.name = nextName
    BY <1>1 DEF Plug, Events
  <2>2. Send(e)
    BY <1>1 DEF Plug
  <2> HIDE DEF e
  <2>3. /\ outputs' = outputs /\ known' = known
        /\ nextName' = nextName + 1 /\ nextName \in Nat
    BY <1>1 DEF Plug, ghosts
  <2>4. /\ DOMAIN events' = 1 .. Len(events) + 1
        /\ \A i \in 1 .. Len(events) : events'[i] = events[i]
        /\ events'[Len(events) + 1] = e
    BY <2>1, <2>2, Sent
  <2>5. DiscoveryOrder' /\ (\A j \in DOMAIN outputs' : outputs'[j].name < nextName')
          /\ (\A n \in known' : n < nextName')
    BY <2>3 DEF Ordered, DiscoveryOrder, TypeOK
  <2>6. ASSUME NEW i \in 1 .. Len(events), IsGlobal(events'[i])
        PROVE  /\ events'[i].name < nextName'
               /\ \A j \in DOMAIN outputs' : outputs'[j].name < events'[i].name
               /\ \A n \in known' : n < events'[i].name
               /\ \A j \in DOMAIN events' : j < i /\ IsGlobal(events'[j]) =>
                    events'[j].name < events'[i].name
    <3>1. events'[i].name < nextName /\ events'[i].name \in Nat
      BY <2>4, <2>6, Fields DEF Ordered, IsGlobal
    <3>2. \A j \in DOMAIN events' : j < i => j \in DOMAIN events /\ events'[j] = events[j]
      BY <2>4
    <3> QED
      BY <2>3, <2>4, <2>6, <3>1, <3>2 DEF Ordered, IsGlobal
  <2>7. ASSUME NEW i \in DOMAIN events', i = Len(events) + 1, IsGlobal(events'[i])
        PROVE  /\ events'[i].name < nextName'
               /\ \A j \in DOMAIN outputs' : outputs'[j].name < events'[i].name
               /\ \A n \in known' : n < events'[i].name
               /\ \A j \in DOMAIN events' : j < i /\ IsGlobal(events'[j]) =>
                    events'[j].name < events'[i].name
    <3>1. events'[i].name = nextName
      BY <2>1, <2>4, <2>7
    <3>2. \A j \in DOMAIN events' : j < i => j \in DOMAIN events /\ events'[j] = events[j]
      BY <2>4, <2>7
    <3> QED
      BY <2>3, <3>1, <3>2 DEF Ordered, IsGlobal
  <2>8. \A i \in DOMAIN events' : i \in 1 .. Len(events) \/ i = Len(events) + 1
    BY <2>4
  <2> QED
    BY <2>5, <2>6, <2>7, <2>8 DEF Ordered, IsGlobal
<1>2. ASSUME NEW n \in Names, Unplug(n)
      PROVE  Ordered'
  <2>1. [type |-> "remove", name |-> n] \in Events
    BY DEF Events
  <2> QED
    BY <1>2, <2>1, SendOrdered DEF Unplug, ghosts, IsGlobal
<1>3. ASSUME NEW n \in Names, NEW m \in Modes, ChangeMode(n, m)
      PROVE  Ordered'
  <2>1. [type |-> "mode", name |-> n, mode |-> m] \in Events
    BY DEF Events
  <2>2. CASE UNCHANGED events
    BY <1>3, <2>2 DEF ChangeMode, ghosts, Ordered, DiscoveryOrder, IsGlobal
  <2> QED
    BY <1>3, <2>1, <2>2, SendOrdered DEF ChangeMode, ghosts, IsGlobal
<1>4. CASE ServeBind
  <2>1. Head(requests) \in Requests /\ Head(requests).type = "bind"
    BY <1>4, Served DEF ServeBind
  <2> DEFINE n == Head(requests).name
             e == [type |-> "mode", name |-> n, mode |-> mode[n]]
  <2>2. e \in Events /\ ~IsGlobal(e)
    BY <2>1, Fields DEF Events, TypeOK, IsGlobal
  <2>3. Send(e) \/ UNCHANGED events
    BY <1>4 DEF ServeBind
  <2> HIDE DEF e
  <2>4. UNCHANGED <<outputs, nextName, known>>
    BY <1>4 DEF ServeBind, ghosts
  <2>5. CASE UNCHANGED events
    BY <2>4, <2>5 DEF Ordered, DiscoveryOrder, IsGlobal
  <2> QED
    BY <2>2, <2>3, <2>4, <2>5, SendOrdered
<1>5. CASE ServeSync
  <2> DEFINE e == [type |-> IF Head(requests).type = "sync" THEN "done" ELSE "roundtrip"]
  <2>1. e \in Events /\ ~IsGlobal(e)
    BY DEF Events, IsGlobal
  <2>2. Send(e) /\ UNCHANGED <<outputs, nextName, known>>
    BY <1>5 DEF ServeSync, ghosts, compositorVars
  <2> HIDE DEF e
  <2> QED
    BY <2>1, <2>2, SendOrdered
<1>6. ASSUME NEW type, Receive(type),
             DOMAIN outputs' = DOMAIN outputs,
             \A j \in DOMAIN outputs : outputs'[j].name = outputs[j].name
      PROVE  Ordered'
  <2> DEFINE id == [j \in DOMAIN outputs |-> j]
  <2>1. /\ id \in [DOMAIN outputs' -> DOMAIN outputs]
        /\ \A j \in DOMAIN outputs' : outputs'[j].name = outputs[id[j]].name
        /\ \A i, j \in DOMAIN outputs' : i < j => id[i] < id[j]
    BY <1>6
  <2> HIDE DEF id
  <2> QED
    BY <1>6, <2>1, ReceiveOrdered
<1>7. CASE OnGlobal
  <2> DEFINE n == Head(events).name
  <2>1. Receive("global")
    BY <1>7 DEF OnGlobal
  <2>2. /\ IsGlobal(events[1]) /\ 1 \in DOMAIN events /\ n = events[1].name
        /\ n \in Names
    <3>1. /\ events[1] \in Events /\ events[1].type = "global" /\ Head(events) = events[1]
          /\ Len(events) \in Nat \ {0} /\ DOMAIN events = 1 .. Len(events)
      BY <2>1, Received
    <3>2. 1 \in DOMAIN events
      BY <3>1
    <3> QED
      BY <3>1, <3>2, Fields DEF IsGlobal
  <2>3. DOMAIN events' = 1 .. Len(events) - 1
         /\ \A i \in 1 .. Len(events) - 1 : events'[i] = events[i + 1]
    BY <2>1, Received
  <2>4. nextName' = nextName /\ known' = known
    BY <2>1 DEF Receive, compositorVars
  <2> HIDE DEF n
  <2>5. CASE outputs' = outputs
    BY <1>6, <2>1, <2>5
  <2>6. CASE outputs' = Append(outputs, NewOutput(n))
    <3>1. /\ DOMAIN outputs' = 1 .. Len(outputs) + 1
          /\ \A j \in 1 .. Len(outputs) : outputs'[j] = outputs[j]
          /\ outputs'[Len(outputs) + 1].name = n
      BY <2>2, <2>6, Discovered
    <3>2. \A j \in 1 .. Len(outputs) : outputs[j].name < n
      BY <2>2 DEF Ordered
    <3>3. n < nextName
      BY <2>2 DEF Ordered
    <3>4. ASSUME NEW i \in DOMAIN events', IsGlobal(events'[i])
          PROVE  n < events'[i].name /\ i + 1 \in DOMAIN events /\ events'[i] = events[i + 1]
      <4>1. i + 1 \in DOMAIN events /\ events'[i] = events[i + 1] /\ 1 < i + 1
        BY <2>3
      <4> QED
        BY <2>2, <3>4, <4>1 DEF Ordered
    <3>5. DiscoveryOrder'
      <4> SUFFICES ASSUME NEW i \in DOMAIN outputs', NEW j \in DOMAIN outputs', i < j
                   PROVE  outputs'[i].name < outputs'[j].name
        BY DEF DiscoveryOrder
      <4>1. CASE j = Len(outputs) + 1
        BY <3>1, <3>2, <4>1
      <4>2. CASE j \in 1 .. Len(outputs)
        BY <3>1, <4>2 DEF Ordered, DiscoveryOrder
      <4> QED
        BY <3>1, <4>1, <4>2
    <3>6. \A j \in DOMAIN outputs' : outputs'[j].name < nextName'
      BY <2>4, <3>1, <3>3 DEF Ordered
    <3>7. ASSUME NEW i \in DOMAIN events', IsGlobal(events'[i])
          PROVE  /\ events'[i].name < nextName'
                 /\ \A j \in DOMAIN outputs' : outputs'[j].name < events'[i].name
                 /\ \A k \in known' : k < events'[i].name
      BY <2>4, <3>1, <3>4, <3>7 DEF Ordered
    <3>8. ASSUME NEW i \in DOMAIN events', IsGlobal(events'[i]),
                 NEW j \in DOMAIN events', j < i, IsGlobal(events'[j])
          PROVE  events'[j].name < events'[i].name
      <4>1. j + 1 < i + 1
        BY <2>3, <3>8
      <4> QED
        BY <3>4, <3>8, <4>1 DEF Ordered
    <3> QED
      BY <2>4, <3>5, <3>6, <3>7, <3>8 DEF Ordered, IsGlobal
  <2> QED
    BY <1>7, <2>5, <2>6 DEF OnGlobal, n
<1>8. CASE OnGlobalRemove
  <2>1. Receive("remove")
    BY <1>8 DEF OnGlobalRemove
  <2>2. PICK at \in [DOMAIN outputs' -> DOMAIN outputs] :
          /\ \A j \in DOMAIN outputs' : outputs'[j] = outputs[at[j]]
          /\ \A i, j \in DOMAIN outputs' : i < j => at[i] < at[j]
    BY <1>8, Forgotten DEF OnGlobalRemove
  <2> QED
    BY <2>1, <2>2, ReceiveOrdered
<1>9. CASE OnMode
  BY <1>6, <1>9, Redrawn DEF OnMode
<1>10. CASE OnDone \/ EndConnect
  BY <1>6, <1>10 DEF OnDone, EndConnect
<1>11. CASE BeginRefresh
  <2>1. \A n \in known' : \E j \in DOMAIN outputs : n = outputs[j].name
    BY <1>11 DEF BeginRefresh, Listed, ToSet
  <2>2. UNCHANGED <<outputs, events, nextName>>
    BY <1>11 DEF BeginRefresh, compositorVars
  <2> QED
    BY <2>1, <2>2 DEF Ordered, DiscoveryOrder, IsGlobal
<1>12. CASE EndRefresh \/ RefreshTimeout \/ UNCHANGED vars
  BY <1>12 DEF EndRefresh, RefreshTimeout, vars, ghosts, compositorVars, Ordered, DiscoveryOrder, IsGlobal
<1> QED
  BY <1>1, <1>2, <1>3, <1>4, <1>5, <1>7, <1>8, <1>9, <1>10, <1>11, <1>12
  DEF Next, Hotplug, Serve, Dispatch

-----------------------------------------------------------------------------
(* A bind, a mode or a removal is under way *)

\* Every announced output is still there, or its removal will be read later.
LEMMA SendAccounted ==
  ASSUME TypeOK, Accounted, NEW e \in Events, Send(e), ~IsGlobal(e), outputs' = outputs,
         \A n \in ToSet(present) : n \in ToSet(present)' \/ IsRemoval(e, n)
  PROVE  Accounted'
<1>1. /\ DOMAIN events = 1 .. Len(events) /\ Len(events) \in Nat
      /\ DOMAIN events' = 1 .. Len(events) + 1
      /\ \A i \in 1 .. Len(events) : events'[i] = events[i]
      /\ events'[Len(events) + 1] = e
  BY Sent
<1>2. ASSUME NEW n, NEW k \in 0 .. Len(events), Current(n, k)
      PROVE  Current(n, k)'
  <2>1. CASE n \in ToSet(present)
    BY <1>1, <2>1 DEF Current
  <2>2. CASE \E i \in DOMAIN events : k < i /\ IsRemoval(events[i], n)
    BY <1>1, <2>2 DEF Current
  <2> QED
    BY <1>2, <2>1, <2>2 DEF Current
<1>3. ASSUME NEW j \in DOMAIN outputs'
      PROVE  Current(outputs[j].name, 0)'
  <2>1. Current(outputs[j].name, 0) /\ outputs'[j] = outputs[j]
    BY DEF Accounted
  <2> QED
    BY <1>1, <1>2, <2>1 DEF Current
<1>4. ASSUME NEW i \in DOMAIN events', IsGlobal(events'[i])
      PROVE  Current(events[i].name, i)'
  <2>1. i \in 1 .. Len(events) /\ events'[i] = events[i]
    BY <1>1, <1>4
  <2>2. Current(events[i].name, i)
    BY <1>1, <1>4, <2>1 DEF Accounted
  <2> QED
    BY <1>1, <1>2, <2>1, <2>2 DEF Current
<1> QED
  BY <1>3, <1>4 DEF Accounted, IsGlobal

\* The removal that a handler reads concerns nobody who is listed afterwards.
LEMMA ReceiveCurrent ==
  ASSUME TypeOK, NEW type, Receive(type), NEW n, NEW k \in Nat, Current(n, k),
         k = 0 => ~IsRemoval(events[1], n)
  PROVE  \/ n \in ToSet(present)'
         \/ \E i \in DOMAIN events' : k < i + 1 /\ IsRemoval(events'[i], n)
<1>1. present' = present
  BY DEF Receive, compositorVars
<1>2. CASE \E i \in DOMAIN events : k < i /\ IsRemoval(events[i], n)
  <2>1. PICK i \in DOMAIN events : k < i /\ IsRemoval(events[i], n)
    BY <1>2
  <2>2. /\ DOMAIN events = 1 .. Len(events) /\ Len(events) \in Nat
        /\ DOMAIN events' = 1 .. Len(events) - 1
        /\ \A m \in 1 .. Len(events) - 1 : events'[m] = events[m + 1]
    BY Received
  <2>3. i # 1
    BY <2>1
  <2>4. i - 1 \in DOMAIN events' /\ events'[i - 1] = events[i] /\ k < (i - 1) + 1
    BY <2>1, <2>2, <2>3
  <2> QED
    BY <2>1, <2>4
<1> QED
  BY <1>1, <1>2 DEF Current

\* The same for the list and for what is still to be announced.
LEMMA ReceiveAccounted ==
  ASSUME TypeOK, Accounted, NEW type, Receive(type),
         \A j \in DOMAIN outputs' :
           /\ ~IsRemoval(events[1], outputs'[j].name)
           /\ Current(outputs'[j].name, 0)
  PROVE  Accounted'
<1>1. ASSUME NEW j \in DOMAIN outputs'
      PROVE  Current(outputs[j].name, 0)'
  <2> DEFINE n == outputs'[j].name
  <2>1. Current(n, 0) /\ ~IsRemoval(events[1], n)
    OBVIOUS
  <2> HIDE DEF n
  <2>2. \/ n \in ToSet(present)'
        \/ \E i \in DOMAIN events' : 0 < i + 1 /\ IsRemoval(events'[i], n)
    BY <2>1, ReceiveCurrent
  <2>3. \A i \in DOMAIN events' : 0 < i
    BY Received
  <2> QED
    BY <2>2, <2>3 DEF Current, n, IsRemoval
<1>2. ASSUME NEW i \in DOMAIN events', IsGlobal(events'[i])
      PROVE  Current(events[i].name, i)'
  <2> DEFINE n == events'[i].name
  <2>1. i \in Nat /\ i + 1 \in DOMAIN events /\ events'[i] = events[i + 1]
    BY Received
  <2>2. Current(n, i + 1)
    BY <1>2, <2>1 DEF Accounted, IsGlobal
  <2> HIDE DEF n
  <2>3. \/ n \in ToSet(present)'
        \/ \E k \in DOMAIN events' : i + 1 < k + 1 /\ IsRemoval(events'[k], n)
    BY <2>1, <2>2, ReceiveCurrent
  <2>4. \A k \in DOMAIN events' : i + 1 < k + 1 => i < k
    BY <2>1, Received
  <2> QED
    BY <2>3, <2>4 DEF Current, n, IsRemoval
<1> QED
  BY <1>1, <1>2 DEF Accounted, IsGlobal

\* A step keeps account of the outputs.
LEMMA StepAccounted ==
  ASSUME TypeOK, Ordered, Accounted, [Next]_vars
  PROVE  Accounted'
<1>1. CASE Plug
  <2> DEFINE e == [type |-> "global", name |-> nextName]
  <2>1. e \in Events /\ nextName \in Names
    BY <1>1 DEF Plug, Events
  <2>2. e.name = nextName
    OBVIOUS
  <2>3. Send(e) /\ outputs' = outputs
    BY <1>1 DEF Plug
  <2> HIDE DEF e
  <2>4. ToSet(present)' = ToSet(present) \cup {nextName}
    <3>1. present \in Seq(Names)
      BY DEF TypeOK
    <3>2. /\ Len(present) \in Nat /\ DOMAIN present = 1 .. Len(present)
          /\ DOMAIN present' = 1 .. Len(present) + 1
          /\ \A i \in 1 .. Len(present) : present'[i] = present[i]
          /\ present'[Len(present) + 1] = nextName
      BY <1>1, <2>1, <3>1, Appended DEF Plug
    <3> QED
      BY <3>2 DEF ToSet
  <2>5. /\ DOMAIN events = 1 .. Len(events) /\ Len(events) \in Nat
        /\ DOMAIN events' = 1 .. Len(events) + 1
        /\ \A i \in 1 .. Len(events) : events'[i] = events[i]
        /\ events'[Len(events) + 1] = e
    BY <2>1, <2>3, Sent
  <2>6. ASSUME NEW j \in DOMAIN outputs'
        PROVE  Current(outputs[j].name, 0)'
    BY <2>3, <2>4, <2>5 DEF Accounted, Current
  <2>7. ASSUME NEW i \in DOMAIN events', IsGlobal(events'[i])
        PROVE  Current(events[i].name, i)'
    <3>1. CASE i = Len(events) + 1
      BY <2>2, <2>4, <2>5, <3>1 DEF Current
    <3>2. CASE i \in 1 .. Len(events)
      BY <2>4, <2>5, <2>7, <3>2 DEF Accounted, Current
    <3> QED
      BY <2>5, <3>1, <3>2
  <2> QED
    BY <2>6, <2>7 DEF Accounted, IsGlobal
<1>2. ASSUME NEW n \in Names, Unplug(n)
      PROVE  Accounted'
  <2> DEFINE e == [type |-> "remove", name |-> n]
  <2>1. e \in Events /\ ~IsGlobal(e) /\ IsRemoval(e, n)
    BY DEF Events, IsGlobal, IsRemoval
  <2>2. Send(e) /\ outputs' = outputs
    BY <1>2 DEF Unplug
  <2> HIDE DEF e
  <2>3. ASSUME NEW m \in ToSet(present), m # n
        PROVE  m \in ToSet(present)'
    <3>1. PICK i \in DOMAIN present : present[i] = n /\ present' = RemoveAt(present, i)
      BY <1>2 DEF Unplug
    <3>2. present \in Seq(Names) /\ i \in 1 .. Len(present)
      BY DEF TypeOK
    <3>3. /\ Len(present) \in Nat /\ DOMAIN present = 1 .. Len(present)
          /\ DOMAIN present' = 1 .. Len(present) - 1
          /\ \A k \in 1 .. Len(present) - 1 :
               present'[k] = IF k < i THEN present[k] ELSE present[k + 1]
      BY <3>1, <3>2, Removed
    <3>4. PICK k \in DOMAIN present : present[k] = m
      BY DEF ToSet
    <3>5. CASE k < i
      <4>1. k \in DOMAIN present' /\ present'[k] = m
        BY <3>2, <3>3, <3>4, <3>5
      <4> QED
        BY <4>1 DEF ToSet
    <3>6. CASE i < k
      <4>1. k - 1 \in DOMAIN present' /\ present'[k - 1] = m
        BY <3>2, <3>3, <3>4, <3>6
      <4> QED
        BY <4>1 DEF ToSet
    <3> QED
      BY <2>3, <3>1, <3>2, <3>3, <3>4, <3>5, <3>6
  <2> QED
    BY <2>1, <2>2, <2>3, SendAccounted
<1>3. ASSUME UNCHANGED <<present, events, outputs>>
      PROVE  Accounted'
  BY <1>3 DEF Accounted, Current, IsGlobal, IsRemoval
<1>4. ASSUME NEW n \in Names, NEW m \in Modes, ChangeMode(n, m)
      PROVE  Accounted'
  <2>1. [type |-> "mode", name |-> n, mode |-> m] \in Events
    BY DEF Events
  <2>2. UNCHANGED <<present, outputs>>
    BY <1>4 DEF ChangeMode
  <2>3. CASE Send([type |-> "mode", name |-> n, mode |-> m])
    BY <2>1, <2>2, <2>3, SendAccounted DEF IsGlobal
  <2> QED
    BY <1>3, <1>4, <2>2, <2>3 DEF ChangeMode
<1>5. CASE ServeBind
  <2> DEFINE n == Head(requests).name
             e == [type |-> "mode", name |-> n, mode |-> mode[n]]
  <2>1. Head(requests) \in Requests /\ Head(requests).type = "bind"
    BY <1>5, Served DEF ServeBind
  <2>2. e \in Events /\ ~IsGlobal(e)
    BY <2>1, Fields DEF Events, TypeOK, IsGlobal
  <2>3. (Send(e) \/ UNCHANGED events) /\ UNCHANGED <<present, outputs>>
    BY <1>5 DEF ServeBind
  <2> HIDE DEF e
  <2> QED
    BY <1>3, <2>2, <2>3, SendAccounted
<1>6. CASE ServeSync
  <2> DEFINE e == [type |-> IF Head(requests).type = "sync" THEN "done" ELSE "roundtrip"]
  <2>1. e \in Events /\ ~IsGlobal(e)
    BY DEF Events, IsGlobal
  <2>2. Send(e) /\ UNCHANGED <<present, outputs>>
    BY <1>6 DEF ServeSync, compositorVars
  <2> HIDE DEF e
  <2> QED
    BY <2>1, <2>2, SendAccounted
<1>7. CASE OnGlobal
  <2> DEFINE n == Head(events).name
  <2>1. Receive("global")
    BY <1>7 DEF OnGlobal
  <2>2. /\ events[1] \in Events /\ events[1].type = "global" /\ Head(events) = events[1]
        /\ Len(events) \in Nat \ {0} /\ DOMAIN events = 1 .. Len(events)
    BY <2>1, Received
  <2>3. 1 \in DOMAIN events /\ IsGlobal(events[1]) /\ n = events[1].name /\ n \in Names
    BY <2>2, Fields DEF IsGlobal
  <2>4. \A m : ~IsRemoval(events[1], m)
    BY <2>2 DEF IsRemoval
  <2>5. Current(n, 0)
    BY <2>2, <2>3 DEF Accounted, Current
  <2> HIDE DEF n
  <2>6. CASE outputs' = outputs
    BY <2>1, <2>4, <2>6, ReceiveAccounted DEF Accounted
  <2>7. CASE outputs' = Append(outputs, NewOutput(n))
    <3>1. /\ DOMAIN outputs' = 1 .. Len(outputs) + 1
          /\ \A j \in 1 .. Len(outputs) : outputs'[j] = outputs[j]
          /\ outputs'[Len(outputs) + 1].name = n
      BY <2>3, <2>7, Discovered
    <3>2. ASSUME NEW j \in DOMAIN outputs'
          PROVE  Current(outputs'[j].name, 0)
      <4>1. CASE j = Len(outputs) + 1
        BY <2>5, <3>1, <4>1
      <4>2. CASE j \in DOMAIN outputs
        BY <3>1, <4>2, Places DEF Accounted
      <4> QED
        BY <3>1, <4>1, <4>2, Places
    <3> QED
      BY <2>1, <2>4, <3>2, ReceiveAccounted
  <2> QED
    BY <1>7, <2>6, <2>7 DEF OnGlobal, n
<1>8. CASE OnGlobalRemove
  <2>1. Receive("remove") /\ DiscoveryOrder
    BY <1>8 DEF OnGlobalRemove, Ordered
  <2>2. Head(events) = events[1]
    BY <2>1, Received
  <2>3. PICK at \in [DOMAIN outputs' -> DOMAIN outputs] :
          /\ \A j \in DOMAIN outputs' : outputs'[j] = outputs[at[j]]
          /\ \A j \in DOMAIN outputs' : outputs'[j].name # events[1].name
    BY <1>8, <2>1, <2>2, Forgotten DEF OnGlobalRemove
  <2>4. \A j \in DOMAIN outputs' :
          ~IsRemoval(events[1], outputs'[j].name) /\ Current(outputs'[j].name, 0)
    BY <2>3 DEF Accounted, IsRemoval
  <2> QED
    BY <2>1, <2>4, ReceiveAccounted
<1>9. ASSUME NEW type, Receive(type), type # "remove",
             DOMAIN outputs' = DOMAIN outputs,
             \A j \in DOMAIN outputs : outputs'[j].name = outputs[j].name
      PROVE  Accounted'
  <2>1. events[1].type = type
    BY <1>9, Received
  <2>2. \A n : ~IsRemoval(events[1], n)
    BY <1>9, <2>1 DEF IsRemoval
  <2> QED
    BY <1>9, <2>2, ReceiveAccounted DEF Accounted
<1>10. CASE OnMode
  BY <1>9, <1>10, Redrawn DEF OnMode
<1>11. CASE OnDone \/ EndConnect
  BY <1>9, <1>11 DEF OnDone, EndConnect
<1>12. CASE BeginRefresh \/ EndRefresh \/ RefreshTimeout \/ UNCHANGED vars
  BY <1>3, <1>12 DEF BeginRefresh, EndRefresh, RefreshTimeout, vars, compositorVars
<1> QED
  BY <1>1, <1>2, <1>4, <1>5, <1>6, <1>7, <1>8, <1>10, <1>11, <1>12
  DEF Next, Hotplug, Serve, Dispatch

-----------------------------------------------------------------------------
(* Nothing that is under way is lost or overtaken *)

\* What is sent later, and does not answer a sync, overtakes nothing.
LEMMA SendKeeps ==
  ASSUME TypeOK, NEW e \in Events, Send(e), requests' = requests, NEW n
  PROVE  /\ Underway(n) => Underway(n)'
         /\ e.type # "done" /\ Ahead(n) => Ahead(n)'
<1>1. /\ DOMAIN events = 1 .. Len(events) /\ Len(events) \in Nat
      /\ DOMAIN events' = 1 .. Len(events) + 1
      /\ \A i \in 1 .. Len(events) : events'[i] = events[i]
      /\ events'[Len(events) + 1] = e
  BY Sent
<1>2. e.type # "done" => Dones' = Dones
  BY <1>1 DEF Dones
<1>3. Syncs' = Syncs
  BY DEF Syncs
<1>4. Underway(n) => Underway(n)'
  BY <1>1 DEF Underway
<1>5. e.type # "done" /\ Ahead(n) => Ahead(n)'
  BY <1>1, <1>2, <1>3 DEF Ahead
<1> QED
  BY <1>4, <1>5

\* A bind is answered by the mode, unless a removal is under way already.
LEMMA ServeBindKeeps ==
  ASSUME TypeOK, ServeBind, NEW n, Current(n, 0)
  PROVE  /\ Underway(n) => Underway(n)'
         /\ Ahead(n) => Ahead(n)'
<1> DEFINE b == Head(requests).name
           e == [type |-> "mode", name |-> b, mode |-> mode[b]]
<1>1. /\ requests[1] \in Requests /\ Head(requests) = requests[1] /\ requests[1].type = "bind"
      /\ Len(requests) \in Nat \ {0} /\ DOMAIN requests = 1 .. Len(requests)
      /\ DOMAIN requests' = 1 .. Len(requests) - 1
      /\ \A i \in 1 .. Len(requests) - 1 : requests'[i] = requests[i + 1]
  BY Served DEF ServeBind
<1>2. b = requests[1].name /\ e \in Events /\ e.type = "mode" /\ e.name = b
  BY <1>1, Fields DEF Events, TypeOK
<1>3. IF b \in ToSet(present) THEN Send(e) ELSE events' = events
  BY DEF ServeBind
<1> HIDE DEF b, e
<1>4. /\ DOMAIN events = 1 .. Len(events) /\ Len(events) \in Nat
      /\ DOMAIN events \subseteq DOMAIN events'
      /\ \A i \in DOMAIN events : events'[i] = events[i]
      /\ \A i \in DOMAIN events' : i \in DOMAIN events \/ events'[i] = e
  <2>1. CASE Send(e)
    BY <1>2, <2>1, Sent
  <2>2. CASE events' = events
    BY <2>2, Places
  <2> QED
    BY <1>3, <2>1, <2>2
<1>5. Dones' = Dones
  BY <1>2, <1>4 DEF Dones
<1>6. \A k \in Syncs' : k \in Nat /\ k + 1 \in Syncs
  BY <1>1 DEF Syncs
<1>7. ASSUME NEW i \in DOMAIN requests, i # 1
      PROVE  i - 1 \in DOMAIN requests' /\ requests'[i - 1] = requests[i]
  BY <1>1, <1>7
<1>8. ASSUME n = b
      PROVE  \E i \in DOMAIN events' : Settling(events'[i], n)
  <2>1. CASE b \in ToSet(present)
    <3>1. Len(events) + 1 \in DOMAIN events' /\ events'[Len(events) + 1] = e
      BY <1>2, <1>3, <2>1, Sent
    <3> QED
      BY <1>2, <1>8, <3>1 DEF Settling
  <2>2. CASE b \notin ToSet(present)
    BY <1>4, <1>8, <2>2 DEF Current, Settling, IsRemoval
  <2> QED
    BY <2>1, <2>2
<1>9. Underway(n) => Underway(n)'
  <2>1. ASSUME NEW i \in DOMAIN requests, IsBind(requests[i], n)
        PROVE  Underway(n)'
    <3>1. CASE i = 1
      BY <1>2, <1>8, <2>1, <3>1 DEF IsBind, Underway
    <3>2. CASE i # 1
      BY <1>7, <2>1, <3>2 DEF Underway
    <3> QED
      BY <3>1, <3>2
  <2>2. ASSUME NEW i \in DOMAIN events, Settling(events[i], n)
        PROVE  Underway(n)'
    BY <1>4, <2>2 DEF Underway
  <2> QED
    BY <2>1, <2>2 DEF Underway
<1>10. Ahead(n) => Ahead(n)'
  <2>1. ASSUME Dones = {}, NEW i \in DOMAIN requests, IsBind(requests[i], n), \A k \in Syncs : i < k
        PROVE  Ahead(n)'
    <3>1. CASE i = 1
      <4>1. \E m \in DOMAIN events' : Settling(events'[m], n)
        BY <1>2, <1>8, <2>1, <3>1 DEF IsBind
      <4> QED
        BY <1>5, <2>1, <4>1 DEF Ahead
    <3>2. CASE i # 1
      <4>1. i - 1 \in DOMAIN requests' /\ requests'[i - 1] = requests[i]
        BY <1>7, <3>2
      <4>2. \A k \in Syncs' : i - 1 < k
        BY <1>1, <1>6, <2>1
      <4> QED
        BY <1>5, <2>1, <4>1, <4>2 DEF Ahead
    <3> QED
      BY <3>1, <3>2
  <2>2. ASSUME NEW i \in DOMAIN events, Settling(events[i], n), \A k \in Dones : i < k
        PROVE  Ahead(n)'
    BY <1>4, <1>5, <2>2 DEF Ahead
  <2> QED
    BY <2>1, <2>2 DEF Ahead
<1> QED
  BY <1>9, <1>10

\* The answer to a sync is sent after what was ahead of the sync.
LEMMA ServeSyncKeeps ==
  ASSUME TypeOK, ServeSync, NEW n
  PROVE  /\ Underway(n) => Underway(n)'
         /\ Ahead(n) => Ahead(n)'
<1> DEFINE e == [type |-> IF Head(requests).type = "sync" THEN "done" ELSE "roundtrip"]
<1>1. /\ requests[1] \in Requests /\ Head(requests) = requests[1] /\ requests[1].type # "bind"
      /\ Len(requests) \in Nat \ {0} /\ DOMAIN requests = 1 .. Len(requests)
      /\ DOMAIN requests' = 1 .. Len(requests) - 1
      /\ \A i \in 1 .. Len(requests) - 1 : requests'[i] = requests[i + 1]
  BY Served DEF ServeSync
<1>2. e \in Events /\ (e.type = "done" => requests[1].type = "sync")
  BY <1>1 DEF Events
<1>3. Send(e)
  BY DEF ServeSync
<1> HIDE DEF e
<1>4. /\ DOMAIN events = 1 .. Len(events) /\ Len(events) \in Nat
      /\ DOMAIN events' = 1 .. Len(events) + 1
      /\ \A i \in 1 .. Len(events) : events'[i] = events[i]
      /\ events'[Len(events) + 1] = e
  BY <1>2, <1>3, Sent
<1>5. ASSUME NEW i \in Dones'
      PROVE  i \in Dones \/ (i = Len(events) + 1 /\ requests[1].type = "sync")
  <2>1. i \in DOMAIN events' /\ events'[i].type = "done"
    BY DEF Dones
  <2>2. CASE i = Len(events) + 1
    BY <1>2, <1>4, <2>1, <2>2
  <2>3. CASE i \in 1 .. Len(events)
    <3>1. i \in DOMAIN events /\ events[i].type = "done"
      BY <1>4, <2>1, <2>3
    <3> QED
      BY <3>1 DEF Dones
  <2> QED
    BY <1>4, <2>1, <2>2, <2>3
<1>6. \A k \in Syncs' : k \in Nat /\ k + 1 \in Syncs
  BY <1>1 DEF Syncs
<1>7. ASSUME NEW i \in DOMAIN requests, IsBind(requests[i], n)
      PROVE  i - 1 \in DOMAIN requests' /\ IsBind(requests'[i - 1], n)
  <2>1. i # 1
    BY <1>1, <1>7 DEF IsBind
  <2> QED
    BY <1>1, <1>7, <2>1
<1>8. Underway(n) => Underway(n)'
  BY <1>4, <1>7 DEF Underway
<1>9. Ahead(n) => Ahead(n)'
  <2>1. ASSUME Dones = {}, NEW i \in DOMAIN requests, IsBind(requests[i], n), \A k \in Syncs : i < k
        PROVE  Ahead(n)'
    <3>1. requests[1].type # "sync"
      <4> SUFFICES ASSUME requests[1].type = "sync"
                   PROVE  FALSE
        OBVIOUS
      <4>1. 1 \in Syncs
        BY <1>1 DEF Syncs
      <4> QED
        BY <1>1, <2>1, <4>1
    <3>2. Dones' = {}
      BY <1>5, <2>1, <3>1
    <3>3. \A k \in Syncs' : i - 1 < k
      BY <1>1, <1>6, <2>1
    <3> QED
      BY <1>7, <2>1, <3>2, <3>3 DEF Ahead
  <2>2. ASSUME NEW i \in DOMAIN events, Settling(events[i], n), \A k \in Dones : i < k
        PROVE  Ahead(n)'
    <3>1. i \in DOMAIN events' /\ Settling(events'[i], n)
      BY <1>4, <2>2
    <3>2. \A k \in Dones' : i < k
      BY <1>4, <1>5, <2>2
    <3> QED
      BY <3>1, <3>2 DEF Ahead
  <2> QED
    BY <2>1, <2>2 DEF Ahead
<1> QED
  BY <1>8, <1>9

\* A handler reads them in order; if it is the one that ends the refresh, nothing
\* was ahead of it.
LEMMA ReceiveKeeps ==
  ASSUME TypeOK, NEW type, Receive(type), NEW n, ~Settling(events[1], n),
         \/ requests' = requests
         \/ \E m \in Names : requests' = Append(requests, [type |-> "bind", name |-> m])
  PROVE  /\ Underway(n) => Underway(n)'
         /\ Ahead(n) => Ahead(n)' /\ type # "done"
<1>1. /\ events[1].type = type
      /\ Len(events) \in Nat \ {0} /\ DOMAIN events = 1 .. Len(events)
      /\ DOMAIN events' = 1 .. Len(events) - 1
      /\ \A i \in 1 .. Len(events) - 1 : events'[i] = events[i + 1]
  BY Received
<1>2. /\ DOMAIN requests \subseteq DOMAIN requests'
      /\ \A i \in DOMAIN requests : requests'[i] = requests[i]
      /\ \A i \in DOMAIN requests' : i \in DOMAIN requests \/ requests'[i].type = "bind"
  <2>1. ASSUME NEW m \in Names, requests' = Append(requests, [type |-> "bind", name |-> m])
        PROVE  /\ DOMAIN requests = 1 .. Len(requests) /\ Len(requests) \in Nat
               /\ DOMAIN requests' = 1 .. Len(requests) + 1
               /\ \A i \in 1 .. Len(requests) : requests'[i] = requests[i]
               /\ requests'[Len(requests) + 1].type = "bind"
    <3> DEFINE r == [type |-> "bind", name |-> m]
    <3>1. r \in Requests /\ requests \in Seq(Requests) /\ r.type = "bind"
      BY DEF Requests, TypeOK
    <3>2. requests' = Append(requests, r)
      BY <2>1
    <3> HIDE DEF r
    <3> QED
      BY <3>1, <3>2, Appended
  <2>2. CASE requests' = requests
    BY <2>2
  <2>3. CASE \E m \in Names : requests' = Append(requests, [type |-> "bind", name |-> m])
    <3>1. /\ DOMAIN requests = 1 .. Len(requests) /\ Len(requests) \in Nat
          /\ DOMAIN requests' = 1 .. Len(requests) + 1
          /\ \A i \in 1 .. Len(requests) : requests'[i] = requests[i]
          /\ requests'[Len(requests) + 1].type = "bind"
      BY <2>1, <2>3
    <3> QED
      BY <3>1
  <2> QED
    BY <2>2, <2>3
<1>3. Syncs' = Syncs
  BY <1>2 DEF Syncs
<1>4. \A k \in Dones' : k \in Nat /\ k + 1 \in Dones
  BY <1>1 DEF Dones
<1>5. ASSUME NEW i \in DOMAIN events, Settling(events[i], n)
      PROVE  i \in Nat /\ i - 1 \in DOMAIN events' /\ Settling(events'[i - 1], n) /\ 1 < i
  <2>1. i # 1
    BY <1>5
  <2>2. i - 1 \in 1 .. Len(events) - 1 /\ (i - 1) + 1 = i /\ 1 < i /\ i \in Nat
    BY <1>1, <2>1
  <2> QED
    BY <1>1, <1>5, <2>2
<1>6. type = "done" => 1 \in Dones
  BY <1>1 DEF Dones
<1>7. Underway(n) => Underway(n)'
  BY <1>2, <1>5 DEF Underway
<1>8. ASSUME Dones = {}, NEW i \in DOMAIN requests, IsBind(requests[i], n), \A k \in Syncs : i < k
      PROVE  Ahead(n)' /\ type # "done"
  <2>1. Dones' = {}
    BY <1>4, <1>8
  <2> QED
    BY <1>2, <1>3, <1>6, <1>8, <2>1 DEF Ahead
<1>9. ASSUME NEW i \in DOMAIN events, Settling(events[i], n), \A k \in Dones : i < k
      PROVE  Ahead(n)' /\ type # "done"
  <2>1. i \in Nat /\ i - 1 \in DOMAIN events' /\ Settling(events'[i - 1], n) /\ 1 < i
    BY <1>5, <1>9
  <2>2. \A k \in Dones' : i - 1 < k
    BY <1>4, <1>9, <2>1
  <2> QED
    BY <1>6, <1>9, <2>1, <2>2 DEF Ahead
<1> QED
  BY <1>7, <1>8, <1>9 DEF Ahead

\* A handler of this type of event leaves the list as it is.
LEMMA QuietHandlers ==
  ASSUME OnDone \/ EndConnect
  PROVE  /\ \E type \in {"done", "roundtrip"} : Receive(type) /\ (type = "done" <=> OnDone)
         /\ UNCHANGED <<outputs, requests>>
BY DEF OnDone, EndConnect, Receive

\* What the handlers of the queue have in common: an output that has no mode
\* afterwards is new, with its bind as the last request, or had none before
\* and is not concerned.
LEMMA Handled ==
  ASSUME TypeOK, Ordered, Dispatch
  PROVE  /\ \E type : Receive(type) /\ (type = "done" <=> OnDone)
         /\ \/ requests' = requests
            \/ \E m \in Names : requests' = Append(requests, [type |-> "bind", name |-> m])
         /\ \A j \in DOMAIN outputs' : outputs'[j].mode = NoMode =>
              \/ /\ \E i \in DOMAIN outputs :
                      outputs[i].mode = NoMode /\ outputs[i].name = outputs'[j].name
                 /\ ~Settling(events[1], outputs'[j].name)
              \/ /\ \E i \in DOMAIN requests' : IsBind(requests'[i], outputs'[j].name)
                 /\ outputs'[j].name \notin known
<1>1. CASE OnGlobal
  <2> DEFINE n == Head(events).name
  <2>1. Receive("global") /\ ~OnDone
    BY <1>1 DEF OnGlobal, OnDone, Receive
  <2>2. /\ events[1] \in Events /\ events[1].type = "global" /\ Head(events) = events[1]
        /\ Len(events) \in Nat \ {0} /\ DOMAIN events = 1 .. Len(events)
    BY <2>1, Received
  <2>3. 1 \in DOMAIN events /\ IsGlobal(events[1]) /\ n = events[1].name /\ n \in Names
    BY <2>2, Fields DEF IsGlobal
  <2>4. \A m : ~Settling(events[1], m)
    BY <2>2 DEF Settling
  <2>5. \A m \in known : m < n
    BY <2>3 DEF Ordered
  <2> HIDE DEF n
  <2>6. CASE UNCHANGED <<outputs, requests>>
    BY <2>1, <2>4, <2>6
  <2>7. CASE /\ outputs' = Append(outputs, NewOutput(n))
             /\ requests' = Append(requests, [type |-> "bind", name |-> n])
    <3> DEFINE r == [type |-> "bind", name |-> n]
    <3>1. r \in Requests /\ requests \in Seq(Requests) /\ IsBind(r, n)
      BY <2>3 DEF Requests, TypeOK, IsBind
    <3>2. requests' = Append(requests, r)
      BY <2>7
    <3> HIDE DEF r
    <3>3. Len(requests) + 1 \in DOMAIN requests' /\ requests'[Len(requests) + 1] = r
      BY <3>1, <3>2, Appended
    <3>4. /\ DOMAIN outputs' = 1 .. Len(outputs) + 1
          /\ \A j \in 1 .. Len(outputs) : outputs'[j] = outputs[j]
          /\ outputs'[Len(outputs) + 1].name = n
      BY <2>3, <2>7, Discovered
    <3>5. n \notin known
      BY <2>3, <2>5 DEF Names
    <3>6. ASSUME NEW j \in DOMAIN outputs', outputs'[j].mode = NoMode
          PROVE  \/ /\ \E i \in DOMAIN outputs :
                         outputs[i].mode = NoMode /\ outputs[i].name = outputs'[j].name
                    /\ ~Settling(events[1], outputs'[j].name)
                 \/ /\ \E i \in DOMAIN requests' : IsBind(requests'[i], outputs'[j].name)
                    /\ outputs'[j].name \notin known
      <4>1. CASE j = Len(outputs) + 1
        BY <3>1, <3>3, <3>4, <3>5, <4>1
      <4>2. CASE j \in DOMAIN outputs
        BY <2>4, <3>4, <3>6, <4>2, Places
      <4> QED
        BY <3>4, <4>1, <4>2, Places
    <3> QED
      BY <2>1, <2>3, <2>7, <3>6
  <2> QED
    BY <1>1, <2>6, <2>7 DEF OnGlobal, n
<1>2. CASE OnGlobalRemove
  <2>1. Receive("remove") /\ DiscoveryOrder /\ requests' = requests /\ ~OnDone
    BY <1>2 DEF OnGlobalRemove, Ordered, OnDone, Receive
  <2>2. Head(events) = events[1]
    BY <2>1, Received
  <2>3. PICK at \in [DOMAIN outputs' -> DOMAIN outputs] :
          /\ \A j \in DOMAIN outputs' : outputs'[j] = outputs[at[j]]
          /\ \A j \in DOMAIN outputs' : outputs'[j].name # events[1].name
    BY <1>2, <2>1, <2>2, Forgotten DEF OnGlobalRemove
  <2>4. ASSUME NEW j \in DOMAIN outputs', outputs'[j].mode = NoMode
        PROVE  /\ \E i \in DOMAIN outputs :
                    outputs[i].mode = NoMode /\ outputs[i].name = outputs'[j].name
               /\ ~Settling(events[1], outputs'[j].name)
    <3>1. at[j] \in DOMAIN outputs /\ outputs'[j] = outputs[at[j]]
      BY <2>3
    <3> QED
      BY <2>3, <2>4, <3>1 DEF Settling
  <2> QED
    BY <2>1, <2>4
<1>3. CASE OnMode
  <2>1. Receive("mode") /\ requests' = requests /\ ~OnDone
    BY <1>3 DEF OnMode, OnDone, Receive
  <2>2. /\ DOMAIN outputs' = DOMAIN outputs
        /\ \A j \in DOMAIN outputs :
             /\ outputs'[j].name = outputs[j].name
             /\ IF outputs[j].name = events[1].name
                  THEN outputs'[j].mode = events[1].mode /\ events[1].mode \in Modes ELSE outputs'[j] = outputs[j]
    BY <1>3, Redrawn DEF OnMode
  <2>3. ASSUME NEW j \in DOMAIN outputs', outputs'[j].mode = NoMode
        PROVE  /\ outputs[j].mode = NoMode /\ outputs[j].name = outputs'[j].name
               /\ ~Settling(events[1], outputs'[j].name)
    BY <2>2, <2>3, RegistryAssumption DEF Settling
  <2> QED
    BY <2>1, <2>2, <2>3
<1>4. CASE OnDone \/ EndConnect
  <2>1. PICK type \in {"done", "roundtrip"} : Receive(type) /\ (type = "done" <=> OnDone)
    BY <1>4, QuietHandlers
  <2>2. UNCHANGED <<outputs, requests>>
    BY <1>4, QuietHandlers
  <2>3. \A m : ~Settling(events[1], m)
    BY <2>1, Received DEF Settling
  <2> QED
    BY <2>1, <2>2, <2>3
<1> QED
  BY <1>1, <1>2, <1>3, <1>4 DEF Dispatch

\* What happens at the compositor only adds events, and loses nothing.
LEMMA Outside ==
  ASSUME TypeOK, Hotplug \/ Serve
  PROVE  /\ UNCHANGED <<phase, outputs, sync_done, backlog, known, late>>
         /\ events' = events \/ \E e \in Events : Send(e)
         /\ \A n : Current(n, 0) =>
              (Underway(n) => Underway(n)') /\ (Ahead(n) => Ahead(n)')
<1>1. ASSUME requests' = requests,
             \/ events' = events
             \/ \E e \in Events : Send(e) /\ e.type # "done",
             NEW n
      PROVE  (Underway(n) => Underway(n)') /\ (Ahead(n) => Ahead(n)')
  <2>1. CASE events' = events
    BY <1>1, <2>1 DEF Underway, Ahead, Syncs, Dones, IsBind, Settling
  <2>2. CASE \E e \in Events : Send(e) /\ e.type # "done"
    BY <1>1, <2>2, SendKeeps
  <2> QED
    BY <1>1, <2>1, <2>2
<1>2. CASE Hotplug
  <2>1. /\ UNCHANGED <<phase, outputs, requests, sync_done, backlog, known, late>>
        /\ events' = events \/ \E e \in Events : Send(e) /\ e.type # "done"
    <3>1. CASE Plug
      <4>1. [type |-> "global", name |-> nextName] \in Events
        BY <3>1 DEF Plug, Events
      <4> QED
        BY <3>1, <4>1 DEF Plug, ghosts
    <3>2. ASSUME NEW n \in Names, Unplug(n)
          PROVE  /\ UNCHANGED <<phase, outputs, requests, sync_done, backlog, known, late>>
                 /\ events' = events \/ \E e \in Events : Send(e) /\ e.type # "done"
      <4>1. [type |-> "remove", name |-> n] \in Events
        BY DEF Events
      <4> QED
        BY <3>2, <4>1 DEF Unplug, ghosts
    <3>3. ASSUME NEW n \in Names, NEW m \in Modes, ChangeMode(n, m)
          PROVE  /\ UNCHANGED <<phase, outputs, requests, sync_done, backlog, known, late>>
                 /\ events' = events \/ \E e \in Events : Send(e) /\ e.type # "done"
      <4>1. [type |-> "mode", name |-> n, mode |-> m] \in Events
        BY DEF Events
      <4> QED
        BY <3>3, <4>1 DEF ChangeMode, ghosts
    <3> QED
      BY <1>2, <3>1, <3>2, <3>3 DEF Hotplug
  <2> QED
    BY <1>1, <2>1
<1>3. CASE ServeBind
  <2> DEFINE b == Head(requests).name
             e == [type |-> "mode", name |-> b, mode |-> mode[b]]
  <2>1. Head(requests) \in Requests /\ Head(requests).type = "bind"
    BY <1>3, Served DEF ServeBind
  <2>2. e \in Events
    BY <2>1, Fields DEF Events, TypeOK
  <2>3. Send(e) \/ events' = events
    BY <1>3 DEF ServeBind
  <2> HIDE DEF e
  <2>4. UNCHANGED <<phase, outputs, sync_done, backlog, known, late>>
    BY <1>3 DEF ServeBind, ghosts
  <2> QED
    BY <1>3, <2>2, <2>3, <2>4, ServeBindKeeps
<1>4. CASE ServeSync
  <2> DEFINE e == [type |-> IF Head(requests).type = "sync" THEN "done" ELSE "roundtrip"]
  <2>1. e \in Events
    BY DEF Events
  <2>2. Send(e)
    BY <1>4 DEF ServeSync
  <2> HIDE DEF e
  <2>3. UNCHANGED <<phase, outputs, sync_done, backlog, known, late>>
    BY <1>4 DEF ServeSync, ghosts
  <2> QED
    BY <1>4, <2>1, <2>2, <2>3, ServeSyncKeeps
<1> QED
  BY <1>2, <1>3, <1>4 DEF Serve

\* No output without a mode is left to itself.
LEMMA StepDrawn ==
  ASSUME TypeOK, Ordered, Accounted, Drawn, [Next]_vars
  PROVE  Drawn'
<1>1. CASE Hotplug \/ Serve
  <2> SUFFICES ASSUME NEW j \in DOMAIN outputs', outputs'[j].mode = NoMode
               PROVE  Underway(outputs[j].name)'
    BY DEF Drawn
  <2> DEFINE n == outputs[j].name
  <2>1. outputs' = outputs /\ Underway(n) /\ Current(n, 0)
    BY <1>1, Outside DEF Drawn, Accounted
  <2> HIDE DEF n
  <2>2. Underway(n)'
    BY <1>1, <2>1, Outside DEF n
  <2> QED
    BY <2>2 DEF n
<1>2. CASE Dispatch
  <2> SUFFICES ASSUME NEW j \in DOMAIN outputs', outputs'[j].mode = NoMode
               PROVE  Underway(outputs[j].name)'
    BY DEF Drawn
  <2> DEFINE n == outputs'[j].name
  <2>1. \/ /\ \E i \in DOMAIN outputs : outputs[i].mode = NoMode /\ outputs[i].name = n
           /\ ~Settling(events[1], n)
        \/ \E i \in DOMAIN requests' : IsBind(requests'[i], n)
    BY <1>2, Handled
  <2>2. PICK type : Receive(type)
    BY <1>2, Handled
  <2>3. \/ requests' = requests
        \/ \E m \in Names : requests' = Append(requests, [type |-> "bind", name |-> m])
    BY <1>2, Handled
  <2> HIDE DEF n
  <2>4. CASE /\ \E i \in DOMAIN outputs : outputs[i].mode = NoMode /\ outputs[i].name = n
             /\ ~Settling(events[1], n)
    <3>1. Underway(n)
      BY <2>4 DEF Drawn
    <3> QED
      BY <2>2, <2>3, <2>4, <3>1, ReceiveKeeps DEF Underway, n, IsBind, Settling
  <2>5. CASE \E i \in DOMAIN requests' : IsBind(requests'[i], n)
    BY <2>5 DEF Underway, n, IsBind
  <2> QED
    BY <2>1, <2>4, <2>5
<1>3. CASE BeginRefresh
  <2>1. [type |-> "sync"] \in Requests /\ requests \in Seq(Requests)
    BY DEF Requests, TypeOK
  <2>2. /\ DOMAIN requests \subseteq DOMAIN requests'
        /\ \A i \in DOMAIN requests : requests'[i] = requests[i]
    BY <1>3, <2>1, Appended DEF BeginRefresh
  <2>3. UNCHANGED <<events, outputs>>
    BY <1>3 DEF BeginRefresh
  <2> QED
    BY <2>2, <2>3 DEF Drawn, Underway, IsBind, Settling
<1>4. CASE EndRefresh \/ RefreshTimeout \/ UNCHANGED vars
  BY <1>4 DEF EndRefresh, RefreshTimeout, vars, Drawn, Underway, IsBind, Settling
<1> QED
  BY <1>1, <1>2, <1>3, <1>4 DEF Next

\* A refresh stays behind what it has to read, and ahead of nothing else.
LEMMA StepFresh ==
  ASSUME TypeOK, Ordered, Accounted, Drawn, Fresh, [Next]_vars
  PROVE  Fresh'
<1>1. CASE Hotplug \/ Serve
  <2> SUFFICES ASSUME phase' = "refreshing", ~late'
               PROVE  Fresh'
    BY DEF Fresh
  <2>1. UNCHANGED <<phase, outputs, sync_done, backlog, known, late>>
    BY <1>1, Outside
  <2>2. /\ backlog <= Len(events)
        /\ \A i \in Dones : backlog < i
        /\ sync_done => backlog = 0
    BY <2>1 DEF Fresh
  <2>3. backlog' <= Len(events') /\ \A i \in Dones' : backlog' < i
    <3>1. CASE events' = events
      BY <2>1, <2>2, <3>1 DEF Dones
    <3>2. CASE \E e \in Events : Send(e)
      <4>1. /\ Len(events) \in Nat /\ DOMAIN events = 1 .. Len(events)
            /\ Len(events') = Len(events) + 1 /\ DOMAIN events' = 1 .. Len(events) + 1
            /\ \A i \in 1 .. Len(events) : events'[i] = events[i]
        BY <3>2, Sent
      <4>2. \A i \in Dones' : i \in Dones \/ i = Len(events) + 1
        BY <4>1 DEF Dones
      <4> QED
        BY <2>1, <2>2, <4>1, <4>2 DEF TypeOK
    <3> QED
      BY <1>1, <3>1, <3>2, Outside
  <2>4. ASSUME NEW j \in DOMAIN outputs', outputs'[j].mode = NoMode, outputs'[j].name \in known'
        PROVE  ~sync_done' /\ Ahead(outputs[j].name)'
    <3> DEFINE n == outputs[j].name
    <3>1. ~sync_done /\ Ahead(n) /\ Current(n, 0)
      BY <2>1, <2>4 DEF Fresh, Accounted
    <3> HIDE DEF n
    <3>2. Ahead(n)'
      BY <1>1, <3>1, Outside DEF n
    <3> QED
      BY <2>1, <3>1, <3>2 DEF n
  <2> QED
    BY <2>1, <2>2, <2>3, <2>4 DEF Fresh
<1>2. CASE Dispatch
  <2> SUFFICES ASSUME phase' = "refreshing", ~late'
               PROVE  Fresh'
    BY DEF Fresh
  <2>1. PICK type : Receive(type) /\ (type = "done" <=> OnDone)
    BY <1>2, Handled
  <2>2. \/ requests' = requests
        \/ \E m \in Names : requests' = Append(requests, [type |-> "bind", name |-> m])
    BY <1>2, Handled
  <2>3. /\ late' = late /\ known' = known /\ phase = "refreshing"
        /\ backlog' = IF backlog > 0 THEN backlog - 1 ELSE 0
    <3>1. late' = late /\ known' = known /\ backlog' = IF backlog > 0 THEN backlog - 1 ELSE 0
      BY <2>1 DEF Receive
    <3>2. phase = "refreshing"
      BY <1>2 DEF Dispatch, OnGlobal, OnGlobalRemove, OnMode, OnDone, EndConnect
    <3> QED
      BY <3>1, <3>2
  <2>4. /\ backlog <= Len(events) /\ backlog \in Nat
        /\ \A i \in Dones : backlog < i
        /\ sync_done => backlog = 0
    BY <2>3 DEF Fresh, TypeOK
  <2>5. /\ Len(events) \in Nat \ {0} /\ DOMAIN events = 1 .. Len(events)
        /\ Len(events') = Len(events) - 1 /\ DOMAIN events' = 1 .. Len(events) - 1
        /\ \A i \in 1 .. Len(events) - 1 : events'[i] = events[i + 1]
        /\ events[1].type = type
    BY <2>1, Received
  <2>6. backlog' <= Len(events')
    BY <2>3, <2>4, <2>5
  <2>7. ASSUME NEW i \in Dones'
        PROVE  backlog' < i
    <3>1. i \in Nat \ {0} /\ i + 1 \in Dones
      BY <2>5 DEF Dones
    <3>2. backlog < i + 1
      BY <2>4, <3>1
    <3> QED
      BY <2>3, <2>4, <3>1, <3>2
  <2>8. ~OnDone => sync_done' = sync_done
    BY <1>2 DEF Dispatch, OnGlobal, OnGlobalRemove, OnMode, EndConnect
  <2>9. sync_done' => backlog' = 0
    <3>1. CASE OnDone
      <4>1. 1 \in Dones
        BY <2>1, <2>5, <3>1 DEF Dones
      <4>2. backlog < 1
        BY <2>4, <4>1
      <4> QED
        BY <2>3, <2>4, <4>2
    <3>2. CASE ~OnDone
      <4>1. sync_done' => backlog = 0
        BY <2>4, <2>8, <3>2
      <4> QED
        BY <2>3, <4>1
    <3> QED
      BY <3>1, <3>2
  <2>10. ASSUME NEW j \in DOMAIN outputs', outputs'[j].mode = NoMode, outputs'[j].name \in known'
         PROVE  ~sync_done' /\ Ahead(outputs[j].name)'
    <3>1. PICK n : n = outputs'[j].name
      OBVIOUS
    <3>2. /\ \E i \in DOMAIN outputs : outputs[i].mode = NoMode /\ outputs[i].name = n
          /\ ~Settling(events[1], n)
          /\ n \in known
      BY <1>2, <2>3, <2>10, <3>1, Handled
    <3>3. ~sync_done /\ Ahead(n)
      BY <2>3, <3>2 DEF Fresh
    <3>4. Ahead(n)' /\ type # "done"
      BY <2>1, <2>2, <3>2, <3>3, ReceiveKeeps
    <3>5. Ahead(outputs[j].name)'
      BY <3>1, <3>4 DEF Ahead
    <3> QED
      BY <2>1, <2>8, <3>3, <3>4, <3>5
  <2> QED
    BY <2>6, <2>7, <2>9, <2>10 DEF Fresh
<1>3. CASE BeginRefresh
  <2> SUFFICES ASSUME ~late'
               PROVE  Fresh'
    BY DEF Fresh
  <2>1. /\ UNCHANGED <<events, outputs>> /\ backlog' = Len(events) /\ ~sync_done'
        /\ requests' = Append(requests, [type |-> "sync"])
        /\ Syncs = {} /\ Dones = {}
    BY <1>3 DEF BeginRefresh
  <2>2. [type |-> "sync"] \in Requests /\ requests \in Seq(Requests)
    BY DEF Requests, TypeOK
  <2>3. /\ DOMAIN requests = 1 .. Len(requests) /\ Len(requests) \in Nat
        /\ DOMAIN requests' = 1 .. Len(requests) + 1
        /\ \A i \in 1 .. Len(requests) : requests'[i] = requests[i]
    BY <2>1, <2>2, Appended
  <2>4. Dones' = {}
    BY <2>1 DEF Dones
  <2>5. \A k \in Syncs' : k = Len(requests) + 1
    BY <2>1, <2>3 DEF Syncs
  <2>6. ASSUME NEW n, Underway(n)
        PROVE  Ahead(n)'
    <3>1. ASSUME NEW i \in DOMAIN requests, IsBind(requests[i], n)
          PROVE  Ahead(n)'
      <4>1. i \in DOMAIN requests' /\ IsBind(requests'[i], n)
        BY <2>3, <3>1
      <4>2. \A k \in Syncs' : i < k
        BY <2>3, <2>5
      <4> QED
        BY <2>4, <4>1, <4>2 DEF Ahead
    <3>2. ASSUME NEW i \in DOMAIN events, Settling(events[i], n)
          PROVE  Ahead(n)'
      BY <2>1, <2>4, <3>2 DEF Ahead
    <3> QED
      BY <2>6, <3>1, <3>2 DEF Underway
  <2>7. ASSUME NEW j \in DOMAIN outputs', outputs'[j].mode = NoMode
        PROVE  Ahead(outputs[j].name)'
    <3> DEFINE n == outputs[j].name
    <3>1. Underway(n)
      BY <2>1, <2>7 DEF Drawn
    <3> HIDE DEF n
    <3>2. n' = n
      BY <2>1 DEF n
    <3>3. Ahead(n)'
      BY <2>6, <3>1, <3>2 DEF Ahead, Syncs, Dones, IsBind, Settling
    <3> QED
      BY <3>3 DEF n
  <2>8. backlog' <= Len(events')
    BY <2>1, Places
  <2> QED
    BY <2>1, <2>4, <2>7, <2>8 DEF Fresh
<1>4. CASE EndRefresh \/ RefreshTimeout
  BY <1>4 DEF EndRefresh, RefreshTimeout, Fresh
<1>5. CASE UNCHANGED vars
  BY <1>5 DEF vars, Fresh, Ahead, Syncs, Dones, IsBind, Settling
<1> QED
  BY <1>1, <1>2, <1>3, <1>4, <1>5 DEF Next

\* The list of a refresh that has ended stays as good as it was.
LEMMA StepCaughtUp ==
  ASSUME TypeOK, Fresh, CaughtUpUnlessLate, [Next]_vars
  PROVE  CaughtUpUnlessLate'
<1>1. CASE EndRefresh
  <2>1. /\ UNCHANGED <<outputs, sync_done, backlog, known, late>>
        /\ phase = "refreshing" /\ sync_done
    BY <1>1 DEF EndRefresh, ghosts
  <2>2. ~late => backlog = 0 /\ \A j \in DOMAIN outputs :
          outputs[j].name \in known => outputs[j].mode # NoMode
    BY <2>1 DEF Fresh
  <2> QED
    BY <2>1, <2>2 DEF CaughtUpUnlessLate, ToSet
<1>2. CASE Hotplug \/ Serve \/ UNCHANGED vars
  <2>1. UNCHANGED <<phase, outputs, backlog, known, late>>
    BY <1>2, Outside DEF vars
  <2> QED
    BY <2>1 DEF CaughtUpUnlessLate
<1>3. CASE Dispatch \/ BeginRefresh \/ RefreshTimeout
  <2>1. phase' # "ready"
    <3>1. ASSUME NEW type, Receive(type), phase' = phase
          PROVE  phase' # "ready"
      BY <3>1 DEF Receive
    <3> QED
      BY <1>3, <3>1 DEF Dispatch, OnGlobal, OnGlobalRemove, OnMode, OnDone, EndConnect,
                       BeginRefresh, RefreshTimeout
  <2> QED
    BY <2>1 DEF CaughtUpUnlessLate
<1> QED
  BY <1>1, <1>2, <1>3 DEF Next

-----------------------------------------------------------------------------
(* The list mirrors the outputs *)

IsMode(e, n) == e.type = "mode" /\ e.name = n

\* In s the output n is announced; removed; bound; given the mode m in the end;
\* given no mode.
Announces(s, n) == \E i \in DOMAIN s : IsGlobal(s[i]) /\ s[i].name = n
Removes(s, n) == \E i \in DOMAIN s : IsRemoval(s[i], n)
Binds(s, n) == \E i \in DOMAIN s : IsBind(s[i], n)
Says(s, n, m) ==
  \E i \in DOMAIN s : /\ IsMode(s[i], n) /\ s[i].mode = m
                      /\ \A k \in DOMAIN s : i < k => ~IsMode(s[k], n)
Silent(s, n) == \A i \in DOMAIN s : ~IsMode(s[i], n)

\* A name is not announced again after its removal.
RemovedLast(s) ==
  \A i, j \in DOMAIN s : i < j /\ s[i].type = "remove" /\ IsGlobal(s[j]) => s[i].name # s[j].name

Increasing(s) == \A i, j \in DOMAIN s : i < j => s[i] < s[j]

Has(n) == \E j \in DOMAIN outputs : outputs[j].name = n

NeverReused ==
  /\ Increasing(present)
  /\ \A n \in ToSet(present) : n < nextName
  /\ \A n \in Names : Removes(events, n) => n < nextName
  /\ RemovedLast(events)

\* The list will be that of the outputs.
Mirrored ==
  \A n \in Names : n \in ToSet(present) <=> (Has(n) \/ Announces(events, n)) /\ ~Removes(events, n)

\* The mode of an output will be heard of, or has been.
HeardOf(n) ==
  \/ Binds(requests, n)
  \/ Announces(events, n)
  \/ /\ n \in bound
     /\ \/ Says(events, n, mode[n])
        \/ /\ Silent(events, n)
           /\ \A j \in DOMAIN outputs : outputs[j].name = n => outputs[j].mode = mode[n]

Heard == \A n \in ToSet(present) : HeardOf(n)

Exact == NeverReused /\ Mirrored /\ Heard

\* What one more event adds.
LEMMA SaidMore ==
  ASSUME NEW s \in Seq(Events), NEW e \in Events, NEW n
  PROVE  /\ Announces(Append(s, e), n) <=> Announces(s, n) \/ (IsGlobal(e) /\ e.name = n)
         /\ Removes(Append(s, e), n) <=> Removes(s, n) \/ IsRemoval(e, n)
         /\ ~IsMode(e, n) => \A m : Says(s, n, m) => Says(Append(s, e), n, m)
         /\ ~IsMode(e, n) => (Silent(s, n) => Silent(Append(s, e), n))
         /\ IsMode(e, n) => Says(Append(s, e), n, e.mode)
<1> DEFINE t == Append(s, e)
<1>1. /\ Len(s) \in Nat /\ DOMAIN s = 1 .. Len(s) /\ DOMAIN t = 1 .. Len(s) + 1
      /\ \A i \in 1 .. Len(s) : t[i] = s[i]
      /\ t[Len(s) + 1] = e
  BY Appended
<1> HIDE DEF t
<1>2. /\ \A i \in DOMAIN s : i \in DOMAIN t /\ t[i] = s[i] /\ i < Len(s) + 1
      /\ Len(s) + 1 \in DOMAIN t /\ \A k \in DOMAIN t : ~(Len(s) + 1 < k)
      /\ \A i \in DOMAIN t : (i \in DOMAIN s /\ t[i] = s[i]) \/ (i = Len(s) + 1 /\ t[i] = e)
  BY <1>1
<1>3. Announces(t, n) <=> Announces(s, n) \/ (IsGlobal(e) /\ e.name = n)
  BY <1>1, <1>2 DEF Announces
<1>4. Removes(t, n) <=> Removes(s, n) \/ IsRemoval(e, n)
  BY <1>1, <1>2 DEF Removes
<1>5. ~IsMode(e, n) => \A m : Says(s, n, m) => Says(t, n, m)
  BY <1>1, <1>2 DEF Says
<1>6. ~IsMode(e, n) => (Silent(s, n) => Silent(t, n))
  BY <1>1, <1>2 DEF Silent
<1>7. IsMode(e, n) => Says(t, n, e.mode)
  BY <1>1, <1>2 DEF Says
<1> QED
  BY <1>3, <1>4, <1>5, <1>6, <1>7 DEF t

\* One more event is no announcement of what was removed.
LEMMA RemovedEarlier ==
  ASSUME NEW s \in Seq(Events), NEW e \in Events, RemovedLast(s), IsGlobal(e) => ~Removes(s, e.name)
  PROVE  RemovedLast(Append(s, e))
<1> DEFINE t == Append(s, e)
<1>1. /\ Len(s) \in Nat /\ DOMAIN s = 1 .. Len(s) /\ DOMAIN t = 1 .. Len(s) + 1
      /\ \A i \in 1 .. Len(s) : t[i] = s[i]
      /\ t[Len(s) + 1] = e
  BY Appended
<1> HIDE DEF t
<1> SUFFICES ASSUME NEW i \in DOMAIN t, NEW j \in DOMAIN t, i < j,
                    t[i].type = "remove", IsGlobal(t[j])
             PROVE  t[i].name # t[j].name
  BY DEF RemovedLast, t
<1>2. i \in DOMAIN s /\ t[i] = s[i]
  BY <1>1
<1>3. CASE j \in DOMAIN s
  <2>1. t[j] = s[j]
    BY <1>1, <1>3
  <2> QED
    BY <1>2, <1>3, <2>1 DEF RemovedLast
<1>4. CASE j = Len(s) + 1
  BY <1>1, <1>2, <1>4 DEF Removes, IsRemoval
<1> QED
  BY <1>1, <1>3, <1>4

\* What is left when the first event is read.
LEMMA SaidLess ==
  ASSUME NEW s \in Seq(Events), s # <<>>, NEW n
  PROVE  /\ Announces(s, n) <=> Announces(Tail(s), n) \/ (IsGlobal(s[1]) /\ s[1].name = n)
         /\ Removes(s, n) <=> Removes(Tail(s), n) \/ IsRemoval(s[1], n)
         /\ ~IsMode(s[1], n) => \A m : Says(s, n, m) => Says(Tail(s), n, m)
         /\ Silent(s, n) => Silent(Tail(s), n) /\ ~IsMode(s[1], n)
         /\ IsMode(s[1], n) =>
              \A m : Says(s, n, m) => Says(Tail(s), n, m) \/ (Silent(Tail(s), n) /\ s[1].mode = m)
<1> DEFINE t == Tail(s)
<1>1. /\ Len(s) \in Nat \ {0} /\ DOMAIN s = 1 .. Len(s) /\ DOMAIN t = 1 .. Len(s) - 1
      /\ \A i \in 1 .. Len(s) - 1 : t[i] = s[i + 1]
  BY Taken
<1> HIDE DEF t
<1>2. /\ 1 \in DOMAIN s
      /\ \A i \in DOMAIN t : i + 1 \in DOMAIN s /\ t[i] = s[i + 1] /\ 1 < i + 1
      /\ \A i \in DOMAIN s : i # 1 => i - 1 \in DOMAIN t /\ t[i - 1] = s[i]
      /\ \A i \in DOMAIN s, k \in DOMAIN t : i - 1 < k => i < k + 1
      /\ \A k \in DOMAIN t : 1 < k + 1
  BY <1>1
<1>3. Announces(s, n) <=> Announces(t, n) \/ (IsGlobal(s[1]) /\ s[1].name = n)
  BY <1>2 DEF Announces
<1>4. Removes(s, n) <=> Removes(t, n) \/ IsRemoval(s[1], n)
  BY <1>2 DEF Removes
<1>5. Silent(s, n) => Silent(t, n) /\ ~IsMode(s[1], n)
  BY <1>2 DEF Silent
<1>6. ASSUME NEW m, NEW i \in DOMAIN s, IsMode(s[i], n), s[i].mode = m,
             \A k \in DOMAIN s : i < k => ~IsMode(s[k], n)
      PROVE  IF i = 1 THEN Silent(t, n) ELSE Says(t, n, m)
  <2>1. CASE i = 1
    BY <1>2, <1>6, <2>1 DEF Silent
  <2>2. CASE i # 1
    <3>1. i - 1 \in DOMAIN t /\ IsMode(t[i - 1], n) /\ t[i - 1].mode = m
      BY <1>2, <1>6, <2>2
    <3>2. \A k \in DOMAIN t : i - 1 < k => ~IsMode(t[k], n)
      BY <1>2, <1>6
    <3> QED
      BY <2>2, <3>1, <3>2 DEF Says
  <2> QED
    BY <2>1, <2>2
<1>7. \A m : Says(s, n, m) => Says(t, n, m) \/ (Silent(t, n) /\ IsMode(s[1], n) /\ s[1].mode = m)
  BY <1>6 DEF Says
<1> QED
  BY <1>3, <1>4, <1>5, <1>7 DEF t

\* What is read first was sent first.
LEMMA RemovedLater ==
  ASSUME NEW s \in Seq(Events), s # <<>>, RemovedLast(s)
  PROVE  /\ RemovedLast(Tail(s))
         /\ s[1].type = "remove" => ~Announces(Tail(s), s[1].name)
<1> DEFINE t == Tail(s)
<1>1. /\ Len(s) \in Nat \ {0} /\ DOMAIN s = 1 .. Len(s) /\ DOMAIN t = 1 .. Len(s) - 1
      /\ \A i \in 1 .. Len(s) - 1 : t[i] = s[i + 1]
  BY Taken
<1> HIDE DEF t
<1>2. /\ 1 \in DOMAIN s
      /\ \A i \in DOMAIN t : i + 1 \in DOMAIN s /\ t[i] = s[i + 1] /\ 1 < i + 1
      /\ \A i, j \in DOMAIN t : i < j => i + 1 < j + 1
  BY <1>1
<1>3. RemovedLast(t)
  BY <1>2 DEF RemovedLast
<1>4. s[1].type = "remove" => ~Announces(t, s[1].name)
  BY <1>2 DEF RemovedLast, Announces
<1> QED
  BY <1>3, <1>4 DEF t

\* An element more at the end, greater than the others.
LEMMA Grown ==
  ASSUME NEW s \in Seq(Nat), Increasing(s), NEW n \in Nat, \A m \in ToSet(s) : m < n
  PROVE  Increasing(Append(s, n)) /\ ToSet(Append(s, n)) = ToSet(s) \cup {n}
<1> DEFINE t == Append(s, n)
<1>1. /\ Len(s) \in Nat /\ DOMAIN s = 1 .. Len(s) /\ DOMAIN t = 1 .. Len(s) + 1
      /\ \A i \in 1 .. Len(s) : t[i] = s[i]
      /\ t[Len(s) + 1] = n
  BY Appended
<1> HIDE DEF t
<1>2. \A i \in DOMAIN s : s[i] < n
  BY DEF ToSet
<1>3. Increasing(t)
  <2> SUFFICES ASSUME NEW i \in DOMAIN t, NEW j \in DOMAIN t, i < j PROVE t[i] < t[j]
    BY DEF Increasing
  <2>1. i \in DOMAIN s /\ t[i] = s[i]
    BY <1>1
  <2>2. CASE j \in DOMAIN s
    BY <1>1, <2>1, <2>2 DEF Increasing
  <2>3. CASE j = Len(s) + 1
    BY <1>1, <1>2, <2>1, <2>3
  <2> QED
    BY <1>1, <2>2, <2>3
<1>4. \A m : m \in ToSet(t) <=> m \in ToSet(s) \/ m = n
  BY <1>1 DEF ToSet
<1> QED
  BY <1>3, <1>4 DEF t

\* An element less.
LEMMA Shrunk ==
  ASSUME NEW s \in Seq(Nat), Increasing(s), NEW k \in 1 .. Len(s)
  PROVE  Increasing(RemoveAt(s, k)) /\ ToSet(RemoveAt(s, k)) = ToSet(s) \ {s[k]}
<1> DEFINE t == RemoveAt(s, k)
<1>1. /\ Len(s) \in Nat /\ DOMAIN s = 1 .. Len(s) /\ DOMAIN t = 1 .. Len(s) - 1
      /\ \A i \in 1 .. Len(s) - 1 : t[i] = IF i < k THEN s[i] ELSE s[i + 1]
  BY Removed
<1> HIDE DEF t
<1>2. \A i \in DOMAIN s : s[i] \in Nat
  BY <1>1
<1>3. Increasing(t)
  <2> SUFFICES ASSUME NEW i \in DOMAIN t, NEW j \in DOMAIN t, i < j PROVE t[i] < t[j]
    BY DEF Increasing
  <2>1. \E p, q \in DOMAIN s : p < q /\ t[i] = s[p] /\ t[j] = s[q]
    <3>1. CASE i < k /\ j < k
      BY <1>1, <3>1
    <3>2. CASE i < k /\ ~(j < k)
      <4>1. /\ i \in DOMAIN s /\ j + 1 \in DOMAIN s /\ i < j + 1
            /\ t[i] = s[i] /\ t[j] = s[j + 1]
        BY <1>1, <3>2
      <4> QED
        BY <4>1
    <3>3. CASE ~(i < k) /\ ~(j < k)
      <4>1. /\ i + 1 \in DOMAIN s /\ j + 1 \in DOMAIN s /\ i + 1 < j + 1
            /\ t[i] = s[i + 1] /\ t[j] = s[j + 1]
        BY <1>1, <3>3
      <4> QED
        BY <4>1
    <3> QED
      BY <1>1, <3>1, <3>2, <3>3
  <2> QED
    BY <2>1 DEF Increasing
<1>4. \A i \in DOMAIN t : t[i] \in ToSet(s) \ {s[k]}
  <2> SUFFICES ASSUME NEW i \in DOMAIN t PROVE t[i] \in ToSet(s) \ {s[k]}
    OBVIOUS
  <2>1. \E j \in DOMAIN s : t[i] = s[j] /\ (j < k \/ k < j)
    <3>1. CASE i < k
      BY <1>1, <3>1
    <3>2. CASE ~(i < k)
      <4>1. i + 1 \in DOMAIN s /\ t[i] = s[i + 1] /\ k < i + 1
        BY <1>1, <3>2
      <4> QED
        BY <4>1
    <3> QED
      BY <3>1, <3>2
  <2>2. PICK j \in DOMAIN s : t[i] = s[j] /\ (j < k \/ k < j)
    BY <2>1
  <2>3. k \in DOMAIN s
    BY <1>1
  <2>4. s[j] < s[k] \/ s[k] < s[j]
    BY <2>2, <2>3 DEF Increasing
  <2>5. s[j] # s[k]
    BY <1>2, <2>3, <2>4
  <2> QED
    BY <2>2, <2>5 DEF ToSet
<1>5. \A j \in DOMAIN s : j # k => \E i \in DOMAIN t : t[i] = s[j]
  <2> SUFFICES ASSUME NEW j \in DOMAIN s, j # k PROVE \E i \in DOMAIN t : t[i] = s[j]
    OBVIOUS
  <2>1. CASE j < k
    <3>1. j \in DOMAIN t /\ t[j] = s[j]
      BY <1>1, <2>1
    <3> QED
      BY <3>1
  <2>2. CASE k < j
    <3>1. j - 1 \in DOMAIN t /\ t[j - 1] = s[j]
      BY <1>1, <2>2
    <3> QED
      BY <3>1
  <2> QED
    BY <1>1, <2>1, <2>2
<1>6. ToSet(t) = ToSet(s) \ {s[k]}
  BY <1>4, <1>5 DEF ToSet
<1> QED
  BY <1>3, <1>6 DEF t

\* Increasing sequences of the same elements agree: the first place they differ
\* at is none of s ...
LEMMA NotBeyond ==
  ASSUME NEW s \in Seq(Nat), NEW t \in Seq(Nat), Increasing(s), Increasing(t),
         ToSet(s) \subseteq ToSet(t), NEW m \in DOMAIN s,
         \A k \in DOMAIN s : k < m => k \in DOMAIN t /\ s[k] = t[k]
  PROVE  m \in DOMAIN t /\ t[m] <= s[m]
<1>1. /\ Len(s) \in Nat /\ DOMAIN s = 1 .. Len(s) /\ \A i \in DOMAIN s : s[i] \in Nat
      /\ Len(t) \in Nat /\ DOMAIN t = 1 .. Len(t) /\ \A i \in DOMAIN t : t[i] \in Nat
  OBVIOUS
<1>2. PICK k \in DOMAIN t : t[k] = s[m]
  BY DEF ToSet
<1>3. ~(k < m)
  <2> SUFFICES ASSUME k < m PROVE FALSE
    OBVIOUS
  <2>1. k \in DOMAIN s
    BY <1>1
  <2>2. s[k] < s[m] /\ s[k] = t[k]
    BY <2>1 DEF Increasing
  <2> QED
    BY <1>1, <1>2, <2>1, <2>2
<1>4. m \in DOMAIN t /\ (m = k \/ m < k)
  BY <1>1, <1>3
<1>5. t[m] = t[k] \/ t[m] < t[k]
  BY <1>4 DEF Increasing
<1> QED
  BY <1>1, <1>2, <1>4, <1>5

\* ... nor of t.
LEMMA SameElements ==
  ASSUME NEW s \in Seq(Nat), NEW t \in Seq(Nat), Increasing(s), Increasing(t), ToSet(s) = ToSet(t)
  PROVE  DOMAIN s = DOMAIN t /\ \A i \in DOMAIN s : s[i] = t[i]
<1> DEFINE same(i) == i \in DOMAIN s /\ i \in DOMAIN t /\ s[i] = t[i]
           odd == {i \in DOMAIN s \cup DOMAIN t : ~same(i)}
<1>1. /\ Len(s) \in Nat /\ DOMAIN s = 1 .. Len(s) /\ \A i \in DOMAIN s : s[i] \in Nat
      /\ Len(t) \in Nat /\ DOMAIN t = 1 .. Len(t) /\ \A i \in DOMAIN t : t[i] \in Nat
  OBVIOUS
<1>2. ASSUME odd # {} PROVE FALSE
  <2>1. odd \in SUBSET Nat
    BY <1>1
  <2>2. PICK m \in odd : \A k \in odd : m <= k
    BY <1>2, <2>1, LeastNatural
  <2>3. m \in Nat /\ \A k \in DOMAIN s \cup DOMAIN t : k < m => same(k)
    BY <1>1, <2>1, <2>2
  <2>4. m \in DOMAIN s => m \in DOMAIN t /\ t[m] <= s[m]
    <3>1. \A k \in DOMAIN s : k < m => k \in DOMAIN t /\ s[k] = t[k]
      BY <2>3
    <3> QED
      BY <3>1, NotBeyond
  <2>5. m \in DOMAIN t => m \in DOMAIN s /\ s[m] <= t[m]
    <3>1. \A k \in DOMAIN t : k < m => k \in DOMAIN s /\ t[k] = s[k]
      BY <2>3
    <3> QED
      BY <3>1, NotBeyond
  <2>6. same(m)
    BY <1>1, <2>2, <2>4, <2>5
  <2> QED
    BY <2>2, <2>6
<1>3. \A i \in DOMAIN s \cup DOMAIN t : same(i)
  BY <1>2
<1> QED
  BY <1>3

\* An output that goes leaves all the others.
LEMMA Spared ==
  ASSUME TypeOK, DiscoveryOrder, NEW n,
         outputs' = IF Positions(n) = {} THEN outputs ELSE RemoveAt(outputs, Min(Positions(n)))
  PROVE  /\ \A j \in DOMAIN outputs' : \E i \in DOMAIN outputs : outputs'[j] = outputs[i]
         /\ \A j \in DOMAIN outputs' : outputs'[j].name # n
         /\ \A i \in DOMAIN outputs : outputs[i].name # n => \E j \in DOMAIN outputs' : outputs'[j] = outputs[i]
<1>1. PICK at \in [DOMAIN outputs' -> DOMAIN outputs] :
        /\ \A j \in DOMAIN outputs' : outputs'[j] = outputs[at[j]]
        /\ DiscoveryOrder => \A j \in DOMAIN outputs' : outputs'[j].name # n
  BY Forgotten
<1>2. ASSUME NEW i \in DOMAIN outputs, outputs[i].name # n
      PROVE  \E j \in DOMAIN outputs' : outputs'[j] = outputs[i]
  <2>1. CASE Positions(n) = {}
    BY <2>1
  <2>2. CASE Positions(n) # {}
    <3>1. Positions(n) \in SUBSET Nat
      BY Places DEF Positions
    <3>2. PICK p : p = Min(Positions(n))
      OBVIOUS
    <3>3. p \in 1 .. Len(outputs) /\ outputs[p].name = n /\ outputs' = RemoveAt(outputs, p)
      <4>1. p \in Positions(n)
        BY <2>2, <3>1, <3>2, LeastNatural
      <4> QED
        BY <2>2, <3>2, <4>1, Places DEF Positions
    <3>4. /\ Len(outputs) \in Nat /\ DOMAIN outputs = 1 .. Len(outputs)
          /\ DOMAIN outputs' = 1 .. Len(outputs) - 1
          /\ \A k \in 1 .. Len(outputs) - 1 :
               outputs'[k] = IF k < p THEN outputs[k] ELSE outputs[k + 1]
      <4>1. outputs \in Seq(OutputInfo)
        BY DEF TypeOK
      <4> QED
        BY <3>3, <4>1, Removed
    <3>5. CASE i < p
      <4>1. i \in DOMAIN outputs' /\ outputs'[i] = outputs[i]
        BY <3>3, <3>4, <3>5
      <4> QED
        BY <4>1
    <3>6. CASE p < i
      <4>1. i - 1 \in DOMAIN outputs' /\ outputs'[i - 1] = outputs[i]
        BY <3>3, <3>4, <3>6
      <4> QED
        BY <4>1
    <3>7. i # p
      BY <1>2, <3>3
    <3> QED
      BY <3>3, <3>4, <3>5, <3>6, <3>7
  <2> QED
    BY <2>1, <2>2
<1>3. \A j \in DOMAIN outputs' : at[j] \in DOMAIN outputs
  OBVIOUS
<1> QED
  BY <1>1, <1>2, <1>3


\* Names are numbers, those of the outputs too.
LEMMA Numbered ==
  ASSUME TypeOK
  PROVE  /\ present \in Seq(Nat) /\ nextName \in Nat
         /\ ToSet(present) \subseteq Names /\ Names \subseteq Nat
         /\ Len(present) \in Nat /\ DOMAIN present = 1 .. Len(present)
<1>1. Names \subseteq Nat /\ nextName \in Nat
  BY Places
<1>2. /\ present \in Seq(Names) /\ Len(present) \in Nat /\ DOMAIN present = 1 .. Len(present)
      /\ \A i \in DOMAIN present : present[i] \in Names
  BY DEF TypeOK
<1>3. ToSet(present) \subseteq Names
  BY <1>2 DEF ToSet
<1>4. present \in Seq(Nat)
  <2> DEFINE p == [i \in 1 .. Len(present) |-> present[i]]
  <2>1. \A i \in 1 .. Len(present) : present[i] \in Nat
    BY <1>1, <1>2
  <2>2. PICK l : l = Len(present)
    OBVIOUS
  <2>3. l \in Nat /\ p \in [1 .. l -> Nat]
    BY <1>2, <2>1, <2>2
  <2>4. p = present
    BY <1>2
  <2> HIDE DEF p
  <2> QED
    BY <2>3, <2>4
<1> QED
  BY <1>1, <1>2, <1>3, <1>4

\* An announced output is new, and its mode will be heard of.
LEMMA PlugExact ==
  ASSUME TypeOK, Exact, Plug
  PROVE  Exact'
<1> DEFINE e == [type |-> "global", name |-> nextName]
<1>1. /\ nextName \in Names /\ present' = Append(present, nextName) /\ nextName' = nextName + 1
      /\ events' = Append(events, e)
      /\ UNCHANGED <<mode, bound, requests, outputs>>
  BY DEF Plug, Send
<1>2. /\ e \in Events /\ IsGlobal(e) /\ e.name = nextName
      /\ \A n : ~IsRemoval(e, n) /\ ~IsMode(e, n)
  BY <1>1 DEF Events, IsGlobal, IsRemoval, IsMode
<1>3. events \in Seq(Events)
  BY DEF TypeOK
<1> HIDE DEF e
<1>4. /\ Increasing(present) /\ (\A n \in ToSet(present) : n < nextName)
      /\ (\A n \in Names : Removes(events, n) => n < nextName) /\ RemovedLast(events)
  BY DEF Exact, NeverReused
<1>5. Increasing(present') /\ ToSet(present') = ToSet(present) \cup {nextName}
  BY <1>1, <1>4, Grown, Numbered
<1>6. /\ \A n : Announces(events', n) <=> Announces(events, n) \/ n = nextName
      /\ \A n : Removes(events', n) <=> Removes(events, n)
      /\ \A n, m : Says(events, n, m) => Says(events', n, m)
      /\ \A n : Silent(events, n) => Silent(events', n)
  BY <1>1, <1>2, <1>3, SaidMore
<1>7. ~Removes(events, nextName)
  BY <1>1, <1>4, Numbered
<1>8. NeverReused'
  <2>1. RemovedLast(events')
    BY <1>1, <1>2, <1>3, <1>4, <1>7, RemovedEarlier
  <2>2. \A n \in ToSet(present') : n < nextName'
    BY <1>1, <1>4, <1>5, Numbered
  <2>3. \A n \in Names : Removes(events', n) => n < nextName'
    BY <1>1, <1>4, <1>6, Numbered
  <2> QED
    BY <1>5, <2>1, <2>2, <2>3 DEF NeverReused
<1>9. Mirrored'
  BY <1>1, <1>5, <1>6, <1>7 DEF Exact, Mirrored, Has
<1>10. Heard'
  BY <1>1, <1>5, <1>6 DEF Exact, Heard, HeardOf
<1> QED
  BY <1>8, <1>9, <1>10 DEF Exact

\* An output that goes is forgotten by the compositor, and its removal is sent.
LEMMA UnplugExact ==
  ASSUME TypeOK, Exact, NEW m \in Names, Unplug(m)
  PROVE  Exact'
<1> DEFINE e == [type |-> "remove", name |-> m]
<1>1. PICK i \in DOMAIN present : present[i] = m /\ present' = RemoveAt(present, i)
  BY DEF Unplug
<1>2. /\ events' = Append(events, e) /\ bound' = bound \ {m}
      /\ UNCHANGED <<mode, nextName, requests, outputs>>
  BY DEF Unplug, Send
<1>3. /\ e \in Events /\ ~IsGlobal(e) /\ (\A n : IsRemoval(e, n) <=> n = m)
      /\ \A n : ~IsMode(e, n)
  BY DEF Events, IsGlobal, IsRemoval, IsMode
<1>4. events \in Seq(Events)
  BY DEF TypeOK
<1> HIDE DEF e
<1>5. /\ Increasing(present) /\ (\A n \in ToSet(present) : n < nextName)
      /\ (\A n \in Names : Removes(events, n) => n < nextName) /\ RemovedLast(events)
  BY DEF Exact, NeverReused
<1>6. Increasing(present') /\ ToSet(present') = ToSet(present) \ {m}
  BY <1>1, <1>5, Shrunk, Numbered
<1>7. /\ \A n : Announces(events', n) <=> Announces(events, n)
      /\ \A n : Removes(events', n) <=> Removes(events, n) \/ n = m
      /\ \A n, d : Says(events, n, d) => Says(events', n, d)
      /\ \A n : Silent(events, n) => Silent(events', n)
  BY <1>2, <1>3, <1>4, SaidMore
<1>8. m \in ToSet(present)
  BY <1>1 DEF ToSet
<1>9. NeverReused'
  <2>1. RemovedLast(events')
    BY <1>2, <1>3, <1>4, <1>5, RemovedEarlier
  <2>2. \A n \in ToSet(present') : n < nextName'
    BY <1>2, <1>5, <1>6
  <2>3. \A n \in Names : Removes(events', n) => n < nextName'
    BY <1>2, <1>5, <1>7, <1>8
  <2> QED
    BY <1>6, <2>1, <2>2, <2>3 DEF NeverReused
<1>10. Mirrored'
  BY <1>2, <1>6, <1>7 DEF Exact, Mirrored, Has
<1>11. Heard'
  BY <1>2, <1>6, <1>7 DEF Exact, Heard, HeardOf
<1> QED
  BY <1>9, <1>10, <1>11 DEF Exact

\* Events that neither announce nor remove change nothing but modes.
LEMMA SaidOfModes ==
  ASSUME TypeOK, Exact, NEW e \in Events, Send(e), e.type \notin {"global", "remove"},
         UNCHANGED <<present, nextName, outputs>>
  PROVE  /\ NeverReused' /\ Mirrored'
         /\ \A n : Announces(events', n) <=> Announces(events, n)
         /\ \A n : ~IsMode(e, n) => \A m : Says(events, n, m) => Says(events', n, m)
         /\ \A n : ~IsMode(e, n) => (Silent(events, n) => Silent(events', n))
         /\ \A n : IsMode(e, n) => Says(events', n, e.mode)
<1>1. events \in Seq(Events) /\ events' = Append(events, e) /\ ~IsGlobal(e) /\ \A n : ~IsRemoval(e, n)
  BY DEF TypeOK, Send, IsGlobal, IsRemoval
<1>2. /\ \A n : Announces(events', n) <=> Announces(events, n)
      /\ \A n : Removes(events', n) <=> Removes(events, n)
      /\ \A n : ~IsMode(e, n) => \A m : Says(events, n, m) => Says(events', n, m)
      /\ \A n : ~IsMode(e, n) => (Silent(events, n) => Silent(events', n))
      /\ \A n : IsMode(e, n) => Says(events', n, e.mode)
  BY <1>1, SaidMore
<1>3. RemovedLast(events')
  BY <1>1, RemovedEarlier DEF Exact, NeverReused
<1> QED
  BY <1>2, <1>3 DEF Exact, NeverReused, Mirrored, Has

\* Only a mode that is told, or will be, changes.
LEMMA ChangeModeExact ==
  ASSUME TypeOK, Exact, NEW k \in Names, NEW d \in Modes, ChangeMode(k, d)
  PROVE  Exact'
<1>1. /\ UNCHANGED <<present, nextName, outputs, requests, bound>>
      /\ mode' = [mode EXCEPT ![k] = d]
      /\ k \in Names /\ mode \in [Names -> Modes]
  BY DEF ChangeMode, TypeOK
<1>2. mode'[k] = d /\ \A n : n \in Names /\ n # k => mode'[n] = mode[n]
  BY <1>1
<1>3. \A n \in ToSet(present') : n \in Names /\ HeardOf(n)
  BY <1>1, Numbered DEF Exact, Heard
<1>4. CASE k \in bound
  <2> DEFINE e == [type |-> "mode", name |-> k, mode |-> d]
  <2>1. Send(e)
    BY <1>4 DEF ChangeMode
  <2>2. /\ e \in Events /\ e.type \notin {"global", "remove"} /\ e.mode = d
        /\ \A n : IsMode(e, n) <=> n = k
    BY DEF Events, IsMode
  <2> HIDE DEF e
  <2>3. /\ NeverReused' /\ Mirrored'
        /\ \A n : Announces(events', n) <=> Announces(events, n)
        /\ \A n : n # k => \A m : Says(events, n, m) => Says(events', n, m)
        /\ \A n : n # k => (Silent(events, n) => Silent(events', n))
        /\ Says(events', k, d)
    BY <1>1, <2>1, <2>2, SaidOfModes
  <2>4. ASSUME NEW n \in ToSet(present')
        PROVE  HeardOf(n)'
    <3>1. n \in Names /\ HeardOf(n)
      BY <1>3
    <3>2. CASE n = k
      BY <1>1, <1>2, <1>4, <2>3, <3>2 DEF HeardOf
    <3>3. CASE n # k
      BY <1>1, <1>2, <2>3, <3>1, <3>3 DEF HeardOf
    <3> QED
      BY <3>2, <3>3
  <2> QED
    BY <2>3, <2>4 DEF Exact, Heard
<1>5. CASE k \notin bound
  <2>1. events' = events
    BY <1>5 DEF ChangeMode
  <2>2. ASSUME NEW n \in ToSet(present')
        PROVE  HeardOf(n)'
    <3>1. n \in Names /\ HeardOf(n)
      BY <1>3
    <3>2. CASE n = k
      BY <1>1, <1>5, <2>1, <3>1, <3>2 DEF HeardOf
    <3>3. CASE n # k
      BY <1>1, <1>2, <2>1, <3>1, <3>3 DEF HeardOf
    <3> QED
      BY <3>2, <3>3
  <2>3. NeverReused' /\ Mirrored'
    BY <1>1, <2>1 DEF Exact, NeverReused, Mirrored, Has
  <2> QED
    BY <2>2, <2>3 DEF Exact, Heard
<1> QED
  BY <1>4, <1>5

\* A bind is answered with the mode; the bind of an output that is gone is not.
LEMMA ServeBindExact ==
  ASSUME TypeOK, Exact, ServeBind
  PROVE  Exact'
<1>1. /\ requests \in Seq(Requests) /\ requests # <<>> /\ requests' = Tail(requests)
      /\ Head(requests) \in Requests /\ Head(requests).type = "bind"
      /\ UNCHANGED <<present, mode, nextName, outputs>>
  BY Served DEF ServeBind, TypeOK
<1>2. PICK k : k = Head(requests).name
  OBVIOUS
<1>3. k \in Names /\ mode[k] \in Modes
  BY <1>1, <1>2, Fields DEF TypeOK
<1>4. \A n : n # k => (Binds(requests, n) => Binds(requests', n))
  <2>1. /\ DOMAIN requests = 1 .. Len(requests) /\ Len(requests) \in Nat \ {0}
        /\ DOMAIN requests' = 1 .. Len(requests) - 1
        /\ (\A i \in 1 .. Len(requests) - 1 : requests'[i] = requests[i + 1])
        /\ Head(requests) = requests[1]
    BY <1>1, Served
  <2>2. \A i \in DOMAIN requests : i = 1 \/ (i - 1 \in DOMAIN requests' /\ requests'[i - 1] = requests[i])
    BY <2>1
  <2> QED
    BY <1>2, <2>1, <2>2 DEF Binds, IsBind
<1>5. \A n \in ToSet(present') : HeardOf(n)
  BY <1>1 DEF Exact, Heard
<1>6. CASE k \in ToSet(present)
  <2> DEFINE e == [type |-> "mode", name |-> k, mode |-> mode[k]]
  <2>1. Send(e) /\ bound' = bound \cup {k}
    BY <1>2, <1>6 DEF ServeBind
  <2>2. /\ e \in Events /\ e.type \notin {"global", "remove"} /\ e.mode = mode[k]
        /\ \A n : IsMode(e, n) <=> n = k
    BY <1>3 DEF Events, IsMode
  <2> HIDE DEF e
  <2>3. /\ NeverReused' /\ Mirrored'
        /\ \A n : Announces(events', n) <=> Announces(events, n)
        /\ \A n : n # k => \A m : Says(events, n, m) => Says(events', n, m)
        /\ \A n : n # k => (Silent(events, n) => Silent(events', n))
        /\ Says(events', k, mode[k])
    BY <1>1, <2>1, <2>2, SaidOfModes
  <2>4. ASSUME NEW n \in ToSet(present')
        PROVE  HeardOf(n)'
    <3>1. HeardOf(n)
      BY <1>5
    <3>2. CASE n = k
      BY <1>1, <2>1, <2>3, <3>2 DEF HeardOf
    <3>3. CASE n # k
      BY <1>1, <1>4, <2>1, <2>3, <3>1, <3>3 DEF HeardOf
    <3> QED
      BY <3>2, <3>3
  <2> QED
    BY <2>3, <2>4 DEF Exact, Heard
<1>7. CASE k \notin ToSet(present)
  <2>1. UNCHANGED <<bound, events>>
    BY <1>2, <1>7 DEF ServeBind
  <2>2. ASSUME NEW n \in ToSet(present')
        PROVE  HeardOf(n)'
    <3>1. HeardOf(n) /\ n # k
      BY <1>1, <1>5, <1>7
    <3> QED
      BY <1>1, <1>4, <2>1, <3>1 DEF HeardOf
  <2>3. NeverReused' /\ Mirrored'
    BY <1>1, <2>1 DEF Exact, NeverReused, Mirrored, Has
  <2> QED
    BY <2>2, <2>3 DEF Exact, Heard
<1> QED
  BY <1>6, <1>7

\* An answer to a sync says nothing of the outputs.
LEMMA ServeSyncExact ==
  ASSUME TypeOK, Exact, ServeSync
  PROVE  Exact'
<1>1. /\ requests \in Seq(Requests) /\ requests # <<>> /\ requests' = Tail(requests)
      /\ Head(requests).type # "bind"
      /\ UNCHANGED <<present, mode, bound, nextName, outputs>>
  BY DEF ServeSync, TypeOK, compositorVars
<1>2. \A n : Binds(requests, n) => Binds(requests', n)
  <2>1. /\ DOMAIN requests = 1 .. Len(requests) /\ Len(requests) \in Nat \ {0}
        /\ DOMAIN requests' = 1 .. Len(requests) - 1
        /\ (\A i \in 1 .. Len(requests) - 1 : requests'[i] = requests[i + 1])
        /\ Head(requests) = requests[1]
    BY <1>1, Served
  <2>2. \A i \in DOMAIN requests : i = 1 \/ (i - 1 \in DOMAIN requests' /\ requests'[i - 1] = requests[i])
    BY <2>1
  <2> QED
    BY <1>1, <2>1, <2>2 DEF Binds, IsBind
<1> DEFINE e == [type |-> IF Head(requests).type = "sync" THEN "done" ELSE "roundtrip"]
<1>3. Send(e)
  BY DEF ServeSync
<1>4. e \in Events /\ e.type \notin {"global", "remove", "mode"} /\ \A n : ~IsMode(e, n)
  BY DEF Events, IsMode
<1> HIDE DEF e
<1>5. /\ NeverReused' /\ Mirrored'
      /\ \A n : Announces(events', n) <=> Announces(events, n)
      /\ \A n, m : Says(events, n, m) => Says(events', n, m)
      /\ \A n : Silent(events, n) => Silent(events', n)
  BY <1>1, <1>3, <1>4, SaidOfModes
<1>6. ASSUME NEW n \in ToSet(present')
      PROVE  HeardOf(n)'
  <2>1. HeardOf(n)
    BY <1>1, <1>6 DEF Exact, Heard
  <2> QED
    BY <1>1, <1>2, <1>5, <2>1 DEF HeardOf
<1> QED
  BY <1>5, <1>6 DEF Exact, Heard

\* What is read is not said any more.
LEMMA ReadOff ==
  ASSUME TypeOK, Exact, NEW type, Receive(type)
  PROVE  /\ UNCHANGED <<present, mode, bound, nextName>>
         /\ NeverReused'
         /\ events[1] \in Events /\ events[1].type = type /\ Head(events) = events[1]
         /\ type = "remove" => ~Announces(events', events[1].name)
         /\ \A n : Announces(events, n) <=> Announces(events', n) \/ (type = "global" /\ events[1].name = n)
         /\ \A n : Removes(events, n) <=> Removes(events', n) \/ (type = "remove" /\ events[1].name = n)
         /\ \A n : ~IsMode(events[1], n) => \A m : Says(events, n, m) => Says(events', n, m)
         /\ \A n : Silent(events, n) => Silent(events', n) /\ ~IsMode(events[1], n)
         /\ \A n : IsMode(events[1], n) =>
              \A m : Says(events, n, m) => Says(events', n, m) \/ (Silent(events', n) /\ events[1].mode = m)
<1>1. /\ events \in Seq(Events) /\ events # <<>> /\ events' = Tail(events)
      /\ UNCHANGED <<present, mode, bound, nextName>>
  BY DEF TypeOK, Receive, compositorVars
<1>2. events[1] \in Events /\ events[1].type = type /\ Head(events) = events[1]
  BY Received
<1>3. RemovedLast(events') /\ (type = "remove" => ~Announces(events', events[1].name))
  BY <1>1, <1>2, RemovedLater DEF Exact, NeverReused
<1>4. \A n : Announces(events, n) <=> Announces(events', n) \/ (type = "global" /\ events[1].name = n)
  BY <1>1, <1>2, SaidLess DEF IsGlobal
<1>5. \A n : Removes(events, n) <=> Removes(events', n) \/ (type = "remove" /\ events[1].name = n)
  BY <1>1, <1>2, SaidLess DEF IsRemoval
<1>6. \A n : ~IsMode(events[1], n) => \A m : Says(events, n, m) => Says(events', n, m)
  BY <1>1, SaidLess
<1>7. \A n : Silent(events, n) => Silent(events', n) /\ ~IsMode(events[1], n)
  BY <1>1, SaidLess
<1>8. \A n : IsMode(events[1], n) =>
        \A m : Says(events, n, m) => Says(events', n, m) \/ (Silent(events', n) /\ events[1].mode = m)
  BY <1>1, SaidLess
<1>9. NeverReused'
  BY <1>1, <1>3, <1>5 DEF Exact, NeverReused
<1> QED
  BY <1>1, <1>2, <1>3, <1>4, <1>5, <1>6, <1>7, <1>8, <1>9

\* An output that is announced is listed and bound.
LEMMA OnGlobalExact ==
  ASSUME TypeOK, Ordered, Exact, OnGlobal
  PROVE  Exact'
<1>1. PICK k : k = events[1].name
  OBVIOUS
<1>2. Receive("global")
  BY DEF OnGlobal
<1>3. /\ UNCHANGED <<present, mode, bound, nextName>>
      /\ NeverReused'
      /\ events[1] \in Events /\ events[1].type = "global" /\ Head(events) = events[1]
      /\ \A n : ~IsMode(events[1], n)
  BY <1>2, ReadOff DEF IsMode
<1>4. /\ \A n : Announces(events, n) <=> Announces(events', n) \/ n = k
      /\ \A n : Removes(events, n) <=> Removes(events', n)
      /\ \A n, m : Says(events, n, m) => Says(events', n, m)
      /\ \A n : Silent(events, n) => Silent(events', n)
  BY <1>1, <1>2, <1>3, ReadOff
<1>5. k \in Names
  BY <1>1, <1>3, Fields
<1>6. k \notin Listed
  <2>1. 1 \in DOMAIN events /\ IsGlobal(events[1])
    BY <1>2, <1>3, Received DEF IsGlobal
  <2>2. \A j \in DOMAIN outputs : outputs[j].name < k /\ outputs[j].name \in Nat
    BY <1>1, <2>1, Places DEF Ordered
  <2>3. \A j \in DOMAIN outputs : outputs[j].name # k
    BY <1>5, <2>2, Places
  <2> QED
    BY <2>3 DEF Listed, ToSet
<1>7. outputs' = Append(outputs, NewOutput(k)) /\ requests' = Append(requests, [type |-> "bind", name |-> k])
  BY <1>1, <1>3, <1>6 DEF OnGlobal
<1>8. /\ Len(outputs) \in Nat /\ DOMAIN outputs = 1 .. Len(outputs)
      /\ DOMAIN outputs' = 1 .. Len(outputs) + 1
      /\ \A j \in 1 .. Len(outputs) : outputs'[j] = outputs[j]
      /\ outputs'[Len(outputs) + 1].name = k
  BY <1>5, <1>7, Discovered, Places
<1>9. /\ \A j \in DOMAIN outputs : j \in DOMAIN outputs' /\ outputs'[j] = outputs[j]
      /\ \A j \in DOMAIN outputs' : outputs'[j].name # k => j \in DOMAIN outputs /\ outputs'[j] = outputs[j]
      /\ \E j \in DOMAIN outputs' : outputs'[j].name = k
  BY <1>8
<1>10. Binds(requests', k) /\ \A n : Binds(requests, n) => Binds(requests', n)
  <2>1. requests \in Seq(Requests) /\ [type |-> "bind", name |-> k] \in Requests
    BY <1>5 DEF TypeOK, Requests
  <2>2. /\ Len(requests) \in Nat /\ DOMAIN requests = 1 .. Len(requests)
        /\ DOMAIN requests' = 1 .. Len(requests) + 1
        /\ \A i \in 1 .. Len(requests) : requests'[i] = requests[i]
        /\ requests'[Len(requests) + 1] = [type |-> "bind", name |-> k]
    BY <1>7, <2>1, Appended
  <2>3. Len(requests) + 1 \in DOMAIN requests' /\ \A i \in DOMAIN requests : i \in DOMAIN requests'
    BY <2>2
  <2> QED
    BY <2>2, <2>3 DEF Binds, IsBind
<1>11. Mirrored'
  <2>1. \A n : Has(n)' <=> Has(n) \/ n = k
    BY <1>9 DEF Has
  <2> QED
    BY <1>3, <1>4, <2>1 DEF Exact, Mirrored
<1>12. ASSUME NEW n \in ToSet(present')
       PROVE  HeardOf(n)'
  <2>1. HeardOf(n)
    BY <1>3, <1>12 DEF Exact, Heard
  <2>2. CASE n = k
    BY <1>10, <2>2 DEF HeardOf
  <2>3. CASE n # k
    BY <1>3, <1>4, <1>9, <1>10, <2>1, <2>3 DEF HeardOf
  <2> QED
    BY <2>2, <2>3
<1> QED
  BY <1>3, <1>11, <1>12 DEF Exact, Heard

\* An output whose removal is read leaves the list, and no other does.
LEMMA OnGlobalRemoveExact ==
  ASSUME TypeOK, Ordered, Exact, OnGlobalRemove
  PROVE  Exact'
<1>1. PICK k : k = events[1].name
  OBVIOUS
<1>2. Receive("remove") /\ requests' = requests
  BY DEF OnGlobalRemove
<1>3. /\ UNCHANGED <<present, mode, bound, nextName>>
      /\ NeverReused'
      /\ events[1] \in Events /\ events[1].type = "remove" /\ Head(events) = events[1]
      /\ ~Announces(events', k)
      /\ \A n : ~IsMode(events[1], n)
  BY <1>1, <1>2, ReadOff DEF IsMode
<1>4. /\ \A n : Announces(events, n) <=> Announces(events', n)
      /\ \A n : Removes(events, n) <=> Removes(events', n) \/ n = k
      /\ \A n, m : Says(events, n, m) => Says(events', n, m)
      /\ \A n : Silent(events, n) => Silent(events', n)
  BY <1>1, <1>2, <1>3, ReadOff
<1>5. outputs' = IF Positions(k) = {} THEN outputs ELSE RemoveAt(outputs, Min(Positions(k)))
  BY <1>1, <1>3 DEF OnGlobalRemove
<1>6. /\ \A j \in DOMAIN outputs' : \E i \in DOMAIN outputs : outputs'[j] = outputs[i]
      /\ \A j \in DOMAIN outputs' : outputs'[j].name # k
      /\ \A i \in DOMAIN outputs : outputs[i].name # k => \E j \in DOMAIN outputs' : outputs'[j] = outputs[i]
  BY <1>5, Spared DEF Ordered
<1>7. \A n : Has(n)' <=> Has(n) /\ n # k
  BY <1>6 DEF Has
<1>8. Mirrored'
  BY <1>3, <1>4, <1>7 DEF Exact, Mirrored
<1>9. ASSUME NEW n \in ToSet(present')
      PROVE  HeardOf(n)'
  <2>1. HeardOf(n)
    BY <1>3, <1>9 DEF Exact, Heard
  <2> QED
    BY <1>2, <1>3, <1>4, <1>6, <2>1 DEF HeardOf
<1> QED
  BY <1>3, <1>8, <1>9 DEF Exact, Heard

\* The last mode that is read is the mode.
LEMMA OnModeExact ==
  ASSUME TypeOK, Exact, OnMode
  PROVE  Exact'
<1>1. PICK k, d : k = events[1].name /\ d = events[1].mode
  OBVIOUS
<1>2. Receive("mode") /\ requests' = requests
  BY DEF OnMode
<1>3. /\ UNCHANGED <<present, mode, bound, nextName>>
      /\ NeverReused'
      /\ events[1].type = "mode"
      /\ \A n : IsMode(events[1], n) <=> n = k
  BY <1>1, <1>2, ReadOff DEF IsMode
<1>4. /\ \A n : Announces(events, n) <=> Announces(events', n)
      /\ \A n : Removes(events, n) <=> Removes(events', n)
      /\ \A n : n # k => \A m : Says(events, n, m) => Says(events', n, m)
      /\ \A n : Silent(events, n) => Silent(events', n) /\ n # k
      /\ \A m : Says(events, k, m) => Says(events', k, m) \/ (Silent(events', k) /\ d = m)
  BY <1>1, <1>2, <1>3, ReadOff
<1>5. /\ DOMAIN outputs' = DOMAIN outputs
      /\ \A j \in DOMAIN outputs : outputs'[j].name = outputs[j].name
      /\ \A j \in DOMAIN outputs : outputs[j].name = k => outputs'[j].mode = d
      /\ \A j \in DOMAIN outputs : outputs[j].name # k => outputs'[j] = outputs[j]
  BY <1>1, <1>2, Redrawn DEF OnMode
<1>6. Mirrored'
  <2>1. \A n : Has(n)' <=> Has(n)
    BY <1>5 DEF Has
  <2> QED
    BY <1>3, <1>4, <2>1 DEF Exact, Mirrored
<1>7. ASSUME NEW n \in ToSet(present')
      PROVE  HeardOf(n)'
  <2>1. HeardOf(n)
    BY <1>3, <1>7 DEF Exact, Heard
  <2>2. CASE n = k
    BY <1>2, <1>3, <1>4, <1>5, <2>1, <2>2 DEF HeardOf
  <2>3. CASE n # k
    BY <1>2, <1>3, <1>4, <1>5, <2>1, <2>3 DEF HeardOf
  <2> QED
    BY <2>2, <2>3
<1> QED
  BY <1>3, <1>6, <1>7 DEF Exact, Heard

\* A callback says nothing of the outputs.
LEMMA CallbackExact ==
  ASSUME TypeOK, Exact, OnDone \/ EndConnect
  PROVE  Exact'
<1>1. PICK type \in {"done", "roundtrip"} : Receive(type) /\ UNCHANGED <<outputs, requests>>
  BY DEF OnDone, EndConnect
<1>2. /\ UNCHANGED <<present, mode, bound, nextName>>
      /\ NeverReused'
      /\ \A n : ~IsMode(events[1], n)
      /\ \A n : Announces(events, n) <=> Announces(events', n)
      /\ \A n : Removes(events, n) <=> Removes(events', n)
      /\ \A n : Silent(events, n) => Silent(events', n)
  BY <1>1, ReadOff DEF IsMode
<1>3. \A n, m : Says(events, n, m) => Says(events', n, m)
  BY <1>1, <1>2, ReadOff
<1>4. Mirrored' /\ Heard'
  BY <1>1, <1>2, <1>3 DEF Exact, Mirrored, Has, Heard, HeardOf
<1> QED
  BY <1>2, <1>4 DEF Exact

\* A step keeps what the list is worth once nothing is in flight.
LEMMA StepExact ==
  ASSUME TypeOK, Ordered, Exact, [Next]_vars
  PROVE  Exact'
<1>1. CASE BeginRefresh
  <2>1. /\ UNCHANGED <<present, mode, bound, nextName, events, outputs>>
        /\ requests' = Append(requests, [type |-> "sync"])
    BY <1>1 DEF BeginRefresh, compositorVars
  <2>2. \A n : Binds(requests, n) => Binds(requests', n)
    <3>1. requests \in Seq(Requests) /\ [type |-> "sync"] \in Requests
      BY DEF TypeOK, Requests
    <3>2. /\ Len(requests) \in Nat /\ DOMAIN requests = 1 .. Len(requests)
          /\ DOMAIN requests' = 1 .. Len(requests) + 1
          /\ \A i \in 1 .. Len(requests) : requests'[i] = requests[i]
      BY <2>1, <3>1, Appended
    <3>3. \A i \in DOMAIN requests : i \in DOMAIN requests'
      BY <3>2
    <3> QED
      BY <3>2, <3>3 DEF Binds, IsBind
  <2> QED
    BY <2>1, <2>2 DEF Exact, NeverReused, Mirrored, Has, Heard, HeardOf
<1>2. CASE EndRefresh \/ RefreshTimeout \/ UNCHANGED vars
  <2>1. UNCHANGED <<present, mode, bound, nextName, events, outputs, requests>>
    BY <1>2 DEF EndRefresh, RefreshTimeout, vars, compositorVars
  <2> QED
    BY <2>1 DEF Exact, NeverReused, Mirrored, Has, Heard, HeardOf
<1> QED
  BY <1>1, <1>2, PlugExact, UnplugExact, ChangeModeExact, ServeBindExact, ServeSyncExact,
     OnGlobalExact, OnGlobalRemoveExact, OnModeExact, CallbackExact DEF Next, Hotplug, Serve, Dispatch

\* At first the list is that of the outputs, and all of them will be bound.
LEMMA InitExact ==
  ASSUME Init, TypeOK
  PROVE  Exact
<1>1. PICK k \in 0 .. MaxName : present = [i \in 1 .. k |-> i] /\ nextName = k + 1
  BY DEF Init
<1>2. /\ k \in Nat /\ DOMAIN present = 1 .. k /\ Names \subseteq Nat
      /\ \A i \in 1 .. k : present[i] = i
  BY <1>1, Numbered, RegistryAssumption
<1>3. /\ outputs = [i \in DOMAIN present |-> NewOutput(present[i])]
      /\ requests = Append([i \in DOMAIN present |-> [type |-> "bind", name |-> present[i]]],
                           [type |-> "roundtrip"])
      /\ DOMAIN events = {}
  BY DEF Init
<1>4. \A n : n \in ToSet(present) <=> n \in 1 .. k
  BY <1>2 DEF ToSet
<1>5. \A n : Has(n) <=> n \in 1 .. k
  <2>1. DOMAIN outputs = 1 .. k /\ \A i \in 1 .. k : outputs[i].name = i
    BY <1>2, <1>3 DEF NewOutput
  <2> QED
    BY <2>1 DEF Has
<1>6. \A n \in 1 .. k : Binds(requests, n)
  <2> DEFINE binds == [i \in 1 .. k |-> [type |-> "bind", name |-> i]]
  <2>1. \A i \in 1 .. k : [type |-> "bind", name |-> i] \in [type : {"bind"}, name : Nat]
    BY <1>2
  <2>2. binds \in Seq([type : {"bind"}, name : Nat] \cup {[type |-> "roundtrip"]}) /\ Len(binds) = k
    BY <1>2, <2>1
  <2>3. requests = Append(binds, [type |-> "roundtrip"])
    BY <1>2, <1>3
  <2>4. \A i \in 1 .. k : IsBind(binds[i], i)
    BY DEF IsBind
  <2> HIDE DEF binds
  <2>5. /\ DOMAIN requests = 1 .. k + 1
        /\ \A i \in 1 .. k : requests[i] = binds[i]
    <3> DEFINE S == [type : {"bind"}, name : Nat] \cup {[type |-> "roundtrip"]}
    <3>1. binds \in Seq(S) /\ [type |-> "roundtrip"] \in S
      BY <2>2
    <3> HIDE DEF S
    <3> QED
      BY <2>2, <2>3, <3>1, Appended
  <2>6. \A i \in 1 .. k : i \in DOMAIN requests
    BY <1>2, <2>5
  <2> QED
    BY <2>4, <2>5, <2>6 DEF Binds
<1>7. NeverReused
  <2>1. Increasing(present)
    BY <1>2 DEF Increasing
  <2>2. \A n \in ToSet(present) : n < nextName
    BY <1>1, <1>2, <1>4
  <2> QED
    BY <1>3, <2>1, <2>2 DEF NeverReused, Removes, RemovedLast
<1>8. Mirrored
  BY <1>3, <1>4, <1>5 DEF Mirrored, Announces, Removes
<1>9. Heard
  BY <1>4, <1>6 DEF Heard, HeardOf
<1> QED
  BY <1>7, <1>8, <1>9 DEF Exact

\* What is in the list and in no announcement or removal in flight is what there is.
LEMMA NamesAgree ==
  ASSUME TypeOK, Ordered, Exact, \A n : ~Announces(events, n) /\ ~Removes(events, n)
  PROVE  /\ DOMAIN outputs = DOMAIN present
         /\ \A i \in DOMAIN outputs : outputs[i].name = present[i]
<1> DEFINE names == [i \in 1 .. Len(outputs) |-> outputs[i].name]
<1>1. /\ Len(outputs) \in Nat /\ DOMAIN outputs = 1 .. Len(outputs)
      /\ \A i \in DOMAIN outputs : outputs[i].name \in Names /\ outputs[i].name \in Nat
  BY Places
<1>2. names \in Seq(Nat)
  <2>1. PICK l : l = Len(outputs)
    OBVIOUS
  <2>2. l \in Nat /\ names \in [1 .. l -> Nat]
    BY <1>1, <2>1
  <2> HIDE DEF names
  <2> QED
    BY <2>2
<1>3. Increasing(names)
  BY <1>1 DEF Increasing, Ordered, DiscoveryOrder
<1>4. \A n : n \in ToSet(names) <=> Has(n)
  BY <1>1 DEF ToSet, Has
<1>5. \A n : Has(n) <=> n \in ToSet(present)
  <2>1. \A n \in Names : Has(n) <=> n \in ToSet(present)
    BY DEF Exact, Mirrored
  <2>2. \A n : Has(n) => n \in Names
    BY <1>1 DEF Has
  <2> QED
    BY <2>1, <2>2, Numbered
<1>6. ToSet(names) = ToSet(present)
  BY <1>4, <1>5
<1>7. DOMAIN names = DOMAIN outputs /\ \A i \in DOMAIN outputs : names[i] = outputs[i].name
  BY <1>1
<1> HIDE DEF names
<1>8. DOMAIN names = DOMAIN present /\ \A i \in DOMAIN names : names[i] = present[i]
  BY <1>2, <1>3, <1>6, SameElements, Numbered DEF Exact, NeverReused
<1> QED
  BY <1>7, <1>8

\* Without a bind or a mode in flight the mode of an output is known.
LEMMA ModesAgree ==
  ASSUME Exact, NEW n \in ToSet(present),
         ~Binds(requests, n), ~Announces(events, n), \A i \in DOMAIN events : ~IsMode(events[i], n),
         NEW j \in DOMAIN outputs, outputs[j].name = n
  PROVE  outputs[j].mode = mode[n]
<1>1. HeardOf(n)
  BY DEF Exact, Heard
<1> QED
  BY <1>1 DEF HeardOf, Says

\* With nothing in flight the list is that of the outputs, with their modes.
LEMMA QuietAgrees ==
  ASSUME TypeOK, Ordered, Exact
  PROVE  ExactWhenQuiet
<1> SUFFICES ASSUME requests = <<>>, events = <<>>
             PROVE  Agrees
  BY DEF ExactWhenQuiet
<1>1. DOMAIN events = {} /\ DOMAIN requests = {}
  BY NoPlace
<1>2. \A n : /\ ~Announces(events, n) /\ ~Removes(events, n)
             /\ ~Binds(requests, n)
  BY <1>1 DEF Announces, Removes, Binds
<1>3. DOMAIN outputs = DOMAIN present /\ \A i \in DOMAIN outputs : outputs[i].name = present[i]
  BY <1>2, NamesAgree
<1>4. ASSUME NEW i \in DOMAIN outputs
      PROVE  outputs[i] = [name |-> present[i], mode |-> mode[present[i]]]
  <2>1. outputs[i] \in OutputInfo /\ outputs[i].name = present[i]
    BY <1>3, Places
  <2>2. present[i] \in ToSet(present)
    BY <1>3 DEF ToSet
  <2>3. outputs[i].mode = mode[present[i]]
    BY <1>1, <1>2, <2>1, <2>2, ModesAgree
  <2> QED
    BY <2>1, <2>3 DEF OutputInfo
<1>5. outputs = [i \in DOMAIN outputs |-> outputs[i]]
  BY DEF TypeOK
<1> QED
  BY <1>3, <1>4, <1>5 DEF Agrees

\* A selector picks an output it fits, if there is one.
LEMMA Picked ==
  ASSUME TypeOK, NEW s
  PROVE  /\ Fits(s) = {} => SelectOutput(s) = NoOutput
         /\ Fits(s) # {} => \E i \in Fits(s) : SelectOutput(s) = outputs[i].name
<1>1. Fits(s) \subseteq DOMAIN outputs
  BY Zenon DEF Fits
<1>2. Fits(s) \in SUBSET Nat
  BY <1>1, Places
<1>3. Fits(s) # {} => Min(Fits(s)) \in Fits(s)
  BY <1>2, LeastNatural
<1> QED
  BY <1>3 DEF SelectOutput

\* As long as no plug or unplug is unread, a selector means the same screen.
LEMMA SelectedAgrees ==
  ASSUME TypeOK, Ordered, Exact
  PROVE  SelectsTheScreen
<1> SUFFICES ASSUME \A e \in ToSet(events) : e.type \notin {"global", "remove"},
                    NEW s \in OutputSelector
             PROVE  SelectOutput(s) \in
                      CASE s.type = "first" -> {IF present = <<>> THEN NoOutput ELSE present[1]}
                        [] s.type = "index" ->
                             {IF s.index < Len(present) THEN present[s.index + 1] ELSE NoOutput}
                        [] s.type = "name" ->
                             IF s.name \notin ToSet(present) THEN {NoOutput}
                             ELSE IF \E m \in ToSet(requests \o events) :
                                       m.type \in {"bind", "mode"} /\ m.name = s.name
                               THEN {s.name, NoOutput} ELSE {s.name}
  BY DEF SelectsTheScreen
<1>1. \A i \in DOMAIN events : events[i].type \notin {"global", "remove"}
  BY DEF ToSet
<1>2. \A n : ~Announces(events, n) /\ ~Removes(events, n)
  BY <1>1 DEF Announces, Removes, IsGlobal, IsRemoval
<1>3. DOMAIN outputs = DOMAIN present /\ \A i \in DOMAIN outputs : outputs[i].name = present[i]
  BY <1>2, NamesAgree
<1>4. /\ Len(present) \in Nat /\ DOMAIN present = 1 .. Len(present)
      /\ present = <<>> <=> Len(present) = 0
  <2>1. present \in Seq(Nat)
    BY Numbered
  <2> QED
    BY <2>1
<1>5. \/ s.type = "first"
      \/ s.type = "index" /\ s.index \in Nat
      \/ s.type = "name" /\ s.name \in Names
  <2>1. MaxName \in Nat
    BY RegistryAssumption
  <2> QED
    BY <2>1 DEF OutputSelector
<1>6. CASE s.type = "first"
  <2>1. Fits(s) = {i \in DOMAIN outputs : i = 1}
    BY <1>6 DEF Fits
  <2>2. CASE present = <<>>
    <3>1. Fits(s) = {}
      BY <1>3, <1>4, <2>1, <2>2
    <3> QED
      BY <1>6, <2>2, <3>1, Picked
  <2>3. CASE present # <<>>
    <3>1. 1 \in DOMAIN outputs /\ Fits(s) # {} /\ \A i \in Fits(s) : i = 1
      BY <1>3, <1>4, <2>1, <2>3
    <3>2. SelectOutput(s) = outputs[1].name
      BY <3>1, Picked
    <3> QED
      BY <1>3, <1>6, <2>3, <3>1, <3>2
  <2> QED
    BY <2>2, <2>3
<1>7. CASE s.type = "index" /\ s.index \in Nat
  <2>1. Fits(s) = {i \in DOMAIN outputs : i = s.index + 1}
    BY <1>7 DEF Fits
  <2>2. CASE s.index < Len(present)
    <3>1. /\ s.index + 1 \in DOMAIN outputs /\ Fits(s) # {}
          /\ \A i \in Fits(s) : i = s.index + 1
      BY <1>3, <1>4, <1>7, <2>1, <2>2
    <3>2. SelectOutput(s) = outputs[s.index + 1].name
      BY <3>1, Picked
    <3> QED
      BY <1>3, <1>7, <2>2, <3>1, <3>2
  <2>3. CASE ~(s.index < Len(present))
    <3>1. Fits(s) = {}
      BY <1>3, <1>4, <1>7, <2>1, <2>3
    <3> QED
      BY <1>7, <2>3, <3>1, Picked
  <2> QED
    BY <2>2, <2>3
<1>8. CASE s.type = "name" /\ s.name \in Names
  <2>1. PICK n \in Names : n = s.name
    BY <1>8
  <2>2. Fits(s) = {i \in DOMAIN outputs : outputs[i].name = n /\ outputs[i].mode # NoMode}
    BY <1>8, <2>1 DEF Fits
  <2>3. SelectOutput(s) \in {n, NoOutput}
    BY <2>2, Picked
  <2>4. CASE n \notin ToSet(present)
    <3>1. Fits(s) = {}
      BY <1>3, <2>2, <2>4 DEF ToSet
    <3> QED
      BY <1>8, <2>1, <2>4, <3>1, Picked
  <2>5. CASE n \in ToSet(present) /\ \E m \in ToSet(requests \o events) :
                                       m.type \in {"bind", "mode"} /\ m.name = n
    BY <1>8, <2>1, <2>3, <2>5
  <2>6. CASE n \in ToSet(present) /\ ~\E m \in ToSet(requests \o events) :
                                        m.type \in {"bind", "mode"} /\ m.name = n
    <3>1. \A m \in ToSet(requests) \cup ToSet(events) : ~(m.type \in {"bind", "mode"} /\ m.name = n)
      <4> DEFINE S == Requests \cup Events
      <4>1. requests \in Seq(Requests) /\ events \in Seq(Events)
        BY DEF TypeOK
      <4>2. requests \in Seq(S) /\ events \in Seq(S)
        BY <4>1
      <4> HIDE DEF S
      <4>3. ToSet(requests \o events) = ToSet(requests) \cup ToSet(events)
        BY <4>2, JoinedMembers
      <4> QED
        BY <2>6, <4>3
    <3>2. ~Binds(requests, n) /\ \A i \in DOMAIN events : ~IsMode(events[i], n)
      BY <3>1 DEF Binds, IsBind, IsMode, ToSet
    <3>3. PICK j \in DOMAIN outputs : outputs[j].name = n
      BY <1>3, <2>6 DEF ToSet
    <3>4. outputs[j].mode = mode[n]
      BY <1>2, <2>6, <3>2, <3>3, ModesAgree
    <3>5. mode[n] # NoMode
      BY RegistryAssumption DEF TypeOK
    <3>6. j \in Fits(s)
      BY <2>2, <3>3, <3>4, <3>5
    <3>7. SelectOutput(s) = n
      BY <2>2, <3>6, Picked
    <3> QED
      BY <1>8, <2>1, <2>6, <3>7
  <2> QED
    BY <2>4, <2>5, <2>6
<1> QED
  BY <1>5, <1>6, <1>7, <1>8
-----------------------------------------------------------------------------

\* IInv is an inductive invariant of the registry.
THEOREM Inductive == Spec => []IInv
<1>1. Init => IInv
  <2> SUFFICES ASSUME Init
               PROVE  IInv
    OBVIOUS
  <2> USE RegistryAssumption
  <2>1. PICK k \in 0 .. MaxName : present = [i \in 1 .. k |-> i] /\ nextName = k + 1
    BY DEF Init
  <2>2. /\ DOMAIN present = 1 .. k /\ \A i \in 1 .. k : present[i] = i
        /\ present \in Seq(Names) /\ k \in Nat /\ 1 .. k \subseteq Names
    BY <2>1 DEF Names
  <2>3. /\ outputs = [i \in 1 .. k |-> NewOutput(i)]
        /\ requests = Append([i \in 1 .. k |-> [type |-> "bind", name |-> i]], [type |-> "roundtrip"])
    BY <2>2 DEF Init
  <2>4. outputs \in Seq(OutputInfo) /\ DOMAIN outputs = 1 .. k /\ \A j \in 1 .. k : outputs[j].name = j
    <3>1. \A i \in 1 .. k : NewOutput(i) \in OutputInfo /\ NewOutput(i).name = i
      BY <2>2 DEF NewOutput, OutputInfo
    <3> HIDE DEF NewOutput
    <3> QED
      BY <2>2, <2>3, <3>1
  <2>5. /\ requests \in Seq(Requests)
        /\ \A i \in 1 .. k : i \in DOMAIN requests /\ IsBind(requests[i], i)
    <3> DEFINE binds == [i \in 1 .. k |-> [type |-> "bind", name |-> i]]
    <3>1. \A i \in 1 .. k : [type |-> "bind", name |-> i] \in Requests
      BY <2>2 DEF Requests
    <3>2. binds \in Seq(Requests) /\ Len(binds) = k
      BY <2>2, <3>1
    <3>3. \A i \in 1 .. k : IsBind(binds[i], i)
      BY DEF IsBind
    <3>4. [type |-> "roundtrip"] \in Requests
      BY DEF Requests
    <3> HIDE DEF binds
    <3>5. /\ Append(binds, [type |-> "roundtrip"]) \in Seq(Requests)
          /\ DOMAIN Append(binds, [type |-> "roundtrip"]) = 1 .. k + 1
          /\ \A i \in 1 .. k : Append(binds, [type |-> "roundtrip"])[i] = binds[i]
      BY <3>2, <3>4, Appended
    <3> QED
      BY <2>2, <2>3, <3>3, <3>5 DEF binds
  <2>6. TypeOK
    <3>1. nextName \in 1 .. MaxName + 1
      BY <2>1, <2>2
    <3>2. events \in Seq(Events) /\ phase \in Phases /\ phase # "ready"
      BY DEF Init, Phases
    <3>3. mode \in [Names -> Modes] /\ bound \subseteq Names /\ known \subseteq Names
      BY DEF Init
    <3>4. backlog \in Nat /\ late \in BOOLEAN /\ sync_done \in BOOLEAN
      BY DEF Init
    <3> QED
      BY <2>2, <2>4, <2>5, <3>1, <3>2, <3>3, <3>4 DEF TypeOK
  <2>7. DOMAIN events = {}
    BY DEF Init
  <2>8. Ordered
    <3>1. DiscoveryOrder
      BY <2>2, <2>4 DEF DiscoveryOrder
    <3>2. \A j \in DOMAIN outputs : outputs[j].name < nextName
      BY <2>1, <2>2, <2>4
    <3>3. known = {}
      BY DEF Init
    <3> QED
      BY <2>7, <3>1, <3>2, <3>3 DEF Ordered
  <2>9. Accounted
    BY <2>2, <2>4, <2>7 DEF Accounted, Current, ToSet
  <2>10. Drawn
    BY <2>4, <2>5 DEF Drawn, Underway
  <2>11. Fresh /\ CaughtUpUnlessLate
    BY DEF Init, Fresh, CaughtUpUnlessLate
  <2> QED
    BY <2>6, <2>8, <2>9, <2>10, <2>11 DEF IInv
<1>2. IInv /\ [Next]_vars => IInv'
  BY StepTypeOK, StepOrdered, StepAccounted, StepDrawn, StepFresh, StepCaughtUp DEF IInv
<1> QED
  BY <1>1, <1>2, PTL DEF Spec

\* Every variable keeps its type: whatever the traffic, the list only holds
\* outputs that were announced and modes that were sent.
THEOREM TypeCorrect == Spec => []TypeOK
<1>1. IInv => TypeOK
  BY DEF IInv
<1> QED
  BY <1>1, Inductive, PTL

\* The list is in the order of discovery, without duplicates (ProbeState::outputs).
THEOREM ListInOrder == Spec => []DiscoveryOrder
<1>1. IInv => DiscoveryOrder
  BY DEF IInv, Ordered
<1> QED
  BY <1>1, Inductive, PTL

\* A refresh without an abandoned predecessor is current when it returns Ok, and
\* knows the mode of every output that was listed when it began (refresh_outputs).
THEOREM RefreshCatchesUp == Spec => []CaughtUpUnlessLate
<1>1. IInv => CaughtUpUnlessLate
  BY DEF IInv
<1> QED
  BY <1>1, Inductive, PTL

\* The list mirrors the outputs in all reachable states, what is in flight included.
THEOREM MirrorInductive == Spec => []Exact
<1>1. Init /\ IInv => Exact
  BY InitExact DEF IInv
<1>2. IInv /\ Exact /\ [Next]_vars => Exact'
  BY StepExact DEF IInv
<1> QED
  BY <1>1, <1>2, Inductive, PTL DEF Spec

\* Once nothing is in flight the list is exact, whatever was plugged, unplugged or
\* resized before (ProbeState's handlers of the registry and of the outputs).
THEOREM ListIsExact == Spec => []ExactWhenQuiet
<1>1. IInv /\ Exact => ExactWhenQuiet
  BY QuietAgrees DEF IInv
<1> QED
  BY <1>1, Inductive, MirrorInductive, PTL

\* Until a plug or an unplug is unread, a selector picks the screen that it means
\* to the compositor (select_output).
THEOREM SelectorIsStable == Spec => []SelectsTheScreen
<1>1. IInv /\ Exact => SelectsTheScreen
  BY SelectedAgrees DEF IInv
<1> QED
  BY <1>1, Inductive, MirrorInductive, PTL
================================================================================
