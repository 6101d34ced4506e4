-------------------------- MODULE WestonCaptureProofs --------------------------
(***************************************************************************)
(* A capture by weston_capture_v1 keeps the promise of BufferLoan,         *)
(* describes the image as it was drawn, never asks for a capture before    *)
(* the previous one has retired, and gives up retrying only if the         *)
(* parameters changed as often as it tried.                                *)
(*                                                                         *)
(* The invariant says how far the compositor is behind the client, and the *)
(* client behind the compositor.  The requests under way stand in the      *)
(* order they are issued in (Sorted), so that what has been handled        *)
(* follows from what is not among them (Server); a capture that waits has  *)
(* its one request under way, its one task in progress or its one answer   *)
(* (Client).  Once the events under way are handled the client will know   *)
(* what the source wants by now (Replay); so a retry costs the compositor  *)
(* a change of the parameters, whatever the client had read when it lent   *)
(* the buffer (Retries).                                                   *)
(***************************************************************************)
EXTENDS WestonCapture, SequenceTheorems, TLAPS

-----------------------------------------------------------------------------
(* Sequences *)

\* What Append does to the places of a sequence.
LEMMA Appended ==
  ASSUME NEW S, NEW s \in Seq(S), NEW e \in S
  PROVE  /\ Append(s, e) \in Seq(S)
         /\ Len(s) \in Nat /\ DOMAIN s = 1 .. Len(s)
         /\ Len(Append(s, e)) = Len(s) + 1 /\ DOMAIN Append(s, e) = 1 .. Len(s) + 1
         /\ \A i \in 1 .. Len(s) : Append(s, e)[i] = s[i]
         /\ Append(s, e)[Len(s) + 1] = e
OBVIOUS

\* What taking the first element away does to them.
LEMMA Taken ==
  ASSUME NEW S, NEW s \in Seq(S), s # <<>>
  PROVE  /\ Tail(s) \in Seq(S) /\ Head(s) = s[1] /\ s[1] \in S
         /\ Len(s) \in Nat \ {0} /\ DOMAIN s = 1 .. Len(s)
         /\ Len(Tail(s)) = Len(s) - 1 /\ DOMAIN Tail(s) = 1 .. Len(s) - 1
         /\ \A i \in 1 .. Len(s) - 1 : Tail(s)[i] = s[i + 1]
<1>1. Len(s) \in Nat \ {0} /\ DOMAIN s = 1 .. Len(s) /\ s[1] \in S
  OBVIOUS
<1>2. Tail(s) \in Seq(S) /\ Len(Tail(s)) = Len(s) - 1
  BY HeadTailProperties
<1>3. \A i \in 1 .. Len(s) - 1 : Tail(s)[i] = s[i + 1]
  BY <1>2, HeadTailProperties
<1>4. DOMAIN Tail(s) = 1 .. Len(s) - 1
  BY <1>2
<1>5. Head(s) = s[1]
  OBVIOUS
<1> QED
  BY <1>1, <1>2, <1>3, <1>4, <1>5

\* The empty sequence.
LEMMA NoPlace == DOMAIN <<>> = {} /\ Len(<<>>) = 0
<1>1. Len(<<>>) = 0
  OBVIOUS
<1>2. \A i \in DOMAIN <<>> : FALSE
  OBVIOUS
<1> QED
  BY <1>1, <1>2

\* A sequence of one element.
LEMMA OnePlace ==
  ASSUME NEW S, NEW d \in S
  PROVE  /\ <<d>> \in Seq(S) /\ 1 \in DOMAIN <<d>> /\ <<d>>[1] = d
         /\ \A i \in DOMAIN <<d>> : i = 1
         /\ \A i, j \in DOMAIN <<d>> : ~(i < j)
<1>1. <<d>> \in Seq(S) /\ <<d>>[1] = d
  OBVIOUS
<1>2. DOMAIN <<d>> = 1 .. 1
  OBVIOUS
<1>3. 1 \in 1 .. 1 /\ (\A i \in 1 .. 1 : i = 1) /\ (\A i, j \in 1 .. 1 : ~(i < j))
  OBVIOUS
<1> QED
  BY ONLY <1>1, <1>2, <1>3

\* A sequence of two.
LEMMA TwoPlaces ==
  ASSUME NEW S, NEW d \in S, NEW e \in S
  PROVE  /\ <<d, e>> \in Seq(S)
         /\ 1 \in DOMAIN <<d, e>> /\ <<d, e>>[1] = d
         /\ 2 \in DOMAIN <<d, e>> /\ <<d, e>>[2] = e
         /\ \A i \in DOMAIN <<d, e>> : i = 1 \/ i = 2
         /\ \A i, j \in DOMAIN <<d, e>> : i < j => i = 1 /\ j = 2
<1>1. <<d, e>> \in Seq(S) /\ <<d, e>>[1] = d /\ <<d, e>>[2] = e
  OBVIOUS
<1>2. DOMAIN <<d, e>> = 1 .. 2
  OBVIOUS
<1>3. /\ 1 \in 1 .. 2 /\ 2 \in 1 .. 2
      /\ (\A i \in 1 .. 2 : i = 1 \/ i = 2)
      /\ (\A i, j \in 1 .. 2 : i < j => i = 1 /\ j = 2)
  OBVIOUS
<1> QED
  BY ONLY <1>1, <1>2, <1>3

\* What \o does to them.
LEMMA Joined ==
  ASSUME NEW S, NEW s \in Seq(S), NEW t \in Seq(S)
  PROVE  /\ s \o t \in Seq(S)
         /\ Len(s) \in Nat /\ DOMAIN s = 1 .. Len(s)
         /\ Len(t) \in Nat /\ DOMAIN t = 1 .. Len(t)
         /\ DOMAIN (s \o t) = 1 .. Len(s) + Len(t)
         /\ \A i \in 1 .. Len(s) : (s \o t)[i] = s[i]
         /\ \A i \in 1 .. Len(t) : (s \o t)[Len(s) + i] = t[i]
<1>1. /\ s \o t \in Seq(S)
      /\ Len(s \o t) = Len(s) + Len(t)
      /\ \A i \in 1 .. Len(s) + Len(t) :
           (s \o t)[i] = IF i <= Len(s) THEN s[i] ELSE t[i - Len(s)]
  BY ConcatProperties
<1>2. Len(s) \in Nat /\ DOMAIN s = 1 .. Len(s) /\ Len(t) \in Nat /\ DOMAIN t = 1 .. Len(t)
  OBVIOUS
<1>3. DOMAIN (s \o t) = 1 .. Len(s) + Len(t)
  BY <1>1
<1>4. ASSUME NEW i \in 1 .. Len(s) PROVE (s \o t)[i] = s[i]
  <2>1. i \in 1 .. Len(s) + Len(t) /\ i <= Len(s)
    BY <1>2
  <2> QED
    BY <1>1, <2>1
<1>5. ASSUME NEW i \in 1 .. Len(t) PROVE (s \o t)[Len(s) + i] = t[i]
  <2>1. Len(s) + i \in 1 .. Len(s) + Len(t) /\ ~(Len(s) + i <= Len(s)) /\ (Len(s) + i) - Len(s) = i
    BY <1>2
  <2> QED
    BY <1>1, <2>1
<1> QED
  BY <1>1, <1>2, <1>3, <1>4, <1>5

-----------------------------------------------------------------------------
(* Requests on their way, in the order R *)

\* s is a sequence over S in which every element stands in R to each behind it.
Line(s, S, R) ==
  /\ s \in Seq(S)
  /\ \A i, j \in DOMAIN s : i < j => <<s[i], s[j]>> \in R

\* What is in a line; a line without elements is empty.
LEMMA LineMembers ==
  ASSUME NEW S, NEW R, NEW s, Line(s, S, R)
  PROVE  /\ ToSet(s) \subseteq S
         /\ s = <<>> <=> ToSet(s) = {}
<1>1. s \in Seq(S)
  BY DEF Line
<1>2. ToSet(s) \subseteq S
  BY <1>1 DEF ToSet
<1>3. s # <<>> => ToSet(s) # {}
  BY <1>1, Taken DEF ToSet
<1>4. ToSet(<<>>) = {}
  BY NoPlace DEF ToSet
<1> QED
  BY <1>2, <1>3, <1>4

\* Nothing is on its way.
LEMMA LineOfNone ==
  ASSUME NEW S, NEW R
  PROVE  Line(<<>>, S, R) /\ ToSet(<<>>) = {}
BY NoPlace DEF Line, ToSet

\* One element.
LEMMA LineOfOne ==
  ASSUME NEW S, NEW R, NEW d \in S
  PROVE  Line(<<d>>, S, R) /\ ToSet(<<d>>) = {d}
<1> DEFINE s == <<d>>
<1>1. s \in Seq(S) /\ 1 \in DOMAIN s /\ s[1] = d /\ \A i \in DOMAIN s : i = 1
  BY OnePlace
<1>2. \A i, j \in DOMAIN s : ~(i < j)
  BY OnePlace
<1> HIDE DEF s
<1>3. Line(s, S, R)
  BY <1>1, <1>2 DEF Line
<1>4. ToSet(s) = {d}
  BY <1>1 DEF ToSet
<1> QED
  BY <1>3, <1>4 DEF s

\* Two elements.
LEMMA LineOfTwo ==
  ASSUME NEW S, NEW R, NEW d \in S, NEW e \in S, <<d, e>> \in R
  PROVE  Line(<<d, e>>, S, R) /\ ToSet(<<d, e>>) = {d, e}
<1> DEFINE s == <<d, e>>
<1>1. /\ s \in Seq(S) /\ 1 \in DOMAIN s /\ s[1] = d /\ 2 \in DOMAIN s /\ s[2] = e
      /\ \A i \in DOMAIN s : i = 1 \/ i = 2
  BY TwoPlaces
<1>2. \A i, j \in DOMAIN s : i < j => i = 1 /\ j = 2
  BY TwoPlaces
<1> HIDE DEF s
<1>3. Line(s, S, R)
  BY <1>1, <1>2 DEF Line
<1>4. ToSet(s) = {d, e}
  BY <1>1 DEF ToSet
<1> QED
  BY <1>3, <1>4 DEF s

\* A line that others are put behind.
LEMMA LineJoined ==
  ASSUME NEW S, NEW R, NEW s, NEW t, Line(s, S, R), Line(t, S, R),
         \A d \in ToSet(s), e \in ToSet(t) : <<d, e>> \in R
  PROVE  Line(s \o t, S, R) /\ ToSet(s \o t) = ToSet(s) \cup ToSet(t)
<1> DEFINE u == s \o t
<1>1. /\ u \in Seq(S)
      /\ Len(s) \in Nat /\ DOMAIN s = 1 .. Len(s)
      /\ Len(t) \in Nat /\ DOMAIN t = 1 .. Len(t)
      /\ DOMAIN u = 1 .. Len(s) + Len(t)
      /\ \A i \in 1 .. Len(s) : u[i] = s[i]
      /\ \A i \in 1 .. Len(t) : u[Len(s) + i] = t[i]
  BY Joined DEF Line
<1> HIDE DEF u
<1>2. \A i \in DOMAIN u : \/ i \in DOMAIN s /\ u[i] = s[i]
                          \/ i - Len(s) \in DOMAIN t /\ u[i] = t[i - Len(s)]
  <2> SUFFICES ASSUME NEW i \in DOMAIN u, i \notin DOMAIN s
               PROVE  i - Len(s) \in DOMAIN t /\ u[i] = t[i - Len(s)]
    BY <1>1
  <2>1. i - Len(s) \in 1 .. Len(t) /\ Len(s) + (i - Len(s)) = i
    BY <1>1
  <2> QED
    BY <1>1, <2>1
<1>3. ToSet(u) = ToSet(s) \cup ToSet(t)
  <2>1. ToSet(u) \subseteq ToSet(s) \cup ToSet(t)
    BY <1>2 DEF ToSet
  <2>2. \A i \in DOMAIN s : i \in DOMAIN u /\ u[i] = s[i]
    BY <1>1
  <2>3. \A i \in DOMAIN t : Len(s) + i \in DOMAIN u /\ u[Len(s) + i] = t[i]
    BY <1>1
  <2>4. ToSet(s) \subseteq ToSet(u)
    BY ONLY <2>2 DEF ToSet
  <2>5. ToSet(t) \subseteq ToSet(u)
    BY ONLY <2>3 DEF ToSet
  <2> QED
    BY <2>1, <2>4, <2>5
<1>4. ASSUME NEW i \in DOMAIN u, NEW j \in DOMAIN u, i < j
      PROVE  <<u[i], u[j]>> \in R
  <2>1. CASE j \in DOMAIN s
    <3>1. i \in DOMAIN s
      BY <1>1, <1>4, <2>1
    <3> QED
      BY <1>1, <1>4, <2>1, <3>1 DEF Line
  <2>2. CASE j \notin DOMAIN s /\ i \in DOMAIN s
    <3>1. j - Len(s) \in DOMAIN t /\ u[j] = t[j - Len(s)] /\ u[i] = s[i]
      BY <1>1, <1>2, <2>2
    <3> QED
      BY <2>2, <3>1 DEF ToSet
  <2>3. CASE j \notin DOMAIN s /\ i \notin DOMAIN s
    <3>1. /\ i - Len(s) \in DOMAIN t /\ u[i] = t[i - Len(s)]
          /\ j - Len(s) \in DOMAIN t /\ u[j] = t[j - Len(s)]
      BY <1>2, <2>3
    <3>2. i - Len(s) < j - Len(s)
      BY <1>1, <1>4
    <3> QED
      BY <3>1, <3>2 DEF Line
  <2> QED
    BY <2>1, <2>2, <2>3
<1> QED
  BY <1>1, <1>3, <1>4 DEF Line, u

\* A line whose first element is taken.
LEMMA LineTaken ==
  ASSUME NEW S, NEW R, NEW s, Line(s, S, R), s # <<>>
  PROVE  /\ Line(Tail(s), S, R)
         /\ Head(s) \in S
         /\ ToSet(s) = {Head(s)} \cup ToSet(Tail(s))
         /\ \A e \in ToSet(Tail(s)) : <<Head(s), e>> \in R
<1>1. /\ Tail(s) \in Seq(S) /\ Head(s) = s[1] /\ s[1] \in S
      /\ Len(s) \in Nat \ {0} /\ DOMAIN s = 1 .. Len(s)
      /\ DOMAIN Tail(s) = 1 .. Len(s) - 1
      /\ \A i \in 1 .. Len(s) - 1 : Tail(s)[i] = s[i + 1]
  BY Taken DEF Line
<1>2. \A i \in DOMAIN Tail(s) : i + 1 \in DOMAIN s /\ 1 < i + 1 /\ Tail(s)[i] = s[i + 1]
  BY <1>1
<1>3. 1 \in DOMAIN s
  BY <1>1
<1>4. ASSUME NEW i \in DOMAIN Tail(s), NEW j \in DOMAIN Tail(s), i < j
      PROVE  <<Tail(s)[i], Tail(s)[j]>> \in R
  <2>1. i + 1 < j + 1
    BY <1>1, <1>4
  <2> QED
    BY <1>2, <2>1 DEF Line
<1>5. \A i \in DOMAIN s : i = 1 \/ (i - 1 \in DOMAIN Tail(s) /\ Tail(s)[i - 1] = s[i])
  <2> SUFFICES ASSUME NEW i \in DOMAIN s, i # 1
               PROVE  i - 1 \in DOMAIN Tail(s) /\ Tail(s)[i - 1] = s[i]
    OBVIOUS
  <2>1. i - 1 \in 1 .. Len(s) - 1 /\ (i - 1) + 1 = i
    BY <1>1
  <2> QED
    BY <1>1, <2>1
<1>6. ToSet(s) = {Head(s)} \cup ToSet(Tail(s))
  <2>1. ASSUME NEW i \in DOMAIN s PROVE s[i] \in {Head(s)} \cup ToSet(Tail(s))
    BY <1>1, <1>5 DEF ToSet
  <2>2. Head(s) \in ToSet(s)
    BY <1>1, <1>3 DEF ToSet
  <2>3. ASSUME NEW i \in DOMAIN Tail(s) PROVE Tail(s)[i] \in ToSet(s)
    BY <1>2 DEF ToSet
  <2>4. ToSet(s) \subseteq {Head(s)} \cup ToSet(Tail(s))
    BY ONLY <2>1 DEF ToSet
  <2>5. ToSet(Tail(s)) \subseteq ToSet(s)
    BY ONLY <2>3 DEF ToSet
  <2> QED
    BY <2>2, <2>4, <2>5
<1>7. \A e \in ToSet(Tail(s)) : <<Head(s), e>> \in R
  BY <1>1, <1>2, <1>3 DEF ToSet, Line
<1> QED
  BY <1>1, <1>4, <1>6, <1>7 DEF Line

\* A line is in any order its elements stand in.
LEMMA LineReordered ==
  ASSUME NEW S, NEW R, NEW T, NEW s, Line(s, S, R),
         \A d, e \in ToSet(s) : <<d, e>> \in R => <<d, e>> \in T
  PROVE  Line(s, S, T)
BY DEF Line, ToSet

-----------------------------------------------------------------------------
(* Two lines, one behind the other *)

\* The elements of two sequences.
LEMMA JoinedMembers ==
  ASSUME NEW S, NEW s \in Seq(S), NEW t \in Seq(S)
  PROVE  ToSet(s \o t) = ToSet(s) \cup ToSet(t)
<1> DEFINE u == s \o t
<1>1. /\ Len(s) \in Nat /\ DOMAIN s = 1 .. Len(s)
      /\ Len(t) \in Nat /\ DOMAIN t = 1 .. Len(t)
      /\ DOMAIN u = 1 .. Len(s) + Len(t)
      /\ \A i \in 1 .. Len(s) : u[i] = s[i]
      /\ \A i \in 1 .. Len(t) : u[Len(s) + i] = t[i]
  BY Joined
<1> HIDE DEF u
<1>2. \A i \in DOMAIN u : u[i] \in ToSet(s) \cup ToSet(t)
  <2> SUFFICES ASSUME NEW i \in DOMAIN u PROVE u[i] \in ToSet(s) \cup ToSet(t)
    OBVIOUS
  <2>1. CASE i <= Len(s)
    BY <1>1, <2>1 DEF ToSet
  <2>2. CASE i > Len(s)
    <3>1. i - Len(s) \in 1 .. Len(t) /\ Len(s) + (i - Len(s)) = i
      BY <1>1, <2>2
    <3> QED
      BY <1>1, <3>1 DEF ToSet
  <2> QED
    BY <1>1, <2>1, <2>2
<1>3. \A i \in DOMAIN s : s[i] \in ToSet(u)
  BY <1>1 DEF ToSet
<1>4. \A i \in DOMAIN t : t[i] \in ToSet(u)
  <2>1. \A i \in 1 .. Len(t) : Len(s) + i \in DOMAIN u
    BY <1>1
  <2> QED
    BY <1>1, <2>1 DEF ToSet
<1>5. ToSet(u) = ToSet(s) \cup ToSet(t)
  BY <1>2, <1>3, <1>4 DEF ToSet
<1> QED
  BY <1>5 DEF u

\* The first element of two sequences.
LEMMA JoinedTaken ==
  ASSUME NEW S, NEW s \in Seq(S), NEW t \in Seq(S), s # <<>>
  PROVE  s \o t # <<>> /\ Head(s \o t) = Head(s) /\ Tail(s \o t) = Tail(s) \o t
<1>1. s = <<Head(s)>> \o Tail(s) /\ Head(s) \in S /\ Tail(s) \in Seq(S)
  BY HeadTailProperties
<1>2. s \o t = <<Head(s)>> \o (Tail(s) \o t)
  BY <1>1, ConcatAssociative
<1> QED
  BY <1>1, <1>2

\* The first element of the second sequence moves to the end of the first.
LEMMA JoinedMoved ==
  ASSUME NEW S, NEW s \in Seq(S), NEW t \in Seq(S), t # <<>>
  PROVE  Append(s, Head(t)) \o Tail(t) = s \o t
<1>1. Head(t) \in S /\ Tail(t) \in Seq(S) /\ t = <<Head(t)>> \o Tail(t) /\ <<Head(t)>> \in Seq(S)
  BY HeadTailProperties
<1>2. Append(s, Head(t)) = s \o <<Head(t)>>
  BY <1>1, AppendIsConcat
<1> QED
  BY <1>1, <1>2, ConcatAssociative

\* What is left of a line of which the first element of the second part is gone.
LEMMA LineDropped ==
  ASSUME NEW S, NEW R, NEW s \in Seq(S), NEW t \in Seq(S), t # <<>>, Line(s \o t, S, R)
  PROVE  Line(s \o Tail(t), S, R)
<1> DEFINE u == s \o t
           v == s \o Tail(t)
<1>1. /\ Tail(t) \in Seq(S) /\ Len(t) \in Nat \ {0} /\ DOMAIN t = 1 .. Len(t)
      /\ Len(Tail(t)) = Len(t) - 1
      /\ \A i \in 1 .. Len(t) - 1 : Tail(t)[i] = t[i + 1]
  BY Taken
<1>2. /\ Len(s) \in Nat
      /\ DOMAIN u = 1 .. Len(s) + Len(t)
      /\ \A i \in 1 .. Len(s) : u[i] = s[i]
      /\ \A i \in 1 .. Len(t) : u[Len(s) + i] = t[i]
  BY Joined
<1>3. /\ v \in Seq(S)
      /\ DOMAIN v = 1 .. Len(s) + (Len(t) - 1)
      /\ \A i \in 1 .. Len(s) : v[i] = s[i]
      /\ \A i \in 1 .. Len(t) - 1 : v[Len(s) + i] = Tail(t)[i]
  BY <1>1, Joined
<1> HIDE DEF u, v
<1>4. ASSUME NEW i \in DOMAIN v
      PROVE  v[i] = IF i <= Len(s) THEN u[i] ELSE u[i + 1]
  <2>1. CASE i <= Len(s)
    BY <1>2, <1>3, <2>1
  <2>2. CASE i > Len(s)
    <3>1. /\ i - Len(s) \in 1 .. Len(t) - 1 /\ Len(s) + (i - Len(s)) = i
          /\ i - Len(s) + 1 \in 1 .. Len(t) /\ Len(s) + (i - Len(s) + 1) = i + 1
      BY <1>1, <1>2, <1>3, <2>2
    <3>2. v[i] = Tail(t)[i - Len(s)]
      BY <1>3, <3>1
    <3>3. Tail(t)[i - Len(s)] = t[i - Len(s) + 1]
      BY <1>1, <3>1
    <3>4. u[i + 1] = t[i - Len(s) + 1]
      BY <1>2, <3>1
    <3> QED
      BY <1>2, <1>3, <2>2, <3>2, <3>3, <3>4
  <2> QED
    BY <1>2, <1>3, <2>1, <2>2
<1>5. \A i \in DOMAIN v : i \in DOMAIN u /\ i + 1 \in DOMAIN u
  BY <1>1, <1>2, <1>3
<1>6. \A i, j \in DOMAIN v : i < j =>
        i < j + 1 /\ i + 1 < j + 1 /\ ~(j <= Len(s) /\ ~(i <= Len(s)))
  BY <1>1, <1>2, <1>3
<1>7. \A i, j \in DOMAIN u : i < j => <<u[i], u[j]>> \in R
  BY DEF Line, u
<1>8. \A i, j \in DOMAIN v : i < j => <<v[i], v[j]>> \in R
  BY <1>4, <1>5, <1>6, <1>7
<1>9. Line(v, S, R)
  BY <1>3, <1>8 DEF Line
<1> QED
  BY <1>9 DEF v

-----------------------------------------------------------------------------
(* The requests under way *)

Requests ==
  [type : {"create source", "destroy source"}, source : Sources]
    \cup [type : {"sync"}]
    \cup [type : {"create buffer"}, buffer : Buffers, params : Params]
    \cup [type : {"capture"}, source : Sources, buffer : Buffers]
    \cup [type : {"destroy buffer"}, buffer : Buffers]

\* Is request p issued before request q?  A source is destroyed after the
\* buffer, except when the capture is abandoned.
Before(p, q) ==
  \/ p.type = "create source" /\ q.type # "create source"
  \/ p.type = "sync" /\ q.type # "create source" /\ q.type # "sync"
  \/ /\ p.type = "create buffer"
     /\ q.type = "capture" \/ q.type = "destroy source" \/ q.type = "destroy buffer"
  \/ p.type = "capture" /\ (q.type = "destroy source" \/ q.type = "destroy buffer")
  \/ /\ p.type = "destroy buffer"
     /\ \/ /\ q.type = "create buffer" \/ q.type = "capture" \/ q.type = "destroy buffer"
           /\ p.buffer < q.buffer
        \/ q.type = "destroy source" /\ (result # Error("timeout") \/ p.buffer < attempt)
  \/ p.type = "destroy source" /\ (p.source # Source \/ q.type = "destroy buffer")

Order == {pair \in Requests \X Requests : Before(pair[1], pair[2])}

Wire == requests \o outbox
Queued == ToSet(Wire)
Asked(type) == \E q \in Queued : q.type = type
Creating(b) == \E q \in Queued : q.type = "create buffer" /\ q.buffer = b
Leaving == \E q \in Queued : q.type = "destroy source" /\ q.source = Source

Sorted ==
  /\ requests \in Seq(Requests) /\ outbox \in Seq(Requests)
  /\ Line(Wire, Requests, Order)
  /\ \A q \in Queued : q.type = "create source" => q.source = Source
  /\ \A q \in Queued : q.type = "destroy source" => q.source \in destroyed
  /\ \A q \in Queued : q.type = "create buffer" => q.buffer = attempt /\ q.params = geometry
  /\ \A q \in Queued : q.type = "capture" => q.buffer = attempt /\ q.source = Source
  /\ \A q \in Queued : q.type = "destroy buffer" =>
       q.buffer <= attempt /\ (q.buffer = attempt => pc \in {"attempt", "done"})
  /\ Asked("create source") \/ Asked("sync") => pc \notin {"create", "rejected"}
  /\ Asked("create source") /\ pc # "done" => Asked("sync") \/ pc \in {"attempt", "await"}

-----------------------------------------------------------------------------
(* The sources *)

Chosen ==
  /\ Source \in destroyed <=> pc = "done"
  /\ \A c \in DOMAIN SourcePreference : c > candidate => SourcePreference[c] \notin destroyed \cup sources
  /\ sources \subseteq destroyed \cup {Source}
  /\ pc = "create" \/ Asked("create source") => Source \notin sources
  /\ pc \in {"negotiate", "attempt", "await"} /\ ~Asked("create source") => Source \in sources

-----------------------------------------------------------------------------
(* The buffers *)

Outcomes == {"complete", "retry", "failed"}

Inbox == queue \o events
Incoming == ToSet(Inbox)
Answered == \E e \in Incoming : e.type \in Outcomes

Capturing == Asked("capture")

Server ==
  /\ ~sequence
  /\ \A b \in Buffers : pools[b] # None =>
       b <= attempt /\ ~Creating(b) /\ (b = attempt => pools[b] = geometry)
  /\ \A q \in Queued : q.type = "destroy buffer" => pools[q.buffer] # None \/ Creating(q.buffer)
  /\ pc = "await" \/ Capturing => attempt > 0 /\ (pools[attempt] # None \/ Creating(attempt))
  /\ task # None =>
       /\ task = [source |-> Source, buffer |-> attempt]
       /\ attempt > 0 /\ pools[attempt] = geometry /\ status = "pending" /\ ~Capturing
  /\ Capturing => status = "pending"
  /\ task # None \/ Capturing =>
       /\ geometry # None /\ image[attempt] = None
       /\ pc = "await" \/ (pc = "done" /\ result = Error("timeout") /\ Leaving)
  /\ \A b \in Buffers : image[b] # None => b = attempt /\ image[b] = geometry
  /\ pc # "done" /\ (Asked("create source") \/ Asked("create buffer")) /\ attempt > 0 => Capturing

\* What the client may conclude from the outcome of its capture.
Tells(outcome) ==
  /\ outcome = "complete" => image[attempt] = geometry
  /\ outcome \in {"retry", "failed"} => image[attempt] = None

Client ==
  /\ pc # "done" => result = NoResult
  /\ pc \in {"create", "negotiate", "rejected"} => attempt = 0
  /\ pc \notin {"await", "done"} =>
       status = "pending" /\ ~Answered /\ \A b \in Buffers : image[b] = None
  /\ pc = "await" =>
       /\ geometry \in Params
       /\ Answered => status = "pending" /\ task = None /\ ~Capturing
       /\ Tells(status)
       /\ \A e \in Incoming : e.type \in Outcomes => Tells(e.type)
  /\ DeliveredAsDrawn

-----------------------------------------------------------------------------
(* The events under way *)

Events ==
  [type : {"format"}, source : Sources, value : Formats]
    \cup [type : {"size"}, source : Sources, value : Sizes]
    \cup [type : {"done"}, source : {None}, value : {None}]
    \cup [type : Outcomes, source : Sources, value : {None}]

Parameter == {"format", "size"}
Announcing == \E e \in Incoming : e.type \in Parameter

\* May event e be followed by event f?  There is one end of an announcement and
\* one outcome of an attempt; if every change so far has cost an attempt, no
\* parameter comes behind it.
Then(e, f) ==
  /\ e.type = "done" => f.type # "done" /\ (changes = 0 => f.type \notin Parameter)
  /\ e.type \in Outcomes => f.type \notin Outcomes
  /\ e.type = "retry" /\ changes <= attempt => f.type \notin Parameter

Sequel == {pair \in Events \X Events : Then(pair[1], pair[2])}

\* The events of s of a type, except those of dead sources.
Live(s, type, dead) == {i \in DOMAIN s : s[i].type = type /\ s[i].source \notin dead}
Ends(s, type, dead, v) ==
  \E i \in Live(s, type, dead) : s[i].value = v /\ \A j \in Live(s, type, dead) : j <= i

\* What the client will take for the parameter, known so far as old, once it
\* has handled the events under way, is v.
Replayed(type, old, v) ==
  \/ Ends(events, type, destroyed, v)
  \/ /\ Live(events, type, destroyed) = {}
     /\ Ends(queue, type, {}, v) \/ (Live(queue, type, {}) = {} /\ old = v)

Replay ==
  pc # "done" /\ Source \in sources =>
    /\ info[Source].format # None => Replayed("format", format, info[Source].format)
    /\ info[Source].size # 0 => Replayed("size", size, info[Source].size)

-----------------------------------------------------------------------------
(* What a retry costs *)

\* Nothing the client knows or will be told of is not what its source wants.
Current ==
  /\ info[Source].format # None =>
       /\ format \in {None, info[Source].format}
       /\ \A e \in Incoming : e.type = "format" => e.value = info[Source].format
  /\ info[Source].size # 0 =>
       /\ size \in {0, info[Source].size}
       /\ \A e \in Incoming : e.type = "size" => e.value = info[Source].size

\* As long as nothing changed the announcements arrive in their order.
Unchanged ==
  changes = 0 =>
    /\ pc \in {"create", "rejected"} => ~Announcing
    /\ pc = "negotiate" =>
         /\ Current
         /\ sync_done => ~Announcing
         /\ Asked("create source") => ~Announcing /\ format = None /\ size = 0
    /\ pc \in {"attempt", "await"} => ~Asked("create source")

Synced ==
  /\ pc \in {"create", "rejected"} => \A e \in Incoming : e.type # "done"
  /\ Asked("sync") /\ pc # "done" => ~sync_done /\ \A e \in Incoming : e.type # "done"
  /\ pc = "negotiate" /\ sync_done => \A e \in Incoming : e.type # "done"
  /\ pc = "rejected" => sync_done

Retries ==
  /\ pc = "attempt" =>
       /\ changes >= attempt
       /\ changes = attempt => Current
  /\ pc = "await" =>
       /\ changes + 1 >= attempt
       /\ (task # None \/ Capturing) /\ changes < attempt /\ info[Source] \in Params =>
            geometry = info[Source]
       /\ status = "retry" \/ (\E e \in Incoming : e.type = "retry") => changes >= attempt
       /\ status = "retry" /\ changes = attempt => ~Announcing
  /\ RetryLimitJustified

\* As long as nothing changed only the current source has announced anything since
\* the state was reset.
Unmixed ==
  changes = 0 /\ pc \in {"negotiate", "attempt", "await"} =>
    /\ \A e \in Incoming : e.type \in Parameter => e.source = Source
    /\ formatFrom \in {Source, None} /\ sizeFrom \in {Source, None}

Inbound ==
  pc # "done" => queue \in Seq(Events) /\ events \in Seq(Events) /\ Line(Inbox, Events, Sequel)

IInv ==
  /\ TypeOK /\ Sorted /\ Chosen /\ Server /\ Client
  /\ Inbound /\ Replay /\ Unchanged /\ Synced /\ Retries /\ Unmixed

-----------------------------------------------------------------------------
(* Sources, requests and events *)

\* The candidates are different sources.
LEMMA SourceIs ==
  ASSUME WestonConstants, TypeOK
  PROVE  /\ Source \in Sources /\ Source # None /\ None \notin Sources
         /\ candidate \in Nat /\ Len(SourcePreference) \in Nat
         /\ candidate \in DOMAIN SourcePreference
         /\ DOMAIN SourcePreference = 1 .. Len(SourcePreference)
         /\ \A c \in DOMAIN SourcePreference : SourcePreference[c] = Source => c = candidate
<1>1. candidate \in DOMAIN SourcePreference /\ None \notin Sources
  BY DEF TypeOK, WestonConstants
<1>2. SourcePreference \in Seq(Sources)
  BY DEF WestonConstants
<1>3. DOMAIN SourcePreference = 1 .. Len(SourcePreference) /\ Len(SourcePreference) \in Nat
      /\ SourcePreference[candidate] \in Sources
  BY <1>1, <1>2
<1>4. \A c \in DOMAIN SourcePreference : SourcePreference[c] = Source => c = candidate
  BY <1>1 DEF Source, WestonConstants
<1> QED
  BY <1>1, <1>3, <1>4 DEF Source

\* The attempts and their buffers are numbers.
LEMMA Counting ==
  ASSUME WestonConstants, TypeOK
  PROVE  /\ attempt \in Nat /\ attempt <= MaxAttempts /\ changes \in Nat /\ MaxAttempts \in Nat
         /\ \A b \in Buffers : b \in Nat /\ b > 0 /\ b <= MaxAttempts
         /\ attempt > 0 => attempt \in Buffers
BY DEF TypeOK, WestonConstants, Buffers

\* The results a capture can return differ.
LEMMA ResultsDiffer ==
  /\ NoResult.type = "none"
  /\ \A e : Error(e).type = "error" /\ Error(e).error = e
  /\ \A e : NoResult # Error(e)
<1>1. NoResult.type = "none" /\ \A e : Error(e).type = "error" /\ Error(e).error = e
  BY DEF NoResult, Error
<1> QED
  BY <1>1

\* What a request is, by its type.
LEMMA RequestFields ==
  ASSUME NEW r \in Requests
  PROVE  \/ r.type = "create source" /\ r.source \in Sources
         \/ r.type = "destroy source" /\ r.source \in Sources
         \/ r.type = "sync"
         \/ r.type = "create buffer" /\ r.buffer \in Buffers /\ r.params \in Params
         \/ r.type = "capture" /\ r.source \in Sources /\ r.buffer \in Buffers
         \/ r.type = "destroy buffer" /\ r.buffer \in Buffers
<1>1. CASE r \in [type : {"create source", "destroy source"}, source : Sources]
  BY <1>1
<1>2. CASE r \in [type : {"sync"}]
  BY <1>2
<1>3. CASE r \in [type : {"create buffer"}, buffer : Buffers, params : Params]
  BY <1>3
<1>4. CASE r \in [type : {"capture"}, source : Sources, buffer : Buffers]
  BY <1>4
<1>5. CASE r \in [type : {"destroy buffer"}, buffer : Buffers]
  BY <1>5
<1> QED
  BY <1>1, <1>2, <1>3, <1>4, <1>5 DEF Requests

\* What the thread issues.
LEMMA Known ==
  /\ \A s \in Sources : [type |-> "create source", source |-> s] \in Requests
  /\ \A s \in Sources : [type |-> "destroy source", source |-> s] \in Requests
  /\ [type |-> "sync"] \in Requests
  /\ \A b \in Buffers, p \in Params : [type |-> "create buffer", buffer |-> b, params |-> p] \in Requests
  /\ \A s \in Sources, b \in Buffers : [type |-> "capture", source |-> s, buffer |-> b] \in Requests
  /\ \A b \in Buffers : [type |-> "destroy buffer", buffer |-> b] \in Requests
<1> USE DEF Requests
<1>1. \A s \in Sources : /\ [type |-> "create source", source |-> s] \in Requests
                         /\ [type |-> "destroy source", source |-> s] \in Requests
  OBVIOUS
<1>2. [type |-> "sync"] \in Requests
  OBVIOUS
<1>3. \A b \in Buffers, p \in Params : [type |-> "create buffer", buffer |-> b, params |-> p] \in Requests
  OBVIOUS
<1>4. \A s \in Sources, b \in Buffers : [type |-> "capture", source |-> s, buffer |-> b] \in Requests
  OBVIOUS
<1>5. \A b \in Buffers : [type |-> "destroy buffer", buffer |-> b] \in Requests
  OBVIOUS
<1> QED
  BY <1>1, <1>2, <1>3, <1>4, <1>5

\* What an event is, by its type.
LEMMA EventFields ==
  ASSUME NEW e \in Events
  PROVE  \/ e.type = "format" /\ e.source \in Sources /\ e.value \in Formats
         \/ e.type = "size" /\ e.source \in Sources /\ e.value \in Sizes
         \/ e.type = "done" /\ e.source = None
         \/ e.type \in Outcomes /\ e.source \in Sources
<1>1. CASE e \in [type : {"format"}, source : Sources, value : Formats]
  BY <1>1
<1>2. CASE e \in [type : {"size"}, source : Sources, value : Sizes]
  BY <1>2
<1>3. CASE e \in [type : {"done"}, source : {None}, value : {None}]
  BY <1>3
<1>4. CASE e \in [type : Outcomes, source : Sources, value : {None}]
  BY <1>4
<1> QED
  BY <1>1, <1>2, <1>3, <1>4 DEF Events

\* What the compositor sends.
LEMMA Sendable ==
  /\ \A s \in Sources, v \in Formats : Event("format", s, v) \in Events
  /\ \A s \in Sources, v \in Sizes : Event("size", s, v) \in Events
  /\ Event("done", None, None) \in Events
  /\ \A o \in Outcomes, s \in Sources : Event(o, s, None) \in Events
  /\ \A t, s, v : Event(t, s, v).type = t /\ Event(t, s, v).source = s /\ Event(t, s, v).value = v
<1> USE DEF Events, Event
<1>1. \A s \in Sources, v \in Formats : Event("format", s, v) \in Events
  OBVIOUS
<1>2. \A s \in Sources, v \in Sizes : Event("size", s, v) \in Events
  OBVIOUS
<1>3. Event("done", None, None) \in Events
  OBVIOUS
<1>4. \A o \in Outcomes, s \in Sources : Event(o, s, None) \in Events
  OBVIOUS
<1>5. \A t, s, v : Event(t, s, v).type = t /\ Event(t, s, v).source = s /\ Event(t, s, v).value = v
  OBVIOUS
<1> QED
  BY <1>1, <1>2, <1>3, <1>4, <1>5

-----------------------------------------------------------------------------
(* The wire *)

\* The members of the wire are requests.
LEMMA OnTheWire == ASSUME Sorted PROVE Queued \subseteq Requests /\ Queued = InFlight
BY LineMembers DEF Sorted, Queued, InFlight, Wire

\* The requests t are issued behind those that are under way.
LEMMA Issued ==
  ASSUME Sorted, NEW t, t \in Seq(Requests), Line(t, Requests, Order'),
         \A p, q \in Queued : Before(p, q) => Before(p, q)',
         \A p \in Queued, q \in ToSet(t) : Before(p, q)',
         requests' = requests, outbox' = outbox \o t
  PROVE  /\ (requests \in Seq(Requests) /\ outbox \in Seq(Requests))'
         /\ Line(Wire, Requests, Order)' /\ Queued' = Queued \cup ToSet(t)
<1>1. Queued \subseteq Requests /\ ToSet(t) \subseteq Requests
  BY LineMembers, OnTheWire
<1>2. \A p, q \in Queued : <<p, q>> \in Order => <<p, q>> \in Order'
  BY <1>1 DEF Order
<1>3. \A p \in Queued, q \in ToSet(t) : <<p, q>> \in Order'
  BY <1>1 DEF Order
<1>4. Line(Wire, Requests, Order')
  BY <1>2, LineReordered DEF Queued, Sorted
<1>5. \A d \in ToSet(Wire), e \in ToSet(t) : <<d, e>> \in Order'
  BY <1>3 DEF Queued
<1>6. Line(t, Requests, Order')
  OBVIOUS
<1>7. Line(Wire \o t, Requests, Order') /\ ToSet(Wire \o t) = ToSet(Wire) \cup ToSet(t)
  BY ONLY <1>4, <1>5, <1>6, LineJoined, Z3
<1>8. requests \in Seq(Requests) /\ outbox \in Seq(Requests)
  BY DEF Sorted
<1>9. Wire' = Wire \o t
  BY <1>8, ConcatAssociative DEF Wire
<1>10. outbox \o t \in Seq(Requests)
  BY <1>8, ConcatProperties
<1> QED
  BY <1>7, <1>8, <1>9, <1>10 DEF Queued

\* Two requests are issued.
LEMMA IssuedTwo ==
  ASSUME Sorted, NEW c \in Requests, NEW d \in Requests, Before(c, d)',
         \A p, q \in Queued : Before(p, q) => Before(p, q)',
         \A p \in Queued : Before(p, c)' /\ Before(p, d)',
         requests' = requests, outbox' = outbox \o <<c, d>>
  PROVE  /\ (requests \in Seq(Requests) /\ outbox \in Seq(Requests))'
         /\ Line(Wire, Requests, Order)' /\ Queued' = Queued \cup {c, d}
<1>1. <<c, d>> \in Order' /\ c \in Requests /\ d \in Requests
  BY DEF Order
<1>2. Line(<<c, d>>, Requests, Order') /\ ToSet(<<c, d>>) = {c, d}
  BY ONLY <1>1, LineOfTwo, Z3
<1>3. PICK t : t = <<c, d>>
  OBVIOUS
<1>4. Line(t, Requests, Order') /\ ToSet(t) = {c, d} /\ outbox' = outbox \o t
  BY <1>2, <1>3
<1>5. t \in Seq(Requests)
  BY <1>4 DEF Line
<1>6. \A p \in Queued, q \in ToSet(t) : Before(p, q)'
  BY <1>4
<1> QED
  BY <1>4, <1>5, <1>6, Issued

\* One request is issued.
LEMMA IssuedOne ==
  ASSUME Sorted, NEW c \in Requests,
         \A p, q \in Queued : Before(p, q) => Before(p, q)',
         \A p \in Queued : Before(p, c)',
         requests' = requests, outbox' = outbox \o <<c>>
  PROVE  /\ (requests \in Seq(Requests) /\ outbox \in Seq(Requests))'
         /\ Line(Wire, Requests, Order)' /\ Queued' = Queued \cup {c}
<1>1. Line(<<c>>, Requests, Order') /\ ToSet(<<c>>) = {c}
  BY LineOfOne
<1>2. PICK t : t = <<c>>
  OBVIOUS
<1>3. Line(t, Requests, Order') /\ ToSet(t) = {c} /\ outbox' = outbox \o t
  BY <1>1, <1>2
<1>4. t \in Seq(Requests)
  BY <1>3 DEF Line
<1>5. \A p \in Queued, q \in ToSet(t) : Before(p, q)'
  BY <1>3
<1> QED
  BY <1>3, <1>4, <1>5, Issued

\* The requests stay where they are, or move on to the socket.
LEMMA NoneIssued ==
  ASSUME Sorted, \A p, q \in Queued : Before(p, q) => Before(p, q)',
         UNCHANGED <<requests, outbox>> \/ (requests' = requests \o outbox /\ outbox' = <<>>)
  PROVE  /\ (requests \in Seq(Requests) /\ outbox \in Seq(Requests))'
         /\ Line(Wire, Requests, Order)' /\ Queued' = Queued
<1>1. Queued \subseteq Requests
  BY OnTheWire
<1>2. \A p, q \in Queued : <<p, q>> \in Order => <<p, q>> \in Order'
  BY <1>1 DEF Order
<1>3. Line(Wire, Requests, Order')
  BY <1>2, LineReordered DEF Queued, Sorted
<1>4. requests \in Seq(Requests) /\ outbox \in Seq(Requests) /\ Wire \in Seq(Requests)
  BY DEF Sorted, Line
<1>5. CASE UNCHANGED <<requests, outbox>>
  BY <1>3, <1>4, <1>5 DEF Queued, Wire
<1>6. CASE requests' = requests \o outbox /\ outbox' = <<>>
  <2>1. Wire' = Wire /\ requests' \in Seq(Requests) /\ outbox' \in Seq(Requests)
    BY <1>4, <1>6, ConcatEmptySeq DEF Wire
  <2> QED
    BY <1>3, <2>1 DEF Queued
<1> QED
  BY <1>5, <1>6

\* The compositor takes the first request; the others are not before it.
LEMMA Served ==
  ASSUME Sorted, requests # <<>>, requests' = Tail(requests),
         UNCHANGED <<outbox, result, attempt, candidate>>
  PROVE  /\ (requests \in Seq(Requests) /\ outbox \in Seq(Requests))'
         /\ Line(Wire, Requests, Order)'
         /\ Head(requests) \in Requests
         /\ Queued = {Head(requests)} \cup Queued'
         /\ \A q \in Queued' : q \in Requests /\ Before(Head(requests), q)
<1>1. requests \in Seq(Requests) /\ outbox \in Seq(Requests)
  BY DEF Sorted
<1>2. Wire # <<>> /\ Head(Wire) = Head(requests) /\ Tail(Wire) = Tail(requests) \o outbox
  BY <1>1, JoinedTaken DEF Wire
<1>3. /\ Line(Tail(Wire), Requests, Order) /\ Head(Wire) \in Requests
      /\ Queued = {Head(Wire)} \cup ToSet(Tail(Wire))
      /\ \A q \in ToSet(Tail(Wire)) : <<Head(Wire), q>> \in Order
  BY <1>2, LineTaken DEF Queued, Sorted
<1>4. Order' = Order
  BY DEF Order, Before, Source
<1>5. Wire' = Tail(Wire)
  BY <1>2 DEF Wire
<1>6. Queued' = ToSet(Tail(Wire))
  BY <1>5 DEF Queued
<1>7. Tail(requests) \in Seq(Requests)
  BY <1>1, HeadTailProperties
<1> QED
  BY <1>1, <1>2, <1>3, <1>4, <1>5, <1>6, <1>7 DEF Order

-----------------------------------------------------------------------------
(* The inbox *)

\* Queue and socket hold events in their order.
Delivering == queue \in Seq(Events) /\ events \in Seq(Events) /\ Line(Inbox, Events, Sequel)

\* The members of the inbox are events.
LEMMA InTheInbox ==
  ASSUME Delivering
  PROVE  /\ Incoming \subseteq Events /\ Incoming = ToSet(queue) \cup ToSet(events)
         /\ Inbox \in Seq(Events)
<1>1. Inbox \in Seq(Events) /\ queue \in Seq(Events) /\ events \in Seq(Events)
  BY DEF Delivering, Line
<1>2. Incoming \subseteq Events
  BY LineMembers DEF Delivering, Incoming
<1>3. Incoming = ToSet(queue) \cup ToSet(events)
  BY <1>1, JoinedMembers DEF Incoming, Inbox
<1> QED
  BY <1>1, <1>2, <1>3

\* The events t are sent behind those that are under way.
LEMMA Sent ==
  ASSUME Delivering, NEW t, t \in Seq(Events), Line(t, Events, Sequel'),
         \A e, f \in Incoming : Then(e, f) => Then(e, f)',
         \A e \in Incoming, f \in ToSet(t) : Then(e, f)',
         queue' = queue, events' = events \o t
  PROVE  Delivering' /\ Incoming' = Incoming \cup ToSet(t) /\ ToSet(events') = ToSet(events) \cup ToSet(t)
<1>1. Incoming \subseteq Events /\ ToSet(t) \subseteq Events /\ Inbox \in Seq(Events)
  BY LineMembers, InTheInbox
<1>2. \A e, f \in Incoming : <<e, f>> \in Sequel => <<e, f>> \in Sequel'
  BY <1>1 DEF Sequel
<1>3. \A e \in Incoming, f \in ToSet(t) : <<e, f>> \in Sequel'
  BY <1>1 DEF Sequel
<1>4. Line(Inbox, Events, Sequel')
  BY <1>2, LineReordered DEF Incoming, Delivering
<1>5. \A d \in ToSet(Inbox), e \in ToSet(t) : <<d, e>> \in Sequel'
  BY <1>3 DEF Incoming
<1>6. Line(t, Events, Sequel')
  OBVIOUS
<1>7. Line(Inbox \o t, Events, Sequel') /\ ToSet(Inbox \o t) = ToSet(Inbox) \cup ToSet(t)
  BY ONLY <1>4, <1>5, <1>6, LineJoined, Z3
<1>8. queue \in Seq(Events) /\ events \in Seq(Events)
  BY DEF Delivering
<1>9. Inbox' = Inbox \o t
  BY <1>8, ConcatAssociative DEF Inbox
<1>10. events \o t \in Seq(Events) /\ ToSet(events \o t) = ToSet(events) \cup ToSet(t)
  BY <1>8, ConcatProperties, JoinedMembers
<1> QED
  BY <1>7, <1>8, <1>9, <1>10 DEF Incoming, Delivering

\* Nothing is sent or read.
LEMMA NoneSent ==
  ASSUME Delivering, \A e, f \in Incoming : Then(e, f) => Then(e, f)', UNCHANGED <<queue, events>>
  PROVE  Delivering' /\ Incoming' = Incoming
<1>1. Incoming \subseteq Events
  BY InTheInbox
<1>2. \A e, f \in Incoming : <<e, f>> \in Sequel => <<e, f>> \in Sequel'
  BY <1>1 DEF Sequel
<1>3. Line(Inbox, Events, Sequel')
  BY <1>2, LineReordered DEF Incoming, Delivering
<1>4. Inbox' = Inbox
  BY DEF Inbox
<1> QED
  BY <1>3, <1>4 DEF Delivering, Incoming

\* An event is read from the socket.
LEMMA Received ==
  ASSUME Delivering, ReadEvent
  PROVE  /\ Delivering' /\ Incoming' \subseteq Incoming /\ Head(events) \in Events
         /\ ToSet(events') \subseteq ToSet(events) /\ Head(events) \in ToSet(events)
         /\ ToSet(queue') \subseteq ToSet(queue) \cup {Head(events)}
         /\ Head(events).source \in destroyed => queue' = queue
         /\ Head(events).source \notin destroyed => queue' = Append(queue, Head(events))
<1> USE DEF ReadEvent
<1>1. queue \in Seq(Events) /\ events \in Seq(Events) /\ events # <<>>
  BY DEF Delivering
<1>2. Tail(events) \in Seq(Events) /\ Head(events) \in Events
  BY <1>1, HeadTailProperties
<1>3. ToSet(events) = {Head(events)} \cup ToSet(Tail(events))
  <2>1. Line(events, Events, Events \X Events)
    <3>1. \A i \in DOMAIN events : events[i] \in Events
      BY <1>1
    <3> QED
      BY <1>1, <3>1 DEF Line
  <2> QED
    BY <1>1, <2>1, LineTaken
<1>4. Sequel' = Sequel
  BY DEF Sequel, Then, clientVars, compositorVars
<1>5. CASE Head(events).source \in destroyed
  <2>1. Line(queue \o Tail(events), Events, Sequel)
    BY <1>1, LineDropped DEF Delivering, Inbox
  <2>2. Delivering'
    BY <1>1, <1>2, <1>4, <1>5, <2>1 DEF Delivering, Inbox
  <2>3. Incoming' = ToSet(queue) \cup ToSet(Tail(events))
    BY <1>1, <1>2, <1>5, JoinedMembers DEF Incoming, Inbox
  <2> QED
    BY <1>2, <1>3, <1>5, <2>2, <2>3, InTheInbox
<1>6. CASE Head(events).source \notin destroyed
  <2>1. Inbox' = Inbox
    BY <1>1, <1>6, JoinedMoved DEF Inbox
  <2>2. Append(queue, Head(events)) \in Seq(Events)
    BY <1>1, <1>2
  <2>3. Delivering' /\ Incoming' = Incoming
    BY <1>2, <1>4, <1>6, <2>1, <2>2 DEF Delivering, Incoming
  <2>4. ToSet(queue') = ToSet(queue) \cup {Head(events)}
    <3>1. PICK h \in Events : h = Head(events)
      BY <1>2
    <3>2. PICK s \in Seq(Events) : s = queue
      BY <1>1
    <3>3. queue' = s \o <<h>> /\ <<h>> \in Seq(Events)
      BY <1>6, <3>1, <3>2, AppendIsConcat
    <3>4. ToSet(<<h>>) = {h}
      BY LineOfOne
    <3>5. PICK t \in Seq(Events) : t = <<h>>
      BY <3>3
    <3>6. ToSet(s \o t) = ToSet(s) \cup ToSet(t)
      BY ONLY JoinedMembers, Z3
    <3> QED
      BY <3>1, <3>2, <3>3, <3>4, <3>5, <3>6
  <2> QED
    BY <1>2, <1>3, <1>6, <2>3, <2>4
<1> QED
  BY <1>5, <1>6

\* An event is taken from the queue; those behind it may follow it.
LEMMA Heard ==
  ASSUME Delivering, queue # <<>>, queue' = Tail(queue), UNCHANGED <<events, changes, attempt>>
  PROVE  /\ Delivering' /\ Head(queue) \in Events
         /\ Incoming = {Head(queue)} \cup Incoming'
         /\ \A f \in Incoming' : Then(Head(queue), f)
         /\ ToSet(queue') \subseteq ToSet(queue) /\ Head(queue) \in ToSet(queue)
<1>1. queue \in Seq(Events) /\ events \in Seq(Events)
  BY DEF Delivering
<1>2. Inbox # <<>> /\ Head(Inbox) = Head(queue) /\ Tail(Inbox) = Tail(queue) \o events
  BY <1>1, JoinedTaken DEF Inbox
<1>3. /\ Line(Tail(Inbox), Events, Sequel) /\ Head(Inbox) \in Events
      /\ Incoming = {Head(Inbox)} \cup ToSet(Tail(Inbox))
      /\ \A f \in ToSet(Tail(Inbox)) : <<Head(Inbox), f>> \in Sequel
  BY <1>2, LineTaken DEF Incoming, Delivering
<1>4. Sequel' = Sequel
  BY DEF Sequel, Then
<1>5. Inbox' = Tail(Inbox)
  BY <1>2 DEF Inbox
<1>6. Tail(queue) \in Seq(Events)
  BY <1>1, HeadTailProperties
<1>7. Delivering' /\ Incoming' = ToSet(Tail(Inbox))
  BY <1>1, <1>3, <1>4, <1>5, <1>6 DEF Delivering, Incoming
<1>8. ToSet(queue) = {Head(queue)} \cup ToSet(Tail(queue))
  <2>1. Line(queue, Events, Events \X Events)
    <3>1. \A i \in DOMAIN queue : queue[i] \in Events
      BY <1>1
    <3> QED
      BY <1>1, <3>1 DEF Line
  <2> QED
    BY <2>1, LineTaken
<1> QED
  BY <1>2, <1>3, <1>7, <1>8 DEF Sequel

-----------------------------------------------------------------------------
(* Replaying the inbox *)

\* An event is put behind s.
LEMMA EndsAppended ==
  ASSUME NEW s \in Seq(Events), NEW x \in Events, NEW type, NEW dead
  PROVE  /\ x.type = type /\ x.source \notin dead => Ends(Append(s, x), type, dead, x.value)
         /\ ~(x.type = type /\ x.source \notin dead) =>
              /\ \A v : Ends(s, type, dead, v) => Ends(Append(s, x), type, dead, v)
              /\ Live(s, type, dead) = {} => Live(Append(s, x), type, dead) = {}
<1> DEFINE u == Append(s, x)
           n == Len(s) + 1
<1>1. /\ Len(s) \in Nat /\ DOMAIN s = 1 .. Len(s) /\ DOMAIN u = 1 .. n
      /\ \A i \in 1 .. Len(s) : u[i] = s[i]
      /\ u[n] = x
  BY Appended
<1> HIDE DEF u
<1>2. n \in DOMAIN u /\ (\A i \in DOMAIN u : i <= n /\ (i = n \/ i \in DOMAIN s))
  BY <1>1
<1>3. ASSUME x.type = type, x.source \notin dead
      PROVE  Ends(u, type, dead, x.value)
  <2>1. n \in Live(u, type, dead) /\ u[n].value = x.value /\ \A j \in Live(u, type, dead) : j <= n
    BY <1>1, <1>2, <1>3 DEF Live
  <2> QED
    BY <2>1 DEF Ends
<1>4. ASSUME ~(x.type = type /\ x.source \notin dead)
      PROVE  Live(u, type, dead) = Live(s, type, dead)
  <2>1. \A i \in Live(u, type, dead) : i \in Live(s, type, dead)
    <3> SUFFICES ASSUME NEW i \in Live(u, type, dead) PROVE i \in Live(s, type, dead)
      OBVIOUS
    <3>1. i \in DOMAIN u /\ u[i].type = type /\ u[i].source \notin dead
      BY DEF Live
    <3>2. i # n
      BY <1>1, <1>4, <3>1
    <3>3. i \in DOMAIN s /\ u[i] = s[i]
      BY <1>1, <1>2, <3>1, <3>2
    <3> QED
      BY <3>1, <3>3 DEF Live
  <2>2. \A i \in Live(s, type, dead) : i \in Live(u, type, dead)
    BY <1>1 DEF Live
  <2> QED
    BY <2>1, <2>2
<1>5. \A i \in Live(s, type, dead) : u[i] = s[i]
  BY <1>1 DEF Live
<1>6. ~(x.type = type /\ x.source \notin dead) =>
              /\ \A v : Ends(s, type, dead, v) => Ends(u, type, dead, v)
              /\ Live(s, type, dead) = {} => Live(u, type, dead) = {}
  BY <1>4, <1>5 DEF Ends
<1> QED
  BY <1>3, <1>6 DEF u

\* The first event of s is taken.
LEMMA EndsTaken ==
  ASSUME NEW s \in Seq(Events), s # <<>>, NEW type, NEW dead
  PROVE  /\ \A v : Ends(s, type, dead, v) =>
              \/ Ends(Tail(s), type, dead, v)
              \/ /\ Live(Tail(s), type, dead) = {}
                 /\ Head(s).type = type /\ Head(s).source \notin dead /\ Head(s).value = v
         /\ Live(s, type, dead) = {} =>
              /\ Live(Tail(s), type, dead) = {}
              /\ ~(Head(s).type = type /\ Head(s).source \notin dead)
<1> DEFINE u == Tail(s)
           n == Len(s)
<1>1. /\ n \in Nat \ {0} /\ DOMAIN s = 1 .. n /\ DOMAIN u = 1 .. n - 1
      /\ \A i \in 1 .. n - 1 : u[i] = s[i + 1]
      /\ Head(s) = s[1]
  BY Taken
<1> HIDE DEF u
<1>2. \A i \in DOMAIN u : i + 1 \in DOMAIN s /\ u[i] = s[i + 1]
  BY <1>1
<1>3. \A i \in DOMAIN s : i = 1 \/ (i - 1 \in DOMAIN u /\ (i - 1) + 1 = i)
  BY <1>1
<1>4. 1 \in DOMAIN s
  BY <1>1
<1>5. \A i \in Live(u, type, dead) : i + 1 \in Live(s, type, dead)
  BY <1>2 DEF Live
<1>6. \A i \in Live(s, type, dead) : i = 1 \/ i - 1 \in Live(u, type, dead)
  <2> SUFFICES ASSUME NEW i \in Live(s, type, dead), i # 1 PROVE i - 1 \in Live(u, type, dead)
    OBVIOUS
  <2>1. i \in DOMAIN s /\ s[i].type = type /\ s[i].source \notin dead
    BY DEF Live
  <2>2. i - 1 \in DOMAIN u /\ u[i - 1] = s[i]
    BY <1>2, <1>3, <2>1
  <2> QED
    BY <2>1, <2>2 DEF Live
<1>7. ASSUME Live(s, type, dead) = {}
      PROVE  Live(u, type, dead) = {} /\ ~(Head(s).type = type /\ Head(s).source \notin dead)
  BY <1>1, <1>4, <1>5, <1>7 DEF Live
<1>8. ASSUME NEW v, Ends(s, type, dead, v)
      PROVE  \/ Ends(u, type, dead, v)
             \/ /\ Live(u, type, dead) = {}
                /\ Head(s).type = type /\ Head(s).source \notin dead /\ Head(s).value = v
  <2>1. PICK i \in Live(s, type, dead) : s[i].value = v /\ \A j \in Live(s, type, dead) : j <= i
    BY <1>8 DEF Ends
  <2>2. i \in DOMAIN s
    BY DEF Live
  <2>3. CASE i = 1
    <3>1. \A j \in Live(u, type, dead) : FALSE
      <4>1. \A j \in DOMAIN u : ~(j + 1 <= 1)
        BY <1>1
      <4>2. \A j \in Live(u, type, dead) : j \in DOMAIN u /\ j + 1 <= 1
        BY <1>5, <2>1, <2>3 DEF Live
      <4> QED
        BY <4>1, <4>2
    <3> QED
      BY <1>1, <2>1, <2>3, <3>1 DEF Live
  <2>4. CASE i # 1
    <3>1. i - 1 \in Live(u, type, dead)
      BY <1>6, <2>4
    <3>2. u[i - 1] = s[i]
      BY <1>2, <1>3, <2>2, <2>4
    <3>3. \A j \in Live(u, type, dead) : j <= i - 1
      <4>1. \A j \in DOMAIN u : j + 1 <= i => j <= i - 1
        BY <1>1, <2>2
      <4>2. \A j \in Live(u, type, dead) : j \in DOMAIN u /\ j + 1 <= i
        BY <1>5, <2>1 DEF Live
      <4> QED
        BY <4>1, <4>2
    <3> QED
      BY <2>1, <3>1, <3>2, <3>3 DEF Ends
  <2> QED
    BY <2>3, <2>4
<1> QED
  BY <1>7, <1>8 DEF u

\* Whatever ended s of a type ends u.
Kept(s, u, type, dead, v) ==
  /\ Ends(s, type, dead, v) => Ends(u, type, dead, v)
  /\ Live(s, type, dead) = {} => Live(u, type, dead) = {}

\* A source announces that it goes from q to p: what it does not repeat stands.
LEMMA Announcements ==
  ASSUME NEW s \in Seq(Events), NEW source \in Sources, NEW p \in Offers, NEW q \in Offers,
         NEW t, t = Announcement(source, p, q)
  PROVE  /\ t \in Seq(Events) /\ s \o t \in Seq(Events)
         /\ \A e \in ToSet(t) :
              /\ e \in Events /\ e.source = source
              /\ \/ e.type = "format" /\ e.value = p.format
                 \/ e.type = "size" /\ e.value = p.size
         /\ \A dead, v :
              /\ source \in dead \/ p.format \in {None, q.format} =>
                   Kept(s, s \o t, "format", dead, v)
              /\ source \in dead \/ p.size \in {0, q.size} => Kept(s, s \o t, "size", dead, v)
         /\ \A dead :
              /\ source \notin dead /\ p.format \notin {None, q.format} =>
                   Ends(s \o t, "format", dead, p.format)
              /\ source \notin dead /\ p.size \notin {0, q.size} =>
                   Ends(s \o t, "size", dead, p.size)
<1> DEFINE a == IF p.format \notin {None, q.format} THEN <<Event("format", source, p.format)>> ELSE <<>>
           b == IF p.size \notin {0, q.size} THEN <<Event("size", source, p.size)>> ELSE <<>>
           u == s \o a
<1>1. p.format \in Formats \cup {None} /\ p.size \in Sizes \cup {0}
  BY DEF Offers
<1>2. PICK x : x = Event("format", source, p.format)
  OBVIOUS
<1>3. PICK y : y = Event("size", source, p.size)
  OBVIOUS
<1>4. /\ x.type = "format" /\ x.source = source /\ x.value = p.format
      /\ y.type = "size" /\ y.source = source /\ y.value = p.size
      /\ p.format # None => x \in Events
      /\ p.size # 0 => y \in Events
  BY <1>1, <1>2, <1>3, Sendable
<1>5. a \in Seq(Events) /\ ToSet(a) \subseteq {x} /\ (p.format \in {None, q.format} => ToSet(a) = {})
      /\ (ToSet(a) # {} => x \in Events)
  <2>1. CASE p.format \in {None, q.format}
    BY <2>1, LineOfNone
  <2>2. CASE p.format \notin {None, q.format}
    <3>1. a = <<x>> /\ x \in Events
      BY <1>2, <1>4, <2>2
    <3>2. <<x>> \in Seq(Events) /\ ToSet(<<x>>) = {x}
      BY <3>1, OnePlace, LineOfOne
    <3> QED
      BY <2>2, <3>1, <3>2
  <2> QED
    BY <2>1, <2>2
<1>6. b \in Seq(Events) /\ ToSet(b) \subseteq {y} /\ (ToSet(b) # {} => y \in Events)
  <2>1. CASE p.size \in {0, q.size}
    BY <2>1, LineOfNone
  <2>2. CASE p.size \notin {0, q.size}
    <3>1. b = <<y>> /\ y \in Events
      BY <1>3, <1>4, <2>2
    <3>2. <<y>> \in Seq(Events) /\ ToSet(<<y>>) = {y}
      BY <3>1, OnePlace, LineOfOne
    <3> QED
      BY <2>2, <3>1, <3>2
  <2> QED
    BY <2>1, <2>2
<1>7. t = a \o b
  BY DEF Announcement
<1>8. /\ u \in Seq(Events)
      /\ \A dead, v :
           /\ Kept(s, u, "size", dead, v)
           /\ source \in dead \/ p.format \in {None, q.format} => Kept(s, u, "format", dead, v)
           /\ source \notin dead /\ p.format \notin {None, q.format} => Ends(u, "format", dead, p.format)
  <2>1. CASE p.format \in {None, q.format}
    <3>1. u = s
      BY <2>1, ConcatEmptySeq
    <3> HIDE DEF u
    <3> QED
      BY <2>1, <3>1 DEF Kept
  <2>2. CASE p.format \notin {None, q.format}
    <3>1. u = Append(s, x) /\ x \in Events /\ u \in Seq(Events)
      BY <1>2, <1>4, <1>5, <2>2, AppendIsConcat, ConcatProperties
    <3> HIDE DEF u
    <3>2. ASSUME NEW dead, NEW v
          PROVE  /\ Kept(s, u, "size", dead, v)
                 /\ source \in dead => Kept(s, u, "format", dead, v)
                 /\ source \notin dead => Ends(u, "format", dead, p.format)
      BY <1>4, <3>1, EndsAppended DEF Kept
    <3> QED
      BY <2>2, <3>1, <3>2
  <2> QED
    BY <2>1, <2>2
<1>9. /\ u \o b \in Seq(Events)
      /\ \A dead, v :
           /\ Kept(u, u \o b, "format", dead, v)
           /\ source \in dead \/ p.size \in {0, q.size} => Kept(u, u \o b, "size", dead, v)
           /\ source \notin dead /\ p.size \notin {0, q.size} => Ends(u \o b, "size", dead, p.size)
  <2>1. PICK w \in Seq(Events) : w = u
    BY <1>8
  <2>2. CASE p.size \in {0, q.size}
    <3>1. w \o b = w
      BY <2>2, ConcatEmptySeq
    <3> HIDE DEF u
    <3> QED
      BY <2>1, <2>2, <3>1 DEF Kept
  <2>3. CASE p.size \notin {0, q.size}
    <3>1. w \o b = Append(w, y) /\ y \in Events /\ w \o b \in Seq(Events)
      BY <1>3, <1>4, <1>6, <2>3, AppendIsConcat, ConcatProperties
    <3>2. ASSUME NEW dead, NEW v
          PROVE  /\ Kept(w, Append(w, y), "format", dead, v)
                 /\ source \in dead => Kept(w, Append(w, y), "size", dead, v)
                 /\ source \notin dead => Ends(Append(w, y), "size", dead, p.size)
      BY <1>4, <3>1, EndsAppended DEF Kept
    <3> HIDE DEF u, b
    <3> QED
      BY <2>1, <2>3, <3>1, <3>2
  <2> QED
    BY <2>2, <2>3
<1> HIDE DEF a, b
<1>10. u \o b = s \o (a \o b)
  BY <1>5, <1>6, ConcatAssociative
<1>11. a \o b \in Seq(Events) /\ ToSet(a \o b) \subseteq {x, y}
       /\ \A e \in ToSet(a \o b) : e \in Events
  <2>1. ToSet(a \o b) = ToSet(a) \cup ToSet(b)
    BY ONLY <1>5, <1>6, JoinedMembers, Z3
  <2>2. a \o b \in Seq(Events)
    BY <1>5, <1>6, ConcatProperties
  <2> QED
    BY <1>5, <1>6, <2>1, <2>2
<1> HIDE DEF u
<1>12. /\ \A dead, v :
              /\ source \in dead \/ p.format \in {None, q.format} =>
                   Kept(s, u \o b, "format", dead, v)
              /\ source \in dead \/ p.size \in {0, q.size} => Kept(s, u \o b, "size", dead, v)
       /\ \A dead :
              /\ source \notin dead /\ p.format \notin {None, q.format} =>
                   Ends(u \o b, "format", dead, p.format)
              /\ source \notin dead /\ p.size \notin {0, q.size} =>
                   Ends(u \o b, "size", dead, p.size)
  BY <1>8, <1>9 DEF Kept
<1> QED
  BY <1>4, <1>7, <1>9, <1>10, <1>11, <1>12

-----------------------------------------------------------------------------
(* The connection *)

\* Is the memory of buffer b held, or about to be?
Held(b) == pools[b] # None \/ Creating(b)

\* A step that lends no buffer, and delivers only a complete image.
Keeps ==
  /\ UNCHANGED <<task, pools, image, attempt>>
  /\ Capturing' <=> Capturing
  /\ \A b \in Buffers : Creating(b)' <=> Creating(b)
  /\ result.type # "buffer"
  /\ result'.type = "buffer" => result'.buffer \in Buffers /\ image[result'.buffer] # None

\* A step that lends the buffer of the next attempt.
Lends ==
  /\ UNCHANGED <<task, pools, image, result>>
  /\ task = None /\ ~Capturing /\ result.type # "buffer" /\ \A b \in Buffers : image[b] = None
  /\ attempt' = attempt + 1 /\ attempt' \in Buffers
  /\ Capturing'
  /\ \A b \in Buffers : Creating(b)' <=> Creating(b) \/ b = attempt'

\* What does not change with the requests under way.
LEMMA SameWire ==
  ASSUME IInv, UNCHANGED <<candidate, result, attempt>>,
         UNCHANGED <<requests, outbox>> \/ (requests' = requests \o outbox /\ outbox' = <<>>)
  PROVE  /\ (requests \in Seq(Requests) /\ outbox \in Seq(Requests))'
         /\ Line(Wire, Requests, Order)' /\ Queued' = Queued /\ Source' = Source
         /\ \A type : Asked(type)' <=> Asked(type)
         /\ \A b : Creating(b)' <=> Creating(b)
         /\ Leaving' <=> Leaving
         /\ Capturing' <=> Capturing
<1>1. Source' = Source
  BY DEF Source
<1>2. \A p, q : Before(p, q) => Before(p, q)'
  BY <1>1 DEF Before
<1>3. /\ (requests \in Seq(Requests) /\ outbox \in Seq(Requests))'
      /\ Line(Wire, Requests, Order)' /\ Queued' = Queued
  BY <1>2, NoneIssued DEF IInv
<1> QED
  BY <1>1, <1>3 DEF Asked, Creating, Leaving, Capturing

\* What does not change with the events under way.
LEMMA SameInbox ==
  ASSUME IInv, UNCHANGED <<queue, events>>, pc # "done",
         \A e, f \in Incoming : Then(e, f) => Then(e, f)'
  PROVE  /\ Delivering' /\ Incoming' = Incoming
         /\ Answered' <=> Answered
         /\ Announcing' <=> Announcing
<1>1. Delivering' /\ Incoming' = Incoming
  BY NoneSent DEF IInv, Inbound, Delivering
<1> QED
  BY <1>1 DEF Answered, Announcing

\* Requests move on to the socket, or nothing happens.
LEMMA FlushStep ==
  ASSUME WestonConstants, IInv, UNCHANGED <<clientVars, events, queue, compositorVars>>,
         UNCHANGED <<requests, outbox>> \/ (requests' = requests \o outbox /\ outbox' = <<>>)
  PROVE  IInv' /\ UNCHANGED <<task, pools, image, attempt, result>> /\ (Capturing' <=> Capturing)
         /\ \A b : Creating(b)' <=> Creating(b)
<1> USE DEF clientVars, compositorVars
<1>1. /\ (requests \in Seq(Requests) /\ outbox \in Seq(Requests))'
      /\ Line(Wire, Requests, Order)' /\ Queued' = Queued /\ Source' = Source
      /\ \A type : Asked(type)' <=> Asked(type)
      /\ \A b : Creating(b)' <=> Creating(b)
      /\ Leaving' <=> Leaving
      /\ Capturing' <=> Capturing
  BY SameWire
<1>2. /\ Incoming' = Incoming /\ (Answered' <=> Answered) /\ (Announcing' <=> Announcing)
      /\ Inbound' /\ (Current' <=> Current)
  <2>1. Inbox' = Inbox /\ Sequel' = Sequel
    BY DEF Inbox, Sequel, Then
  <2>2. Incoming' = Incoming
    BY <2>1 DEF Incoming
  <2> QED
    BY <1>1, <2>1, <2>2 DEF IInv, Inbound, Answered, Announcing, Current
<1>3. TypeOK'
  BY DEF IInv, TypeOK
<1>4. Sorted'
  BY <1>1 DEF IInv, Sorted
<1>5. Chosen'
  BY <1>1 DEF IInv, Chosen
<1>6. Server'
  BY <1>1 DEF IInv, Server
<1>7. Client'
  BY <1>1, <1>2 DEF IInv, Client, Tells, DeliveredAsDrawn
<1>8. Replay'
  BY <1>1 DEF IInv, Replay, Replayed
<1>9. Unchanged' /\ Synced'
  BY <1>1, <1>2 DEF IInv, Unchanged, Synced
<1>10. Retries' /\ Unmixed'
  BY <1>1, <1>2 DEF IInv, Retries, Unmixed, RetryLimitJustified
<1> QED
  BY <1>1, <1>2, <1>3, <1>4, <1>5, <1>6, <1>7, <1>8, <1>9, <1>10 DEF IInv

\* An event is read: what the client will know in the end is the same.
LEMMA ReadReplayed ==
  ASSUME Delivering, ReadEvent, NEW type, NEW old, NEW v, Replayed(type, old, v)
  PROVE  \/ Ends(events', type, destroyed, v)
         \/ /\ Live(events', type, destroyed) = {}
            /\ Ends(queue', type, {}, v) \/ (Live(queue', type, {}) = {} /\ old = v)
<1> USE DEF ReadEvent
<1>1. queue \in Seq(Events) /\ events \in Seq(Events) /\ events # <<>> /\ Head(events) \in Events
  BY Received DEF Delivering
<1>2. events' = Tail(events)
  OBVIOUS
<1>3. CASE Ends(events, type, destroyed, v)
  <2>1. CASE Ends(Tail(events), type, destroyed, v)
    BY <1>2, <2>1
  <2>2. CASE /\ Live(Tail(events), type, destroyed) = {}
             /\ Head(events).type = type /\ Head(events).source \notin destroyed
             /\ Head(events).value = v
    <3>1. queue' = Append(queue, Head(events)) /\ Head(events).source \notin {}
      BY <2>2
    <3>2. Ends(queue', type, {}, v)
      BY <1>1, <2>2, <3>1, EndsAppended
    <3> QED
      BY <1>2, <2>2, <3>2
  <2> QED
    BY <1>1, <1>3, <2>1, <2>2, EndsTaken
<1>4. CASE /\ Live(events, type, destroyed) = {}
           /\ Ends(queue, type, {}, v) \/ (Live(queue, type, {}) = {} /\ old = v)
  <2>1. /\ Live(Tail(events), type, destroyed) = {}
        /\ ~(Head(events).type = type /\ Head(events).source \notin destroyed)
    BY <1>1, <1>4, EndsTaken
  <2>2. CASE Head(events).source \in destroyed
    BY <1>2, <1>4, <2>1, <2>2
  <2>3. CASE Head(events).source \notin destroyed
    <3>1. PICK u : u = Append(queue, Head(events))
      OBVIOUS
    <3>2. ~(Head(events).type = type /\ Head(events).source \notin {})
      BY <2>1, <2>3
    <3>3. /\ Ends(queue, type, {}, v) => Ends(u, type, {}, v)
          /\ Live(queue, type, {}) = {} => Live(u, type, {}) = {}
      BY ONLY <1>1, <3>1, <3>2, EndsAppended
    <3>4. queue' = u
      BY <2>3, <3>1
    <3> QED
      BY <1>2, <1>4, <2>1, <3>3, <3>4
  <2> QED
    BY <2>2, <2>3
<1> QED
  BY <1>3, <1>4 DEF Replayed

\* A thread reads the socket.
LEMMA ReadStep ==
  ASSUME WestonConstants, IInv, ReadEvent
  PROVE  IInv' /\ UNCHANGED <<task, pools, image, attempt, result>> /\ (Capturing' <=> Capturing)
         /\ \A b : Creating(b)' <=> Creating(b)
<1> USE DEF clientVars, compositorVars, ReadEvent
<1>1. /\ (requests \in Seq(Requests) /\ outbox \in Seq(Requests))'
      /\ Line(Wire, Requests, Order)' /\ Queued' = Queued /\ Source' = Source
      /\ \A type : Asked(type)' <=> Asked(type)
      /\ \A b : Creating(b)' <=> Creating(b)
      /\ Leaving' <=> Leaving
      /\ Capturing' <=> Capturing
  BY SameWire
<1>2. TypeOK'
  BY DEF IInv, TypeOK
<1>3. Sorted' /\ Chosen' /\ Server'
  <2>1. Sorted'
    BY <1>1 DEF IInv, Sorted
  <2>2. Chosen'
    BY <1>1 DEF IInv, Chosen
  <2>3. Server'
    BY <1>1 DEF IInv, Server
  <2> QED
    BY <2>1, <2>2, <2>3
<1>4. CASE pc = "done"
  <2>1. Client' /\ Retries'
    BY <1>1, <1>4 DEF IInv, Client, Retries, DeliveredAsDrawn, RetryLimitJustified
  <2>2. Inbound' /\ Replay' /\ Unmixed'
    BY <1>4 DEF Inbound, Replay, Unmixed
  <2>3. Unchanged' /\ Synced'
    BY <1>4 DEF Unchanged, Synced
  <2> QED
    BY <1>1, <1>2, <1>3, <2>1, <2>2, <2>3 DEF IInv
<1>5. CASE pc # "done"
  <2>1. /\ Delivering' /\ Incoming' \subseteq Incoming /\ Head(events) \in Events
        /\ ToSet(events') \subseteq ToSet(events) /\ Head(events) \in ToSet(events)
        /\ ToSet(queue') \subseteq ToSet(queue) \cup {Head(events)}
        /\ Head(events).source \in destroyed => queue' = queue
        /\ Head(events).source \notin destroyed => queue' = Append(queue, Head(events))
    BY <1>5, Received DEF IInv, Inbound, Delivering
  <2>2. (Answered' => Answered) /\ (Announcing' => Announcing) /\ (Current => Current')
    BY <1>1, <2>1 DEF Answered, Announcing, Current
  <2>3. Client'
    BY <1>1, <1>5, <2>1, <2>2 DEF IInv, Client, Tells, DeliveredAsDrawn
  <2>4. Inbound'
    BY <2>1 DEF Inbound, Delivering
  <2>5. Replay'
    <3>1. \A type, old, v : Replayed(type, old, v) =>
            \/ Ends(events', type, destroyed, v)
            \/ /\ Live(events', type, destroyed) = {}
               /\ Ends(queue', type, {}, v) \/ (Live(queue', type, {}) = {} /\ old = v)
      BY <1>5, ReadReplayed DEF IInv, Inbound, Delivering
    <3> QED
      BY <1>1, <1>5, <3>1 DEF IInv, Replay, Replayed
  <2>6. Unchanged'
    BY <1>1, <2>1, <2>2 DEF IInv, Unchanged
  <2>7. Synced'
    BY <1>1, <2>1 DEF IInv, Synced
  <2>8. Retries'
    BY <1>1, <2>1, <2>2 DEF IInv, Retries, RetryLimitJustified
  <2>9. Unmixed'
    BY <1>1, <2>1 DEF IInv, Unmixed
  <2> QED
    BY <1>1, <1>2, <1>3, <2>3, <2>4, <2>5, <2>6, <2>7, <2>8, <2>9 DEF IInv
<1> QED
  BY <1>4, <1>5

\* An event is handled: the client knows what it said.
LEMMA HandleReplayed ==
  ASSUME Delivering, queue # <<>>, NEW type, NEW old, NEW v, Replayed(type, old, v)
  PROVE  \/ Ends(events, type, destroyed, v)
         \/ /\ Live(events, type, destroyed) = {}
            /\ \/ Ends(Tail(queue), type, {}, v)
               \/ /\ Live(Tail(queue), type, {}) = {}
                  /\ (IF Head(queue).type = type THEN Head(queue).value ELSE old) = v
<1>1. queue \in Seq(Events)
  BY DEF Delivering
<1>2. CASE Ends(events, type, destroyed, v)
  BY <1>2
<1>3. CASE Live(events, type, destroyed) = {} /\ Ends(queue, type, {}, v)
  <2>1. \/ Ends(Tail(queue), type, {}, v)
        \/ /\ Live(Tail(queue), type, {}) = {}
           /\ Head(queue).type = type /\ Head(queue).value = v
    BY <1>1, <1>3, EndsTaken
  <2> QED
    BY <1>3, <2>1
<1>4. CASE Live(events, type, destroyed) = {} /\ Live(queue, type, {}) = {} /\ old = v
  <2>1. Live(Tail(queue), type, {}) = {} /\ ~(Head(queue).type = type /\ Head(queue).source \notin {})
    BY <1>1, <1>4, EndsTaken
  <2> QED
    BY <1>4, <2>1
<1> QED
  BY <1>2, <1>3, <1>4 DEF Replayed

\* The handlers of the queue.
LEMMA HandleStep == ASSUME WestonConstants, IInv, Handle PROVE IInv' /\ Keeps
<1> USE DEF compositorVars
<1>1. PICK h : h = Head(queue)
  OBVIOUS
<1>2. /\ pc = "negotiate" \/ pc = "await"
      /\ queue # <<>> /\ queue' = Tail(queue)
      /\ format' = (IF h.type = "format" THEN h.value ELSE format)
      /\ formatFrom' = (IF h.type = "format" THEN h.source ELSE formatFrom)
      /\ size' = (IF h.type = "size" THEN h.value ELSE size)
      /\ sizeFrom' = (IF h.type = "size" THEN h.source ELSE sizeFrom)
      /\ sync_done' = (IF h.type = "done" THEN TRUE ELSE sync_done)
      /\ status' = (IF h.type \in Statuses THEN h.type ELSE status)
      /\ UNCHANGED <<pc, candidate, attempt, geometry, destroyed, result, outbox, requests, events,
                     info, sources, task, pools, sequence, changes, image>>
  BY <1>1 DEF Handle
<1> USE <1>2
<1>3. /\ (requests \in Seq(Requests) /\ outbox \in Seq(Requests))'
      /\ Line(Wire, Requests, Order)' /\ Queued' = Queued /\ Source' = Source
      /\ \A type : Asked(type)' <=> Asked(type)
      /\ \A b : Creating(b)' <=> Creating(b)
      /\ Leaving' <=> Leaving
      /\ Capturing' <=> Capturing
  BY SameWire
<1>4. Delivering
  BY DEF IInv, Inbound, Delivering
<1>5. /\ Delivering' /\ h \in Events
      /\ Incoming = {h} \cup Incoming'
      /\ \A f \in Incoming' : Then(h, f)
      /\ ToSet(queue') \subseteq ToSet(queue) /\ h \in ToSet(queue)
  BY <1>1, <1>4, Heard
<1>6. /\ h.type = "format" => h.source \in Sources /\ h.value \in Formats
      /\ h.type = "size" => h.source \in Sources /\ h.value \in Sizes
      /\ h.type \in Outcomes <=> h.type \in Statuses
      /\ h.type \in Outcomes => h.type \notin {"format", "size", "done"}
  <2>1. \/ h.type = "format" /\ h.source \in Sources /\ h.value \in Formats
        \/ h.type = "size" /\ h.source \in Sources /\ h.value \in Sizes
        \/ h.type = "done" /\ h.source = None
        \/ h.type \in Outcomes /\ h.source \in Sources
    BY <1>5, EventFields
  <2> QED
    BY <2>1 DEF Outcomes, Statuses
<1>7. result = NoResult /\ result.type # "buffer"
  BY ResultsDiffer DEF IInv, Client
<1>8. TypeOK'
  <2>1. /\ format' \in Formats \cup {None} /\ size' \in Sizes \cup {0} /\ sync_done' \in BOOLEAN
        /\ formatFrom' \in Sources \cup {None} /\ sizeFrom' \in Sources \cup {None}
        /\ status' \in Statuses
    BY <1>6 DEF IInv, TypeOK
  <2> QED
    BY <2>1 DEF IInv, TypeOK
<1>9. Sorted' /\ Chosen'
  BY <1>3 DEF IInv, Sorted, Chosen
<1>10. (Answered' => Answered) /\ (Announcing' => Announcing)
       /\ (h.type \in Outcomes => Answered /\ ~Answered')
  BY <1>5, <1>6 DEF Answered, Announcing, Then
<1>11. /\ h.type \in Outcomes => pc = "await" /\ status = "pending" /\ task = None /\ ~Capturing /\ status' = h.type
       /\ h.type \notin Outcomes => status' = status
  BY <1>6, <1>10 DEF IInv, Client
<1>12. Server'
  BY <1>3, <1>11 DEF IInv, Server
<1>13. Client'
  <2>1. \A x : Tells(x)' <=> Tells(x)
    BY DEF Tells
  <2>2. pc = "await" => Tells(status')
    <3>1. h \in Incoming
      BY <1>5
    <3> QED
      BY <1>11, <3>1 DEF IInv, Client
  <2>3. Answered' => status' = status
    BY <1>10, <1>11
  <2>4. \A e \in Incoming' : e \in Incoming
    BY <1>5
  <2> QED
    BY <1>3, <1>10, <1>11, <2>1, <2>2, <2>3, <2>4 DEF IInv, Client, DeliveredAsDrawn
<1>14. Inbound'
  BY <1>5 DEF Inbound, Delivering
<1>15. Replay'
  <2>1. \A type, old, v : Replayed(type, old, v) =>
         \/ Ends(events, type, destroyed, v)
         \/ /\ Live(events, type, destroyed) = {}
            /\ \/ Ends(queue', type, {}, v)
               \/ /\ Live(queue', type, {}) = {}
                  /\ (IF h.type = type THEN h.value ELSE old) = v
    BY <1>1, <1>4, HandleReplayed
  <2>2. \A v : Replayed("format", format, v) => Replayed("format", format, v)'
    BY <2>1 DEF Replayed
  <2>3. \A v : Replayed("size", size, v) => Replayed("size", size, v)'
    BY <2>1 DEF Replayed
  <2> QED
    BY <1>3, <2>2, <2>3 DEF IInv, Replay
<1>16. Current => Current'
  BY <1>3, <1>5 DEF Current
<1>17. Unchanged'
  <2> SUFFICES ASSUME changes = 0
               PROVE  /\ pc = "negotiate" =>
                           /\ Current'
                           /\ sync_done' => ~Announcing'
                           /\ Asked("create source") => ~Announcing' /\ format' = None /\ size' = 0
                      /\ pc \in {"attempt", "await"} => ~Asked("create source")
    BY <1>3 DEF Unchanged
  <2>1. h \in Incoming /\ (h.type \in Parameter => Announcing)
    BY <1>5 DEF Announcing
  <2>2. h.type = "done" => ~Announcing'
    BY <1>5 DEF Then, Announcing
  <2> QED
    BY <1>10, <1>16, <2>1, <2>2 DEF IInv, Unchanged, Parameter
<1>18. Synced'
  <2>1. h.type = "done" => \A e \in Incoming' : e.type # "done"
    BY <1>5 DEF Then
  <2> QED
    BY <1>3, <1>5, <2>1 DEF IInv, Synced
<1>19. Retries'
  <2>1. h.type = "retry" => pc = "await" /\ changes >= attempt
    BY <1>5, <1>11 DEF IInv, Retries, Outcomes
  <2>2. h.type = "retry" /\ changes = attempt => ~Announcing'
    <3>1. changes = attempt => changes <= attempt
      BY Counting DEF IInv
    <3> QED
      BY <1>5, <3>1 DEF Then, Announcing
  <2>3. status' = "retry" => status = "retry" \/ h.type = "retry"
    BY <1>11
  <2>4. pc = "await" /\ (status' = "retry" \/ \E e \in Incoming' : e.type = "retry") => changes >= attempt
    BY <1>5, <2>1, <2>3 DEF IInv, Retries
  <2>5. pc = "await" /\ status' = "retry" /\ changes = attempt => ~Announcing'
    BY <1>10, <2>2, <2>3 DEF IInv, Retries
  <2> QED
    BY <1>3, <2>4, <2>5 DEF IInv, Retries, RetryLimitJustified
<1>20. Unmixed'
  <2>1. changes = 0 => (h.type \in Parameter => h.source = Source)
    BY <1>5 DEF IInv, Unmixed
  <2> QED
    BY <1>3, <1>5, <2>1 DEF IInv, Unmixed, Parameter
<1>21. Keeps
  BY <1>3, <1>7 DEF Keeps
<1> QED
  BY <1>8, <1>9, <1>12, <1>13, <1>14, <1>15, <1>17, <1>18, <1>19, <1>20, <1>21 DEF IInv

-----------------------------------------------------------------------------
(* negotiate_source *)

\* The fields of the requests the thread issues.
LEMMA Destroying ==
  /\ DestroySource.type = "destroy source" /\ DestroySource.source = Source
  /\ DestroyBuffer.type = "destroy buffer" /\ DestroyBuffer.buffer = attempt
BY DEF DestroySource, DestroyBuffer

\* The wire, the inbox and the capture do not change together with these.
LEMMA SameCapture ==
  ASSUME IInv, UNCHANGED <<queue, events, changes, attempt>>, pc # "done"
  PROVE  /\ Delivering' /\ Incoming' = Incoming
         /\ Answered' <=> Answered
         /\ Announcing' <=> Announcing
BY SameInbox DEF Then

\* Between two candidates nothing is asked for but the destruction of sources.
LEMMA Between ==
  ASSUME WestonConstants, IInv, pc \in {"create", "rejected"}
  PROVE  /\ \A q \in Queued : q.type = "destroy source" /\ q.source \in destroyed /\ q.source # Source
         /\ ~Asked("create source") /\ ~Asked("sync") /\ ~Capturing /\ \A b : ~Creating(b)
         /\ task = None /\ attempt = 0 /\ result = NoResult /\ status = "pending"
         /\ Source \notin destroyed
<1>1. /\ attempt = 0 /\ result = NoResult /\ status = "pending" /\ Source \notin destroyed
      /\ ~Asked("create source") /\ ~Asked("sync")
  BY DEF IInv, Client, Chosen, Sorted
<1>2. ASSUME NEW q \in Queued
      PROVE  q.type = "destroy source" /\ q.source \in destroyed /\ q.source # Source
  <2>1. q \in Requests
    BY OnTheWire DEF IInv
  <2>2. q.type # "create source" /\ q.type # "sync"
    BY <1>1 DEF Asked
  <2>3. /\ q.type \in {"create buffer", "capture", "destroy buffer"} => q.buffer \in Buffers
        /\ \A b \in Buffers : b # 0 /\ ~(b <= 0)
    <3>1. \A b \in Buffers : b # 0 /\ ~(b <= 0)
      BY Counting DEF IInv
    <3> QED
      BY <2>1, <3>1, RequestFields
  <2>4. q.type = "create buffer" => q.buffer = 0
    BY <1>1 DEF IInv, Sorted
  <2>5. q.type = "capture" => q.buffer = 0
    BY <1>1 DEF IInv, Sorted
  <2>6. q.type = "destroy buffer" => q.buffer <= 0
    BY <1>1 DEF IInv, Sorted
  <2>7. q.type \notin {"create buffer", "capture", "destroy buffer"}
    BY ONLY <2>3, <2>4, <2>5, <2>6
  <2>8. q.type = "destroy source"
    BY <2>1, <2>2, <2>7, RequestFields
  <2>9. q.source \in destroyed
    BY <2>8 DEF IInv, Sorted
  <2> QED
    BY <1>1, <2>8, <2>9
<1>3. ~Capturing /\ \A b : ~Creating(b)
  BY <1>2 DEF Capturing, Asked, Creating
<1>4. task = None
  BY DEF IInv, Server
<1> QED
  BY <1>1, <1>2, <1>3, <1>4

\* The next candidate's source is created.
LEMMA CreateSourceStep == ASSUME WestonConstants, IInv, CreateSource PROVE IInv' /\ Keeps
<1> USE DEF CreateFrame, compositorVars
<1>1. PICK c : c = [type |-> "create source", source |-> Source]
  OBVIOUS
<1>2. PICK s : s = [type |-> "sync"]
  OBVIOUS
<1>3. /\ pc = "create" /\ pc' = "negotiate"
      /\ format' = None /\ size' = 0 /\ sync_done' = FALSE /\ formatFrom' = None /\ sizeFrom' = None
      /\ outbox' = outbox \o <<c, s>>
      /\ UNCHANGED <<candidate, attempt, status, geometry, destroyed, result, requests, events, queue,
                     info, sources, task, pools, sequence, changes, image>>
  BY <1>1, <1>2 DEF CreateSource, Issue
<1>4. Source' = Source /\ Source \in Sources
  BY <1>3, SourceIs DEF IInv, Source
<1>5. /\ c \in Requests /\ s \in Requests
      /\ c.type = "create source" /\ c.source = Source /\ s.type = "sync"
  BY <1>1, <1>2, <1>4, Known
<1>6. /\ \A q \in Queued : q.type = "destroy source" /\ q.source \in destroyed /\ q.source # Source
      /\ ~Asked("create source") /\ ~Asked("sync") /\ ~Capturing /\ \A b : ~Creating(b)
      /\ task = None /\ attempt = 0 /\ result = NoResult /\ status = "pending"
      /\ Source \notin destroyed
  BY <1>3, Between
<1>7. /\ (requests \in Seq(Requests) /\ outbox \in Seq(Requests))'
      /\ Line(Wire, Requests, Order)' /\ Queued' = Queued \cup {c, s}
  <2>1. Before(c, s)'
    BY <1>5 DEF Before
  <2>2. \A p, q \in Queued : Before(p, q) => Before(p, q)'
    BY <1>3, <1>4 DEF Before
  <2>3. \A p \in Queued : Before(p, c)' /\ Before(p, s)'
    BY <1>4, <1>6 DEF Before
  <2> QED
    BY <1>3, <1>5, <2>1, <2>2, <2>3, IssuedTwo DEF IInv
<1>8. /\ Asked("create source")' /\ Asked("sync")' /\ ~Capturing' /\ \A b : ~Creating(b)'
  BY <1>5, <1>6, <1>7 DEF Asked, Capturing, Creating
<1>9. Delivering' /\ Incoming' = Incoming /\ (Answered' <=> Answered) /\ (Announcing' <=> Announcing)
  BY <1>3, SameCapture
<1>10. TypeOK'
  <2>1. /\ format' \in Formats \cup {None} /\ size' \in Sizes \cup {0} /\ sync_done' \in BOOLEAN
        /\ pc' \in Phases /\ {formatFrom, sizeFrom}' \subseteq Sources \cup {None}
    BY <1>3 DEF Phases
  <2> QED
    BY <1>3, <2>1 DEF IInv, TypeOK
<1>11. Sorted'
  <2>1. \A q \in Queued' : q.type = "create source" => q.source = Source'
    BY <1>4, <1>5, <1>6, <1>7
  <2>2. \A q \in Queued' : /\ q.type = "destroy source" => q.source \in destroyed'
                           /\ q.type \notin {"create buffer", "capture", "destroy buffer"}
    BY <1>3, <1>5, <1>6, <1>7
  <2> QED
    BY <1>3, <1>7, <1>8, <2>1, <2>2 DEF Sorted
<1>12. Chosen'
  BY <1>3, <1>4, <1>8 DEF IInv, Chosen
<1>13. Server'
  <2>1. \A q \in Queued' : q.type # "destroy buffer"
    BY <1>5, <1>6, <1>7
  <2>2. attempt' = 0 /\ ~(attempt' > 0)
    <3>1. attempt' = 0
      BY <1>3, <1>6
    <3> QED
      BY ONLY <3>1
  <2> QED
    BY <1>3, <1>6, <1>8, <2>1, <2>2 DEF IInv, Server
<1>14. Client'
  BY <1>3, <1>6, <1>9, ResultsDiffer DEF IInv, Client, DeliveredAsDrawn
<1>15. Inbound' /\ Replay'
  <2>1. Source' \notin sources'
    BY <1>3, <1>4 DEF IInv, Chosen
  <2> QED
    BY <1>9, <2>1 DEF Inbound, Delivering, Replay
<1>16. Unchanged'
  <2>1. changes = 0 => ~Announcing
    BY <1>3 DEF IInv, Unchanged
  <2>2. ~Announcing => Current'
    BY <1>3, <1>9 DEF Current, Announcing, Parameter
  <2> QED
    BY <1>3, <1>9, <2>1, <2>2 DEF Unchanged
<1>17. Synced'
  BY <1>3, <1>9 DEF IInv, Synced
<1>18. Retries'
  BY <1>3, <1>6 DEF IInv, Retries, RetryLimitJustified
<1>19. Unmixed'
  <2>1. changes = 0 => ~Announcing
    BY <1>3 DEF IInv, Unchanged
  <2> QED
    BY <1>3, <1>9, <2>1 DEF Announcing, Unmixed
<1>20. Keeps
  BY <1>3, <1>6, <1>8, ResultsDiffer DEF Keeps
<1> QED
  BY <1>10, <1>11, <1>12, <1>13, <1>14, <1>15, <1>16, <1>17, <1>18, <1>19, <1>20 DEF IInv

\* The candidate is chosen or rejected.
LEMMA NegotiatedStep == ASSUME WestonConstants, IInv, Negotiated PROVE IInv' /\ Keeps
<1> USE DEF Negotiated, compositorVars
<1>1. /\ (requests \in Seq(Requests) /\ outbox \in Seq(Requests))'
      /\ Line(Wire, Requests, Order)' /\ Queued' = Queued /\ Source' = Source
      /\ \A type : Asked(type)' <=> Asked(type)
      /\ \A b : Creating(b)' <=> Creating(b)
      /\ Leaving' <=> Leaving
      /\ Capturing' <=> Capturing
  BY SameWire
<1>2. Delivering' /\ Incoming' = Incoming /\ (Answered' <=> Answered) /\ (Announcing' <=> Announcing)
  BY SameCapture
<1>3. attempt = 0 /\ result = NoResult /\ ~(attempt > 0) /\ result.type # "buffer"
  BY ResultsDiffer DEF IInv, Client
<1>4. /\ pc' = "attempt" \/ pc' = "rejected"
      /\ pc' = "attempt" => format # None
      /\ pc' = "rejected" => sync_done /\ ~Asked("sync") /\ ~Asked("create source")
  <2>1. pc' = "rejected" => sync_done
    BY DEF Announced
  <2> QED
    BY <2>1 DEF IInv, Synced, Sorted
<1>5. ~Capturing /\ task = None
  BY <1>3 DEF IInv, Server
<1>6. \A q \in Queued : q.type = "destroy buffer" => q.buffer # attempt
  BY DEF IInv, Sorted
<1>7. TypeOK'
  BY <1>4 DEF IInv, TypeOK, Phases
<1>8. Sorted'
  BY <1>1, <1>4, <1>6 DEF IInv, Sorted
<1>9. Chosen'
  BY <1>1, <1>4 DEF IInv, Chosen
<1>10. Server'
  BY <1>1, <1>3, <1>4, <1>5 DEF IInv, Server
<1>11. Client'
  BY <1>2, <1>3, <1>4 DEF IInv, Client, DeliveredAsDrawn
<1>12. Inbound' /\ Replay'
  BY <1>1, <1>2 DEF IInv, Inbound, Delivering, Replay, Replayed
<1>13. Current <=> Current'
  BY <1>1, <1>2 DEF Current
<1>14. Unchanged' /\ Synced'
  BY <1>1, <1>2, <1>4 DEF IInv, Unchanged, Synced
<1>15. Retries'
  <2>1. changes \in Nat /\ \A c \in Nat : c >= 0
    BY Counting DEF IInv
  <2>2. changes = 0 => Current
    BY DEF IInv, Unchanged
  <2>3. changes >= attempt /\ (changes = attempt => Current)
    BY <1>3, <2>1, <2>2
  <2> QED
    BY <1>3, <1>4, <1>13, <2>3 DEF IInv, Retries, RetryLimitJustified
<1>16. Unmixed'
  BY <1>1, <1>2, <1>4 DEF IInv, Unmixed
<1>17. Keeps
  BY <1>1, <1>3 DEF Keeps
<1> QED
  BY <1>7, <1>8, <1>9, <1>10, <1>11, <1>12, <1>14, <1>15, <1>16, <1>17 DEF IInv

-----------------------------------------------------------------------------
(* The end of a capture *)

\* What is under way does not stand behind the requests of the guards.
LEMMA GuardsLast ==
  ASSUME WestonConstants, IInv, pc \notin {"create", "done"}, UNCHANGED <<candidate, attempt>>,
         result' # Error("timeout") \/ pc \in {"negotiate", "await"},
         NEW s, NEW d, s = DestroySource, d = DestroyBuffer
  PROVE  /\ \A p, q \in Queued : Before(p, q) => Before(p, q)'
         /\ \A p \in Queued : Before(p, s)'
         /\ pc = "await" => \A p \in Queued : Before(p, d)'
         /\ s \in Requests /\ (pc = "await" => d \in Requests /\ attempt \in Buffers)
<1>1. /\ s.type = "destroy source" /\ s.source = Source /\ d.type = "destroy buffer" /\ d.buffer = attempt
      /\ Source' = Source /\ Source \in Sources /\ Source \notin destroyed /\ attempt' = attempt
  BY Destroying, SourceIs DEF IInv, Chosen, Source
<1>2. \A p \in Queued : /\ p.type = "destroy source" => p.source # Source
                        /\ p.type = "destroy buffer" => result' # Error("timeout") \/ p.buffer < attempt
                        /\ p.type = "destroy buffer" /\ pc = "await" => p.buffer < attempt
  <2> SUFFICES ASSUME NEW p \in Queued
               PROVE  /\ p.type = "destroy source" => p.source # Source
                      /\ p.type = "destroy buffer" => result' # Error("timeout") \/ p.buffer < attempt
                      /\ p.type = "destroy buffer" /\ pc = "await" => p.buffer < attempt
    OBVIOUS
  <2>1. p.type = "destroy source" => p.source # Source
    BY <1>1 DEF IInv, Sorted
  <2>2. p.type = "destroy buffer" /\ pc \in {"negotiate", "await"} => p.buffer < attempt
    <3>1. p.type = "destroy buffer" => p.buffer \in Buffers /\ p.buffer <= attempt
                                       /\ (p.buffer = attempt => pc \in {"attempt", "done"})
      BY OnTheWire, RequestFields DEF IInv, Sorted
    <3>2. \A b \in Buffers : b <= attempt /\ b # attempt => b < attempt
      BY Counting DEF IInv
    <3> QED
      BY <3>1, <3>2
  <2> QED
    BY <2>1, <2>2
<1>3. \A p \in Queued : p \in Requests
  BY OnTheWire DEF IInv
<1>4. \A p, q \in Queued : Before(p, q) => Before(p, q)'
  BY <1>1, <1>2 DEF Before
<1>5. \A p \in Queued : Before(p, s)'
  <2> SUFFICES ASSUME NEW p \in Queued PROVE Before(p, s)'
    OBVIOUS
  <2>1. p \in Requests
    BY <1>3
  <2> QED
    BY <1>1, <1>2, <2>1, RequestFields DEF Before
<1>6. pc = "await" => \A p \in Queued : Before(p, d)'
  <2> SUFFICES ASSUME NEW p \in Queued, pc = "await" PROVE Before(p, d)'
    OBVIOUS
  <2>1. p \in Requests
    BY <1>3
  <2> QED
    BY <1>1, <1>2, <2>1, RequestFields DEF Before
<1>7. s \in Requests
  BY <1>1, Known DEF DestroySource
<1>8. pc = "await" => d \in Requests /\ attempt \in Buffers
  <2>1. pc = "await" => attempt \in Buffers
    BY Counting DEF IInv, Server
  <2> QED
    BY <2>1, Known DEF DestroyBuffer
<1> QED
  BY <1>4, <1>5, <1>6, <1>7, <1>8

\* capture() returns, with the requests R of its guards.
LEMMA Returned ==
  ASSUME WestonConstants, IInv, pc # "done", pc' = "done",
         NEW R, DestroySource \in R, R \subseteq {DestroySource, DestroyBuffer},
         DestroyBuffer \in R => pc = "await",
         (requests \in Seq(Requests) /\ outbox \in Seq(Requests))', Line(Wire, Requests, Order)',
         Queued' = Queued \cup R,
         destroyed' = destroyed \cup {Source},
         UNCHANGED <<candidate, attempt, format, size, sync_done, geometry, formatFrom, sizeFrom>>,
         UNCHANGED <<requests, events, queue, compositorVars>>,
         status' = status \/ status' = "pending",
         result' \in Results,
         task # None \/ Capturing => result' = Error("timeout"),
         result'.type = "buffer" =>
           /\ result'.buffer = attempt /\ result'.params = geometry
           /\ image[attempt] = geometry /\ geometry # None /\ attempt \in Buffers,
         result' = Error("retry limit") => changes >= MaxAttempts
  PROVE  IInv' /\ Keeps
<1> USE DEF compositorVars
<1>1. Source' = Source /\ Source \in Sources
  BY SourceIs DEF IInv, Source
<1>2. \A q \in R : \/ q.type = "destroy source" /\ q.source = Source
                   \/ q.type = "destroy buffer" /\ q.buffer = attempt /\ pc = "await"
  BY Destroying
<1>3. /\ \A type \in {"create source", "sync", "create buffer"} : Asked(type)' <=> Asked(type)
      /\ \A b : Creating(b)' <=> Creating(b)
      /\ Capturing' <=> Capturing
      /\ Leaving'
  <2>1. \A type \in {"create source", "sync", "create buffer"} : Asked(type)' <=> Asked(type)
    BY <1>2 DEF Asked
  <2>2. \A b : Creating(b)' <=> Creating(b)
    BY <1>2 DEF Creating
  <2>3. Capturing' <=> Capturing
    BY <1>2 DEF Capturing, Asked
  <2>4. Leaving'
    BY <1>1, Destroying DEF Leaving
  <2> QED
    BY <2>1, <2>2, <2>3, <2>4
<1>4. TypeOK'
  BY <1>1 DEF IInv, TypeOK, Phases, Statuses
<1>5. Sorted'
  <2>1. attempt <= attempt
    <3>1. attempt \in Nat
      BY Counting DEF IInv
    <3> QED
      BY ONLY <3>1
  <2>2. \A q \in Queued' : /\ q.type = "create source" => q.source = Source'
                           /\ q.type = "destroy source" => q.source \in destroyed'
                           /\ q.type = "create buffer" => q.buffer = attempt' /\ q.params = geometry'
                           /\ q.type = "capture" => q.buffer = attempt' /\ q.source = Source'
                           /\ q.type = "destroy buffer" => q.buffer <= attempt'
    <3>1. \A q \in Queued : /\ q.type = "create source" => q.source = Source
                            /\ q.type = "destroy source" => q.source \in destroyed
                            /\ q.type = "create buffer" => q.buffer = attempt /\ q.params = geometry
                            /\ q.type = "capture" => q.buffer = attempt /\ q.source = Source
                            /\ q.type = "destroy buffer" => q.buffer <= attempt
      BY DEF IInv, Sorted
    <3> QED
      BY <1>1, <1>2, <2>1, <3>1
  <2> QED
    BY <2>2 DEF Sorted
<1>6. Chosen'
  <2>1. Source' \in destroyed' /\ sources' \subseteq destroyed' \cup {Source'}
    BY <1>1 DEF IInv, Chosen
  <2>2. \A c \in DOMAIN SourcePreference : c > candidate' => SourcePreference[c] \notin destroyed' \cup sources'
    <3>1. \A c \in DOMAIN SourcePreference : c > candidate => c # candidate
      <4>1. /\ candidate \in Nat /\ Len(SourcePreference) \in Nat
            /\ DOMAIN SourcePreference = 1 .. Len(SourcePreference)
        BY SourceIs DEF IInv
      <4> QED
        BY ONLY <4>1
    <3> QED
      BY <3>1, SourceIs DEF IInv, Chosen
  <2>3. (pc' = "create" \/ Asked("create source")') => Source' \notin sources'
    BY <1>1, <1>3 DEF IInv, Chosen
  <2> QED
    BY <2>1, <2>2, <2>3 DEF Chosen
<1>7. Server'
  <2>1. \A q \in Queued' : q.type = "destroy buffer" => pools'[q.buffer] # None \/ Creating(q.buffer)'
    BY <1>2, <1>3 DEF IInv, Server
  <2>2. task' # None \/ Capturing' => result' = Error("timeout") /\ Leaving'
    BY <1>3
  <2> QED
    BY <1>1, <1>3, <2>1, <2>2 DEF IInv, Server
<1>8. Client' /\ Retries'
  BY DEF IInv, Client, Retries, DeliveredAsDrawn, RetryLimitJustified
<1>9. Inbound' /\ Replay' /\ Unmixed'
  BY DEF Inbound, Replay, Unmixed
<1>10. Unchanged' /\ Synced'
  BY DEF Unchanged, Synced
<1>11. Keeps
  BY <1>3, ResultsDiffer DEF Keeps, IInv, Client
<1> QED
  BY <1>4, <1>5, <1>6, <1>7, <1>8, <1>9, <1>10, <1>11 DEF IInv

\* An error is a result.
LEMMA ErrorIs ==
  ASSUME NEW e \in Errors
  PROVE  Error(e) \in Results /\ Error(e).type = "error"
BY DEF Results, Error

\* capture() returns before a buffer is lent, or after it is through with it.
LEMMA ReturnsError ==
  ASSUME WestonConstants, IInv, pc \notin {"create", "done"}, NEW e \in Errors,
         Return(Error(e), <<DestroySource>>),
         UNCHANGED <<candidate, attempt, format, size, status, sync_done, geometry, formatFrom,
                     sizeFrom, requests, events, queue, compositorVars>>,
         e # "timeout" \/ pc = "negotiate",
         pc # "await",
         e = "retry limit" => changes >= MaxAttempts
  PROVE  IInv' /\ Keeps
<1>1. PICK s : s = DestroySource
  OBVIOUS
<1>2. PICK d : d = DestroyBuffer
  OBVIOUS
<1>3. /\ result' = Error(e) /\ pc' = "done" /\ outbox' = outbox \o <<s>>
      /\ destroyed' = destroyed \cup {Source}
  BY <1>1 DEF Return, Issue
<1>4. result' # Error("timeout") \/ pc \in {"negotiate", "await"}
  <2>1. e # "timeout" => Error(e).error # "timeout" /\ Error("timeout").error = "timeout"
    BY ResultsDiffer
  <2> QED
    BY <1>3, <2>1
<1>5. /\ \A p, q \in Queued : Before(p, q) => Before(p, q)'
      /\ \A p \in Queued : Before(p, s)'
      /\ s \in Requests
  BY <1>1, <1>2, <1>4, GuardsLast
<1>6. /\ (requests \in Seq(Requests) /\ outbox \in Seq(Requests))'
      /\ Line(Wire, Requests, Order)' /\ Queued' = Queued \cup {s}
  BY <1>3, <1>5, IssuedOne DEF IInv
<1>7. task = None /\ ~Capturing
  BY DEF IInv, Server
<1>8. result' \in Results /\ result'.type # "buffer"
  BY <1>3, ErrorIs
<1>9. result' = Error("retry limit") => changes >= MaxAttempts
  <2>1. Error(e).error = e /\ Error("retry limit").error = "retry limit"
    BY ResultsDiffer
  <2> QED
    BY <1>3, <2>1
<1>10. DestroyBuffer \notin {s}
  <2>1. DestroyBuffer.type # DestroySource.type
    BY Destroying
  <2> QED
    BY <1>1, <2>1
<1> QED
  BY <1>1, <1>3, <1>6, <1>7, <1>8, <1>9, <1>10, Returned

\* The checks before a buffer is lent.
LEMMA GiveUpStep == ASSUME WestonConstants, IInv, GiveUp PROVE IInv' /\ Keeps
<1>1. PICK e \in Refusals : Return(Error(e), <<DestroySource>>)
  BY DEF GiveUp
<1>2. e \in Errors /\ e # "timeout" /\ (e = "retry limit" => attempt = MaxAttempts)
  BY DEF Refusals, Errors
<1>3. e = "retry limit" => changes >= MaxAttempts
  BY <1>2 DEF GiveUp, IInv, Retries
<1> QED
  BY <1>1, <1>2, <1>3, ReturnsError DEF GiveUp

\* The deadline passes in either wait.
LEMMA TimeoutStep == ASSUME WestonConstants, IInv, Timeout PROVE IInv' /\ Keeps
<1>1. CASE pc = "negotiate"
  <2>1. Return(Error("timeout"), <<DestroySource>>) /\ "timeout" \in Errors /\ "timeout" # "retry limit"
    BY <1>1 DEF Timeout, Errors
  <2> QED
    BY <1>1, <2>1, ReturnsError DEF Timeout
<1>2. CASE pc = "await"
  <2>1. PICK s : s = DestroySource
    OBVIOUS
  <2>2. PICK d : d = DestroyBuffer
    OBVIOUS
  <2>3. /\ result' = Error("timeout") /\ pc' = "done" /\ outbox' = outbox \o <<s, d>>
        /\ destroyed' = destroyed \cup {Source}
        /\ UNCHANGED <<candidate, attempt, format, size, status, sync_done, geometry, formatFrom,
                       sizeFrom, requests, events, queue, compositorVars>>
    BY <1>2, <2>1, <2>2 DEF Timeout, Return, Issue
  <2>4. /\ \A p, q \in Queued : Before(p, q) => Before(p, q)'
        /\ \A p \in Queued : Before(p, s)' /\ Before(p, d)'
        /\ s \in Requests /\ d \in Requests
    BY <1>2, <2>1, <2>2, <2>3, GuardsLast
  <2>5. Before(s, d)'
    BY <2>1, <2>2, Destroying DEF Before
  <2>6. /\ (requests \in Seq(Requests) /\ outbox \in Seq(Requests))'
        /\ Line(Wire, Requests, Order)' /\ Queued' = Queued \cup {s, d}
    BY <2>3, <2>4, <2>5, IssuedTwo DEF IInv
  <2>7. result' \in Results /\ result'.type # "buffer" /\ result' # Error("retry limit")
    <3>1. "timeout" \in Errors
      BY DEF Errors
    <3>2. Error("timeout").error = "timeout" /\ Error("retry limit").error = "retry limit"
      BY ResultsDiffer
    <3> QED
      BY <2>3, <3>1, <3>2, ErrorIs
  <2> QED
    BY <1>2, <2>1, <2>2, <2>3, <2>6, <2>7, Returned
<1> QED
  BY <1>1, <1>2 DEF Timeout

\* The candidate announced no format: the next one's turn, if there is one.
LEMMA RejectStep == ASSUME WestonConstants, IInv, Reject PROVE IInv' /\ Keeps
<1> USE DEF compositorVars
<1>1. CASE candidate < Len(SourcePreference)
  <2>1. PICK s : s = DestroySource
    OBVIOUS
  <2>2. /\ pc = "rejected" /\ pc' = "create" /\ candidate' = candidate + 1
        /\ outbox' = outbox \o <<s>> /\ destroyed' = destroyed \cup {Source}
        /\ UNCHANGED <<result, attempt, format, size, status, sync_done, geometry, formatFrom, sizeFrom,
                       requests, events, queue,
                       info, sources, task, pools, sequence, changes, image>>
    BY <1>1, <2>1 DEF Reject, Issue
  <2>3. /\ \A q \in Queued : q.type = "destroy source" /\ q.source \in destroyed /\ q.source # Source
        /\ ~Asked("create source") /\ ~Asked("sync") /\ ~Capturing /\ \A b : ~Creating(b)
        /\ task = None /\ attempt = 0 /\ result = NoResult /\ status = "pending"
        /\ Source \notin destroyed
    BY <2>2, Between
  <2>4. /\ candidate' \in DOMAIN SourcePreference /\ candidate' > candidate /\ candidate' # candidate
        /\ \A c \in DOMAIN SourcePreference : c > candidate' => c > candidate /\ c # candidate
    <3>1. /\ candidate \in Nat /\ Len(SourcePreference) \in Nat
          /\ DOMAIN SourcePreference = 1 .. Len(SourcePreference)
          /\ candidate < Len(SourcePreference) /\ candidate' = candidate + 1
          /\ candidate \in DOMAIN SourcePreference
      BY <1>1, <2>2, SourceIs DEF IInv
    <3> QED
      BY ONLY <3>1
  <2>5. Source' = SourcePreference[candidate']
    BY DEF Source
  <2>6. /\ Source' \notin destroyed \cup sources /\ Source' # Source /\ Source \in Sources
        /\ \A c \in DOMAIN SourcePreference : c > candidate' =>
             SourcePreference[c] \notin destroyed \cup sources \cup {Source}
    BY <2>4, <2>5, SourceIs DEF IInv, Chosen
  <2>7. s \in Requests /\ s.type = "destroy source" /\ s.source = Source
    BY <2>1, <2>6, Destroying, Known DEF DestroySource
  <2>8. /\ (requests \in Seq(Requests) /\ outbox \in Seq(Requests))'
        /\ Line(Wire, Requests, Order)' /\ Queued' = Queued \cup {s}
    <3>1. \A p \in Queued : p.source # Source'
      BY <2>3, <2>6
    <3>2. \A p \in Queued : \A q : Before(p, q)'
      BY <2>3, <3>1 DEF Before
    <3> QED
      BY <2>2, <2>7, <3>2, IssuedOne DEF IInv
  <2>9. /\ \A q \in Queued' : q.type = "destroy source" /\ q.source \in destroyed'
        /\ ~Asked("create source")' /\ ~Asked("sync")' /\ ~Capturing' /\ \A b : ~Creating(b)'
    <3>1. \A q \in Queued' : q.type = "destroy source" /\ q.source \in destroyed'
      BY <2>2, <2>3, <2>7, <2>8
    <3> QED
      BY <3>1 DEF Asked, Capturing, Creating
  <2>10. Delivering' /\ Incoming' = Incoming /\ (Answered' <=> Answered) /\ (Announcing' <=> Announcing)
    BY <2>2, SameCapture
  <2>11. TypeOK'
    BY <2>2, <2>4, <2>6 DEF IInv, TypeOK, Phases
  <2>12. Sorted'
    BY <2>8, <2>9 DEF Sorted
  <2>13. Chosen'
    <3>1. Source' \notin destroyed' /\ Source' \notin sources'
      BY <2>2, <2>6
    <3>2. sources' \subseteq destroyed' \cup {Source'}
      BY <2>2 DEF IInv, Chosen
    <3> QED
      BY <2>2, <2>6, <2>9, <3>1, <3>2 DEF Chosen
  <2>14. Server'
    <3>1. attempt' = 0 /\ ~(attempt' > 0)
      <4>1. attempt' = 0
        BY <2>2, <2>3
      <4> QED
        BY ONLY <4>1
    <3> QED
      BY <2>2, <2>3, <2>9, <3>1 DEF IInv, Server
  <2>15. Client'
    BY <2>2, <2>3, <2>10, ResultsDiffer DEF IInv, Client, DeliveredAsDrawn
  <2>16. Inbound' /\ Replay'
    BY <2>2, <2>6, <2>10 DEF Inbound, Delivering, Replay
  <2>17. Unchanged' /\ Synced'
    BY <2>2, <2>9, <2>10 DEF IInv, Unchanged, Synced
  <2>18. Retries'
    BY <2>2 DEF IInv, Retries, RetryLimitJustified
  <2>19. Unmixed'
    BY <2>2 DEF IInv, Unmixed
  <2>20. Keeps
    BY <2>2, <2>3, <2>9, ResultsDiffer DEF Keeps
  <2> QED
    BY <2>11, <2>12, <2>13, <2>14, <2>15, <2>16, <2>17, <2>18, <2>19, <2>20 DEF IInv
<1>2. CASE ~(candidate < Len(SourcePreference))
  <2>1. /\ pc = "rejected" /\ Return(Error("no source"), <<DestroySource>>)
        /\ UNCHANGED <<candidate, attempt, format, size, status, sync_done, geometry, formatFrom,
                       sizeFrom, requests, events, queue, compositorVars>>
    BY <1>2 DEF Reject, Return, Error
  <2>2. "no source" \in Errors /\ "no source" # "retry limit" /\ "no source" # "timeout"
    BY DEF Errors
  <2> QED
    BY <2>1, <2>2, ReturnsError
<1> QED
  BY <1>1, <1>2

\* Without a parameter under way the client knows what its source wants.
LEMMA KnownByNow ==
  ASSUME IInv, pc # "done", Source \in sources, ~Announcing
  PROVE  Current
<1>1. Delivering
  BY DEF IInv, Inbound, Delivering
<1>2. \A e \in ToSet(queue) \cup ToSet(events) : e.type # "format" /\ e.type # "size"
  BY <1>1, InTheInbox DEF Announcing, Parameter
<1>3. \A type \in {"format", "size"} : \A v, dead :
        ~Ends(events, type, dead, v) /\ ~Ends(queue, type, dead, v)
  <2>1. \A i \in DOMAIN events : events[i] \in ToSet(events)
    BY DEF ToSet
  <2>2. \A i \in DOMAIN queue : queue[i] \in ToSet(queue)
    BY DEF ToSet
  <2> QED
    BY <1>2, <2>1, <2>2 DEF Ends, Live
<1>4. \A old, v : Replayed("format", old, v) => old = v
  BY <1>3 DEF Replayed
<1>5. \A old, v : Replayed("size", old, v) => old = v
  BY <1>3 DEF Replayed
<1>6. /\ info[Source].format # None => format = info[Source].format
      /\ info[Source].size # 0 => size = info[Source].size
  BY <1>4, <1>5 DEF IInv, Replay
<1> QED
  BY <1>6 DEF Current, Announcing, Parameter

\* The outcome of a capture is looked at.
LEMMA OutcomeStep == ASSUME WestonConstants, IInv, Outcome PROVE IInv' /\ Keeps
<1> USE DEF compositorVars
<1>1. PICK s : s = DestroySource
  OBVIOUS
<1>2. PICK d : d = DestroyBuffer
  OBVIOUS
<1>3. /\ pc = "await" /\ status # "pending" /\ status' = "pending"
      /\ UNCHANGED <<candidate, attempt, format, size, sync_done, geometry, formatFrom, sizeFrom,
                     requests, events, queue, compositorVars>>
      /\ result = NoResult /\ result.type # "buffer"
  BY ResultsDiffer DEF Outcome, IInv, Client
<1>4. /\ task = None /\ ~Capturing /\ ~Asked("create source") /\ ~Asked("create buffer")
      /\ \A b : ~Creating(b)
      /\ attempt \in Buffers /\ pools[attempt] # None /\ geometry \in Params /\ geometry # None
  <2>1. task = None /\ ~Capturing
    BY <1>3 DEF IInv, Server
  <2>2. attempt > 0 /\ (pools[attempt] # None \/ Creating(attempt))
    BY <1>3 DEF IInv, Server
  <2>3. ~Asked("create source") /\ ~Asked("create buffer")
    BY <1>3, <2>1, <2>2 DEF IInv, Server
  <2>4. \A b : ~Creating(b)
    BY <2>3 DEF Asked, Creating
  <2>5. geometry \in Params /\ geometry # None
    BY <1>3 DEF IInv, Client, WestonConstants
  <2> QED
    BY <2>1, <2>2, <2>3, <2>4, <2>5, Counting DEF IInv
<1>5. ASSUME result' = Error("failed")
             \/ (result' = [type |-> "buffer", buffer |-> attempt, params |-> geometry]
                 /\ image[attempt] = geometry),
             Return(result', <<DestroyBuffer, DestroySource>>)
      PROVE  IInv' /\ Keeps
  <2>1. /\ pc' = "done" /\ outbox' = outbox \o <<d, s>> /\ destroyed' = destroyed \cup {Source}
    BY <1>1, <1>2, <1>5 DEF Return, Issue
  <2>2. /\ result' # Error("timeout") /\ result' # Error("retry limit") /\ result' \in Results
        /\ result'.type = "buffer" =>
             /\ result'.buffer = attempt /\ result'.params = geometry /\ image[attempt] = geometry
    <3>1. CASE result' = Error("failed")
      <4>1. /\ Error("failed").error = "failed" /\ Error("timeout").error = "timeout"
            /\ Error("retry limit").error = "retry limit" /\ "failed" \in Errors
        BY ResultsDiffer DEF Errors
      <4> QED
        BY <3>1, <4>1, ErrorIs
    <3>2. CASE /\ result' = [type |-> "buffer", buffer |-> attempt, params |-> geometry]
               /\ image[attempt] = geometry
      <4>1. result'.type = "buffer" /\ result'.buffer = attempt /\ result'.params = geometry
        BY <3>2
      <4>2. Error("timeout").type = "error" /\ Error("retry limit").type = "error"
        BY ResultsDiffer
      <4>3. result' \in Results
        BY <1>4, <3>2 DEF Results
      <4> QED
        BY <3>2, <4>1, <4>2, <4>3
    <3> QED
      BY <1>5, <3>1, <3>2
  <2>3. /\ \A p, q \in Queued : Before(p, q) => Before(p, q)'
        /\ \A p \in Queued : Before(p, s)' /\ Before(p, d)'
        /\ s \in Requests /\ d \in Requests
    BY <1>1, <1>2, <1>3, <2>2, GuardsLast
  <2>4. Before(d, s)'
    BY <1>1, <1>2, <2>2, Destroying DEF Before
  <2>5. /\ (requests \in Seq(Requests) /\ outbox \in Seq(Requests))'
        /\ Line(Wire, Requests, Order)' /\ Queued' = Queued \cup {d, s}
    BY <1>3, <2>1, <2>3, <2>4, IssuedTwo DEF IInv
  <2> QED
    BY <1>1, <1>2, <1>3, <1>4, <2>1, <2>2, <2>5, Returned
<1>6. CASE status = "complete" /\ Completed
  <2>1. image[attempt] = geometry
    BY <1>3, <1>6 DEF IInv, Client, Tells
  <2> QED
    BY <1>5, <1>6, <2>1 DEF Completed, Return
<1>7. CASE status = "failed" /\ Return(Error("failed"), <<DestroyBuffer, DestroySource>>)
  BY <1>5, <1>7 DEF Return
<1>8. CASE /\ status = "retry"
           /\ Issue(<<DestroyBuffer>>)
           /\ pc' = "attempt"
           /\ UNCHANGED <<destroyed, result>>
  <2>1. outbox' = outbox \o <<d>> /\ d.type = "destroy buffer" /\ d.buffer = attempt /\ Source' = Source
    BY <1>2, <1>3, <1>8, Destroying DEF Issue, Source
  <2>2. /\ \A p, q \in Queued : Before(p, q) => Before(p, q)'
        /\ \A p \in Queued : Before(p, d)'
        /\ d \in Requests
    BY <1>1, <1>2, <1>3, <1>8, ResultsDiffer, GuardsLast
  <2>3. /\ (requests \in Seq(Requests) /\ outbox \in Seq(Requests))'
        /\ Line(Wire, Requests, Order)' /\ Queued' = Queued \cup {d}
    BY <1>3, <2>1, <2>2, IssuedOne DEF IInv
  <2>4. /\ ~Asked("create source")' /\ (Asked("sync")' <=> Asked("sync"))
        /\ ~Asked("create buffer")' /\ ~Capturing' /\ \A b : ~Creating(b)'
    <3>1. \A q \in Queued' : q \in Queued \/ q.type = "destroy buffer"
      BY <2>1, <2>3
    <3>2. Queued \subseteq Queued'
      BY <2>3
    <3> QED
      BY <1>4, <3>1, <3>2 DEF Asked, Capturing, Creating
  <2>5. Delivering' /\ Incoming' = Incoming /\ (Answered' <=> Answered) /\ (Announcing' <=> Announcing)
    BY <1>3, SameCapture
  <2>6. TypeOK'
    BY <1>3, <1>8 DEF IInv, TypeOK, Phases, Statuses
  <2>7. Sorted'
    <3>1. attempt <= attempt
      <4>1. attempt \in Nat
        BY Counting DEF IInv
      <4> QED
        BY ONLY <4>1
    <3>2. \A q \in Queued' : /\ q.type = "create source" => q.source = Source'
                             /\ q.type = "destroy source" => q.source \in destroyed'
                             /\ q.type = "create buffer" => q.buffer = attempt' /\ q.params = geometry'
                             /\ q.type = "capture" => q.buffer = attempt' /\ q.source = Source'
                             /\ q.type = "destroy buffer" => q.buffer <= attempt'
      <4>1. \A q \in Queued : /\ q.type = "create source" => q.source = Source
                              /\ q.type = "destroy source" => q.source \in destroyed
                              /\ q.type = "create buffer" => q.buffer = attempt /\ q.params = geometry
                              /\ q.type = "capture" => q.buffer = attempt /\ q.source = Source
                              /\ q.type = "destroy buffer" => q.buffer <= attempt
        BY DEF IInv, Sorted
      <4> QED
        BY <1>3, <1>8, <2>1, <2>3, <3>1, <4>1
    <3> QED
      BY <1>8, <2>3, <2>4, <3>2 DEF Sorted
  <2>8. Chosen'
    BY <1>3, <1>4, <1>8, <2>1, <2>4 DEF IInv, Chosen
  <2>9. Server'
    <3>1. \A q \in Queued' : q.type = "destroy buffer" => pools'[q.buffer] # None \/ Creating(q.buffer)'
      BY <1>3, <1>4, <2>1, <2>3 DEF IInv, Server
    <3> QED
      BY <1>3, <1>4, <1>8, <2>4, <3>1 DEF IInv, Server
  <2>10. Client'
    <3>1. ~Answered
      BY <1>3 DEF IInv, Client
    <3>2. image[attempt] = None
      BY <1>3, <1>8 DEF IInv, Client, Tells
    <3>3. \A b \in Buffers : image[b] = None
      BY <3>2 DEF IInv, Server
    <3> QED
      BY <1>3, <1>8, <2>5, <3>1, <3>3 DEF IInv, Client, DeliveredAsDrawn
  <2>11. Inbound' /\ Replay'
    BY <1>3, <1>8, <2>1, <2>5 DEF IInv, Inbound, Delivering, Replay, Replayed
  <2>12. Unchanged' /\ Synced'
    BY <1>3, <1>8, <2>4, <2>5 DEF IInv, Unchanged, Synced
  <2>13. Retries'
    <3>1. changes >= attempt /\ (changes = attempt => ~Announcing)
      BY <1>3, <1>8 DEF IInv, Retries
    <3>2. Source \in sources
      BY <1>3, <1>4 DEF IInv, Chosen
    <3>3. changes = attempt => Current
      BY <1>3, <3>1, <3>2, KnownByNow
    <3>4. Current => Current'
      BY <1>3, <2>1, <2>5 DEF Current
    <3> QED
      BY <1>3, <1>8, <3>1, <3>3, <3>4 DEF IInv, Retries, RetryLimitJustified
  <2>14. Unmixed'
    BY <1>3, <1>8, <2>1, <2>5 DEF IInv, Unmixed
  <2>15. Keeps
    BY <1>3, <1>4, <1>8, <2>4 DEF Keeps
  <2> QED
    BY <2>6, <2>7, <2>8, <2>9, <2>10, <2>11, <2>12, <2>13, <2>14, <2>15 DEF IInv
<1> QED
  BY <1>6, <1>7, <1>8 DEF Outcome

-----------------------------------------------------------------------------
(* The attempt loop *)

\* What is under way when the thread is about to lend a buffer.
LEMMA BetweenAttempts ==
  ASSUME WestonConstants, IInv, pc = "attempt"
  PROVE  /\ ~Asked("create buffer") /\ ~Capturing /\ \A b : ~Creating(b)
         /\ task = None /\ result = NoResult /\ status = "pending" /\ ~Answered
         /\ Source \notin destroyed /\ \A b \in Buffers : image[b] = None
<1>1. /\ result = NoResult /\ status = "pending" /\ ~Answered /\ \A b \in Buffers : image[b] = None
      /\ Source \notin destroyed
  BY DEF IInv, Client, Chosen
<1>2. task = None /\ ~Capturing
  BY DEF IInv, Server
<1>3. ~Asked("create buffer")
  <2> SUFFICES ASSUME NEW q \in Queued, q.type = "create buffer" PROVE FALSE
    BY DEF Asked
  <2>1. q.buffer \in Buffers /\ q.buffer = attempt /\ q \in Requests
    BY OnTheWire, RequestFields DEF IInv, Sorted
  <2>2. attempt > 0
    BY <2>1, Counting DEF IInv
  <2> QED
    BY <1>2, <2>2 DEF IInv, Server, Asked
<1> QED
  BY <1>1, <1>2, <1>3 DEF Asked, Creating

\* A buffer of the announced format and size is created and lent.
LEMMA AttemptStep == ASSUME WestonConstants, IInv, Attempt PROVE IInv' /\ Lends
<1> USE DEF compositorVars
<1>1. PICK n : n = attempt + 1
  OBVIOUS
<1>2. PICK g : g = [format |-> format, size |-> size]
  OBVIOUS
<1>3. PICK c : c = [type |-> "create buffer", buffer |-> n, params |-> g]
  OBVIOUS
<1>4. PICK d : d = [type |-> "capture", source |-> Source, buffer |-> n]
  OBVIOUS
<1>5. /\ pc = "attempt" /\ pc' = "await" /\ attempt' = n /\ status' = "pending" /\ geometry' = g
      /\ outbox' = outbox \o <<c, d>>
      /\ UNCHANGED <<candidate, format, size, sync_done, destroyed, result, formatFrom, sizeFrom,
                     requests, events, queue, info, sources, task, pools, sequence, changes, image>>
  <2>1. attempt' = n /\ geometry' = g
    BY <1>1, <1>2 DEF Attempt
  <2> QED
    BY <1>3, <1>4, <2>1 DEF Attempt, Issue
<1>6. attempt # MaxAttempts /\ format \in Supported /\ size \in Sizes
  <2>1. attempt # MaxAttempts /\ format # None /\ size # 0 /\ format \notin Unsupported
    BY DEF Attempt, Refusals
  <2> QED
    BY <2>1 DEF IInv, TypeOK, Formats
<1>7. /\ n \in Buffers /\ n \in 0 .. MaxAttempts /\ n > 0 /\ n = attempt + 1 /\ n # attempt
      /\ \A b \in Buffers : b <= attempt => b <= n /\ b # n /\ b < n
      /\ n <= n
  <2>1. attempt \in Nat /\ attempt <= MaxAttempts /\ MaxAttempts \in Nat /\ attempt # MaxAttempts /\ n = attempt + 1
    BY <1>1, <1>6, Counting DEF IInv
  <2> QED
    BY ONLY <2>1 DEF Buffers
<1>8. g \in Params /\ g # None
  BY <1>2, <1>6 DEF Params, Formats, WestonConstants
<1>9. Source' = Source /\ Source \in Sources
  BY <1>5, SourceIs DEF IInv, Source
<1>10. /\ ~Asked("create buffer") /\ ~Capturing /\ \A b : ~Creating(b)
       /\ task = None /\ result = NoResult /\ status = "pending" /\ ~Answered
       /\ Source \notin destroyed /\ \A b \in Buffers : image[b] = None
  BY <1>5, BetweenAttempts
<1>11. /\ c \in Requests /\ c.type = "create buffer" /\ c.buffer = n /\ c.params = g
       /\ d \in Requests /\ d.type = "capture" /\ d.source = Source /\ d.buffer = n
  BY <1>3, <1>4, <1>7, <1>8, <1>9, Known
<1>12. \A q \in Queued : /\ q \in Requests /\ q.type # "create buffer" /\ q.type # "capture"
                         /\ q.type = "create source" => q.source = Source
                         /\ q.type = "destroy source" => q.source \in destroyed /\ q.source # Source
                         /\ q.type = "destroy buffer" => q.buffer \in Buffers /\ q.buffer <= attempt
  BY <1>10, OnTheWire, RequestFields DEF IInv, Sorted, Asked, Capturing
<1>13. /\ (requests \in Seq(Requests) /\ outbox \in Seq(Requests))'
       /\ Line(Wire, Requests, Order)' /\ Queued' = Queued \cup {c, d}
  <2>1. Before(c, d)'
    BY <1>11 DEF Before
  <2>2. \A p, q \in Queued : Before(p, q) => Before(p, q)'
    <3>1. result' = result /\ result # Error("timeout")
      BY <1>5, <1>10, ResultsDiffer
    <3> QED
      BY <1>9, <3>1 DEF Before
  <2>3. \A p \in Queued : Before(p, c)' /\ Before(p, d)'
    <3> SUFFICES ASSUME NEW p \in Queued PROVE Before(p, c)' /\ Before(p, d)'
      OBVIOUS
    <3>1. \/ p.type = "create source" \/ p.type = "sync" \/ (p.type = "destroy buffer" /\ p.buffer < n)
          \/ p.type = "destroy source" /\ p.source # Source
      BY <1>7, <1>12, RequestFields
    <3> QED
      BY <1>9, <1>11, <3>1 DEF Before
  <2> QED
    BY <1>5, <1>11, <2>1, <2>2, <2>3, IssuedTwo DEF IInv
<1>14. /\ Capturing' /\ (\A b : Creating(b)' <=> b = n)
       /\ Asked("create source")' <=> Asked("create source")
       /\ Asked("sync")' <=> Asked("sync")
  <2>1. Capturing' /\ (\A b : Creating(b)' <=> b = n)
    BY <1>10, <1>11, <1>13 DEF Capturing, Asked, Creating
  <2>2. /\ Asked("create source")' <=> Asked("create source")
        /\ Asked("sync")' <=> Asked("sync")
    BY <1>11, <1>13 DEF Asked
  <2> QED
    BY <2>1, <2>2
<1>15. Delivering' /\ Incoming' = Incoming /\ (Answered' <=> Answered) /\ (Announcing' <=> Announcing)
  <2>1. \A e, f \in Incoming : Then(e, f) => Then(e, f)'
    <3>1. \A e \in Incoming : e.type # "retry"
      BY <1>10 DEF Answered, Outcomes
    <3> QED
      BY <1>5, <3>1 DEF Then
  <2> QED
    BY <1>5, <2>1, SameInbox
<1>16. TypeOK'
  BY <1>5, <1>7, <1>8 DEF IInv, TypeOK, Phases, Statuses
<1>17. Sorted'
  <2>1. \A q \in Queued' : /\ q.type = "create source" => q.source = Source'
                           /\ q.type = "destroy source" => q.source \in destroyed'
                           /\ q.type = "create buffer" => q.buffer = attempt' /\ q.params = geometry'
                           /\ q.type = "capture" => q.buffer = attempt' /\ q.source = Source'
                           /\ q.type = "destroy buffer" => q.buffer <= attempt' /\ q.buffer # attempt'
    BY <1>5, <1>7, <1>9, <1>11, <1>12, <1>13
  <2> QED
    BY <1>5, <1>13, <2>1 DEF Sorted
<1>18. Chosen'
  BY <1>5, <1>9, <1>14 DEF IInv, Chosen
<1>19. Server'
  <2>1. \A b \in Buffers : pools'[b] # None =>
          b <= attempt' /\ ~Creating(b)' /\ (b = attempt' => pools'[b] = geometry')
    BY <1>5, <1>7, <1>14 DEF IInv, Server
  <2>2. \A q \in Queued' : q.type = "destroy buffer" => pools'[q.buffer] # None \/ Creating(q.buffer)'
    BY <1>5, <1>10, <1>11, <1>13 DEF IInv, Server
  <2>3. attempt' > 0 /\ Creating(n)' /\ attempt' = n /\ n \in Buffers
    BY <1>5, <1>7, <1>14
  <2>4. task' = None /\ status' = "pending" /\ geometry' # None /\ pc' = "await"
        /\ (\A b \in Buffers : image'[b] = None) /\ ~sequence'
    BY <1>5, <1>8, <1>10 DEF IInv, Server
  <2> QED
    BY <1>14, <2>1, <2>2, <2>3, <2>4 DEF Server
<1>20. Client'
  <2>1. Tells(status)'
    BY <1>5 DEF Tells
  <2>2. \A e \in Incoming' : e.type \notin Outcomes
    BY <1>10, <1>15 DEF Answered
  <2>3. result' = NoResult /\ DeliveredAsDrawn'
    BY <1>5, <1>10, ResultsDiffer DEF DeliveredAsDrawn
  <2> QED
    BY <1>5, <1>8, <1>10, <1>15, <2>1, <2>2, <2>3 DEF Client
<1>21. Inbound' /\ Replay'
  BY <1>5, <1>9, <1>15 DEF IInv, Inbound, Delivering, Replay, Replayed
<1>22. Unchanged' /\ Synced'
  BY <1>5, <1>14, <1>15 DEF IInv, Unchanged, Synced
<1>23. Retries'
  <2>1. changes >= attempt /\ (changes = attempt => Current)
    BY <1>5 DEF IInv, Retries
  <2>2. changes' + 1 >= n /\ (changes' < n => changes = attempt)
    <3>1. changes \in Nat /\ attempt \in Nat /\ n = attempt + 1 /\ changes' = changes /\ changes >= attempt
      BY <1>5, <1>7, <2>1, Counting DEF IInv
    <3> QED
      BY ONLY <3>1
  <2>3. changes' < n /\ info[Source] \in Params => g = info[Source]
    <3> SUFFICES ASSUME changes' < n, info[Source] \in Params PROVE g = info[Source]
      OBVIOUS
    <3>1. Current
      BY <2>1, <2>2
    <3>2. PICK p \in Params : p = info[Source]
      OBVIOUS
    <3>3. p.format # None /\ p.size # 0
      BY DEF Params, WestonConstants
    <3>4. format = p.format /\ size = p.size
      BY <1>6, <3>1, <3>2, <3>3 DEF Current, WestonConstants, Formats
    <3>5. p = [format |-> p.format, size |-> p.size]
      BY DEF Params
    <3> QED
      BY <1>2, <3>2, <3>4, <3>5
  <2>4. \A e \in Incoming' : e.type # "retry"
    BY <1>10, <1>15 DEF Answered, Outcomes
  <2> QED
    BY <1>5, <1>9, <2>2, <2>3, <2>4 DEF IInv, Retries, RetryLimitJustified
<1>24. Unmixed'
  BY <1>5, <1>9, <1>15 DEF IInv, Unmixed
<1>25. Lends
  BY <1>5, <1>7, <1>10, <1>14, ResultsDiffer DEF Lends
<1> QED
  BY <1>16, <1>17, <1>18, <1>19, <1>20, <1>21, <1>22, <1>23, <1>24, <1>25 DEF IInv

-----------------------------------------------------------------------------
(* The compositor at the requests *)

\* The compositor handles request r: those behind it stay.
LEMMA Serving ==
  ASSUME WestonConstants, IInv, Serve, NEW r, r = Head(requests)
  PROVE  /\ r \in Requests /\ r \in Queued /\ Queued = {r} \cup Queued'
         /\ \A q \in Queued' : q \in Requests /\ q \in Queued /\ Before(r, q)
         /\ Source' = Source /\ Sorted'
         /\ UNCHANGED <<clientVars, outbox, queue, info, changes, image>>
         /\ \A type : (Asked(type)' => Asked(type)) /\ (Asked(type) /\ r.type # type => Asked(type)')
         /\ \A b : (Creating(b)' => Creating(b)) /\ (Creating(b) /\ r.type # "create buffer" => Creating(b)')
         /\ (Capturing' => Capturing) /\ (Capturing /\ r.type # "capture" => Capturing')
         /\ (Leaving' => Leaving) /\ (Leaving /\ r.type # "destroy source" => Leaving')
<1> USE DEF clientVars
<1>1. /\ requests # <<>> /\ requests' = Tail(requests)
      /\ UNCHANGED <<clientVars, outbox, queue, info, changes, image>>
  BY DEF Serve
<1>2. /\ (requests \in Seq(Requests) /\ outbox \in Seq(Requests))'
      /\ Line(Wire, Requests, Order)'
      /\ r \in Requests /\ Queued = {r} \cup Queued'
      /\ \A q \in Queued' : q \in Requests /\ Before(r, q)
  BY <1>1, Served DEF IInv
<1>3. Source' = Source
  BY <1>1 DEF Source
<1>4. /\ \A type : (Asked(type)' => Asked(type)) /\ (Asked(type) /\ r.type # type => Asked(type)')
      /\ \A b : (Creating(b)' => Creating(b)) /\ (Creating(b) /\ r.type # "create buffer" => Creating(b)')
  BY <1>2 DEF Asked, Creating
<1>5. (Capturing' => Capturing) /\ (Capturing /\ r.type # "capture" => Capturing')
  BY <1>4 DEF Capturing
<1>6. (Leaving' => Leaving) /\ (Leaving /\ r.type # "destroy source" => Leaving')
  BY <1>2, <1>3 DEF Leaving
<1>7. Sorted'
  <2>1. Asked("create source")' /\ pc # "done" => Asked("sync")' \/ pc \in {"attempt", "await"}
    <3>1. r.type = "sync" => ~Asked("create source")'
      BY <1>2 DEF Before, Asked
    <3> QED
      BY <1>4, <3>1 DEF IInv, Sorted
  <2>2. \A q \in Queued' : q \in Queued
    BY <1>2
  <2> QED
    BY <1>1, <1>2, <1>3, <1>4, <2>1, <2>2 DEF IInv, Sorted
<1> QED
  BY <1>1, <1>2, <1>3, <1>4, <1>5, <1>6, <1>7

\* A request whose handling is not announced to the client.
LEMMA Silent ==
  ASSUME WestonConstants, IInv, Serve, NEW r, r = Head(requests), UNCHANGED events,
         TypeOK', Chosen', Server',
         Source \in sources' => Source \in sources,
         task' # None \/ Capturing' => task # None \/ Capturing
  PROVE  IInv'
<1> USE DEF clientVars
<1>1. /\ Source' = Source /\ Sorted'
      /\ UNCHANGED <<clientVars, outbox, queue, events, info, changes, image>>
      /\ \A type : Asked(type)' => Asked(type)
      /\ r \in Queued /\ Queued = {r} \cup Queued'
      /\ \A q \in Queued' : Before(r, q)
      /\ \A type : Asked(type) /\ r.type # type => Asked(type)'
      /\ Capturing' => Capturing
  BY Serving
<1>2. Incoming' = Incoming /\ (Answered' <=> Answered) /\ (Announcing' <=> Announcing) /\ Inbound'
      /\ (Current' <=> Current)
  <2>1. Inbox' = Inbox /\ Sequel' = Sequel
    BY <1>1 DEF Inbox, Sequel, Then
  <2>2. Incoming' = Incoming
    BY <2>1 DEF Incoming
  <2> QED
    BY <1>1, <2>1, <2>2 DEF IInv, Inbound, Answered, Announcing, Current
<1>3. Client'
  <2>1. \A x : Tells(x)' <=> Tells(x)
    BY <1>1 DEF Tells
  <2>2. Answered /\ pc = "await" => task' = None /\ ~Capturing'
    BY DEF IInv, Client
  <2> QED
    BY <1>1, <1>2, <2>1, <2>2 DEF IInv, Client, DeliveredAsDrawn
<1>4. Replay'
  BY <1>1 DEF IInv, Replay, Replayed
<1>5. Unchanged' /\ Synced'
  BY <1>1, <1>2 DEF IInv, Unchanged, Synced
<1>6. Retries'
  BY <1>1, <1>2 DEF IInv, Retries, RetryLimitJustified
<1>7. Unmixed'
  BY <1>1, <1>2 DEF IInv, Unmixed
<1> QED
  BY <1>1, <1>2, <1>3, <1>4, <1>5, <1>6, <1>7 DEF IInv

\* The compositor creates the buffer of the attempt.
LEMMA BufferCreated ==
  ASSUME WestonConstants, IInv, Serve, Head(requests).type = "create buffer"
  PROVE  /\ IInv' /\ UNCHANGED <<task, image, attempt, result>> /\ (Capturing' <=> Capturing)
         /\ \A b \in Buffers : Held(b)' <=> Held(b)
<1> USE DEF clientVars
<1>1. PICK r : r = Head(requests)
  OBVIOUS
<1>2. /\ r \in Requests /\ r \in Queued /\ Queued = {r} \cup Queued'
      /\ \A q \in Queued' : q \in Requests /\ q \in Queued /\ Before(r, q)
      /\ Source' = Source /\ Sorted'
      /\ UNCHANGED <<clientVars, outbox, queue, info, changes, image>>
      /\ \A type : (Asked(type)' => Asked(type)) /\ (Asked(type) /\ r.type # type => Asked(type)')
      /\ \A b : (Creating(b)' => Creating(b)) /\ (Creating(b) /\ r.type # "create buffer" => Creating(b)')
      /\ (Capturing' => Capturing) /\ (Capturing /\ r.type # "capture" => Capturing')
      /\ (Leaving' => Leaving) /\ (Leaving /\ r.type # "destroy source" => Leaving')
  BY <1>1, Serving
<1>3. /\ r.type = "create buffer" /\ r.buffer = attempt /\ r.params = geometry
      /\ r.buffer \in Buffers /\ r.params \in Params
      /\ geometry # None /\ attempt \in Buffers /\ attempt > 0
  <2>1. /\ r.type = "create buffer" /\ r.buffer = attempt /\ r.params = geometry
        /\ r.buffer \in Buffers /\ r.params \in Params
    BY <1>1, <1>2, RequestFields DEF IInv, Sorted
  <2> QED
    BY <2>1, Counting DEF WestonConstants, IInv
<1>4. /\ pools' = [pools EXCEPT ![attempt] = geometry]
      /\ UNCHANGED <<sources, task, sequence, events>>
  BY <1>1, <1>3 DEF Serve
<1>5. pools \in [Buffers -> Params \cup {None}]
  BY DEF IInv, TypeOK
<1>6. /\ pools'[attempt] = geometry /\ \A b \in Buffers \ {attempt} : pools'[b] = pools[b]
      /\ pools' \in [Buffers -> Params \cup {None}]
  BY <1>3, <1>4, <1>5
<1>7. (\A b : ~Creating(b)') /\ Creating(attempt) /\ (\A b : Creating(b) => b = attempt)
      /\ (Capturing' <=> Capturing) /\ (Leaving' <=> Leaving)
  <2>1. \A q \in Queued' : q.type # "create buffer"
    BY <1>2, <1>3 DEF Before
  <2>2. \A b : Creating(b) => b = attempt
    BY DEF IInv, Sorted, Creating
  <2> QED
    BY <1>2, <1>3, <2>1, <2>2 DEF Creating
<1>8. TypeOK'
  BY <1>2, <1>4, <1>6 DEF IInv, TypeOK
<1>9. Chosen'
  BY <1>2, <1>3, <1>4 DEF IInv, Chosen
<1>10. Server'
  <2>1. attempt <= attempt
    <3>1. attempt \in Nat
      BY Counting DEF IInv
    <3> QED
      BY ONLY <3>1
  <2>2. \A b \in Buffers : pools'[b] # None =>
          b <= attempt /\ ~Creating(b)' /\ (b = attempt => pools'[b] = geometry)
    <3>1. \A b \in Buffers \ {attempt} : pools'[b] # None => b <= attempt
      BY <1>6 DEF IInv, Server
    <3> QED
      BY <1>6, <1>7, <2>1, <3>1
  <2>3. \A q \in Queued' : q.type = "destroy buffer" => pools'[q.buffer] # None
    <3> SUFFICES ASSUME NEW q \in Queued', q.type = "destroy buffer" PROVE pools'[q.buffer] # None
      OBVIOUS
    <3>1. q \in Queued /\ q.buffer \in Buffers
      BY <1>2, RequestFields
    <3>2. q.buffer # attempt => pools[q.buffer] # None
      BY <1>7, <3>1 DEF IInv, Server
    <3> QED
      BY <1>3, <1>6, <3>1, <3>2
  <2>4. task # None => pools'[attempt] = geometry
    BY <1>6
  <2> QED
    BY <1>2, <1>3, <1>4, <1>6, <1>7, <2>2, <2>3, <2>4 DEF IInv, Server
<1>11. \A b \in Buffers : Held(b)' <=> Held(b)
  BY <1>3, <1>6, <1>7 DEF Held
<1>12. IInv'
  BY <1>1, <1>2, <1>4, <1>7, <1>8, <1>9, <1>10, Silent
<1> QED
  BY <1>2, <1>4, <1>7, <1>11, <1>12

\* The compositor takes up the capture: there is no other in progress.
LEMMA CaptureTaken ==
  ASSUME WestonConstants, IInv, Serve, Head(requests).type = "capture"
  PROVE  /\ IInv' /\ UNCHANGED <<pools, image, attempt, result>>
         /\ Capturing /\ task' # None
         /\ \A b \in Buffers : Held(b)' <=> Held(b)
<1> USE DEF clientVars
<1>1. PICK r : r = Head(requests)
  OBVIOUS
<1>2. /\ r \in Requests /\ r \in Queued /\ Queued = {r} \cup Queued'
      /\ \A q \in Queued' : q \in Requests /\ q \in Queued /\ Before(r, q)
      /\ Source' = Source /\ Sorted'
      /\ UNCHANGED <<clientVars, outbox, queue, info, changes, image>>
      /\ \A type : (Asked(type)' => Asked(type)) /\ (Asked(type) /\ r.type # type => Asked(type)')
      /\ \A b : (Creating(b)' => Creating(b)) /\ (Creating(b) /\ r.type # "create buffer" => Creating(b)')
      /\ (Leaving' => Leaving) /\ (Leaving /\ r.type # "destroy source" => Leaving')
  BY <1>1, Serving
<1>3. /\ r.type = "capture" /\ r.buffer = attempt /\ r.source = Source
      /\ attempt \in Buffers /\ Source \in Sources
      /\ Capturing
  <2>1. r.type = "capture" /\ r.buffer \in Buffers /\ r.source \in Sources
    BY <1>1, <1>2, RequestFields
  <2>2. r.buffer = attempt /\ r.source = Source
    BY <1>2, <2>1 DEF IInv, Sorted
  <2>3. Capturing
    BY <1>2, <2>1 DEF Capturing, Asked
  <2> QED
    BY <2>1, <2>2, <2>3
<1>4. task = None /\ geometry # None /\ status = "pending" /\ image[attempt] = None
      /\ (pc = "await" \/ (pc = "done" /\ result = Error("timeout") /\ Leaving))
      /\ attempt > 0 /\ (pools[attempt] # None \/ Creating(attempt))
  BY <1>3 DEF IInv, Server
<1>5. /\ task' = [source |-> Source, buffer |-> attempt]
      /\ UNCHANGED <<sources, pools, sequence, events>>
  BY <1>1, <1>3, <1>4 DEF Serve
<1>6. task' \in Tasks /\ task' # None
  BY <1>3, <1>5 DEF Tasks, WestonConstants
<1>7. ~Capturing' /\ ~Asked("create source")' /\ ~Asked("create buffer")' /\ \A b : ~Creating(b)' /\ ~Creating(b)
  <2>1. \A q \in Queued' : q.type # "capture" /\ q.type # "create source" /\ q.type # "create buffer"
    BY <1>2, <1>3 DEF Before
  <2>2. \A q \in Queued : q.type # "create buffer"
    BY <1>2, <1>3, <2>1
  <2> QED
    BY <2>1, <2>2 DEF Capturing, Asked, Creating
<1>8. pools[attempt] = geometry
  BY <1>3, <1>4, <1>7 DEF IInv, Server
<1>9. TypeOK'
  BY <1>2, <1>5, <1>6 DEF IInv, TypeOK
<1>10. Chosen'
  BY <1>2, <1>3, <1>5 DEF IInv, Chosen
<1>11. Server'
  <2>1. \A q \in Queued' : q.type = "destroy buffer" => pools'[q.buffer] # None \/ Creating(q.buffer)'
    BY <1>2, <1>5, <1>7 DEF IInv, Server
  <2>2. pc' = "await" \/ (pc' = "done" /\ result' = Error("timeout") /\ Leaving')
    BY <1>2, <1>3, <1>4
  <2> QED
    BY <1>2, <1>4, <1>5, <1>7, <1>8, <2>1, <2>2 DEF IInv, Server
<1>12. IInv'
  BY <1>1, <1>2, <1>3, <1>5, <1>9, <1>10, <1>11, Silent
<1> QED
  BY <1>2, <1>3, <1>5, <1>6, <1>7, <1>12 DEF Held

\* The compositor destroys a source, and cancels the capture of it.
LEMMA SourceDestroyed ==
  ASSUME WestonConstants, IInv, Serve, Head(requests).type = "destroy source"
  PROVE  /\ IInv' /\ UNCHANGED <<pools, image, attempt, result>>
         /\ Capturing' <=> Capturing
         /\ task' = task \/ (task' = None /\ ~Capturing)
         /\ \A b \in Buffers : Held(b)' <=> Held(b)
<1> USE DEF clientVars
<1>1. PICK r : r = Head(requests)
  OBVIOUS
<1>2. /\ r \in Requests /\ r \in Queued /\ Queued = {r} \cup Queued'
      /\ \A q \in Queued' : q \in Requests /\ q \in Queued /\ Before(r, q)
      /\ Source' = Source /\ Sorted'
      /\ UNCHANGED <<clientVars, outbox, queue, info, changes, image>>
      /\ \A type : (Asked(type)' => Asked(type)) /\ (Asked(type) /\ r.type # type => Asked(type)')
      /\ \A b : (Creating(b)' => Creating(b)) /\ (Creating(b) /\ r.type # "create buffer" => Creating(b)')
      /\ (Capturing' => Capturing) /\ (Capturing /\ r.type # "capture" => Capturing')
      /\ (Leaving' => Leaving)
  BY <1>1, Serving
<1>3. r.type = "destroy source" /\ r.source \in destroyed
  BY <1>1, <1>2 DEF IInv, Sorted
<1>4. /\ sources' = sources \ {r.source}
      /\ task' = (IF task # None /\ task.source = r.source THEN None ELSE task)
      /\ UNCHANGED <<pools, sequence, events>>
  BY <1>1, <1>3 DEF Serve
<1>5. /\ Capturing' <=> Capturing
      /\ \A b : Creating(b)' <=> Creating(b)
      /\ \A type \in {"create source", "create buffer"} : Asked(type)' <=> Asked(type)
  BY <1>2, <1>3
<1>6. task' = None \/ (task' = task /\ (task # None => r.source # Source))
  <2>1. task # None => task.source = Source
    <3>1. task # None => task = [source |-> Source, buffer |-> attempt]
      BY DEF IInv, Server
    <3> QED
      BY ONLY <3>1
  <2> QED
    BY <1>4, <2>1
<1>7. r.source # Source => (Leaving' <=> Leaving)
  BY <1>2 DEF Leaving
<1>8. r.source = Source => ~Capturing
  <2>1. r.source = Source => \A q \in Queued' : q.type = "destroy buffer"
    BY <1>2, <1>3 DEF Before
  <2> QED
    BY <1>5, <2>1 DEF Capturing, Asked
<1>9. TypeOK'
  BY <1>2, <1>4, <1>6 DEF IInv, TypeOK
<1>10. Chosen'
  <2>1. pc # "done" => r.source # Source
    BY <1>3 DEF IInv, Chosen
  <2> QED
    BY <1>2, <1>4, <1>5, <2>1 DEF IInv, Chosen
<1>11. Server'
  <2>1. \A q \in Queued' : q.type = "destroy buffer" => pools'[q.buffer] # None \/ Creating(q.buffer)'
    BY <1>2, <1>4, <1>5 DEF IInv, Server
  <2>2. task' # None \/ Capturing' =>
          /\ geometry' # None /\ image'[attempt'] = None
          /\ pc' = "await" \/ (pc' = "done" /\ result' = Error("timeout") /\ Leaving')
    BY <1>2, <1>5, <1>6, <1>7, <1>8 DEF IInv, Server
  <2>3. task' # None =>
          /\ task' = [source |-> Source', buffer |-> attempt']
          /\ attempt' > 0 /\ pools'[attempt'] = geometry' /\ status' = "pending" /\ ~Capturing'
    BY <1>2, <1>4, <1>5, <1>6 DEF IInv, Server
  <2> QED
    BY <1>2, <1>4, <1>5, <2>1, <2>2, <2>3 DEF IInv, Server
<1>12. IInv'
  BY <1>1, <1>2, <1>4, <1>6, <1>9, <1>10, <1>11, Silent
<1>13. task' = task \/ (task' = None /\ ~Capturing)
  BY <1>6 DEF IInv, Server
<1> QED
  BY <1>2, <1>4, <1>5, <1>12, <1>13 DEF Held

\* The compositor destroys a buffer: it is not on loan.
LEMMA BufferDestroyed ==
  ASSUME WestonConstants, IInv, Serve, Head(requests).type = "destroy buffer"
  PROVE  /\ IInv' /\ UNCHANGED <<task, image, attempt, result>>
         /\ Capturing' <=> Capturing
         /\ \E b \in Buffers :
              /\ b <= attempt /\ Held(b) /\ ~Held(b)'
              /\ task # None \/ Capturing => b # attempt
              /\ \A c \in Buffers \ {b} : Held(c)' <=> Held(c)
<1> USE DEF clientVars
<1>1. PICK r : r = Head(requests)
  OBVIOUS
<1>2. /\ r \in Requests /\ r \in Queued /\ Queued = {r} \cup Queued'
      /\ \A q \in Queued' : q \in Requests /\ q \in Queued /\ Before(r, q)
      /\ Source' = Source /\ Sorted'
      /\ UNCHANGED <<clientVars, outbox, queue, info, changes, image>>
      /\ \A type : (Asked(type)' => Asked(type)) /\ (Asked(type) /\ r.type # type => Asked(type)')
      /\ \A b : (Creating(b)' => Creating(b)) /\ (Creating(b) /\ r.type # "create buffer" => Creating(b)')
      /\ (Capturing' => Capturing) /\ (Capturing /\ r.type # "capture" => Capturing')
      /\ (Leaving' => Leaving) /\ (Leaving /\ r.type # "destroy source" => Leaving')
  BY <1>1, Serving
<1>3. PICK b \in Buffers : b = r.buffer
  BY <1>1, <1>2, RequestFields
<1>4. r.type = "destroy buffer" /\ b <= attempt /\ (b = attempt => pc \in {"attempt", "done"})
      /\ (pools[b] # None \/ Creating(b))
  BY <1>1, <1>2, <1>3 DEF IInv, Sorted, Server
<1>5. pools' = [pools EXCEPT ![b] = None] /\ UNCHANGED <<sources, task, sequence, events>>
  BY <1>1, <1>3, <1>4 DEF Serve
<1>6. pools \in [Buffers -> Params \cup {None}]
  BY DEF IInv, TypeOK
<1>7. /\ pools'[b] = None /\ \A c \in Buffers \ {b} : pools'[c] = pools[c]
      /\ pools' \in [Buffers -> Params \cup {None}]
  BY <1>5, <1>6
<1>8. /\ Capturing' <=> Capturing
      /\ Leaving' <=> Leaving
      /\ \A c : Creating(c)' <=> Creating(c)
      /\ \A type \in {"create source", "create buffer"} : Asked(type)' <=> Asked(type)
  BY <1>2, <1>4
<1>9. \A q \in Queued' : /\ q.type \in {"create buffer", "capture", "destroy buffer"} => b < q.buffer
                         /\ q.type = "destroy source" => result # Error("timeout") \/ b < attempt
  BY <1>2, <1>3, <1>4 DEF Before
<1>10. ~(b < b) /\ (b = attempt => ~(b < attempt))
  <2>1. b \in Nat
    BY Counting DEF IInv
  <2> QED
    BY ONLY <2>1
<1>11. ~Creating(b)' /\ ~Creating(b)
  BY <1>8, <1>9, <1>10 DEF Creating
<1>12. pc = "await" \/ task # None \/ Capturing => b # attempt
  <2> SUFFICES ASSUME task # None \/ Capturing, b = attempt PROVE FALSE
    BY <1>4
  <2>1. pc = "done" /\ result = Error("timeout") /\ Leaving'
    BY <1>4, <1>8 DEF IInv, Server
  <2>2. PICK q \in Queued' : q.type = "destroy source"
    BY <2>1 DEF Leaving
  <2> QED
    BY <1>9, <1>10, <2>1, <2>2
<1>13. TypeOK'
  BY <1>2, <1>5, <1>7 DEF IInv, TypeOK
<1>14. Chosen'
  BY <1>2, <1>5, <1>8 DEF IInv, Chosen
<1>15. Server'
  <2>1. \A c \in Buffers : pools'[c] # None =>
          c <= attempt /\ ~Creating(c)' /\ (c = attempt => pools'[c] = geometry)
    BY <1>7, <1>8 DEF IInv, Server
  <2>2. \A q \in Queued' : q.type = "destroy buffer" => pools'[q.buffer] # None \/ Creating(q.buffer)'
    <3> SUFFICES ASSUME NEW q \in Queued', q.type = "destroy buffer"
                 PROVE  pools'[q.buffer] # None \/ Creating(q.buffer)'
      OBVIOUS
    <3>1. q \in Queued /\ q.buffer \in Buffers /\ q.buffer # b
      BY <1>2, <1>9, <1>10, RequestFields
    <3>2. pools[q.buffer] # None \/ Creating(q.buffer)
      BY <3>1 DEF IInv, Server
    <3> QED
      BY <1>7, <1>8, <3>1, <3>2
  <2>3. pc = "await" \/ Capturing => attempt > 0 /\ (pools'[attempt] # None \/ Creating(attempt)')
    <3>1. attempt > 0 => attempt \in Buffers
      BY Counting DEF IInv
    <3> QED
      <4>1. pc = "await" \/ Capturing => attempt > 0 /\ (pools[attempt] # None \/ Creating(attempt))
        BY DEF IInv, Server
      <4>2. pc = "await" \/ Capturing => attempt \in Buffers \ {b}
        BY <1>12, <3>1, <4>1
      <4>3. pc = "await" \/ Capturing => pools'[attempt] = pools[attempt]
        BY <1>7, <4>2
      <4>4. Creating(attempt)' <=> Creating(attempt)
        BY <1>2, <1>8
      <4> QED
        BY <4>1, <4>3, <4>4
  <2>4. task # None => pools'[attempt] = geometry
    <3>1. attempt > 0 => attempt \in Buffers
      BY Counting DEF IInv
    <3> QED
      BY <1>7, <1>12, <3>1 DEF IInv, Server
  <2> QED
    BY <1>2, <1>5, <1>8, <2>1, <2>2, <2>3, <2>4 DEF IInv, Server
<1>16. IInv'
  BY <1>1, <1>2, <1>5, <1>8, <1>13, <1>14, <1>15, Silent
<1>17. Held(b) /\ ~Held(b)' /\ \A c \in Buffers \ {b} : Held(c)' <=> Held(c)
  BY <1>4, <1>7, <1>8, <1>11 DEF Held
<1> QED
  BY <1>2, <1>4, <1>5, <1>8, <1>12, <1>16, <1>17

-----------------------------------------------------------------------------
(* The compositor at its events *)

\* One event x is sent that announces no parameter.
LEMMA OneSent ==
  ASSUME Delivering, NEW x \in Events, x.type \notin Parameter, \A e \in Incoming : Then(e, x),
         UNCHANGED <<queue, changes, attempt, destroyed, format, size>>, events' = Append(events, x)
  PROVE  /\ Delivering' /\ Incoming' = Incoming \cup {x} /\ ToSet(events') = ToSet(events) \cup {x}
         /\ Announcing' <=> Announcing
         /\ \A v : Replayed("format", format, v) => Replayed("format", format, v)'
         /\ \A v : Replayed("size", size, v) => Replayed("size", size, v)'
<1>1. Line(<<x>>, Events, Sequel') /\ ToSet(<<x>>) = {x}
  BY LineOfOne
<1>2. PICK t : t = <<x>>
  OBVIOUS
<1>3. queue \in Seq(Events) /\ events \in Seq(Events)
  BY DEF Delivering
<1>4. Line(t, Events, Sequel') /\ ToSet(t) = {x} /\ t \in Seq(Events) /\ events' = events \o t
  <2>1. Append(events, x) = events \o <<x>>
    BY <1>3, AppendIsConcat
  <2> QED
    BY <1>1, <1>2, <2>1 DEF Line
<1>5. \A e, f : Then(e, f) => Then(e, f)'
  BY DEF Then
<1>6. \A e \in Incoming, f \in ToSet(t) : Then(e, f)'
  BY <1>4, <1>5
<1>7. Delivering' /\ Incoming' = Incoming \cup {x} /\ ToSet(events') = ToSet(events) \cup {x}
  <2>1. Delivering' /\ Incoming' = Incoming \cup ToSet(t) /\ ToSet(events') = ToSet(events) \cup ToSet(t)
    BY <1>4, <1>5, <1>6, Sent
  <2> QED
    BY <1>4, <2>1
<1>8. Announcing' <=> Announcing
  BY <1>7 DEF Announcing
<1>9. \A type \in Parameter :
        /\ \A v : Ends(events, type, destroyed, v) => Ends(events', type, destroyed, v)
        /\ Live(events, type, destroyed) = {} => Live(events', type, destroyed) = {}
  <2> SUFFICES ASSUME NEW type \in Parameter
               PROVE  /\ \A v : Ends(events, type, destroyed, v) => Ends(events', type, destroyed, v)
                      /\ Live(events, type, destroyed) = {} => Live(events', type, destroyed) = {}
    OBVIOUS
  <2>1. PICK s \in Seq(Events) : s = events
    BY <1>3
  <2>2. PICK dead : dead = destroyed
    OBVIOUS
  <2>3. ~(x.type = type /\ x.source \notin dead)
    OBVIOUS
  <2>4. /\ \A v : Ends(s, type, dead, v) => Ends(Append(s, x), type, dead, v)
        /\ Live(s, type, dead) = {} => Live(Append(s, x), type, dead) = {}
    BY <2>3, EndsAppended
  <2> QED
    BY <2>1, <2>2, <2>4
<1>10. "format" \in Parameter /\ "size" \in Parameter
  BY DEF Parameter
<1> QED
  BY <1>7, <1>8, <1>9, <1>10 DEF Replayed

\* The compositor answers the sync: nothing of negotiation follows but a change.
LEMMA SyncServed ==
  ASSUME WestonConstants, IInv, Serve, Head(requests).type = "sync"
  PROVE  /\ IInv' /\ UNCHANGED <<task, pools, image, attempt, result>>
         /\ Capturing' <=> Capturing
         /\ \A b \in Buffers : Held(b)' <=> Held(b)
<1> USE DEF clientVars
<1>1. PICK r : r = Head(requests)
  OBVIOUS
<1>2. /\ r \in Requests /\ r \in Queued /\ Queued = {r} \cup Queued'
      /\ \A q \in Queued' : q \in Requests /\ q \in Queued /\ Before(r, q)
      /\ Source' = Source /\ Sorted'
      /\ UNCHANGED <<clientVars, outbox, queue, info, changes, image>>
      /\ \A type : (Asked(type)' => Asked(type)) /\ (Asked(type) /\ r.type # type => Asked(type)')
      /\ \A b : (Creating(b)' => Creating(b)) /\ (Creating(b) /\ r.type # "create buffer" => Creating(b)')
      /\ (Capturing' => Capturing) /\ (Capturing /\ r.type # "capture" => Capturing')
      /\ (Leaving' => Leaving) /\ (Leaving /\ r.type # "destroy source" => Leaving')
  BY <1>1, Serving
<1>3. PICK x \in Events : x = Event("done", None, None) /\ x.type = "done"
  BY Sendable
<1>4. /\ r.type = "sync" /\ Asked("sync") /\ events' = Append(events, x)
      /\ UNCHANGED <<sources, task, pools, sequence>>
  BY <1>1, <1>2, <1>3 DEF Serve, Asked
<1>5. /\ Capturing' <=> Capturing
      /\ Leaving' <=> Leaving
      /\ \A b : Creating(b)' <=> Creating(b)
      /\ \A type \in {"create source", "create buffer"} : Asked(type)' <=> Asked(type)
      /\ ~Asked("sync")' /\ ~Asked("create source")
  <2>1. ~Asked("sync")' /\ ~Asked("create source")'
    BY <1>2, <1>4 DEF Before, Asked
  <2> QED
    BY <1>2, <1>4, <2>1
<1>6. TypeOK'
  BY <1>2, <1>4 DEF IInv, TypeOK
<1>7. Chosen' /\ Server'
  <2>1. Chosen'
    BY <1>2, <1>4, <1>5 DEF IInv, Chosen
  <2>2. \A q \in Queued' : q.type = "destroy buffer" => pools'[q.buffer] # None \/ Creating(q.buffer)'
    BY <1>2, <1>4, <1>5 DEF IInv, Server
  <2>3. Server'
    BY <1>2, <1>4, <1>5, <2>2 DEF IInv, Server
  <2> QED
    BY <2>1, <2>3
<1>8. CASE pc = "done"
  <2>1. Client' /\ Retries'
    BY <1>2, <1>8 DEF IInv, Client, Retries, DeliveredAsDrawn, RetryLimitJustified
  <2>2. Inbound' /\ Replay' /\ Unmixed' /\ Unchanged' /\ Synced'
    BY <1>2, <1>8 DEF Inbound, Replay, Unmixed, Unchanged, Synced
  <2> QED
    BY <1>2, <1>4, <1>5, <1>6, <1>7, <2>1, <2>2 DEF IInv, Held
<1>9. CASE pc # "done"
  <2>1. pc \notin {"create", "rejected"} /\ ~sync_done /\ \A e \in Incoming : e.type # "done"
    BY <1>4, <1>9 DEF IInv, Sorted, Synced
  <2>2. Delivering /\ x.type \notin Parameter /\ x.type \notin Outcomes
    BY <1>3, <1>9 DEF IInv, Inbound, Delivering, Parameter, Outcomes
  <2>3. \A e \in Incoming : Then(e, x)
    BY <2>1, <2>2 DEF Then
  <2>4. /\ Delivering' /\ Incoming' = Incoming \cup {x} /\ ToSet(events') = ToSet(events) \cup {x}
        /\ Announcing' <=> Announcing
        /\ \A v : Replayed("format", format, v) => Replayed("format", format, v)'
        /\ \A v : Replayed("size", size, v) => Replayed("size", size, v)'
    BY <1>2, <1>4, <2>2, <2>3, OneSent
  <2>5. /\ Answered' <=> Answered
        /\ Current => Current'
        /\ (\E e \in Incoming' : e.type = "retry") => (\E e \in Incoming : e.type = "retry")
    BY <1>2, <1>3, <2>2, <2>4 DEF Answered, Current
  <2>6. Client'
    <3>1. \A o : Tells(o)' <=> Tells(o)
      BY <1>2 DEF Tells
    <3>2. \A e \in Incoming' : e.type \in Outcomes => e \in Incoming
      BY <2>2, <2>4
    <3> QED
      BY <1>2, <1>4, <1>5, <1>9, <2>5, <3>1, <3>2 DEF IInv, Client, DeliveredAsDrawn
  <2>7. Inbound' /\ Replay'
    BY <1>2, <1>4, <1>9, <2>4 DEF IInv, Inbound, Delivering, Replay
  <2>8. Unchanged' /\ Synced'
    BY <1>2, <1>5, <2>1, <2>4, <2>5 DEF IInv, Unchanged, Synced
  <2>9. Retries'
    BY <1>2, <1>4, <1>5, <2>4, <2>5 DEF IInv, Retries, RetryLimitJustified
  <2>10. Unmixed'
    BY <1>2, <2>2, <2>4 DEF IInv, Unmixed
  <2> QED
    BY <1>2, <1>4, <1>5, <1>6, <1>7, <2>6, <2>7, <2>8, <2>9, <2>10 DEF IInv, Held
<1> QED
  BY <1>8, <1>9

\* The compositor retires the capture with outcome o.
LEMMA Retired ==
  ASSUME WestonConstants, IInv, NEW o \in Outcomes, Retire(o),
         o = "complete" => image' = [image EXCEPT ![task.buffer] = pools[task.buffer]],
         o # "complete" => UNCHANGED image,
         o = "retry" => ~Compatible /\ info[task.source] \in Params
  PROVE  /\ IInv' /\ UNCHANGED <<pools, attempt, result>> /\ task # None /\ task' = None
         /\ ~Capturing /\ ~Capturing' /\ attempt \in Buffers
         /\ \A b \in Buffers : Held(b)' <=> Held(b)
         /\ image[attempt] = None /\ \A b \in Buffers \ {attempt} : image'[b] = image[b]
<1> USE DEF clientVars
<1>1. PICK x \in Events : x = Event(o, Source, None) /\ x.type = o
  BY SourceIs, Sendable DEF IInv
<1>2. /\ task # None /\ task = [source |-> Source, buffer |-> attempt]
      /\ attempt > 0 /\ attempt \in Buffers /\ pools[attempt] = geometry /\ status = "pending" /\ ~Capturing
      /\ geometry # None /\ image[attempt] = None
      /\ (pc = "await" \/ (pc = "done" /\ result = Error("timeout") /\ Leaving))
  <2>1. task # None
    BY DEF Retire
  <2> QED
    BY <2>1, Counting DEF IInv, Server
<1>3. task.source = Source /\ task.buffer = attempt
  BY ONLY <1>2
<1>4. /\ task' = None /\ events' = Append(events, x)
      /\ UNCHANGED <<clientVars, outbox, requests, queue, info, sources, pools, sequence, changes>>
  BY <1>1, <1>3 DEF Retire
<1>5. /\ (requests \in Seq(Requests) /\ outbox \in Seq(Requests))'
      /\ Line(Wire, Requests, Order)' /\ Queued' = Queued /\ Source' = Source
      /\ \A type : Asked(type)' <=> Asked(type)
      /\ \A b : Creating(b)' <=> Creating(b)
      /\ Leaving' <=> Leaving
      /\ Capturing' <=> Capturing
  BY <1>4, SameWire
<1>6. image \in [Buffers -> Params \cup {None}] /\ geometry \in Params
  BY <1>2 DEF IInv, TypeOK
<1>7. /\ image' \in [Buffers -> Params \cup {None}]
      /\ \A b \in Buffers \ {attempt} : image'[b] = image[b]
      /\ o = "complete" => image'[attempt] = geometry
      /\ o # "complete" => image'[attempt] = None
  <2>1. CASE o = "complete"
    <3>1. image' = [image EXCEPT ![attempt] = geometry]
      BY <1>2, <1>3, <2>1
    <3> QED
      BY <1>2, <1>6, <2>1, <3>1
  <2>2. CASE o # "complete"
    BY <1>2, <1>6, <2>2
  <2> QED
    BY <2>1, <2>2
<1>8. TypeOK'
  BY <1>4, <1>7 DEF IInv, TypeOK
<1>9. Sorted' /\ Chosen'
  <2>1. Sorted'
    BY <1>4, <1>5 DEF IInv, Sorted
  <2>2. Chosen'
    BY <1>4, <1>5 DEF IInv, Chosen
  <2> QED
    BY <2>1, <2>2
<1>10. Server'
  <2>1. \A b \in Buffers : image'[b] # None => b = attempt /\ image'[b] = geometry
    BY <1>7 DEF IInv, Server
  <2> QED
    BY <1>2, <1>4, <1>5, <2>1 DEF IInv, Server
<1>11. \A b \in Buffers : Held(b)' <=> Held(b)
  BY <1>4, <1>5 DEF Held
<1>12. CASE pc = "done"
  <2>1. Client' /\ Retries'
    <3>1. result' = Error("timeout") /\ Error("timeout").type = "error"
      BY <1>2, <1>4, <1>12, ResultsDiffer
    <3> QED
      BY <1>4, <1>12, <3>1 DEF IInv, Client, Retries, DeliveredAsDrawn, RetryLimitJustified
  <2>2. Inbound' /\ Replay' /\ Unmixed' /\ Unchanged' /\ Synced'
    BY <1>4, <1>12 DEF Inbound, Replay, Unmixed, Unchanged, Synced
  <2> QED
    BY <1>2, <1>4, <1>5, <1>7, <1>8, <1>9, <1>10, <1>11, <2>1, <2>2 DEF IInv
<1>13. CASE pc = "await"
  <2>1. ~Answered /\ result = NoResult /\ result.type # "buffer"
    BY <1>2, <1>13, ResultsDiffer DEF IInv, Client
  <2>2. Delivering /\ x.type \notin Parameter /\ x.type # "done"
    BY <1>1, <1>13 DEF IInv, Inbound, Delivering, Parameter, Outcomes
  <2>3. \A e \in Incoming : Then(e, x)
    <3>1. \A e \in Incoming : e.type \notin Outcomes
      BY <2>1 DEF Answered
    <3> QED
      BY <2>2, <3>1 DEF Then, Outcomes
  <2>4. /\ Delivering' /\ Incoming' = Incoming \cup {x} /\ ToSet(events') = ToSet(events) \cup {x}
        /\ Announcing' <=> Announcing
        /\ \A v : Replayed("format", format, v) => Replayed("format", format, v)'
        /\ \A v : Replayed("size", size, v) => Replayed("size", size, v)'
    BY <1>4, <2>2, <2>3, OneSent
  <2>5. Current => Current'
    BY <1>4, <1>5, <2>2, <2>4 DEF Current, Parameter
  <2>6. Client'
    <3>1. \A e \in Incoming' : e.type \in Outcomes => e = x
      BY <2>1, <2>4 DEF Answered
    <3>2. Tells(x.type)'
      BY <1>1, <1>4, <1>7 DEF Tells
    <3>3. Tells(status)'
      BY <1>2, <1>4 DEF Tells
    <3>4. DeliveredAsDrawn'
      BY <1>4, <2>1 DEF DeliveredAsDrawn
    <3>5. \A e \in Incoming' : e.type \in Outcomes => Tells(e.type)'
      BY <3>1, <3>2
    <3> QED
      BY <1>2, <1>4, <1>5, <1>6, <1>13, <2>1, <3>3, <3>4, <3>5 DEF Client
  <2>7. Inbound' /\ Replay'
    BY <1>4, <1>5, <1>13, <2>4 DEF IInv, Inbound, Delivering, Replay
  <2>8. Unchanged' /\ Synced'
    BY <1>4, <1>5, <1>13, <2>2, <2>4, <2>5 DEF IInv, Unchanged, Synced
  <2>9. Retries'
    <3>1. o = "retry" => changes >= attempt
      <4>1. o = "retry" => geometry # info[Source] /\ info[Source] \in Params
        BY <1>2, <1>3 DEF Compatible
      <4>2. o = "retry" => ~(changes < attempt)
        BY <1>2, <1>13, <4>1 DEF IInv, Retries
      <4>3. changes \in Nat /\ attempt \in Nat
        BY Counting DEF IInv
      <4> QED
        BY <4>2, <4>3
    <3>2. \A e \in Incoming' : e.type = "retry" => o = "retry"
      BY <1>1, <2>1, <2>4 DEF Answered, Outcomes
    <3> QED
      BY <1>2, <1>4, <1>5, <1>13, <3>1, <3>2 DEF IInv, Retries, RetryLimitJustified
  <2>10. Unmixed'
    BY <1>4, <1>5, <2>2, <2>4 DEF IInv, Unmixed
  <2> QED
    BY <1>2, <1>4, <1>5, <1>7, <1>8, <1>9, <1>10, <1>11, <2>6, <2>7, <2>8, <2>9, <2>10 DEF IInv
<1> QED
  BY <1>2, <1>12, <1>13

\* A source announces that it goes from q to p.
LEMMA AnnouncementSent ==
  ASSUME Delivering, NEW source \in Sources, NEW p \in Offers, NEW q \in Offers,
         UNCHANGED <<queue, attempt>>, events' = events \o Announcement(source, p, q),
         \A e, f \in Incoming : Then(e, f) => Then(e, f)',
         \A e \in Incoming : /\ e.type = "done" => changes' # 0
                             /\ e.type = "retry" => ~(changes' <= attempt)
  PROVE  /\ Delivering' /\ Incoming \subseteq Incoming' /\ ToSet(events) \subseteq ToSet(events')
         /\ \A e \in Incoming' : e.type \notin Parameter => e \in Incoming
         /\ \A e \in Incoming' : e.type = "format" => e \in Incoming \/ e.value = p.format
         /\ \A e \in Incoming' : e.type = "size" => e \in Incoming \/ e.value = p.size
         /\ \A e \in Incoming' : e \in Incoming \/ e.source = source
         /\ \A e \in ToSet(events') : e \in ToSet(events) \/ e.source = source
         /\ Answered' <=> Answered
         /\ \A dead, v :
              /\ source \in dead \/ p.format \in {None, q.format} =>
                   Kept(events, events', "format", dead, v)
              /\ source \in dead \/ p.size \in {0, q.size} => Kept(events, events', "size", dead, v)
              /\ source \notin dead /\ p.format \notin {None, q.format} =>
                   Ends(events', "format", dead, p.format)
              /\ source \notin dead /\ p.size \notin {0, q.size} =>
                   Ends(events', "size", dead, p.size)
<1>1. PICK s \in Seq(Events) : s = events
  BY DEF Delivering
<1>2. PICK t : t = Announcement(source, p, q)
  OBVIOUS
<1>3. /\ t \in Seq(Events)
      /\ \A e \in ToSet(t) :
              /\ e \in Events /\ e.source = source
              /\ \/ e.type = "format" /\ e.value = p.format
                 \/ e.type = "size" /\ e.value = p.size
      /\ \A dead, v :
              /\ source \in dead \/ p.format \in {None, q.format} =>
                   Kept(s, s \o t, "format", dead, v)
              /\ source \in dead \/ p.size \in {0, q.size} => Kept(s, s \o t, "size", dead, v)
              /\ source \notin dead /\ p.format \notin {None, q.format} =>
                   Ends(s \o t, "format", dead, p.format)
              /\ source \notin dead /\ p.size \notin {0, q.size} =>
                   Ends(s \o t, "size", dead, p.size)
  <2>1. s \in Seq(Events) /\ source \in Sources /\ p \in Offers /\ q \in Offers
    BY <1>1
  <2>2. /\ t \in Seq(Events)
        /\ \A e \in ToSet(t) :
              /\ e \in Events /\ e.source = source
              /\ \/ e.type = "format" /\ e.value = p.format
                 \/ e.type = "size" /\ e.value = p.size
    BY ONLY <1>2, <2>1, Announcements, Z3
  <2>3. ASSUME NEW dead, NEW v
        PROVE  /\ source \in dead \/ p.format \in {None, q.format} =>
                    Kept(s, s \o t, "format", dead, v)
               /\ source \in dead \/ p.size \in {0, q.size} => Kept(s, s \o t, "size", dead, v)
    BY ONLY <1>2, <2>1, Announcements, Z3
  <2>4. ASSUME NEW dead
        PROVE  /\ source \notin dead /\ p.format \notin {None, q.format} =>
                    Ends(s \o t, "format", dead, p.format)
               /\ source \notin dead /\ p.size \notin {0, q.size} =>
                    Ends(s \o t, "size", dead, p.size)
    BY ONLY <1>2, <2>1, Announcements, Z3
  <2> QED
    BY <2>2, <2>3, <2>4
<1>4. events' = s \o t
  BY <1>1, <1>2
<1>5. \A e \in ToSet(t) : e \in Events /\ e.type \in Parameter /\ e.type \notin Outcomes /\ e.type # "done"
  BY <1>3 DEF Parameter, Outcomes
<1>6. Line(t, Events, Sequel')
  <2>1. \A i \in DOMAIN t : t[i] \in ToSet(t)
    BY DEF ToSet
  <2>2. \A e, f \in ToSet(t) : <<e, f>> \in Sequel'
    BY <1>5 DEF Sequel, Then, Outcomes
  <2> QED
    BY <1>3, <2>1, <2>2 DEF Line
<1>7. \A e \in Incoming, f \in ToSet(t) : Then(e, f)'
  BY <1>5 DEF Then
<1>8. Delivering' /\ Incoming' = Incoming \cup ToSet(t) /\ ToSet(events') = ToSet(events) \cup ToSet(t)
  BY <1>1, <1>3, <1>4, <1>6, <1>7, Sent
<1>9. Answered' <=> Answered
  BY <1>5, <1>8 DEF Answered
<1> QED
  BY <1>3, <1>4, <1>1, <1>5, <1>8, <1>9

\* The compositor creates a source, and announces what it wants.
LEMMA SourceCreated ==
  ASSUME WestonConstants, IInv, Serve, Head(requests).type = "create source"
  PROVE  /\ IInv' /\ UNCHANGED <<task, pools, image, attempt, result>>
         /\ Capturing' <=> Capturing
         /\ \A b \in Buffers : Held(b)' <=> Held(b)
<1> USE DEF clientVars
<1>1. PICK r : r = Head(requests)
  OBVIOUS
<1>2. /\ r \in Requests /\ r \in Queued /\ Queued = {r} \cup Queued'
      /\ \A q \in Queued' : q \in Requests /\ q \in Queued /\ Before(r, q)
      /\ Source' = Source /\ Sorted'
      /\ UNCHANGED <<clientVars, outbox, queue, info, changes, image>>
      /\ \A type : (Asked(type)' => Asked(type)) /\ (Asked(type) /\ r.type # type => Asked(type)')
      /\ \A b : (Creating(b)' => Creating(b)) /\ (Creating(b) /\ r.type # "create buffer" => Creating(b)')
      /\ (Capturing' => Capturing) /\ (Capturing /\ r.type # "capture" => Capturing')
      /\ (Leaving' => Leaving) /\ (Leaving /\ r.type # "destroy source" => Leaving')
  BY <1>1, Serving
<1>3. r.type = "create source" /\ r.source = Source /\ Asked("create source")
  BY <1>1, <1>2 DEF IInv, Sorted, Asked
<1>4. PICK p \in Offers : p = info[Source]
  BY SourceIs DEF IInv, TypeOK
<1>5. Nothing \in Offers /\ Nothing.format = None /\ Nothing.size = 0
  BY DEF Nothing, Offers
<1>6. /\ sources' = sources \cup {Source} /\ events' = events \o Announcement(Source, p, Nothing)
      /\ UNCHANGED <<task, pools, sequence>>
  BY <1>1, <1>3, <1>4 DEF Serve
<1>7. /\ Capturing' <=> Capturing
      /\ Leaving' <=> Leaving
      /\ \A b : Creating(b)' <=> Creating(b)
      /\ \A type \in {"sync", "create buffer"} : Asked(type)' <=> Asked(type)
      /\ ~Asked("create source")'
  <2>1. ~Asked("create source")'
    BY <1>2, <1>3 DEF Before, Asked
  <2> QED
    BY <1>2, <1>3, <2>1
<1>8. Source \in Sources
  BY SourceIs DEF IInv
<1>9. TypeOK'
  BY <1>2, <1>6, <1>8 DEF IInv, TypeOK
<1>10. Chosen'
  <2>1. \A c \in DOMAIN SourcePreference : c > candidate => SourcePreference[c] # Source
    <3>1. /\ candidate \in Nat /\ Len(SourcePreference) \in Nat
          /\ DOMAIN SourcePreference = 1 .. Len(SourcePreference)
      BY SourceIs DEF IInv
    <3>2. \A c \in DOMAIN SourcePreference : c > candidate => c # candidate
      BY ONLY <3>1
    <3> QED
      BY <3>2, SourceIs DEF IInv
  <2>2. pc # "create"
    BY <1>3 DEF IInv, Sorted
  <2> QED
    BY <1>2, <1>6, <1>7, <2>1, <2>2 DEF IInv, Chosen
<1>11. Server'
  <2>1. \A q \in Queued' : q.type = "destroy buffer" => pools'[q.buffer] # None \/ Creating(q.buffer)'
    BY <1>2, <1>6, <1>7 DEF IInv, Server
  <2> QED
    BY <1>2, <1>6, <1>7, <2>1 DEF IInv, Server
<1>12. CASE pc = "done"
  <2>1. Client' /\ Retries'
    BY <1>2, <1>12 DEF IInv, Client, Retries, DeliveredAsDrawn, RetryLimitJustified
  <2>2. Inbound' /\ Replay' /\ Unmixed' /\ Unchanged' /\ Synced'
    BY <1>2, <1>12 DEF Inbound, Replay, Unmixed, Unchanged, Synced
  <2> QED
    BY <1>2, <1>6, <1>7, <1>9, <1>10, <1>11, <2>1, <2>2 DEF IInv, Held
<1>13. CASE pc # "done"
  <2>1. /\ pc = "negotiate" \/ pc = "attempt" \/ pc = "await"
        /\ pc = "negotiate" => Asked("sync")
        /\ Source \notin destroyed
    BY <1>3, <1>13 DEF IInv, Sorted, Chosen, TypeOK, Phases
  <2>2. pc = "await" => Capturing /\ status = "pending" /\ ~Answered
    <3>1. pc = "await" => attempt > 0
      BY DEF IInv, Server
    <3>2. pc = "await" => Capturing
      BY <1>3, <3>1 DEF IInv, Server
    <3> QED
      BY <3>2 DEF IInv, Server, Client
  <2>3. pc = "attempt" => attempt = 0
    <3>1. pc = "attempt" => ~Capturing
      BY DEF IInv, Server
    <3>2. pc = "attempt" => ~(attempt > 0)
      BY <1>3, <3>1 DEF IInv, Server
    <3>3. attempt \in Nat
      BY Counting DEF IInv
    <3>4. ~(attempt > 0) => attempt = 0
      BY ONLY <3>3
    <3> QED
      BY <3>2, <3>4
  <2>4. ~Answered /\ \A e \in Incoming : e.type # "retry"
    <3>1. ~Answered
      BY <2>1, <2>2 DEF IInv, Client
    <3> QED
      BY <3>1 DEF Answered, Outcomes
  <2>5. changes = 0 => pc = "negotiate"
    BY <1>3, <2>1 DEF IInv, Unchanged
  <2>6. changes = 0 => \A e \in Incoming : e.type # "done"
    BY <1>13, <2>1, <2>5 DEF IInv, Synced
  <2>7. Delivering
    BY <1>13 DEF IInv, Inbound, Delivering
  <2>8. \A e, f \in Incoming : Then(e, f) => Then(e, f)'
    BY <1>2 DEF Then
  <2>9. /\ Delivering' /\ Incoming \subseteq Incoming' /\ ToSet(events) \subseteq ToSet(events')
        /\ \A e \in Incoming' : e.type \notin Parameter => e \in Incoming
        /\ \A e \in Incoming' : e.type = "format" => e \in Incoming \/ e.value = p.format
        /\ \A e \in Incoming' : e.type = "size" => e \in Incoming \/ e.value = p.size
        /\ \A e \in Incoming' : e \in Incoming \/ e.source = Source
        /\ \A e \in ToSet(events') : e \in ToSet(events) \/ e.source = Source
        /\ Answered' <=> Answered
        /\ \A dead : Source \notin dead /\ p.format \notin {None, Nothing.format} =>
             Ends(events', "format", dead, p.format)
        /\ \A dead : Source \notin dead /\ p.size \notin {0, Nothing.size} =>
             Ends(events', "size", dead, p.size)
    <3>1. \A e \in Incoming : /\ e.type = "done" => changes' # 0
                              /\ e.type = "retry" => ~(changes' <= attempt)
      BY <1>2, <2>4, <2>6
    <3> QED
      BY <1>2, <1>5, <1>6, <1>8, <2>7, <2>8, <3>1, AnnouncementSent
  <2>10. Client'
    <3>1. \A o : Tells(o)' <=> Tells(o)
      BY <1>2 DEF Tells
    <3>2. \A e \in Incoming' : e.type \notin Outcomes
      BY <2>4, <2>9 DEF Answered
    <3> QED
      BY <1>2, <1>6, <1>7, <1>13, <2>4, <2>9, <3>1, <3>2 DEF IInv, Client, DeliveredAsDrawn
  <2>11. Inbound'
    BY <2>9 DEF Inbound, Delivering
  <2>12. Replay'
    <3>1. p.format # None => Ends(events', "format", destroyed, p.format)
      BY <1>5, <2>1, <2>9
    <3>2. p.size # 0 => Ends(events', "size", destroyed, p.size)
      BY <1>5, <2>1, <2>9
    <3> QED
      BY <1>2, <1>4, <3>1, <3>2 DEF Replay, Replayed
  <2>13. Unchanged'
    <3> SUFFICES ASSUME changes = 0 PROVE Current' /\ ~sync_done
      BY <1>2, <1>7, <2>5 DEF Unchanged
    <3>1. ~Announcing /\ format = None /\ size = 0
      BY <1>3, <2>5 DEF IInv, Unchanged
    <3>2. Current'
      BY <1>2, <1>4, <2>9, <3>1 DEF Current, Announcing, Parameter
    <3>3. ~sync_done
      BY <1>13, <2>1, <2>5 DEF IInv, Synced
    <3> QED
      BY <3>2, <3>3
  <2>14. Synced'
    <3>1. \A e \in Incoming' : e.type = "done" => e \in Incoming
      BY <2>9 DEF Parameter
    <3> QED
      BY <1>2, <1>7, <3>1 DEF IInv, Synced
  <2>15. Retries'
    <3>1. pc = "attempt" => changes # attempt
      BY <2>3, <2>5
    <3>2. \A e \in Incoming' : e.type # "retry"
      BY <2>4, <2>9 DEF Parameter
    <3> QED
      BY <1>2, <1>6, <1>7, <2>2, <3>1, <3>2 DEF IInv, Retries, RetryLimitJustified
  <2>16. Unmixed'
    <3>1. \A e \in Incoming : changes = 0 /\ e.type \in Parameter => e.source = Source
      BY <2>1 DEF IInv, Unmixed
    <3>2. \A e \in Incoming' : changes = 0 /\ e.type \in Parameter => e.source = Source
      BY <2>9, <3>1
    <3> QED
      BY <1>2, <2>1, <3>2 DEF IInv, Unmixed
  <2> QED
    BY <1>2, <1>6, <1>7, <1>9, <1>10, <1>11, <2>10, <2>11, <2>12, <2>13, <2>14, <2>15, <2>16
      DEF IInv, Held
<1> QED
  BY <1>12, <1>13

\* A source comes to want something else: whatever was tight gives way.
LEMMA ChangeStep ==
  ASSUME WestonConstants, IInv, NEW s \in Sources, NEW p \in Offers, ChangeInfo(s, p)
  PROVE  /\ IInv' /\ UNCHANGED <<task, pools, image, attempt, result>>
         /\ Capturing' <=> Capturing
         /\ \A b \in Buffers : Held(b)' <=> Held(b)
<1> USE DEF clientVars
<1>1. PICK q \in Offers : q = info[s]
  BY DEF IInv, TypeOK
<1>2. /\ info' = [info EXCEPT ![s] = p]
      /\ events' = (IF s \in sources THEN events \o Announcement(s, p, q) ELSE events)
      /\ UNCHANGED <<clientVars, outbox, requests, queue, sources, task, pools, sequence, image>>
  BY <1>1 DEF ChangeInfo
<1>3. /\ info'[s] = p /\ (\A t \in Sources \ {s} : info'[t] = info[t])
      /\ info' \in [Sources -> Offers]
  BY <1>2 DEF IInv, TypeOK
<1>4. /\ changes' \in 0 .. MaxChanges /\ changes' = changes + 1 /\ changes' # 0
      /\ changes \in Nat /\ attempt \in Nat /\ MaxAttempts \in Nat
  <2>1. changes \in 0 .. MaxChanges /\ MaxChanges \in Nat
    BY DEF IInv, TypeOK, WestonConstants
  <2>2. changes' = changes + 1 /\ changes < MaxChanges
    BY DEF ChangeInfo
  <2>3. attempt \in Nat /\ MaxAttempts \in Nat
    BY Counting DEF IInv
  <2> QED
    BY ONLY <2>1, <2>2, <2>3
<1>5. /\ changes' <= attempt => changes <= attempt
      /\ changes >= attempt => changes' >= attempt /\ changes' # attempt /\ ~(changes' <= attempt)
      /\ changes + 1 >= attempt => changes' + 1 >= attempt /\ ~(changes' < attempt)
      /\ changes >= MaxAttempts => changes' >= MaxAttempts
  BY ONLY <1>4
<1>6. /\ (requests \in Seq(Requests) /\ outbox \in Seq(Requests))'
      /\ Line(Wire, Requests, Order)' /\ Queued' = Queued /\ Source' = Source
      /\ \A type : Asked(type)' <=> Asked(type)
      /\ \A b : Creating(b)' <=> Creating(b)
      /\ Leaving' <=> Leaving
      /\ Capturing' <=> Capturing
  BY <1>2, SameWire
<1>7. TypeOK'
  BY <1>2, <1>3, <1>4 DEF IInv, TypeOK
<1>8. Sorted' /\ Chosen' /\ Server'
  <2>1. Sorted'
    BY <1>2, <1>6 DEF IInv, Sorted
  <2>2. Chosen'
    BY <1>2, <1>6 DEF IInv, Chosen
  <2>3. Server'
    BY <1>2, <1>6 DEF IInv, Server
  <2> QED
    BY <2>1, <2>2, <2>3
<1>9. \A b \in Buffers : Held(b)' <=> Held(b)
  BY <1>2, <1>6 DEF Held
<1>10. CASE pc = "done"
  <2>1. Client' /\ Retries'
    BY <1>2, <1>5, <1>10 DEF IInv, Client, Retries, DeliveredAsDrawn, RetryLimitJustified
  <2>2. Inbound' /\ Replay' /\ Unmixed' /\ Unchanged' /\ Synced'
    BY <1>2, <1>10 DEF Inbound, Replay, Unmixed, Unchanged, Synced
  <2> QED
    BY <1>2, <1>6, <1>7, <1>8, <1>9, <2>1, <2>2 DEF IInv
<1>11. CASE pc # "done"
  <2>1. Delivering
    BY <1>11 DEF IInv, Inbound, Delivering
  <2>2. \A e, f \in Incoming : Then(e, f) => Then(e, f)'
    BY <1>2, <1>4, <1>5 DEF Then
  <2>3. \A e \in Incoming : e.type = "retry" => ~(changes' <= attempt)
    <3> SUFFICES ASSUME NEW e \in Incoming, e.type = "retry" PROVE ~(changes' <= attempt)
      OBVIOUS
    <3>1. Answered
      BY DEF Answered, Outcomes
    <3>2. pc = "await"
      BY <1>11, <3>1 DEF IInv, Client
    <3>3. changes >= attempt
      BY <3>2 DEF IInv, Retries
    <3> QED
      BY <1>5, <3>3
  <2>4. /\ Delivering' /\ (Answered' <=> Answered) /\ Incoming \subseteq Incoming'
        /\ \A e \in Incoming' : e.type \notin Parameter => e \in Incoming
        /\ \A e \in ToSet(events') : e \in ToSet(events) \/ (e.source = s /\ s \in sources)
        /\ s \notin sources => events' = events
        /\ \A dead, v :
             /\ s \in dead \/ p.format \in {None, q.format} =>
                  Kept(events, events', "format", dead, v)
             /\ s \in dead \/ p.size \in {0, q.size} => Kept(events, events', "size", dead, v)
             /\ s \in sources /\ s \notin dead /\ p.format \notin {None, q.format} =>
                  Ends(events', "format", dead, p.format)
             /\ s \in sources /\ s \notin dead /\ p.size \notin {0, q.size} =>
                  Ends(events', "size", dead, p.size)
    <3>1. CASE s \in sources
      BY <1>2, <1>4, <2>1, <2>2, <2>3, <3>1, AnnouncementSent
    <3>2. CASE s \notin sources
      <4>1. events' = events /\ Delivering' /\ Incoming' = Incoming
        BY <1>2, <2>1, <2>2, <3>2, NoneSent
      <4>2. Answered' <=> Answered
        BY <4>1 DEF Answered
      <4> QED
        BY <3>2, <4>1, <4>2 DEF Kept
    <3> QED
      BY <3>1, <3>2
  <2>5. Client'
    <3>1. \A o : Tells(o)' <=> Tells(o)
      BY <1>2 DEF Tells
    <3>2. \A e \in Incoming' : e.type \in Outcomes => e \in Incoming
      BY <2>4 DEF Outcomes, Parameter
    <3> QED
      BY <1>2, <1>6, <2>4, <3>1, <3>2 DEF IInv, Client, DeliveredAsDrawn
  <2>6. Inbound'
    BY <2>4 DEF Inbound, Delivering
  <2>7. Replay'
    <3>10. PICK w : w = info'[Source]
      OBVIOUS
    <3>11. SUFFICES ASSUME Source \in sources
                    PROVE  /\ w.format # None => Replayed("format", format, w.format)'
                           /\ w.size # 0 => Replayed("size", size, w.size)'
      <4>1. Source \in sources => (/\ w.format # None => Replayed("format", format, w.format)'
                                   /\ w.size # 0 => Replayed("size", size, w.size)')
        BY <3>11
      <4>2. PICK f, g : f = w.format /\ g = w.size
        OBVIOUS
      <4>3. Source \in sources => (/\ f # None => Replayed("format", format, f)'
                                   /\ g # 0 => Replayed("size", size, g)')
        BY <4>1, <4>2
      <4>4. pc' = pc /\ sources' = sources /\ Source' = Source
        BY <1>2, <1>6
      <4>5. f = info[Source].format' /\ g = info[Source].size'
        BY <1>6, <3>10, <4>2
      <4> QED
        BY ONLY <4>3, <4>4, <4>5 DEF Replay
    <3>1. \A v : Kept(events, events', "format", destroyed, v) /\ Replayed("format", format, v) =>
                   Replayed("format", format, v)'
      BY <1>2 DEF Kept, Replayed
    <3>2. \A v : Kept(events, events', "size", destroyed, v) /\ Replayed("size", size, v) =>
                   Replayed("size", size, v)'
      BY <1>2 DEF Kept, Replayed
    <3>3. \A v : Ends(events', "format", destroyed, v) => Replayed("format", format, v)'
      BY <1>2 DEF Replayed
    <3>4. \A v : Ends(events', "size", destroyed, v) => Replayed("size", size, v)'
      BY <1>2 DEF Replayed
    <3>5. /\ info[Source].format # None => Replayed("format", format, info[Source].format)
          /\ info[Source].size # 0 => Replayed("size", size, info[Source].size)
      BY <1>11, <3>11 DEF IInv, Replay
    <3>6. Source \in Sources /\ Source \notin destroyed
      BY <1>11, SourceIs DEF IInv, Chosen
    <3>7. CASE s = Source
      <4>1. w = p /\ info[Source] = q
        BY <1>1, <1>3, <3>7, <3>10
      <4>2. p.format # None => Replayed("format", format, p.format)'
        <5>1. CASE p.format = q.format
          BY <2>4, <3>1, <3>5, <3>11, <4>1, <5>1
        <5>2. CASE p.format # q.format
          BY <2>4, <3>3, <3>6, <3>7, <3>11, <5>2
        <5> QED
          BY <5>1, <5>2
      <4>3. p.size # 0 => Replayed("size", size, p.size)'
        <5>1. CASE p.size = q.size
          BY <2>4, <3>2, <3>5, <3>11, <4>1, <5>1
        <5>2. CASE p.size # q.size
          BY <2>4, <3>4, <3>6, <3>7, <3>11, <5>2
        <5> QED
          BY <5>1, <5>2
      <4> QED
        BY <4>1, <4>2, <4>3
    <3>8. CASE s # Source
      <4>1. w = info[Source]
        BY <1>3, <3>6, <3>8, <3>10
      <4>2. \A v : Kept(events, events', "format", destroyed, v) /\ Kept(events, events', "size", destroyed, v)
        <5>1. CASE s \in sources
          <6>1. s \in destroyed
            BY <3>8, <5>1 DEF IInv, Chosen
          <6> QED
            BY <2>4, <6>1
        <5>2. CASE s \notin sources
          BY <2>4, <5>2 DEF Kept
        <5> QED
          BY <5>1, <5>2
      <4> QED
        BY <3>1, <3>2, <3>5, <3>11, <4>1, <4>2
    <3> QED
      BY <3>7, <3>8
  <2>8. Unchanged'
    BY <1>4 DEF Unchanged
  <2>9. Synced'
    <3>1. \A e \in Incoming' : e.type = "done" => e \in Incoming
      BY <2>4 DEF Parameter
    <3> QED
      BY <1>2, <1>6, <3>1 DEF IInv, Synced
  <2>10. Retries'
    <3>1. \A e \in Incoming' : e.type = "retry" => e \in Incoming
      BY <2>4 DEF Parameter
    <3>2. pc = "attempt" => changes' >= attempt /\ changes' # attempt
      BY <1>5 DEF IInv, Retries
    <3>3. pc = "await" =>
            /\ changes' + 1 >= attempt /\ ~(changes' < attempt)
            /\ status = "retry" \/ (\E e \in Incoming' : e.type = "retry") => changes' >= attempt
            /\ status = "retry" => changes' # attempt
      BY <1>5, <3>1 DEF IInv, Retries
    <3> QED
      BY <1>2, <1>5, <1>6, <3>2, <3>3 DEF IInv, Retries, RetryLimitJustified
  <2>11. Unmixed'
    BY <1>4 DEF Unmixed
  <2> QED
    BY <1>2, <1>6, <1>7, <1>8, <1>9, <2>5, <2>6, <2>7, <2>8, <2>9, <2>10, <2>11 DEF IInv
<1> QED
  BY <1>10, <1>11

-----------------------------------------------------------------------------
(* Theorems *)

\* A step that neither lends a buffer nor ends a loan, and releases nothing.
Rests ==
  /\ UNCHANGED <<task, image, attempt, result>>
  /\ Capturing' <=> Capturing
  /\ \A b \in Buffers : Held(b)' <=> Held(b)

\* The connection is flushed, or read by whatever thread.
LEMMA ConnectionStep ==
  ASSUME WestonConstants, IInv, FlushOutbox \/ ReadEvent
  PROVE  IInv' /\ Rests /\ UNCHANGED pools /\ \A b \in Buffers : Creating(b)' <=> Creating(b)
<1>1. CASE FlushOutbox
  <2>1. /\ IInv' /\ UNCHANGED <<task, pools, image, attempt, result>> /\ (Capturing' <=> Capturing)
        /\ \A b : Creating(b)' <=> Creating(b)
    BY <1>1, FlushStep DEF FlushOutbox
  <2> QED
    BY <2>1 DEF Rests, Held
<1>2. CASE ReadEvent
  <2>1. /\ IInv' /\ UNCHANGED <<task, pools, image, attempt, result>> /\ (Capturing' <=> Capturing)
        /\ \A b : Creating(b)' <=> Creating(b)
    BY <1>2, ReadStep
  <2> QED
    BY <2>1 DEF Rests, Held
<1> QED
  BY <1>1, <1>2

\* A step of the capturing thread.
LEMMA ThreadStep == ASSUME WestonConstants, IInv, Thread PROVE IInv' /\ (Keeps \/ Lends)
<1>1. CASE Flush \/ Read
  <2>1. /\ IInv' /\ Rests /\ UNCHANGED pools /\ pc \in {"negotiate", "await"}
        /\ \A b \in Buffers : Creating(b)' <=> Creating(b)
    BY <1>1, ConnectionStep DEF Flush, Read
  <2>2. result = NoResult
    BY <2>1 DEF IInv, Client
  <2>3. result.type # "buffer" /\ result' = result
    BY <2>1, <2>2, ResultsDiffer DEF Rests
  <2> QED
    BY <2>1, <2>3 DEF Keeps, Rests
<1>2. CASE Handle
  BY <1>2, HandleStep
<1>3. CASE CreateSource
  BY <1>3, CreateSourceStep
<1>4. CASE Negotiated
  BY <1>4, NegotiatedStep
<1>5. CASE Reject
  BY <1>5, RejectStep
<1>6. CASE GiveUp
  BY <1>6, GiveUpStep
<1>7. CASE Attempt
  BY <1>7, AttemptStep
<1>8. CASE Outcome
  BY <1>8, OutcomeStep
<1>9. CASE Timeout
  BY <1>9, TimeoutStep
<1> QED
  BY <1>1, <1>2, <1>3, <1>4, <1>5, <1>6, <1>7, <1>8, <1>9 DEF Thread

\* The type of the request the compositor handles.
LEMMA FirstRequest ==
  ASSUME IInv, Serve
  PROVE  \/ Head(requests).type = "create source" \/ Head(requests).type = "destroy source"
         \/ Head(requests).type = "sync" \/ Head(requests).type = "create buffer"
         \/ Head(requests).type = "capture" \/ Head(requests).type = "destroy buffer"
<1>1. \/ Head(requests).type = "create source" \/ Head(requests).type = "sync"
      \/ Head(requests).type = "create buffer" \/ Head(requests).type = "capture"
      \/ Head(requests).type = "destroy source" \/ Head(requests).type = "destroy buffer"
  BY DEF Serve
<1> QED
  BY <1>1

\* The compositor retires the capture in progress.
LEMMA RetiredStep ==
  ASSUME WestonConstants, IInv, Complete \/ Retry \/ Fail
  PROVE  /\ IInv' /\ UNCHANGED <<pools, attempt, result>> /\ task # None /\ task' = None
         /\ ~Capturing /\ ~Capturing' /\ attempt \in Buffers
         /\ \A b \in Buffers : Held(b)' <=> Held(b)
         /\ image[attempt] = None /\ \A b \in Buffers \ {attempt} : image'[b] = image[b]
<1>1. CASE Complete
  <2>1. Retire("complete") /\ image' = [image EXCEPT ![task.buffer] = pools[task.buffer]]
    BY <1>1 DEF Complete
  <2> QED
    BY <2>1, Retired DEF Outcomes
<1>2. CASE Retry
  <2>1. Retire("retry") /\ ~Compatible /\ info[task.source] \in Params /\ UNCHANGED image
    BY <1>2 DEF Retry
  <2> QED
    BY <2>1, Retired DEF Outcomes
<1>3. CASE Fail
  <2>1. Retire("failed") /\ UNCHANGED image
    BY <1>3 DEF Fail
  <2> QED
    BY <2>1, Retired DEF Outcomes
<1> QED
  BY <1>1, <1>2, <1>3

\* A step of the compositor.
LEMMA CompositorStep == ASSUME WestonConstants, IInv, Compositor PROVE IInv'
<1>1. CASE Serve
  BY <1>1, FirstRequest, SourceCreated, SourceDestroyed, SyncServed, BufferCreated, CaptureTaken,
     BufferDestroyed
<1>2. CASE Complete \/ Retry \/ Fail
  BY <1>2, RetiredStep
<1>3. CASE \E s \in Sources, p \in Offers : ChangeInfo(s, p)
  BY <1>3, ChangeStep
<1> QED
  BY <1>1, <1>2, <1>3 DEF Compositor

\* At first nothing is under way.
LEMMA Initially == ASSUME WestonConstants, Init PROVE IInv
<1> USE DEF Init
<1>1. /\ Wire = <<>> /\ Queued = {} /\ Line(Wire, Requests, Order)
      /\ requests \in Seq(Requests) /\ outbox \in Seq(Requests)
  <2>1. <<>> \o <<>> = <<>>
    BY ConcatEmptySeq
  <2> QED
    BY <2>1, LineOfNone DEF Wire, Queued
<1>2. /\ Inbox = <<>> /\ Incoming = {} /\ Line(Inbox, Events, Sequel) /\ ToSet(queue) = {}
      /\ ToSet(events) = {}
      /\ queue \in Seq(Events) /\ events \in Seq(Events)
  <2>1. <<>> \o <<>> = <<>>
    BY ConcatEmptySeq
  <2> QED
    BY <2>1, LineOfNone DEF Inbox, Incoming
<1>3. /\ \A type : ~Asked(type)
      /\ ~Capturing /\ (\A b : ~Creating(b)) /\ ~Answered /\ ~Announcing
  BY <1>1, <1>2 DEF Asked, Capturing, Creating, Answered, Announcing
<1>4. 0 \in 0 .. MaxAttempts /\ 0 \in 0 .. MaxChanges /\ 1 \in 1 .. Len(SourcePreference)
      /\ DOMAIN SourcePreference = 1 .. Len(SourcePreference)
  <2>1. SourcePreference \in Seq(Sources) /\ SourcePreference # <<>>
    BY DEF WestonConstants
  <2>2. /\ Len(SourcePreference) \in Nat /\ Len(SourcePreference) # 0
        /\ DOMAIN SourcePreference = 1 .. Len(SourcePreference)
    BY <2>1, EmptySeq, LenProperties
  <2>3. MaxAttempts \in Nat /\ MaxChanges \in Nat
    BY DEF WestonConstants
  <2> QED
    BY <2>2, <2>3
<1>5. TypeOK
  <2>1. candidate \in DOMAIN SourcePreference
    BY <1>4
  <2>2. attempt \in 0 .. MaxAttempts /\ changes \in 0 .. MaxChanges
    BY <1>4
  <2>3. /\ [b \in Buffers |-> None] \in [Buffers -> Params \cup {None}]
    OBVIOUS
  <2> QED
    BY <2>1, <2>2, <2>3 DEF TypeOK, Phases, Statuses, Results
<1>6. Sorted
  BY <1>1, <1>3 DEF Sorted
<1>7. Chosen
  BY <1>3 DEF Chosen
<1>8. Server
  <2>1. ~(attempt > 0)
    OBVIOUS
  <2>2. \A b \in Buffers : pools[b] = None /\ image[b] = None
    OBVIOUS
  <2> QED
    BY <1>1, <1>3, <2>1, <2>2 DEF Server
<1>9. Client
  <2>1. \A b \in Buffers : image[b] = None
    OBVIOUS
  <2> QED
    BY <1>2, <1>3, <2>1, ResultsDiffer DEF Client, DeliveredAsDrawn
<1>10. Inbound /\ Replay /\ Unchanged /\ Synced /\ Unmixed
  BY <1>2, <1>3 DEF Inbound, Replay, Unchanged, Synced, Unmixed
<1>11. Retries
  BY ResultsDiffer DEF Retries, RetryLimitJustified
<1> QED
  BY <1>5, <1>6, <1>7, <1>8, <1>9, <1>10, <1>11 DEF IInv

\* Every step keeps the invariant.
LEMMA Preserved == ASSUME WestonConstants, IInv, [Next]_vars PROVE IInv'
<1>1. CASE Thread
  BY <1>1, ThreadStep
<1>2. CASE FlushByOther
  BY <1>2, ConnectionStep DEF FlushByOther
<1>3. CASE ReadByOther
  BY <1>3, ConnectionStep DEF ReadByOther
<1>4. CASE Compositor
  BY <1>4, CompositorStep
<1>5. CASE UNCHANGED vars
  BY <1>5, FlushStep DEF vars, clientVars, compositorVars
<1> QED
  BY <1>1, <1>2, <1>3, <1>4, <1>5 DEF Next

\* The capture, its connection and the compositor's objects stay in step.
THEOREM Invariant == WestonConstants => (Spec => []IInv)
<1> SUFFICES ASSUME WestonConstants PROVE Spec => []IInv
  OBVIOUS
<1>1. Init => IInv
  BY Initially
<1>2. IInv /\ [Next]_vars => IInv'
  BY Preserved
<1> QED
  BY <1>1, <1>2, PTL DEF Spec

\* The state of a capture, of its connection and of the compositor's objects
\* is well-typed (WestonState, the attempts and their buffers).
THEOREM TypeCorrect == WestonConstants => (Spec => []TypeOK)
<1> SUFFICES ASSUME WestonConstants PROVE Spec => []TypeOK
  OBVIOUS
<1>1. IInv => TypeOK
  BY DEF IInv
<1> QED
  BY <1>1, Invariant, PTL

\* The image is described with the format and size it was drawn with (the
\* locals capture() hands on, not the state the handlers go on changing).
THEOREM DrawnAsDescribed == WestonConstants => (Spec => []DeliveredAsDrawn)
<1> SUFFICES ASSUME WestonConstants PROVE Spec => []DeliveredAsDrawn
  OBVIOUS
<1>1. IInv => DeliveredAsDrawn
  BY DEF IInv, Client
<1> QED
  BY <1>1, Invariant, PTL

\* A capture is requested only when the one before has retired, in every order
\* of flushes, reads and handlers (the attempt loop of capture()).
THEOREM OneCaptureAtATime == WestonConstants => (Spec => []NoSequenceError)
<1> SUFFICES ASSUME WestonConstants PROVE Spec => []NoSequenceError
  OBVIOUS
<1>1. IInv => NoSequenceError
  BY DEF IInv, Server, NoSequenceError
<1> QED
  BY <1>1, Invariant, PTL

\* capture() gives up retrying only if the parameters changed as often as it
\* tried: a retry that a stale announcement provokes is charged to the change
\* that made it stale (MAX_ATTEMPTS).
THEOREM RetriesCostChanges == WestonConstants => (Spec => []RetryLimitJustified)
<1> SUFFICES ASSUME WestonConstants PROVE Spec => []RetryLimitJustified
  OBVIOUS
<1>1. IInv => RetryLimitJustified
  BY DEF IInv, Retries
<1> QED
  BY <1>1, Invariant, PTL

\* Unless the compositor changed parameters meanwhile, format and size of the
\* chosen source were announced by that source, whoever reads the socket: the
\* answers to a rejected candidate are all handled before it is rejected, and
\* the reset forgets them (negotiate_source).
THEOREM OneSourceAnnounced == WestonConstants => (Spec => []OneSourceUnlessChanged)
<1> SUFFICES ASSUME WestonConstants PROVE Spec => []OneSourceUnlessChanged
  OBVIOUS
<1>1. IInv => OneSourceUnlessChanged
  BY DEF IInv, Unmixed, SameSource, OneSourceUnlessChanged
<1> QED
  BY <1>1, Invariant, PTL

-----------------------------------------------------------------------------
(* The loan of a buffer *)

Loan ==
  INSTANCE BufferLoan WITH
    Buffers <- Buffers, NoBuffer <- 0,
    loan <- Lent, finished <- Finished, freed <- Released, delivered <- Delivered

\* What is lent, in terms of the requests.
LendingIs ==
  /\ task # None \/ Capturing => Lent = attempt /\ attempt # 0 /\ attempt \in Buffers
  /\ task = None /\ ~Capturing => Lent = 0
  /\ Finished = {b \in Buffers : image[b] # None}
  /\ Released = {b \in Buffers : b <= attempt /\ ~Held(b)}

\* The invariant tells what is lent.
LEMMA LentIs == WestonConstants /\ IInv => LendingIs
<1> SUFFICES ASSUME WestonConstants, IInv PROVE LendingIs
  OBVIOUS
<1> DEFINE asked == {q.buffer : q \in {r \in InFlight : r.type = "capture"}}
           lent == asked \cup (IF task = None THEN {} ELSE {task.buffer})
<1>1. InFlight = Queued
  BY DEF InFlight, Queued, Wire
<1>2. \A b \in asked : b = attempt
  BY <1>1 DEF IInv, Sorted
<1>3. asked = {} <=> ~Capturing
  BY <1>1 DEF Capturing, Asked
<1>4. task # None => task.buffer = attempt
  <2>1. task # None => task = [source |-> Source, buffer |-> attempt]
    BY DEF IInv, Server
  <2> QED
    BY <2>1
<1>5. task # None \/ Capturing => attempt # 0 /\ attempt \in Buffers
  <2>1. task # None \/ Capturing => attempt > 0
    BY DEF IInv, Server
  <2>2. /\ attempt > 0 => attempt \in Buffers
        /\ \A b \in Buffers : b \in Nat /\ b > 0
    BY Counting DEF IInv
  <2>3. \A b \in Buffers : b # 0
    BY ONLY <2>2
  <2> QED
    BY <2>1, <2>2, <2>3
<1>6. Lent = IF lent = {} THEN 0 ELSE CHOOSE b \in lent : TRUE
  BY DEF Lent
<1>7. Finished = {b \in Buffers : image[b] # None}
  BY DEF Finished
<1>8. Released = {b \in Buffers : b <= attempt /\ ~Held(b)}
  <2>1. /\ attempt \in Nat /\ MaxAttempts \in Nat /\ attempt <= MaxAttempts
    BY Counting DEF IInv
  <2>2. \A b : b \in 1 .. attempt <=> b \in 1 .. MaxAttempts /\ b <= attempt
    BY ONLY <2>1
  <2> QED
    BY <1>1, <2>2 DEF Released, Held, Creating, Buffers
<1>9. CASE task # None \/ Capturing
  <2>1. lent = {attempt}
    BY <1>2, <1>3, <1>4, <1>9
  <2> HIDE DEF lent
  <2>2. lent # {} /\ (CHOOSE b \in lent : TRUE) = attempt
    BY <2>1
  <2> QED
    BY <1>5, <1>6, <1>7, <1>8, <1>9, <2>2 DEF LendingIs
<1>10. CASE task = None /\ ~Capturing
  <2>1. lent = {}
    BY <1>3, <1>10
  <2> QED
    BY <1>6, <1>7, <1>8, <1>10, <2>1 DEF LendingIs
<1> QED
  BY <1>9, <1>10

\* The same after a step.
LEMMA LentNext == ASSUME WestonConstants PROVE IInv' => LendingIs'
<1>1. IInv => LendingIs
  BY LentIs
<1> QED
  BY <1>1, PTL

\* A step that rests is one of the loan that does nothing.
LEMMA LoanRests ==
  ASSUME WestonConstants, IInv, IInv', Rests
  PROVE  UNCHANGED <<Lent, Finished, Released, Delivered>>
<1>1. LendingIs /\ LendingIs'
  BY LentIs, LentNext
<1>2. Lent' = Lent
  BY <1>1 DEF LendingIs, Rests
<1>3. Finished' = Finished
  BY <1>1 DEF LendingIs, Rests
<1>4. Released' = Released
  BY <1>1 DEF LendingIs, Rests
<1>5. Delivered' = Delivered
  BY DEF Delivered, Rests
<1> QED
  BY <1>2, <1>3, <1>4, <1>5

\* Nothing is on loan at first.
LEMMA LoanInit == ASSUME WestonConstants, Init PROVE Loan!Init
<1>1. IInv /\ LendingIs
  BY Initially, LentIs
<1>2. pc = "create" /\ image = [b \in Buffers |-> None] /\ result = NoResult /\ attempt = 0 /\ task = None
  BY DEF Init
<1>3. ~Capturing
  <2>1. <<>> \o <<>> = <<>>
    BY ConcatEmptySeq
  <2>2. Queued = {}
    BY <2>1, LineOfNone DEF Wire, Queued, Init
  <2> QED
    BY <2>2 DEF Capturing, Asked
<1>4. Lent = 0 /\ Finished = {}
  BY <1>1, <1>2, <1>3 DEF LendingIs
<1>5. Released = {}
  <2>1. \A b \in Buffers : b \in Nat /\ b > 0
    BY <1>1, Counting DEF IInv
  <2>2. \A b \in Buffers : ~(b <= 0)
    BY ONLY <2>1
  <2> QED
    BY <1>1, <1>2, <2>2 DEF LendingIs
<1>6. Delivered = 0
  BY <1>2, ResultsDiffer DEF Delivered
<1> QED
  BY <1>4, <1>5, <1>6 DEF Loan!Init

\* A step of the compositor at most ends the loan, or releases a buffer.
LEMMA CompositorLoan ==
  ASSUME WestonConstants, IInv, IInv', Compositor
  PROVE  [Loan!Next]_(Loan!vars)
<1>1. LendingIs /\ LendingIs'
  BY LentIs, LentNext
<1>2. CASE Serve
  <2>1. UNCHANGED result /\ Delivered' = Delivered
    BY <1>2 DEF Serve, clientVars, Delivered
  <2>2. CASE \/ Head(requests).type = "create source" \/ Head(requests).type = "sync"
             \/ Head(requests).type = "create buffer"
    <3>1. Rests
      BY <1>2, <2>2, SourceCreated, SyncServed, BufferCreated DEF Rests
    <3> QED
      BY <3>1, LoanRests DEF Loan!vars
  <2>3. CASE Head(requests).type = "capture"
    <3>1. /\ Capturing /\ task' # None /\ UNCHANGED <<attempt, image>>
          /\ \A b \in Buffers : Held(b)' <=> Held(b)
      BY <1>2, <2>3, CaptureTaken
    <3>2. Lent' = Lent /\ Finished' = Finished
      BY <1>1, <3>1 DEF LendingIs
    <3>3. Released' = Released
      BY <1>1, <3>1 DEF LendingIs
    <3> QED
      BY <2>1, <3>2, <3>3 DEF Loan!vars
  <2>4. CASE Head(requests).type = "destroy source"
    <3>1. /\ UNCHANGED <<attempt, image>> /\ (Capturing' <=> Capturing)
          /\ task' = task \/ (task' = None /\ ~Capturing)
          /\ \A b \in Buffers : Held(b)' <=> Held(b)
      BY <1>2, <2>4, SourceDestroyed
    <3>2. Finished' = Finished /\ (Lent' = Lent \/ (Lent' = 0 /\ Lent # 0))
      BY <1>1, <3>1 DEF LendingIs
    <3>3. Released' = Released
      BY <1>1, <3>1 DEF LendingIs
    <3> QED
      BY <2>1, <3>2, <3>3 DEF Loan!vars, Loan!Next, Loan!Return
  <2>5. CASE Head(requests).type = "destroy buffer"
    <3>1. /\ UNCHANGED <<task, image, attempt>> /\ (Capturing' <=> Capturing)
      BY <1>2, <2>5, BufferDestroyed
    <3>2. PICK b \in Buffers :
            /\ b <= attempt /\ Held(b) /\ ~Held(b)'
            /\ task # None \/ Capturing => b # attempt
            /\ \A c \in Buffers \ {b} : Held(c)' <=> Held(c)
      BY <1>2, <2>5, BufferDestroyed
    <3>3. b # 0
      <4>1. b \in Nat /\ b > 0
        BY Counting DEF IInv
      <4> QED
        BY ONLY <4>1
    <3>4. Lent' = Lent /\ Lent # b /\ Finished' = Finished
      BY <1>1, <3>1, <3>2, <3>3 DEF LendingIs
    <3>5. b \notin Released /\ Released' = Released \cup {b}
      BY <1>1, <3>1, <3>2 DEF LendingIs
    <3> QED
      BY <2>1, <3>4, <3>5 DEF Loan!Next, Loan!Free
  <2> QED
    BY <1>2, <2>2, <2>3, <2>4, <2>5, FirstRequest
<1>3. CASE Complete \/ Retry \/ Fail
  <2>1. /\ UNCHANGED <<attempt, result>> /\ task # None /\ task' = None
        /\ ~Capturing /\ ~Capturing' /\ attempt \in Buffers
        /\ \A b \in Buffers : Held(b)' <=> Held(b)
        /\ image[attempt] = None /\ \A b \in Buffers \ {attempt} : image'[b] = image[b]
    BY <1>3, RetiredStep
  <2>2. Lent = attempt /\ Lent' = 0 /\ attempt # 0
    BY <1>1, <2>1 DEF LendingIs
  <2>3. Released' = Released
    BY <1>1, <2>1 DEF LendingIs
  <2>4. Delivered' = Delivered
    BY <2>1 DEF Delivered
  <2>5. Finished' = Finished \/ Finished' = Finished \cup {attempt}
    BY <1>1, <2>1 DEF LendingIs
  <2> QED
    BY <2>2, <2>3, <2>4, <2>5 DEF Loan!Next, Loan!Return
<1>4. CASE \E s \in Sources, p \in Offers : ChangeInfo(s, p)
  <2>1. Rests
    BY <1>4, ChangeStep DEF Rests
  <2> QED
    BY <2>1, LoanRests DEF Loan!vars
<1> QED
  BY <1>2, <1>3, <1>4 DEF Compositor

\* A step of the thread at most lends a buffer, or delivers one.
LEMMA ThreadLoan ==
  ASSUME WestonConstants, IInv, IInv', Thread
  PROVE  [Loan!Next]_(Loan!vars)
<1>1. LendingIs /\ LendingIs'
  BY LentIs, LentNext
<1>2. CASE Keeps
  <2>1. \A b \in Buffers : Held(b)' <=> Held(b)
    BY <1>2 DEF Keeps, Held
  <2>2. Lent' = Lent /\ Finished' = Finished
    BY <1>1, <1>2 DEF LendingIs, Keeps
  <2>3. Released' = Released
    BY <1>1, <1>2, <2>1 DEF LendingIs, Keeps
  <2>4. Delivered = 0
    BY <1>2 DEF Keeps, Delivered
  <2>5. CASE result'.type # "buffer"
    BY <2>2, <2>3, <2>4, <2>5 DEF Delivered, Loan!vars
  <2>6. CASE result'.type = "buffer"
    <3>1. result'.buffer \in Finished /\ Delivered' = result'.buffer /\ result'.buffer \in Buffers
      BY <1>1, <1>2, <2>6 DEF LendingIs, Keeps, Delivered
    <3> QED
      BY <2>2, <2>3, <2>4, <3>1 DEF Loan!Next, Loan!Deliver
  <2> QED
    BY <2>5, <2>6
<1>3. CASE Lends
  <2>1. PICK n \in Buffers : n = attempt'
    BY <1>3 DEF Lends
  <2>2. /\ attempt \in Nat /\ n = attempt + 1 /\ \A b \in Buffers : b \in Nat
    BY <1>3, <2>1, Counting DEF Lends, IInv
  <2>3. ~(n <= attempt) /\ \A b \in Buffers : b <= n <=> b <= attempt \/ b = n
    BY ONLY <2>2
  <2>4. Lent = 0 /\ Lent' = n /\ n \notin Finished /\ Finished' = Finished
    BY <1>1, <1>3, <2>1 DEF LendingIs, Lends
  <2>5. n \notin Released
    BY <1>1, <2>3 DEF LendingIs
  <2>6. Released' = Released
    <3>1. Held(n)' /\ \A b \in Buffers \ {n} : Held(b)' <=> Held(b)
      BY <1>3, <2>1 DEF Lends, Held
    <3>2. Released' = {b \in Buffers : b <= n /\ ~Held(b)'}
      BY <1>1, <2>1 DEF LendingIs
    <3>3. Released = {b \in Buffers : b <= attempt /\ ~Held(b)}
      BY <1>1 DEF LendingIs
    <3> QED
      BY <2>3, <3>1, <3>2, <3>3
  <2>7. Delivered' = Delivered /\ Delivered = 0
    BY <1>3 DEF Lends, Delivered
  <2> QED
    BY <2>4, <2>5, <2>6, <2>7 DEF Loan!Next, Loan!Lend
<1> QED
  BY <1>2, <1>3, ThreadStep

\* A step is one of the loan, or does not touch it.
LEMMA StepLoan ==
  ASSUME WestonConstants, IInv, IInv', [Next]_vars
  PROVE  [Loan!Next]_(Loan!vars)
<1>1. CASE Thread
  BY <1>1, ThreadLoan
<1>2. CASE FlushByOther \/ ReadByOther
  <2>1. Rests
    BY <1>2, ConnectionStep DEF FlushByOther, ReadByOther
  <2> QED
    BY <2>1, LoanRests DEF Loan!vars
<1>3. CASE Compositor
  BY <1>3, CompositorLoan
<1>4. CASE UNCHANGED vars
  <2>1. UNCHANGED <<Lent, Finished, Released, Delivered>>
    BY <1>4 DEF vars, Lent, Finished, Released, Delivered, InFlight
  <2> QED
    BY <2>1 DEF Loan!vars
<1> QED
  BY <1>1, <1>2, <1>3, <1>4 DEF Next

\* A capture by weston_capture_v1 keeps the promise of every backend: the buffer
\* of an attempt is released only when it is not on loan, also when the deadline
\* abandons the capture (the order of the guards in capture()), and only a
\* complete image is delivered.
THEOREM KeepsTheLoan == WestonConstants => (Spec => Loan!Spec)
<1> SUFFICES ASSUME WestonConstants PROVE Spec => Loan!Spec
  OBVIOUS
<1>1. Init => Loan!Init
  BY LoanInit
<1>2. IInv /\ IInv' /\ [Next]_vars => [Loan!Next]_(Loan!vars)
  BY StepLoan
<1> QED
  BY <1>1, <1>2, Invariant, PTL DEF Spec, Loan!Spec

-----------------------------------------------------------------------------
(* What a capture leaves behind *)

\* The requests that create and destroy a source, and that destroy a buffer.
Opening(s) == \E q \in Queued : q.type = "create source" /\ q.source = s
Closing(s) == \E q \in Queued : q.type = "destroy source" /\ q.source = s
Dropping(b) == \E q \in Queued : q.type = "destroy buffer" /\ q.buffer = b

\* Every object that the compositor has, or will have, is one that the capture still
\* uses, or its destruction is under way behind whatever creates it.
Owned ==
  /\ \A s \in Sources : s \in sources \/ Opening(s) => (s = Source /\ pc # "done") \/ Closing(s)
  /\ \A b \in Buffers : pools[b] # None \/ Creating(b) => (b = attempt /\ pc = "await") \/ Dropping(b)

\* Nothing is created, and what was under way still is.
LEMMA OwnedKept ==
  ASSUME Owned, Queued' = Queued,
         UNCHANGED <<candidate, attempt, sources, pools>>,
         pc # "done" => pc' # "done", pc = "await" => pc' = "await"
  PROVE  Owned'
<1>1. Source' = Source
  BY DEF Source
<1> QED
  BY <1>1 DEF Owned, Opening, Closing, Dropping, Creating

\* The requests t are issued, in whatever order.
LEMMA Behind ==
  ASSUME Sorted, NEW t \in Seq(Requests), requests' = requests, outbox' = outbox \o t
  PROVE  Queued' = Queued \cup ToSet(t)
<1>1. requests \in Seq(Requests) /\ outbox \in Seq(Requests)
  BY DEF Sorted
<1>2. PICK u \in Seq(Requests) : u = outbox \o t
  BY <1>1, ConcatProperties
<1>3. ToSet(requests \o u) = ToSet(requests) \cup ToSet(u)
  BY <1>1, JoinedMembers
<1>4. ToSet(outbox \o t) = ToSet(outbox) \cup ToSet(t)
  BY <1>1, JoinedMembers
<1>5. ToSet(requests \o outbox) = ToSet(requests) \cup ToSet(outbox)
  BY <1>1, JoinedMembers
<1> QED
  BY <1>2, <1>3, <1>4, <1>5 DEF Queued, Wire

\* The same of one request.
LEMMA BehindOne ==
  ASSUME Sorted, NEW c \in Requests, requests' = requests, outbox' = outbox \o <<c>>
  PROVE  Queued' = Queued \cup {c}
<1>1. ToSet(<<c>>) = {c} /\ <<c>> \in Seq(Requests)
  <2>1. Line(<<c>>, Requests, Requests \X Requests) /\ ToSet(<<c>>) = {c}
    BY LineOfOne
  <2> QED
    BY <2>1 DEF Line
<1> QED
  BY <1>1, Behind

\* The same of two.
LEMMA BehindTwo ==
  ASSUME Sorted, NEW c \in Requests, NEW d \in Requests,
         requests' = requests, outbox' = outbox \o <<c, d>>
  PROVE  Queued' = Queued \cup {c, d}
<1>1. ToSet(<<c, d>>) = {c, d} /\ <<c, d>> \in Seq(Requests)
  <2>1. <<c, d>> \in Requests \X Requests
    OBVIOUS
  <2>2. Line(<<c, d>>, Requests, Requests \X Requests) /\ ToSet(<<c, d>>) = {c, d}
    BY <2>1, LineOfTwo
  <2> QED
    BY <2>2 DEF Line
<1> QED
  BY <1>1, Behind

\* The source of the capture is destroyed, and its buffer if it has lent one.
LEMMA OwnedClosed ==
  ASSUME Owned, NEW D, Queued' = Queued \cup D, UNCHANGED <<attempt, sources, pools>>,
         \A q \in D : q.type = "destroy source" \/ q.type = "destroy buffer",
         \E q \in D : q.type = "destroy source" /\ q.source = Source,
         pc = "await" => \E q \in D : q.type = "destroy buffer" /\ q.buffer = attempt
  PROVE  Owned'
<1>1. ASSUME NEW s \in Sources, s \in sources' \/ Opening(s)'
      PROVE  Closing(s)'
  <2>1. s \in sources \/ Opening(s)
    BY <1>1 DEF Opening
  <2>2. s = Source \/ Closing(s)
    BY <2>1 DEF Owned
  <2> QED
    BY <2>2 DEF Closing
<1>2. ASSUME NEW b \in Buffers, pools'[b] # None \/ Creating(b)'
      PROVE  Dropping(b)'
  <2>1. pools[b] # None \/ Creating(b)
    BY <1>2 DEF Creating
  <2>2. (b = attempt /\ pc = "await") \/ Dropping(b)
    BY <2>1 DEF Owned
  <2> QED
    BY <2>2 DEF Dropping
<1> QED
  BY <1>1, <1>2 DEF Owned

\* The compositor takes the next request: an object that it creates was accounted for,
\* and one that it destroys is not created again.
LEMMA OwnedServed == ASSUME WestonConstants, IInv, Owned, Serve PROVE Owned'
<1>1. PICK h : h = Head(requests)
  OBVIOUS
<1>2. /\ requests # <<>> /\ requests' = Tail(requests)
      /\ UNCHANGED <<outbox, result, attempt, candidate, pc>>
  BY DEF Serve, clientVars
<1>3. /\ h \in Requests /\ Queued = {h} \cup Queued'
      /\ \A q \in Queued' : q \in Requests /\ Before(h, q)
  BY <1>1, <1>2, Served DEF IInv
<1>4. Source' = Source
  BY <1>2 DEF Source
<1>5. ASSUME UNCHANGED <<sources, pools>>,
             h.type \notin {"create source", "create buffer", "destroy source", "destroy buffer"}
      PROVE  Owned'
  <2>1. /\ \A s : (Opening(s)' <=> Opening(s)) /\ (Closing(s)' <=> Closing(s))
        /\ \A b : (Creating(b)' <=> Creating(b)) /\ (Dropping(b)' <=> Dropping(b))
    BY <1>3, <1>5 DEF Opening, Closing, Creating, Dropping
  <2> QED
    BY <1>2, <1>4, <1>5, <2>1 DEF Owned
<1>6. CASE h.type = "create source" /\ sources' = sources \cup {h.source} /\ UNCHANGED pools
  <2>1. /\ \A s : (Opening(s) <=> s = h.source \/ Opening(s)') /\ (Closing(s)' <=> Closing(s))
        /\ \A b : (Creating(b)' <=> Creating(b)) /\ (Dropping(b)' <=> Dropping(b))
    BY <1>3, <1>6 DEF Opening, Closing, Creating, Dropping
  <2> QED
    BY <1>2, <1>4, <1>6, <2>1 DEF Owned
<1>7. CASE h.type = "create buffer" /\ pools' = [pools EXCEPT ![h.buffer] = h.params] /\ UNCHANGED sources
  <2>1. /\ \A s : (Opening(s)' <=> Opening(s)) /\ (Closing(s)' <=> Closing(s))
        /\ \A b : (Creating(b) <=> b = h.buffer \/ Creating(b)') /\ (Dropping(b)' <=> Dropping(b))
    BY <1>3, <1>7 DEF Opening, Closing, Creating, Dropping
  <2>2. \A b \in Buffers : pools'[b] # None => pools[b] # None \/ b = h.buffer
    BY <1>7 DEF IInv, TypeOK
  <2> QED
    BY <1>2, <1>4, <1>7, <2>1, <2>2 DEF Owned
<1>8. CASE h.type = "destroy source" /\ sources' = sources \ {h.source} /\ UNCHANGED pools
  <2>1. /\ \A s : (Opening(s)' <=> Opening(s)) /\ (Closing(s) <=> s = h.source \/ Closing(s)')
        /\ \A b : (Creating(b)' <=> Creating(b)) /\ (Dropping(b)' <=> Dropping(b))
    BY <1>3, <1>8 DEF Opening, Closing, Creating, Dropping
  <2>2. \A q \in Queued' : q.type = "create source" => q.source = Source /\ h.source # Source
    <3>1. \A q \in Queued : q.type = "create source" => q.source = Source
      BY DEF IInv, Sorted
    <3>2. \A q \in Queued' : q.type = "create source" => Before(h, q)
      BY <1>3
    <3>3. \A q : q.type = "create source" /\ Before(h, q) => h.source # Source
      BY <1>8 DEF Before
    <3> QED
      BY <1>3, <3>1, <3>2, <3>3
  <2>3. h.source \notin sources' /\ ~Opening(h.source)'
    BY <1>8, <2>2 DEF Opening
  <2> QED
    BY <1>2, <1>4, <1>8, <2>1, <2>3 DEF Owned
<1>9. CASE h.type = "destroy buffer" /\ pools' = [pools EXCEPT ![h.buffer] = None] /\ UNCHANGED sources
  <2>1. /\ \A s : (Opening(s)' <=> Opening(s)) /\ (Closing(s)' <=> Closing(s))
        /\ \A b : (Creating(b)' <=> Creating(b)) /\ (Dropping(b) <=> b = h.buffer \/ Dropping(b)')
    BY <1>3, <1>9 DEF Opening, Closing, Creating, Dropping
  <2>2. h.buffer \in Buffers /\ h.buffer \in Nat
    BY <1>3, <1>9, RequestFields, Counting DEF IInv
  <2>3. ~Creating(h.buffer)'
    <3>1. PICK n \in Nat : n = h.buffer
      BY <2>2
    <3>2. ~ (n < n)
      OBVIOUS
    <3>3. ~ (h.buffer < h.buffer)
      BY <3>1, <3>2, Zenon
    <3>4. \A q \in Queued' : q.type = "create buffer" => h.buffer < q.buffer
      BY <1>3, <1>9 DEF Before
    <3>5. \A q \in Queued' : ~(q.type = "create buffer" /\ q.buffer = h.buffer)
      BY <3>3, <3>4, Zenon
    <3> QED
      BY <3>5, Zenon DEF Creating
  <2>4. /\ pools'[h.buffer] = None
        /\ \A b \in Buffers : b # h.buffer => pools'[b] = pools[b]
    BY <1>9, <2>2 DEF IInv, TypeOK
  <2> QED
    BY <1>2, <1>4, <1>9, <2>1, <2>3, <2>4 DEF Owned
<1>10. \/ UNCHANGED <<sources, pools>> /\ (h.type = "sync" \/ h.type = "capture")
       \/ h.type = "create source" /\ sources' = sources \cup {h.source} /\ UNCHANGED pools
       \/ h.type = "create buffer" /\ pools' = [pools EXCEPT ![h.buffer] = h.params] /\ UNCHANGED sources
       \/ h.type = "destroy source" /\ sources' = sources \ {h.source} /\ UNCHANGED pools
       \/ h.type = "destroy buffer" /\ pools' = [pools EXCEPT ![h.buffer] = None] /\ UNCHANGED sources
  BY <1>1 DEF Serve
<1> QED
  BY <1>5, <1>6, <1>7, <1>8, <1>9, <1>10

\* A step of the capturing thread that issues requests.
LEMMA OwnedIssued ==
  ASSUME WestonConstants, IInv, Owned, CreateSource \/ Reject \/ GiveUp \/ Attempt \/ Outcome \/ Timeout
  PROVE  Owned'
<1> USE DEF compositorVars
<1>1. PICK s : s = DestroySource
  OBVIOUS
<1>2. PICK d : d = DestroyBuffer
  OBVIOUS
<1>3. /\ s.type = "destroy source" /\ s.source = Source /\ s \in Requests
      /\ d.type = "destroy buffer" /\ d.buffer = attempt
      /\ pc = "await" => d \in Requests
  <2>1. Source \in Sources
    BY SourceIs DEF IInv
  <2>2. pc = "await" => attempt \in Buffers
    BY Counting DEF IInv, Server
  <2> QED
    BY <1>1, <1>2, <2>1, <2>2, Known, Destroying DEF DestroySource, DestroyBuffer
<1>4. Sorted
  BY DEF IInv
<1>5. ASSUME pc # "await", requests' = requests, outbox' = outbox \o <<s>>,
             UNCHANGED <<attempt, sources, pools>>
      PROVE  Owned'
  <2>1. Queued' = Queued \cup {s}
    BY <1>3, <1>4, <1>5, BehindOne
  <2> QED
    BY <1>3, <1>5, <2>1, OwnedClosed
<1>6. ASSUME pc = "await", requests' = requests,
             outbox' = outbox \o <<s, d>> \/ outbox' = outbox \o <<d, s>>,
             UNCHANGED <<attempt, sources, pools>>
      PROVE  Owned'
  <2>1. s \in Requests /\ d \in Requests
    BY <1>3, <1>6
  <2>2. ASSUME outbox' = outbox \o <<s, d>>
        PROVE  Queued' = Queued \cup {s, d}
    BY <1>4, <1>6, <2>1, <2>2, BehindTwo
  <2>3. ASSUME outbox' = outbox \o <<d, s>>
        PROVE  Queued' = Queued \cup {d, s}
    BY <1>4, <1>6, <2>1, <2>3, BehindTwo
  <2>4. Queued' = Queued \cup {s, d} \/ Queued' = Queued \cup {d, s}
    BY <1>6, <2>2, <2>3
  <2> QED
    BY <1>3, <1>6, <2>4, OwnedClosed
<1>7. CASE CreateSource
  <2>1. PICK c : c = [type |-> "create source", source |-> Source]
    OBVIOUS
  <2>2. PICK e : e = [type |-> "sync"]
    OBVIOUS
  <2>3. /\ pc = "create" /\ pc' = "negotiate" /\ requests' = requests /\ outbox' = outbox \o <<c, e>>
        /\ UNCHANGED <<candidate, attempt, sources, pools>>
    BY <1>7, <2>1, <2>2 DEF CreateSource, CreateFrame, Issue
  <2>4. c \in Requests /\ e \in Requests /\ c.type = "create source" /\ c.source = Source /\ e.type = "sync"
    BY <2>1, <2>2, Known, SourceIs DEF IInv
  <2>5. Queued' = Queued \cup {c, e} /\ Source' = Source
    BY <1>4, <2>3, <2>4, BehindTwo DEF Source
  <2>6. /\ \A r : (Opening(r)' => r = Source \/ Opening(r)) /\ (Closing(r)' <=> Closing(r))
        /\ \A b : (Creating(b)' <=> Creating(b)) /\ (Dropping(b)' <=> Dropping(b))
    BY <2>4, <2>5 DEF Opening, Closing, Creating, Dropping
  <2> QED
    BY <2>3, <2>5, <2>6 DEF Owned
<1>8. CASE Attempt
  <2>1. PICK c : c = [type |-> "create buffer", buffer |-> attempt', params |-> geometry']
    OBVIOUS
  <2>2. PICK e : e = [type |-> "capture", source |-> Source, buffer |-> attempt']
    OBVIOUS
  <2>3. /\ pc = "attempt" /\ pc' = "await" /\ requests' = requests /\ outbox' = outbox \o <<c, e>>
        /\ attempt' = attempt + 1 /\ geometry' = [format |-> format, size |-> size]
        /\ Refusals = {"no memory"}
        /\ UNCHANGED <<candidate, sources, pools>>
    BY <1>8, <2>1, <2>2 DEF Attempt, Issue
  <2>4. attempt' \in Buffers /\ geometry' \in Params /\ Source \in Sources
    <3>1. attempt # MaxAttempts /\ format # None /\ size # 0
      BY <2>3 DEF Refusals
    <3>2. PICK n \in Nat : n = attempt
      BY Counting DEF IInv
    <3>3. PICK m \in Nat : m = MaxAttempts
      BY Counting DEF IInv
    <3>4. n <= m /\ n # m
      BY <3>1, <3>2, <3>3, Counting DEF IInv
    <3>5. n + 1 \in 1 .. m
      BY <3>4
    <3>6. attempt' \in Buffers
      BY <2>3, <3>2, <3>3, <3>5 DEF Buffers
    <3> QED
      BY <2>3, <3>1, <3>6, SourceIs DEF IInv, TypeOK, Params
  <2>5. /\ c \in Requests /\ e \in Requests
        /\ c.type = "create buffer" /\ c.buffer = attempt' /\ e.type = "capture"
    BY <2>1, <2>2, <2>4, Known
  <2>6. Queued' = Queued \cup {c, e} /\ Source' = Source
    BY <1>4, <2>3, <2>5, BehindTwo DEF Source
  <2>7. /\ \A r : (Opening(r)' <=> Opening(r)) /\ (Closing(r)' <=> Closing(r))
        /\ \A b : (Creating(b)' => b = attempt' \/ Creating(b)) /\ (Dropping(b)' <=> Dropping(b))
    BY <2>5, <2>6 DEF Opening, Closing, Creating, Dropping
  <2> QED
    BY <2>3, <2>6, <2>7 DEF Owned
<1>9. CASE Reject
  BY <1>1, <1>5, <1>9 DEF Reject, Issue
<1>10. CASE GiveUp
  BY <1>1, <1>5, <1>10 DEF GiveUp, Return, Issue
<1>11. CASE Timeout
  <2>1. CASE pc = "negotiate"
    BY <1>1, <1>5, <1>11, <2>1 DEF Timeout, Return, Issue
  <2>2. CASE pc = "await"
    BY <1>1, <1>2, <1>6, <1>11, <2>2 DEF Timeout, Return, Issue
  <2> QED
    BY <1>11, <2>1, <2>2 DEF Timeout
<1>12. CASE Outcome
  <2>1. /\ pc = "await" /\ requests' = requests
        /\ UNCHANGED <<candidate, attempt, sources, pools>>
    BY <1>12 DEF Outcome
  <2>2. CASE outbox' = outbox \o <<d, s>>
    BY <1>6, <2>1, <2>2
  <2>3. CASE outbox' = outbox \o <<d>> /\ pc' = "attempt"
    <3>1. Queued' = Queued \cup {d} /\ Source' = Source
      BY <1>3, <1>4, <2>1, <2>3, BehindOne DEF Source
    <3>2. /\ \A r : (Opening(r)' <=> Opening(r)) /\ (Closing(r)' <=> Closing(r))
          /\ \A b : (Creating(b)' <=> Creating(b)) /\ (Dropping(b)' <=> b = attempt \/ Dropping(b))
      BY <1>3, <3>1 DEF Opening, Closing, Creating, Dropping
    <3> QED
      BY <2>1, <2>3, <3>1, <3>2 DEF Owned
  <2> QED
    BY <1>1, <1>2, <1>12, <2>2, <2>3 DEF Outcome, Completed, Return, Issue
<1> QED
  BY <1>7, <1>8, <1>9, <1>10, <1>11, <1>12

\* Every step keeps the accounts of the objects.
LEMMA OwnedStep == ASSUME WestonConstants, IInv, Owned, [Next]_vars PROVE Owned'
<1> USE DEF clientVars, compositorVars
<1>1. ASSUME UNCHANGED <<candidate, attempt, result, sources, pools>>,
             pc # "done" => pc' # "done", pc = "await" => pc' = "await",
             UNCHANGED <<requests, outbox>> \/ (requests' = requests \o outbox /\ outbox' = <<>>)
      PROVE  Owned'
  <2>1. Queued' = Queued
    BY <1>1, SameWire
  <2> QED
    BY <1>1, <2>1, OwnedKept
<1>2. CASE Flush \/ Read \/ FlushByOther \/ ReadByOther
  BY <1>1, <1>2 DEF Flush, Read, FlushByOther, ReadByOther, FlushOutbox, ReadEvent
<1>3. CASE Handle \/ Negotiated
  BY <1>1, <1>3 DEF Handle, Negotiated
<1>4. CASE Complete \/ Retry \/ Fail
  BY <1>1, <1>4 DEF Complete, Retry, Fail, Retire
<1>5. CASE \E r \in Sources, p \in Offers : ChangeInfo(r, p)
  BY <1>1, <1>5 DEF ChangeInfo
<1>6. CASE UNCHANGED vars
  BY <1>1, <1>6 DEF vars
<1> QED
  BY <1>2, <1>3, <1>4, <1>5, <1>6, OwnedIssued, OwnedServed DEF Next, Thread, Compositor

\* When a capture is over and none of its requests is under way, the compositor has
\* no object of it (the guards of capture(), on every way out of it).
LeavesNothing == pc = "done" /\ InFlight = {} => NothingHeld

\* The accounts of a capture that is over.
LEMMA NothingOwned == ASSUME IInv, Owned PROVE LeavesNothing
<1> SUFFICES ASSUME pc = "done", InFlight = {}
             PROVE  NothingHeld
  BY DEF LeavesNothing
<1>1. Queued = {}
  BY OnTheWire DEF IInv
<1>2. /\ \A s : ~Closing(s)
      /\ \A b : ~Dropping(b)
      /\ ~Capturing /\ ~Leaving
  BY <1>1 DEF Closing, Dropping, Capturing, Asked, Leaving
<1>3. sources = {}
  BY <1>2 DEF Owned, IInv, TypeOK
<1>4. \A b \in Buffers : pools[b] = None
  BY <1>2 DEF Owned
<1>5. task = None
  BY <1>2 DEF IInv, Server
<1> QED
  BY <1>3, <1>4, <1>5 DEF NothingHeld

\* Nothing exists before the first request.
LEMMA OwnedInitially == ASSUME WestonConstants, Init PROVE Owned
<1>1. Queued = {}
  <2>1. Wire = <<>>
    BY DEF Init, Wire
  <2> QED
    BY <2>1, LineOfNone DEF Queued
<1> QED
  BY <1>1 DEF Init, Owned, Opening, Creating

\* No way out of a capture forgets an object, whatever is refused, rejected, retried or
\* abandoned: what NothingLeft promises in the end needs only that the requests under
\* way are flushed and handled (Guard in mod.rs, destroy_now).
THEOREM NothingForgotten == WestonConstants => (Spec => []LeavesNothing)
<1> SUFFICES ASSUME WestonConstants PROVE Spec => []LeavesNothing
  OBVIOUS
<1>1. Init => Owned
  BY OwnedInitially
<1>2. IInv /\ Owned /\ [Next]_vars => Owned'
  BY OwnedStep
<1>3. IInv /\ Owned => LeavesNothing
  BY NothingOwned
<1> QED
  BY <1>1, <1>2, <1>3, Invariant, PTL DEF Spec
================================================================================
