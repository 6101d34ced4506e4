---------------------------- MODULE CaptureOnProofs ----------------------------
(***************************************************************************)
(* A capture keeps the promise of BufferLoan, describes its image as it    *)
(* was drawn and fails for a reason, whichever backend performs it.        *)
(*                                                                         *)
(* Each backend has its own invariant, of how far the compositor is behind *)
(* the client: that of weston is in WestonCaptureProofs, those of agl and  *)
(* wlr are here.  The selection never changes, so the invariant of the     *)
(* composition (IInv, at the end) is that of the selected backend.         *)
(***************************************************************************)
EXTENDS CaptureOn, SequencesExt, SequenceTheorems, TLAPS

-----------------------------------------------------------------------------
(* Sequences *)

\* What Append does to the places of a sequence.
LEMMA Appended ==
  ASSUME NEW S, NEW s \in Seq(S), NEW e \in S
  PROVE  /\ Append(s, e) \in Seq(S)
         /\ Len(s) \in Nat /\ DOMAIN s = 1 .. Len(s)
         /\ Len(Append(s, e)) = Len(s) + 1 /\ DOMAIN Append(s, e) = 1 .. Len(s) + 1
         /\ \A i \in 1 .. Len(s) : Append(s, e)[i] = s[i]
         /\ Append(s, e)[Len(s) + 1] = e
OBVIOUS

\* What taking the first element away does to them.
LEMMA Taken ==
  ASSUME NEW S, NEW s \in Seq(S), s # <<>>
  PROVE  /\ Tail(s) \in Seq(S) /\ Head(s) = s[1] /\ s[1] \in S
         /\ Len(s) \in Nat \ {0} /\ DOMAIN s = 1 .. Len(s)
         /\ Len(Tail(s)) = Len(s) - 1 /\ DOMAIN Tail(s) = 1 .. Len(s) - 1
         /\ \A i \in 1 .. Len(s) - 1 : Tail(s)[i] = s[i + 1]
<1>1. Len(s) \in Nat \ {0} /\ DOMAIN s = 1 .. Len(s) /\ s[1] \in S
  OBVIOUS
<1>2. Tail(s) \in Seq(S) /\ Len(Tail(s)) = Len(s) - 1
  BY HeadTailProperties
<1>3. \A i \in 1 .. Len(s) - 1 : Tail(s)[i] = s[i + 1]
  BY <1>2, HeadTailProperties
<1>4. DOMAIN Tail(s) = 1 .. Len(s) - 1
  BY <1>2
<1>5. Head(s) = s[1]
  OBVIOUS
<1> QED
  BY <1>1, <1>2, <1>3, <1>4, <1>5

\* The empty sequence.
LEMMA NoPlace == DOMAIN <<>> = {} /\ Len(<<>>) = 0
<1>1. Len(<<>>) = 0
  OBVIOUS
<1>2. \A i \in DOMAIN <<>> : FALSE
  OBVIOUS
<1> QED
  BY <1>1, <1>2

\* A sequence of one element.
LEMMA OnePlace ==
  ASSUME NEW S, NEW d \in S
  PROVE  /\ <<d>> \in Seq(S) /\ 1 \in DOMAIN <<d>> /\ <<d>>[1] = d
         /\ \A i \in DOMAIN <<d>> : i = 1
         /\ \A i, j \in DOMAIN <<d>> : ~(i < j)
<1>1. <<d>> \in Seq(S) /\ <<d>>[1] = d
  OBVIOUS
<1>2. DOMAIN <<d>> = 1 .. 1
  OBVIOUS
<1>3. 1 \in 1 .. 1 /\ (\A i \in 1 .. 1 : i = 1) /\ (\A i, j \in 1 .. 1 : ~(i < j))
  OBVIOUS
<1> QED
  BY ONLY <1>1, <1>2, <1>3

\* A sequence of two.
LEMMA TwoPlaces ==
  ASSUME NEW S, NEW d \in S, NEW e \in S
  PROVE  /\ <<d, e>> \in Seq(S)
         /\ 1 \in DOMAIN <<d, e>> /\ <<d, e>>[1] = d
         /\ 2 \in DOMAIN <<d, e>> /\ <<d, e>>[2] = e
         /\ \A i \in DOMAIN <<d, e>> : i = 1 \/ i = 2
         /\ \A i, j \in DOMAIN <<d, e>> : i < j => i = 1 /\ j = 2
<1>1. <<d, e>> \in Seq(S) /\ <<d, e>>[1] = d /\ <<d, e>>[2] = e
  OBVIOUS
<1>2. DOMAIN <<d, e>> = 1 .. 2
  OBVIOUS
<1>3. /\ 1 \in 1 .. 2 /\ 2 \in 1 .. 2
      /\ (\A i \in 1 .. 2 : i = 1 \/ i = 2)
      /\ (\A i, j \in 1 .. 2 : i < j => i = 1 /\ j = 2)
  OBVIOUS
<1> QED
  BY ONLY <1>1, <1>2, <1>3

\* What \o does to them.
LEMMA Joined ==
  ASSUME NEW S, NEW s \in Seq(S), NEW t \in Seq(S)
  PROVE  /\ s \o t \in Seq(S)
         /\ Len(s) \in Nat /\ DOMAIN s = 1 .. Len(s)
         /\ Len(t) \in Nat /\ DOMAIN t = 1 .. Len(t)
         /\ DOMAIN (s \o t) = 1 .. Len(s) + Len(t)
         /\ \A i \in 1 .. Len(s) : (s \o t)[i] = s[i]
         /\ \A i \in 1 .. Len(t) : (s \o t)[Len(s) + i] = t[i]
<1>1. /\ s \o t \in Seq(S)
      /\ Len(s \o t) = Len(s) + Len(t)
      /\ \A i \in 1 .. Len(s) + Len(t) :
           (s \o t)[i] = IF i <= Len(s) THEN s[i] ELSE t[i - Len(s)]
  BY ConcatProperties
<1>2. Len(s) \in Nat /\ DOMAIN s = 1 .. Len(s) /\ Len(t) \in Nat /\ DOMAIN t = 1 .. Len(t)
  OBVIOUS
<1>3. DOMAIN (s \o t) = 1 .. Len(s) + Len(t)
  BY <1>1
<1>4. ASSUME NEW i \in 1 .. Len(s) PROVE (s \o t)[i] = s[i]
  <2>1. i \in 1 .. Len(s) + Len(t) /\ i <= Len(s)
    BY <1>2
  <2> QED
    BY <1>1, <2>1
<1>5. ASSUME NEW i \in 1 .. Len(t) PROVE (s \o t)[Len(s) + i] = t[i]
  <2>1. Len(s) + i \in 1 .. Len(s) + Len(t) /\ ~(Len(s) + i <= Len(s)) /\ (Len(s) + i) - Len(s) = i
    BY <1>2
  <2> QED
    BY <1>1, <2>1
<1> QED
  BY <1>1, <1>2, <1>3, <1>4, <1>5

\* What is in a sequence, and in another behind it.
LEMMA JoinedMembers ==
  ASSUME NEW S, NEW s \in Seq(S), NEW t \in Seq(S)
  PROVE  ToSet(s \o t) = ToSet(s) \cup ToSet(t)
<1> DEFINE u == s \o t
<1>1. /\ Len(s) \in Nat /\ DOMAIN s = 1 .. Len(s)
      /\ Len(t) \in Nat /\ DOMAIN t = 1 .. Len(t)
      /\ DOMAIN u = 1 .. Len(s) + Len(t)
      /\ \A i \in 1 .. Len(s) : u[i] = s[i]
      /\ \A i \in 1 .. Len(t) : u[Len(s) + i] = t[i]
  BY Joined
<1> HIDE DEF u
<1>2. \A i \in DOMAIN u : u[i] \in ToSet(s) \cup ToSet(t)
  <2> SUFFICES ASSUME NEW i \in DOMAIN u PROVE u[i] \in ToSet(s) \cup ToSet(t)
    OBVIOUS
  <2>1. CASE i <= Len(s)
    BY <1>1, <2>1 DEF ToSet
  <2>2. CASE i > Len(s)
    <3>1. i - Len(s) \in 1 .. Len(t) /\ Len(s) + (i - Len(s)) = i
      BY <1>1, <2>2
    <3> QED
      BY <1>1, <3>1 DEF ToSet
  <2> QED
    BY <1>1, <2>1, <2>2
<1>3. \A i \in DOMAIN s : s[i] \in ToSet(u)
  BY <1>1 DEF ToSet
<1>4. \A i \in DOMAIN t : t[i] \in ToSet(u)
  <2>1. \A i \in 1 .. Len(t) : Len(s) + i \in DOMAIN u
    BY <1>1
  <2> QED
    BY <1>1, <2>1 DEF ToSet
<1>5. ToSet(u) = ToSet(s) \cup ToSet(t)
  BY <1>2, <1>3, <1>4 DEF ToSet
<1> QED
  BY <1>5 DEF u

-----------------------------------------------------------------------------
(* Requests on their way, in the order R *)

\* s is a sequence over S in which every element stands in R to each behind it.
Line(s, S, R) ==
  /\ s \in Seq(S)
  /\ \A i, j \in DOMAIN s : i < j => <<s[i], s[j]>> \in R

\* What is in a line; a line without elements is empty.
LEMMA LineMembers ==
  ASSUME NEW S, NEW R, NEW s, Line(s, S, R)
  PROVE  /\ ToSet(s) \subseteq S
         /\ s = <<>> <=> ToSet(s) = {}
<1>1. s \in Seq(S)
  BY DEF Line
<1>2. ToSet(s) \subseteq S
  BY <1>1 DEF ToSet
<1>3. s # <<>> => ToSet(s) # {}
  BY <1>1, Taken DEF ToSet
<1>4. ToSet(<<>>) = {}
  BY NoPlace DEF ToSet
<1> QED
  BY <1>2, <1>3, <1>4

\* Nothing is on its way.
LEMMA LineOfNone ==
  ASSUME NEW S, NEW R
  PROVE  Line(<<>>, S, R) /\ ToSet(<<>>) = {}
BY NoPlace DEF Line, ToSet

\* One element.
LEMMA LineOfOne ==
  ASSUME NEW S, NEW R, NEW d \in S
  PROVE  Line(<<d>>, S, R) /\ ToSet(<<d>>) = {d}
<1> DEFINE s == <<d>>
<1>1. s \in Seq(S) /\ 1 \in DOMAIN s /\ s[1] = d /\ \A i \in DOMAIN s : i = 1
  BY OnePlace
<1>2. \A i, j \in DOMAIN s : ~(i < j)
  BY OnePlace
<1> HIDE DEF s
<1>3. Line(s, S, R)
  BY <1>1, <1>2 DEF Line
<1>4. ToSet(s) = {d}
  BY <1>1 DEF ToSet
<1> QED
  BY <1>3, <1>4 DEF s

\* Two elements.
LEMMA LineOfTwo ==
  ASSUME NEW S, NEW R, NEW d \in S, NEW e \in S, <<d, e>> \in R
  PROVE  Line(<<d, e>>, S, R) /\ ToSet(<<d, e>>) = {d, e}
<1> DEFINE s == <<d, e>>
<1>1. /\ s \in Seq(S) /\ 1 \in DOMAIN s /\ s[1] = d /\ 2 \in DOMAIN s /\ s[2] = e
      /\ \A i \in DOMAIN s : i = 1 \/ i = 2
  BY TwoPlaces
<1>2. \A i, j \in DOMAIN s : i < j => i = 1 /\ j = 2
  BY TwoPlaces
<1> HIDE DEF s
<1>3. Line(s, S, R)
  BY <1>1, <1>2 DEF Line
<1>4. ToSet(s) = {d, e}
  BY <1>1 DEF ToSet
<1> QED
  BY <1>3, <1>4 DEF s

\* A line that others are put behind.
LEMMA LineJoined ==
  ASSUME NEW S, NEW R, NEW s, NEW t, Line(s, S, R), Line(t, S, R),
         \A d \in ToSet(s), e \in ToSet(t) : <<d, e>> \in R
  PROVE  Line(s \o t, S, R) /\ ToSet(s \o t) = ToSet(s) \cup ToSet(t)
<1> DEFINE u == s \o t
<1>1. /\ u \in Seq(S)
      /\ Len(s) \in Nat /\ DOMAIN s = 1 .. Len(s)
      /\ Len(t) \in Nat /\ DOMAIN t = 1 .. Len(t)
      /\ DOMAIN u = 1 .. Len(s) + Len(t)
      /\ \A i \in 1 .. Len(s) : u[i] = s[i]
      /\ \A i \in 1 .. Len(t) : u[Len(s) + i] = t[i]
  BY Joined DEF Line
<1> HIDE DEF u
<1>2. \A i \in DOMAIN u : \/ i \in DOMAIN s /\ u[i] = s[i]
                          \/ i - Len(s) \in DOMAIN t /\ u[i] = t[i - Len(s)]
  <2> SUFFICES ASSUME NEW i \in DOMAIN u, i \notin DOMAIN s
               PROVE  i - Len(s) \in DOMAIN t /\ u[i] = t[i - Len(s)]
    BY <1>1
  <2>1. i - Len(s) \in 1 .. Len(t) /\ Len(s) + (i - Len(s)) = i
    BY <1>1
  <2> QED
    BY <1>1, <2>1
<1>3. ToSet(u) = ToSet(s) \cup ToSet(t)
  BY JoinedMembers DEF Line, u
<1>4. ASSUME NEW i \in DOMAIN u, NEW j \in DOMAIN u, i < j
      PROVE  <<u[i], u[j]>> \in R
  <2>1. CASE j \in DOMAIN s
    <3>1. i \in DOMAIN s
      BY <1>1, <1>4, <2>1
    <3> QED
      BY <1>1, <1>4, <2>1, <3>1 DEF Line
  <2>2. CASE j \notin DOMAIN s /\ i \in DOMAIN s
    <3>1. j - Len(s) \in DOMAIN t /\ u[j] = t[j - Len(s)] /\ u[i] = s[i]
      BY <1>1, <1>2, <2>2
    <3> QED
      BY <2>2, <3>1 DEF ToSet
  <2>3. CASE j \notin DOMAIN s /\ i \notin DOMAIN s
    <3>1. /\ i - Len(s) \in DOMAIN t /\ u[i] = t[i - Len(s)]
          /\ j - Len(s) \in DOMAIN t /\ u[j] = t[j - Len(s)]
      BY <1>2, <2>3
    <3>2. i - Len(s) < j - Len(s)
      BY <1>1, <1>4
    <3> QED
      BY <3>1, <3>2 DEF Line
  <2> QED
    BY <2>1, <2>2, <2>3
<1> QED
  BY <1>1, <1>3, <1>4 DEF Line, u

\* A line whose first element is taken.
LEMMA LineTaken ==
  ASSUME NEW S, NEW R, NEW s, Line(s, S, R), s # <<>>
  PROVE  /\ Line(Tail(s), S, R)
         /\ Head(s) \in S
         /\ ToSet(s) = {Head(s)} \cup ToSet(Tail(s))
         /\ \A e \in ToSet(Tail(s)) : <<Head(s), e>> \in R
<1>1. /\ Tail(s) \in Seq(S) /\ Head(s) = s[1] /\ s[1] \in S
      /\ Len(s) \in Nat \ {0} /\ DOMAIN s = 1 .. Len(s)
      /\ DOMAIN Tail(s) = 1 .. Len(s) - 1
      /\ \A i \in 1 .. Len(s) - 1 : Tail(s)[i] = s[i + 1]
  BY Taken DEF Line
<1>2. \A i \in DOMAIN Tail(s) : i + 1 \in DOMAIN s /\ 1 < i + 1 /\ Tail(s)[i] = s[i + 1]
  BY <1>1
<1>3. 1 \in DOMAIN s
  BY <1>1
<1>4. ASSUME NEW i \in DOMAIN Tail(s), NEW j \in DOMAIN Tail(s), i < j
      PROVE  <<Tail(s)[i], Tail(s)[j]>> \in R
  <2>1. i + 1 < j + 1
    BY <1>1, <1>4
  <2> QED
    BY <1>2, <2>1 DEF Line
<1>5. \A i \in DOMAIN s : i = 1 \/ (i - 1 \in DOMAIN Tail(s) /\ Tail(s)[i - 1] = s[i])
  <2> SUFFICES ASSUME NEW i \in DOMAIN s, i # 1
               PROVE  i - 1 \in DOMAIN Tail(s) /\ Tail(s)[i - 1] = s[i]
    OBVIOUS
  <2>1. i - 1 \in 1 .. Len(s) - 1 /\ (i - 1) + 1 = i
    BY <1>1
  <2> QED
    BY <1>1, <2>1
<1>6. ToSet(s) = {Head(s)} \cup ToSet(Tail(s))
  <2>1. ASSUME NEW i \in DOMAIN s PROVE s[i] \in {Head(s)} \cup ToSet(Tail(s))
    BY <1>1, <1>5 DEF ToSet
  <2>2. Head(s) \in ToSet(s)
    BY <1>1, <1>3 DEF ToSet
  <2>3. ASSUME NEW i \in DOMAIN Tail(s) PROVE Tail(s)[i] \in ToSet(s)
    BY <1>2 DEF ToSet
  <2>4. ToSet(s) \subseteq {Head(s)} \cup ToSet(Tail(s))
    BY ONLY <2>1 DEF ToSet
  <2>5. ToSet(Tail(s)) \subseteq ToSet(s)
    BY ONLY <2>3 DEF ToSet
  <2> QED
    BY <2>2, <2>4, <2>5
<1>7. \A e \in ToSet(Tail(s)) : <<Head(s), e>> \in R
  BY <1>1, <1>2, <1>3 DEF ToSet, Line
<1> QED
  BY <1>1, <1>4, <1>6, <1>7 DEF Line

\* A line is in any order its elements stand in.
LEMMA LineReordered ==
  ASSUME NEW S, NEW R, NEW T, NEW s, Line(s, S, R),
         \A d, e \in ToSet(s) : <<d, e>> \in R => <<d, e>> \in T
  PROVE  Line(s, S, T)
BY DEF Line, ToSet

-----------------------------------------------------------------------------
(* agl_screenshooter                                                       *)
(*                                                                         *)
(* The requests under way stand in the order they are issued in, so that   *)
(* what has been handled follows from what is not among them (AglSorted,   *)
(* AglServer); a capture that waits has its one shot requested, in         *)
(* progress or answered (AglClient); and what the compositor has refused   *)
(* is not what it wants (AglRefused).                                      *)

AglRequests ==
  [type : {"create buffer"}, buffer : Agl!Buffers, size : Agl!ShotSizes]
    \cup [type : {"take shot", "destroy buffer"}, buffer : Agl!Buffers]
    \cup [type : {"bind", "destroy screenshooter"}]

\* Is request p issued before request q?  The screenshooter is bound first, and
\* destroyed after the buffer, except when the capture is abandoned.
AglBefore(p, q) ==
  \/ p.type = "bind" /\ q.type # "bind"
  \/ /\ p.type = "create buffer"
     /\ \/ q.type = "destroy screenshooter"
        \/ q.type = "create buffer" /\ p.buffer < q.buffer
        \/ (q.type = "take shot" \/ q.type = "destroy buffer") /\ p.buffer <= q.buffer
  \/ /\ p.type = "take shot"
     /\ q.type = "destroy screenshooter" \/ (q.type = "destroy buffer" /\ p.buffer <= q.buffer)
  \/ /\ p.type = "destroy buffer"
     /\ \/ q.type = "destroy screenshooter" /\ (result # Agl!Error("timeout") \/ p.buffer < next)
        \/ /\ q.type = "create buffer" \/ q.type = "take shot" \/ q.type = "destroy buffer"
           /\ p.buffer < q.buffer
  \/ p.type = "destroy screenshooter" /\ q.type = "destroy buffer"

AglOrder == {pair \in AglRequests \X AglRequests : AglBefore(pair[1], pair[2])}

AglQueued == ToSet(requests)
AglCreating(b) == \E q \in AglQueued : q.type = "create buffer" /\ q.buffer = b
AglTaking == \E q \in AglQueued : q.type = "take shot"
AglLeaving == \E q \in AglQueued : q.type = "destroy screenshooter"

\* Has the buffer of candidate b been created, or been asked for?
AglMade(b) == b < next \/ (b = next /\ Agl!Created)

AglSorted ==
  /\ Line(requests, AglRequests, AglOrder)
  /\ \A q \in AglQueued : q.type = "create buffer" => q.size = Agl!Candidates[q.buffer]
  /\ \A q \in AglQueued : q.type \notin {"bind", "destroy screenshooter"} => AglMade(q.buffer)
  /\ \A q \in AglQueued : q.type = "destroy buffer" /\ q.buffer = next => pc = "done"
  /\ \A q \in AglQueued : q.type = "take shot" => q.buffer = next
  /\ AglLeaving => pc = "done"
  /\ pc = "start" \/ known.mode = Agl!NoSize
       => requests = <<>> /\ next = 1 /\ pc \in {"start", "done"}

AglServer ==
  /\ \A b \in Agl!Buffers : pools[b] # Agl!NoSize =>
       pools[b] = Agl!Candidates[b] /\ ~AglCreating(b) /\ AglMade(b)
  /\ \A q \in AglQueued : q.type = "destroy buffer"
       => pools[q.buffer] # Agl!NoSize \/ AglCreating(q.buffer)
  /\ pc = "await" \/ AglTaking => pools[next] # Agl!NoSize \/ AglCreating(next)
  /\ shot # 0 =>
       /\ shot = next /\ Agl!Created /\ status = "pending" /\ ~AglTaking
       /\ pools[shot] = Agl!Candidates[shot]
  /\ AglTaking => status = "pending"
  /\ shot # 0 \/ AglTaking => image[next] = Agl!NoSize
  /\ pc = "done" /\ (shot # 0 \/ AglTaking) => result = Agl!Error("timeout") /\ AglLeaving
  /\ \A b \in Agl!Buffers : image[b] # Agl!NoSize
       => b = next /\ Agl!Created /\ image[b] = Agl!Candidates[b]

\* The compositor wants another size than the candidate's, or the output changed.
AglRefused(b) == changes > 0 \/ Agl!Candidates[b] # Agl!Wanted

\* What the client may conclude from an answer.
AglTells(answer) ==
  /\ answer = "success" => image[next] = Agl!Candidates[next]
  /\ answer = "bad_buffer" => AglRefused(next) /\ image[next] = Agl!NoSize

AglClient ==
  /\ destroyed => pc = "done"
  /\ pc = "done" /\ Agl!Created => destroyed
  /\ pc # "done" => result = Agl!NoResult
  /\ pc \in {"start", "shoot"} => events = <<>>
  /\ pc = "await" =>
       /\ \/ events = <<>>
          \/ status = "pending" /\ \E s \in Agl!DoneStatuses : events = <<s>> /\ AglTells(s)
       /\ shot # 0 \/ AglTaking => events = <<>>
       /\ AglTells(status)
  /\ next = 2 => AglRefused(1)
  /\ Agl!DeliveredAsDrawn
  /\ Agl!RejectionJustified

AglIInv == Agl!TypeOK /\ AglSorted /\ AglServer /\ AglClient

-----------------------------------------------------------------------------
(* Sizes, results and requests *)

\* A size of a shot is one.
LEMMA AglSizes ==
  ASSUME Agl!AglConstants
  PROVE  /\ \A z \in Agl!ShotSizes : z # Agl!NoSize
         /\ \A m \in Modes : m \in Agl!ShotSizes /\ Agl!Transpose(m) \in Agl!ShotSizes
              /\ Agl!Transpose(Agl!Transpose(m)) = m
<1>1. \A m \in Modes : m = <<m[1], m[2]>> /\ m[1] \in Nat \ {0} /\ m[2] \in Nat \ {0}
  BY DEF Agl!AglConstants
<1>2. \A m \in Modes : m # Agl!NoSize /\ Agl!Transpose(m) # Agl!NoSize
        /\ Agl!Transpose(Agl!Transpose(m)) = m
  BY <1>1 DEF Agl!NoSize, Agl!Transpose
<1> QED
  BY <1>2 DEF Agl!ShotSizes

\* The candidates are the mode of the output and, if it is rotated, its transpose.
LEMMA AglCandidatesAre ==
  ASSUME Agl!AglConstants, Agl!TypeOK
  PROVE  /\ Len(Agl!Candidates) = IF known.swaps THEN 2 ELSE 1
         /\ DOMAIN Agl!Candidates = 1 .. Len(Agl!Candidates) /\ 1 \in DOMAIN Agl!Candidates
         /\ Agl!Candidates[1] = known.mode
         /\ known.swaps => Agl!Candidates[2] = Agl!Transpose(known.mode)
         /\ known.mode # Agl!NoSize
              => \A b \in DOMAIN Agl!Candidates : Agl!Candidates[b] \in Agl!ShotSizes
<1>1. known.mode \in Modes \cup {Agl!NoSize} /\ known.swaps \in BOOLEAN
  BY DEF Agl!TypeOK
<1>2. CASE known.swaps
  <2>1. Agl!Candidates = <<known.mode, Agl!Transpose(known.mode)>>
    BY <1>2 DEF Agl!Candidates
  <2> QED
    BY <1>1, <1>2, <2>1, AglSizes
<1>3. CASE ~known.swaps
  <2>1. Agl!Candidates = <<known.mode>>
    BY <1>3 DEF Agl!Candidates
  <2> QED
    BY <1>1, <1>3, <2>1, AglSizes
<1> QED
  BY <1>2, <1>3

\* The compositor wants the size of a shot.
LEMMA AglWantedIs ==
  ASSUME Agl!AglConstants, Agl!TypeOK
  PROVE  /\ Agl!Wanted \in Agl!ShotSizes
         /\ Agl!Wanted \in {output.mode, Agl!Transpose(output.mode)}
         /\ ~output.swaps => Agl!Wanted = output.mode
BY AglSizes DEF Agl!TypeOK, Agl!Outputs, Agl!Wanted

\* The results a capture can return differ.
LEMMA AglResultsDiffer ==
  /\ Agl!NoResult.type = "none"
  /\ \A e : Agl!Error(e).type = "error" /\ Agl!Error(e).error = e
  /\ \A e : Agl!NoResult # Agl!Error(e)
<1>1. Agl!NoResult.type = "none" /\ \A e : Agl!Error(e).type = "error" /\ Agl!Error(e).error = e
  BY DEF Agl!NoResult, Agl!Error
<1> QED
  BY <1>1

\* What a request is, by its type.
LEMMA AglRequestFields ==
  ASSUME NEW r \in AglRequests
  PROVE  \/ r.type = "create buffer" /\ r.buffer \in Agl!Buffers /\ r.size \in Agl!ShotSizes
         \/ r.type = "take shot" /\ r.buffer \in Agl!Buffers
         \/ r.type = "destroy buffer" /\ r.buffer \in Agl!Buffers
         \/ r.type = "bind"
         \/ r.type = "destroy screenshooter"
<1>1. CASE r \in [type : {"create buffer"}, buffer : Agl!Buffers, size : Agl!ShotSizes]
  BY <1>1
<1>2. CASE r \in [type : {"take shot", "destroy buffer"}, buffer : Agl!Buffers]
  BY <1>2
<1>3. CASE r \in [type : {"bind", "destroy screenshooter"}]
  BY <1>3
<1> QED
  BY <1>1, <1>2, <1>3 DEF AglRequests

\* What the thread issues.
LEMMA AglKnown ==
  /\ [type |-> "bind"] \in AglRequests
  /\ Agl!DestroyScreenshooter \in AglRequests
       /\ Agl!DestroyScreenshooter.type = "destroy screenshooter"
  /\ next \in Agl!Buffers =>
       Agl!DestroyBuffer \in AglRequests /\ Agl!DestroyBuffer.type = "destroy buffer"
         /\ Agl!DestroyBuffer.buffer = next
  /\ \A b \in Agl!Buffers, z \in Agl!ShotSizes :
       [type |-> "create buffer", buffer |-> b, size |-> z] \in AglRequests
  /\ \A b \in Agl!Buffers : [type |-> "take shot", buffer |-> b] \in AglRequests
BY DEF AglRequests, Agl!DestroyScreenshooter, Agl!DestroyBuffer

\* The requests t are issued behind those that are under way.
LEMMA AglIssued ==
  ASSUME Line(requests, AglRequests, AglOrder), NEW t, Line(t, AglRequests, AglOrder'),
         \A p, q \in AglQueued : AglBefore(p, q) => AglBefore(p, q)',
         \A p \in AglQueued, q \in ToSet(t) : AglBefore(p, q)',
         requests' = requests \o t
  PROVE  Line(requests, AglRequests, AglOrder)' /\ AglQueued' = AglQueued \cup ToSet(t)
<1>1. AglQueued \subseteq AglRequests /\ ToSet(t) \subseteq AglRequests
  BY LineMembers DEF AglQueued
<1>2. \A p, q \in AglQueued : <<p, q>> \in AglOrder => <<p, q>> \in AglOrder'
  BY <1>1 DEF AglOrder
<1>3. \A p \in AglQueued, q \in ToSet(t) : <<p, q>> \in AglOrder'
  BY <1>1 DEF AglOrder
<1>4. Line(requests, AglRequests, AglOrder')
  BY <1>2, LineReordered DEF AglQueued
<1>5. \A d \in ToSet(requests), e \in ToSet(t) : <<d, e>> \in AglOrder'
  BY <1>3 DEF AglQueued
<1>6. Line(t, AglRequests, AglOrder')
  OBVIOUS
<1>7. Line(requests \o t, AglRequests, AglOrder')
        /\ ToSet(requests \o t) = ToSet(requests) \cup ToSet(t)
  BY ONLY <1>4, <1>5, <1>6, LineJoined, Z3
<1> QED
  BY <1>7 DEF AglQueued

\* Nothing is issued, and the order is not another one.
LEMMA AglNoneIssued ==
  ASSUME Line(requests, AglRequests, AglOrder),
         \A p, q \in AglQueued : AglBefore(p, q) => AglBefore(p, q)',
         UNCHANGED requests
  PROVE  Line(requests, AglRequests, AglOrder)' /\ AglQueued' = AglQueued
<1>1. AglQueued \subseteq AglRequests
  BY LineMembers DEF AglQueued
<1>2. \A p, q \in AglQueued : <<p, q>> \in AglOrder => <<p, q>> \in AglOrder'
  BY <1>1 DEF AglOrder
<1>3. Line(requests, AglRequests, AglOrder')
  BY <1>2, LineReordered DEF AglQueued
<1> QED
  BY <1>3 DEF AglQueued

\* The compositor takes the first request; the others are not before it.
LEMMA AglServed ==
  ASSUME Line(requests, AglRequests, AglOrder), requests # <<>>, requests' = Tail(requests),
         UNCHANGED <<result, next>>
  PROVE  /\ Line(requests, AglRequests, AglOrder)'
         /\ Head(requests) \in AglRequests
         /\ AglQueued = {Head(requests)} \cup AglQueued'
         /\ \A q \in AglQueued' : q \in AglRequests /\ AglBefore(Head(requests), q)
<1>1. /\ Line(Tail(requests), AglRequests, AglOrder) /\ Head(requests) \in AglRequests
      /\ AglQueued = {Head(requests)} \cup ToSet(Tail(requests))
      /\ \A q \in ToSet(Tail(requests)) : <<Head(requests), q>> \in AglOrder
  BY LineTaken DEF AglQueued
<1>2. AglOrder' = AglOrder
  BY DEF AglOrder, AglBefore
<1>3. AglQueued' = ToSet(Tail(requests))
  BY DEF AglQueued
<1> QED
  BY <1>1, <1>2, <1>3 DEF AglOrder
-----------------------------------------------------------------------------
(* The capturing thread *)

\* A step that requests no buffer and no shot, and delivers only a complete image.
AglKeeps ==
  /\ UNCHANGED <<shot, pools, image>>
  /\ AglTaking' <=> AglTaking
  /\ AglTaking \/ shot # 0 => UNCHANGED next
  /\ \A b \in Agl!Buffers : (AglCreating(b)' <=> AglCreating(b)) /\ (AglMade(b)' <=> AglMade(b))
  /\ result.type # "buffer"
  /\ result'.type = "buffer" => result'.buffer \in Agl!Buffers /\ image[result'.buffer] # Agl!NoSize

\* The step that lends the buffer of the next candidate.
AglLends ==
  /\ UNCHANGED <<shot, pools, image, next, result>>
  /\ shot = 0 /\ ~AglTaking /\ ~AglMade(next) /\ image[next] = Agl!NoSize /\ result.type # "buffer"
  /\ AglTaking' /\ AglCreating(next)'
  /\ \A b \in Agl!Buffers \ {next} : (AglCreating(b)' <=> AglCreating(b))
       /\ (AglMade(b)' <=> AglMade(b))

\* The screenshot begins with an empty connection.
LEMMA AglInitially == ASSUME Agl!AglConstants, Agl!Init PROVE AglIInv
<1> USE DEF Agl!Init
<1>1. Agl!TypeOK
  <2>1. pc \in Agl!Phases /\ pc \notin {"shoot", "await"} /\ 1 \in Agl!Buffers
          /\ changes \in 0 .. MaxChanges
    BY DEF Agl!AglConstants, Agl!Phases, Agl!Buffers
  <2> QED
    BY <2>1 DEF Agl!TypeOK
<1>2. AglQueued = {} /\ Line(requests, AglRequests, AglOrder)
  BY LineOfNone DEF AglQueued
<1>3. AglSorted
  BY <1>2 DEF AglSorted, AglLeaving
<1>4. AglServer
  BY <1>2 DEF AglServer, AglTaking, AglLeaving
<1>5. AglClient
  BY AglResultsDiffer DEF AglClient, Agl!DeliveredAsDrawn, Agl!RejectionJustified
<1> QED
  BY <1>1, <1>3, <1>4, <1>5 DEF AglIInv

\* Before a shot is requested nothing is known of the candidate's buffer.
LEMMA AglUnmade ==
  ASSUME Agl!AglConstants, AglIInv, pc \in {"start", "shoot"}
  PROVE  /\ ~AglMade(next) /\ ~AglTaking /\ shot = 0 /\ ~AglLeaving
         /\ \A b \in Agl!Buffers : image[b] = Agl!NoSize
         /\ \A q \in AglQueued : q.type \notin {"bind", "destroy screenshooter"}
              => AglMade(q.buffer) /\ q.buffer < next
         /\ next \in Agl!Buffers
<1>1. ~Agl!Created /\ next \in Agl!Buffers
  BY DEF Agl!Created, AglIInv, Agl!TypeOK
<1>2. ~AglMade(next)
  BY <1>1 DEF AglMade, Agl!Buffers
<1>3. /\ \A q \in AglQueued : q.type = "take shot" => q.buffer = next
      /\ \A q \in AglQueued : q.type \notin {"bind", "destroy screenshooter"} => AglMade(q.buffer)
      /\ ~AglLeaving
  BY DEF AglIInv, AglSorted
<1>4. ~AglTaking
  BY <1>2, <1>3 DEF AglTaking
<1>5. shot = 0 /\ \A b \in Agl!Buffers : image[b] = Agl!NoSize
  BY <1>1 DEF AglIInv, AglServer
<1>6. \A q \in AglQueued : q.type \notin {"bind", "destroy screenshooter"} => q.buffer < next
  BY <1>1, <1>3 DEF AglMade
<1> QED
  BY <1>1, <1>2, <1>3, <1>4, <1>5, <1>6

\* The screenshooter is bound, if the output's size is known.
LEMMA AglStartStep == ASSUME Agl!AglConstants, AglIInv, Agl!Start PROVE AglIInv' /\ AglKeeps
<1> USE DEF Agl!Start, Agl!compositorVars
<1>1. /\ requests = <<>> /\ next = 1 /\ events = <<>> /\ result = Agl!NoResult
      /\ status \in Agl!DoneStatuses \cup {"pending"}
  BY DEF AglIInv, AglSorted, AglClient, Agl!TypeOK
<1>2. /\ AglQueued = {} /\ \A q \in AglQueued' : q.type = "bind"
      /\ Line(requests, AglRequests, AglOrder)'
      /\ known.mode = Agl!NoSize => requests' = <<>> /\ pc' = "done"
  <2>1. AglQueued = {} /\ Line(requests, AglRequests, AglOrder)
    BY <1>1, LineOfNone DEF AglQueued
  <2>2. CASE known.mode = Agl!NoSize
    <3>1. requests' = <<>> /\ pc' = "done"
      BY <1>1, <2>2
    <3> QED
      BY <2>1, <3>1, LineOfNone DEF AglQueued
  <2>3. CASE known.mode # Agl!NoSize
    <3>1. PICK c : c = [type |-> "bind"]
      OBVIOUS
    <3>2. c \in AglRequests /\ c.type = "bind"
      BY <3>1, AglKnown
    <3>3. PICK t : t = <<c>>
      OBVIOUS
    <3>4. Line(t, AglRequests, AglOrder') /\ ToSet(t) = {c}
      BY <3>2, <3>3, LineOfOne
    <3>5. requests' = requests \o t
      BY <2>3, <3>1, <3>3 DEF Agl!Issue
    <3>6. Line(requests, AglRequests, AglOrder)' /\ AglQueued' = {c}
      BY <2>1, <3>4, <3>5, AglIssued
    <3> QED
      BY <2>1, <2>3, <3>2, <3>6
  <2> QED
    BY <2>2, <2>3
<1>3. ~Agl!Created /\ ~Agl!Created'
  BY AglResultsDiffer DEF Agl!Created
<1>4. Agl!TypeOK'
  <2>1. pc' \in Agl!Phases /\ result' \in {Agl!NoResult} \cup {Agl!Error(e) : e \in Agl!Errors}
    BY <1>1 DEF Agl!Phases, Agl!Errors
  <2>2. 1 \in DOMAIN Agl!Candidates
    BY AglCandidatesAre DEF AglIInv
  <2>3. DOMAIN Agl!Candidates' = DOMAIN Agl!Candidates
    BY DEF Agl!Candidates
  <2> QED
    BY <1>1, <2>1, <2>2, <2>3 DEF AglIInv, Agl!TypeOK
<1>5. AglSorted'
  <2>1. pc' # "start"
    OBVIOUS
  <2> QED
    BY <1>1, <1>2, <1>3, <2>1 DEF AglSorted, AglLeaving
<1>6. Agl!Candidates' = Agl!Candidates
  BY DEF Agl!Candidates
<1>7. AglServer'
  BY <1>1, <1>2, <1>3, <1>6, AglUnmade
  DEF AglIInv, AglServer, AglTaking, AglLeaving, AglCreating, AglMade
<1>8. AglClient'
  <2>1. /\ result' # Agl!Error("rejected") /\ result'.type # "buffer"
        /\ pc' # "done" => result' = Agl!NoResult
    BY <1>1, AglResultsDiffer
  <2>2. ~destroyed /\ ~destroyed'
    BY DEF AglIInv, AglClient, Agl!TypeOK
  <2>3. next' # 2
    <3>1. next' = next /\ next = 1
      BY <1>1
    <3> QED
      BY ONLY <3>1
  <2>4. pc' # "await"
    OBVIOUS
  <2> QED
    BY <1>1, <1>3, <2>1, <2>2, <2>3, <2>4
    DEF AglIInv, AglClient, Agl!DeliveredAsDrawn, Agl!RejectionJustified
<1>9. AglKeeps
  BY <1>1, <1>2, <1>3, AglResultsDiffer, AglUnmade DEF AglKeeps, AglTaking, AglCreating, AglMade
<1> QED
  BY <1>4, <1>5, <1>7, <1>8, <1>9 DEF AglIInv

\* No buffer could be had: the screenshooter is destroyed.
LEMMA AglAllocationFailedStep ==
  ASSUME Agl!AglConstants, AglIInv, Agl!AllocationFailed
  PROVE AglIInv' /\ AglKeeps
<1> DEFINE t == <<Agl!DestroyScreenshooter>>
<1> USE DEF Agl!AllocationFailed, Agl!Return, Agl!compositorVars
<1>1. /\ pc = "shoot" /\ result = Agl!NoResult /\ result' = Agl!Error("no memory")
           /\ ~destroyed /\ events = <<>>
  BY DEF AglIInv, AglClient, Agl!TypeOK
<1>2. /\ ~Agl!Created /\ ~Agl!Created' /\ next' = next
      /\ result' # Agl!Error("timeout") /\ result' # Agl!Error("rejected")
           /\ result'.type # "buffer"
      /\ result.type # "buffer"
  BY <1>1, AglResultsDiffer DEF Agl!Created
<1>3. Line(t, AglRequests, AglOrder') /\ ToSet(t) = {Agl!DestroyScreenshooter}
  BY AglKnown, LineOfOne
<1>4. Line(requests, AglRequests, AglOrder)'
        /\ AglQueued' = AglQueued \cup {Agl!DestroyScreenshooter}
  <2>1. requests' = requests \o t /\ Line(requests, AglRequests, AglOrder)
    BY DEF Agl!Issue, AglIInv, AglSorted
  <2>2. \A p, q \in AglQueued : AglBefore(p, q) => AglBefore(p, q)'
    BY <1>2 DEF AglBefore
  <2>3. \A p \in AglQueued : AglBefore(p, Agl!DestroyScreenshooter)'
    <3>1. AglQueued \subseteq AglRequests
      BY LineMembers DEF AglIInv, AglSorted, AglQueued
    <3> QED
      BY <1>2, <3>1, AglUnmade, AglKnown, AglRequestFields DEF AglBefore, AglTaking, AglLeaving
  <2> HIDE DEF t
  <2> QED
    BY <1>3, <2>1, <2>2, <2>3, AglIssued
<1>5. Agl!TypeOK'
  <2>1. pc' \in Agl!Phases /\ result' \in {Agl!NoResult} \cup {Agl!Error(e) : e \in Agl!Errors}
    BY <1>1 DEF Agl!Phases, Agl!Errors
  <2> QED
    BY <1>1, <1>2, <2>1 DEF AglIInv, Agl!TypeOK
<1>6. /\ \A b : (AglCreating(b)' <=> AglCreating(b)) /\ (AglMade(b)' <=> AglMade(b))
      /\ ~AglTaking' /\ ~AglTaking /\ Agl!Candidates' = Agl!Candidates
  BY <1>2, <1>4, AglKnown, AglUnmade DEF AglCreating, AglMade, AglTaking, Agl!Candidates
<1>7. AglSorted'
  BY <1>1, <1>2, <1>4, <1>6, AglKnown, AglUnmade DEF AglIInv, AglSorted, AglLeaving
<1>8. AglServer'
  BY <1>1, <1>2, <1>4, <1>6, AglKnown, AglUnmade DEF AglIInv, AglServer
<1>9. AglClient'
  BY <1>1, <1>2
  DEF AglIInv, AglClient, Agl!DeliveredAsDrawn, Agl!RejectionJustified, AglRefused, Agl!Wanted,
      Agl!Candidates
<1>10. AglKeeps
  BY <1>2, <1>6, AglUnmade DEF AglKeeps
<1> QED
  BY <1>5, <1>7, <1>8, <1>9, <1>10 DEF AglIInv

\* A buffer of the candidate's size is lent.
LEMMA AglTakeShotStep == ASSUME Agl!AglConstants, AglIInv, Agl!TakeShot PROVE AglIInv' /\ AglLends
<1>a. PICK r : r = [type |-> "create buffer", buffer |-> next, size |-> Agl!Candidates[next]]
  OBVIOUS
<1>b. PICK q : q = [type |-> "take shot", buffer |-> next]
  OBVIOUS
<1> DEFINE t == <<r, q>>
<1> USE DEF Agl!TakeShot, Agl!compositorVars
<1>1. /\ pc = "shoot" /\ result = Agl!NoResult /\ ~destroyed /\ events = <<>>
           /\ known.mode # Agl!NoSize
      /\ next \in DOMAIN Agl!Candidates /\ next \in Agl!Buffers
  BY DEF AglIInv, AglClient, Agl!TypeOK, AglSorted
<1>2. /\ ~Agl!Created /\ Agl!Created' /\ result.type # "buffer"
      /\ AglMade(next)' /\ \A b \in Agl!Buffers \ {next} : AglMade(b)' <=> AglMade(b)
  BY <1>1, AglResultsDiffer DEF Agl!Created, AglMade
<1>3. /\ r.type = "create buffer" /\ r.buffer = next /\ r.size = Agl!Candidates[next]
           /\ r \in AglRequests
      /\ q.type = "take shot" /\ q.buffer = next /\ q \in AglRequests
      /\ Agl!Candidates[next] \in Agl!ShotSizes
  BY <1>a, <1>b, <1>1, AglCandidatesAre, AglKnown DEF AglIInv
<1>4. requests' = requests \o t
  BY <1>a, <1>b DEF Agl!Issue
<1>5. Line(t, AglRequests, AglOrder') /\ ToSet(t) = {r, q}
  <2>0. next <= next
    BY ONLY <1>1 DEF Agl!Buffers
  <2>1. AglBefore(r, q)'
    BY ONLY <1>3, <2>0 DEF AglBefore
  <2>2. <<r, q>> \in AglOrder'
    BY <1>3, <2>1 DEF AglOrder
  <2> QED
    BY <1>3, <2>2, LineOfTwo
<1> HIDE DEF t
<1>6. Line(requests, AglRequests, AglOrder)' /\ AglQueued' = AglQueued \cup {r, q}
  <2>1. Line(requests, AglRequests, AglOrder)
    BY DEF AglIInv, AglSorted
  <2>2. \A p, s \in AglQueued : AglBefore(p, s) => AglBefore(p, s)'
    BY DEF AglBefore
  <2>3. \A p \in AglQueued : AglBefore(p, r)' /\ AglBefore(p, q)'
    <3>1. AglQueued \subseteq AglRequests
      BY LineMembers DEF AglIInv, AglSorted, AglQueued
    <3>2. ASSUME NEW p \in AglQueued
          PROVE  \/ p.type = "bind"
                 \/ /\ p.type \in {"create buffer", "destroy buffer"}
                    /\ p.buffer \in Agl!Buffers /\ p.buffer < next
      <4>1. p.type # "destroy screenshooter" /\ p.type # "take shot"
        BY <1>1, AglUnmade DEF AglTaking, AglLeaving
      <4> QED
        BY <1>1, <3>1, <4>1, AglUnmade, AglRequestFields
    <3>3. \A b \in Agl!Buffers : b < next => b <= next
      BY ONLY <1>1 DEF Agl!Buffers
    <3> QED
      BY ONLY <1>3, <3>2, <3>3 DEF AglBefore
  <2> QED
    BY <1>4, <1>5, <2>1, <2>2, <2>3, AglIssued
<1>7. Agl!TypeOK'
  <2>1. Agl!Candidates' = Agl!Candidates /\ pc' \in Agl!Phases
    BY DEF Agl!Candidates, Agl!Phases
  <2> QED
    BY <1>1, <2>1 DEF AglIInv, Agl!TypeOK
<1>8. /\ AglCreating(next)' /\ \A b : b # next => (AglCreating(b)' <=> AglCreating(b))
      /\ AglTaking' /\ ~AglTaking /\ ~AglLeaving' /\ Agl!Candidates' = Agl!Candidates
           /\ UNCHANGED next
  BY <1>3, <1>6, AglUnmade DEF AglCreating, AglTaking, Agl!Candidates, AglLeaving
<1>9. AglSorted'
  <2>1. /\ \A p \in AglQueued : p.type = "create buffer" => p.size = Agl!Candidates[p.buffer]
        /\ \A p \in AglQueued : p.type # "take shot"
    BY AglUnmade DEF AglIInv, AglSorted, AglTaking
  <2>2. \A b \in Agl!Buffers : AglMade(b) => AglMade(b)'
    BY <1>2
  <2>6. /\ \A p \in AglQueued : p.type \notin {"bind", "destroy screenshooter"} => AglMade(p.buffer)
        /\ \A p \in AglQueued : p.type \notin {"bind", "destroy screenshooter"} => p.buffer < next
    BY AglUnmade DEF AglIInv, AglSorted, AglTaking
  <2>3. AglQueued \subseteq AglRequests
    BY LineMembers DEF AglIInv, AglSorted, AglQueued
  <2>4. \A p \in AglQueued : p.type \notin {"bind", "destroy screenshooter"}
          => AglMade(p.buffer)' /\ p.buffer # next'
    <3>1. \A b \in Agl!Buffers : b < next => b # next
      BY ONLY <1>1 DEF Agl!Buffers
    <3> QED
      <4> SUFFICES ASSUME NEW p \in AglQueued, p.type \notin {"bind", "destroy screenshooter"}
                   PROVE  AglMade(p.buffer)' /\ p.buffer # next'
        OBVIOUS
      <4>1. p.buffer \in Agl!Buffers
        BY <2>3, AglRequestFields
      <4>2. AglMade(p.buffer)
        BY <2>6
      <4>3. p.buffer # next
        BY <2>6, <3>1, <4>1
      <4>4. next' = next
        BY <1>8
      <4> QED
        BY <2>2, <4>1, <4>2, <4>3, <4>4
  <2>5. /\ \A p \in AglQueued : p.type = "create buffer" => p.size = Agl!Candidates'[p.buffer]
        /\ \A p \in AglQueued : p.type # "take shot"
    BY <2>1, <1>8
  <2> QED
    BY <1>1, <1>2, <1>3, <1>6, <1>8, <2>5, <2>4 DEF AglSorted
<1>10. AglServer'
  <2>1. \A b \in Agl!Buffers : image[b] = Agl!NoSize /\ shot = 0
    BY AglUnmade
  <2>2. pools[next] = Agl!NoSize
    BY <1>1, AglUnmade DEF AglIInv, AglServer
  <2> QED
    BY <1>1, <1>2, <1>3, <1>6, <1>8, <2>1, <2>2 DEF AglIInv, AglServer
<1>11. AglClient'
  BY <1>1, <1>2, AglResultsDiffer
     DEF AglIInv, AglClient, Agl!DeliveredAsDrawn, Agl!RejectionJustified, AglRefused, Agl!Wanted,
         Agl!Candidates, AglTells
<1>12. AglLends
  BY <1>1, <1>2, <1>8, AglUnmade DEF AglLends
<1> QED
  BY <1>7, <1>9, <1>10, <1>11, <1>12 DEF AglIInv

\* The answer is read.
LEMMA AglHandleStep == ASSUME Agl!AglConstants, AglIInv, Agl!Handle PROVE AglIInv' /\ AglKeeps
<1> USE DEF Agl!Handle, Agl!compositorVars
<1>1. PICK s \in Agl!DoneStatuses : events = <<s>> /\ AglTells(s)
  BY DEF AglIInv, AglClient
<1>2. /\ status' = s /\ events' = <<>> /\ status = "pending" /\ shot = 0 /\ ~AglTaking
      /\ result = Agl!NoResult /\ result.type # "buffer" /\ pc = "await"
  BY <1>1, AglResultsDiffer DEF AglIInv, AglClient
<1>3. /\ AglQueued' = AglQueued /\ Line(requests, AglRequests, AglOrder)'
           /\ Agl!Created' = Agl!Created
      /\ Agl!Candidates' = Agl!Candidates
  <2>1. Line(requests, AglRequests, AglOrder)
    BY DEF AglIInv, AglSorted
  <2> QED
    BY <2>1, AglNoneIssued DEF AglBefore, Agl!Created, Agl!Candidates
<1>4. Agl!TypeOK'
  BY <1>2, <1>3 DEF AglIInv, Agl!TypeOK
<1>5. \A b : (AglCreating(b)' <=> AglCreating(b)) /\ (AglMade(b)' <=> AglMade(b))
  BY <1>3 DEF AglCreating, AglMade
<1>6. ~AglTaking' /\ (AglLeaving' <=> AglLeaving)
  BY <1>2, <1>3 DEF AglTaking, AglLeaving
<1>7. AglSorted'
  BY <1>3, <1>5, <1>6 DEF AglIInv, AglSorted
<1>8. AglServer'
  BY <1>2, <1>3, <1>5, <1>6 DEF AglIInv, AglServer
<1>9. AglClient'
  <2>1. AglTells(s)'
    BY <1>1, <1>3 DEF AglTells, AglRefused, Agl!Wanted
  <2> QED
    BY <1>2, <1>3, <1>6, <2>1
    DEF AglIInv, AglClient, Agl!DeliveredAsDrawn, Agl!RejectionJustified, AglRefused, Agl!Wanted
<1>10. AglKeeps
  BY <1>2, <1>5, <1>6 DEF AglKeeps
<1> QED
  BY <1>4, <1>7, <1>8, <1>9, <1>10 DEF AglIInv

\* Before capture() returns nothing of the end of a capture is under way.
LEMMA AglNotLeaving ==
  ASSUME Agl!AglConstants, AglIInv, pc = "await"
  PROVE  /\ next \in Agl!Buffers /\ result = Agl!NoResult /\ ~destroyed /\ ~AglLeaving
              /\ Agl!Created
         /\ result.type # "buffer" /\ AglMade(next)
         /\ \A q \in AglQueued : q.type = "destroy buffer" => q.buffer < next
         /\ \A q \in AglQueued : q.type \notin {"bind", "destroy screenshooter"}
              => AglMade(q.buffer) /\ q.buffer <= next
         /\ AglQueued \subseteq AglRequests
<1>1. next \in Agl!Buffers /\ result = Agl!NoResult /\ ~destroyed /\ ~AglLeaving
  BY DEF AglIInv, Agl!TypeOK, AglClient, AglSorted
<1>2. Agl!Created /\ AglMade(next) /\ result.type # "buffer"
  BY <1>1, AglResultsDiffer DEF Agl!Created, AglMade
<1>3. AglQueued \subseteq AglRequests
  BY LineMembers DEF AglIInv, AglSorted, AglQueued
<1>4. ASSUME NEW q \in AglQueued, q.type \notin {"bind", "destroy screenshooter"}
      PROVE  /\ AglMade(q.buffer) /\ q.buffer <= next
             /\ q.type = "destroy buffer" => q.buffer < next
  <2>1. AglMade(q.buffer) /\ (q.type = "destroy buffer" => q.buffer # next)
    BY <1>4 DEF AglIInv, AglSorted
  <2>2. q.buffer \in Agl!Buffers
    BY <1>3, <1>4, AglRequestFields
  <2>3. \A b \in Agl!Buffers : AglMade(b) => b <= next /\ (b # next => b < next)
    BY ONLY <1>1 DEF AglMade, Agl!Buffers
  <2> QED
    BY <2>1, <2>2, <2>3
<1>5. \A q \in AglQueued : q.type = "destroy buffer" => q.type \notin {"bind", "destroy screenshooter"}
  OBVIOUS
<1> QED
  BY <1>1, <1>2, <1>3, <1>4, <1>5

\* capture() returns, and destroys the buffer and the screenshooter.
LEMMA AglReturning ==
  ASSUME Agl!AglConstants, AglIInv, pc = "await", ~AglTaking, shot = 0,
         Agl!Return(result', <<Agl!DestroyBuffer, Agl!DestroyScreenshooter>>),
         UNCHANGED <<known, next, status, events, Agl!compositorVars>>,
         result' # Agl!Error("timeout"), result' # Agl!Error("unknown dimensions"),
           result' # Agl!Error("no memory"),
         result' \in {Agl!NoResult} \cup {Agl!Error(e) : e \in Agl!Errors}
                       \cup [type : {"buffer"}, buffer : Agl!Buffers, size : Agl!ShotSizes],
         Agl!DeliveredAsDrawn', Agl!RejectionJustified',
         result'.type = "buffer"
           => result'.buffer \in Agl!Buffers /\ image[result'.buffer] # Agl!NoSize
  PROVE  AglIInv' /\ AglKeeps
<1>a. PICK d : d = Agl!DestroyBuffer
  OBVIOUS
<1> DEFINE t == <<d, Agl!DestroyScreenshooter>>
<1> USE DEF Agl!Return, Agl!compositorVars
<1>1. /\ next \in Agl!Buffers /\ ~AglLeaving /\ Agl!Created /\ Agl!Created'
           /\ result.type # "buffer" /\ AglMade(next)
      /\ Agl!Candidates' = Agl!Candidates /\ pc' = "done" /\ destroyed' = TRUE
  BY AglNotLeaving DEF Agl!Created, Agl!Candidates
<1>2. d \in AglRequests /\ d.type = "destroy buffer" /\ d.buffer = next
  BY <1>a, <1>1, AglKnown
<1>3. Line(t, AglRequests, AglOrder') /\ ToSet(t) = {d, Agl!DestroyScreenshooter}
  <2>1. AglBefore(d, Agl!DestroyScreenshooter)'
    BY <1>2, AglKnown DEF AglBefore
  <2>2. <<d, Agl!DestroyScreenshooter>> \in AglOrder'
    BY <1>2, <2>1, AglKnown DEF AglOrder
  <2>3. d \in AglRequests /\ Agl!DestroyScreenshooter \in AglRequests
    BY <1>2, AglKnown
  <2> QED
    BY ONLY <2>2, <2>3, LineOfTwo, Z3
<1>4. Line(requests, AglRequests, AglOrder)'
        /\ AglQueued' = AglQueued \cup {d, Agl!DestroyScreenshooter}
  <2>1. requests' = requests \o t /\ Line(requests, AglRequests, AglOrder)
    BY <1>a DEF Agl!Issue, AglIInv, AglSorted
  <2>2. \A p, q \in AglQueued : AglBefore(p, q) => AglBefore(p, q)'
    BY <1>1 DEF AglBefore
  <2>3. ASSUME NEW p \in AglQueued
        PROVE  AglBefore(p, d)' /\ AglBefore(p, Agl!DestroyScreenshooter)'
    <3>1. p \in AglRequests /\ p.type # "destroy screenshooter" /\ p.type # "take shot"
      BY AglNotLeaving DEF AglLeaving, AglTaking
    <3>2. \/ p.type = "bind"
          \/ p.type = "create buffer" /\ p.buffer <= next
          \/ p.type = "destroy buffer" /\ p.buffer < next
      BY <3>1, AglNotLeaving, AglRequestFields
    <3> QED
      BY <1>2, <3>2, AglKnown DEF AglBefore
  <2> HIDE DEF t
  <2> QED
    BY <1>3, <2>1, <2>2, <2>3, AglIssued
<1>5. Agl!TypeOK'
  <2>1. pc' \in Agl!Phases
    BY DEF Agl!Phases
  <2> QED
    BY <1>1, <2>1 DEF AglIInv, Agl!TypeOK
<1>6. /\ \A b : (AglCreating(b)' <=> AglCreating(b)) /\ (AglMade(b)' <=> AglMade(b))
      /\ ~AglTaking'
  BY <1>1, <1>2, <1>4, AglKnown DEF AglCreating, AglMade, AglTaking
<1>7. AglSorted'
  BY <1>1, <1>2, <1>4, <1>6, AglKnown DEF AglIInv, AglSorted, AglLeaving
<1>8. AglServer'
  <2>1. \A q \in AglQueued' : q.type = "destroy buffer"
          => pools[q.buffer] # Agl!NoSize \/ AglCreating(q.buffer)
    BY <1>2, <1>4, AglKnown DEF AglIInv, AglServer
  <2> QED
    BY <1>1, <1>6, <2>1 DEF AglIInv, AglServer
<1>9. AglClient'
  BY <1>1 DEF AglIInv, AglClient, AglRefused, Agl!Wanted
<1>10. AglKeeps
  BY <1>1, <1>6 DEF AglKeeps
<1> QED
  BY <1>5, <1>7, <1>8, <1>9, <1>10 DEF AglIInv

\* The buffer is handed over, the capture fails, or the next candidate is tried.
LEMMA AglOutcomeStep == ASSUME Agl!AglConstants, AglIInv, Agl!Outcome PROVE AglIInv' /\ AglKeeps
<1> USE DEF Agl!compositorVars
<1>1. /\ pc = "await" /\ status # "pending" /\ status \in Agl!DoneStatuses \cup {"pending"}
      /\ UNCHANGED <<known, status, events, Agl!compositorVars>>
  BY DEF Agl!Outcome, AglIInv, Agl!TypeOK
<1>2. /\ ~AglTaking /\ shot = 0 /\ events = <<>> /\ AglTells(status)
      /\ next \in DOMAIN Agl!Candidates /\ next \in Agl!Buffers /\ known.mode # Agl!NoSize
  BY <1>1 DEF AglIInv, AglServer, AglClient, Agl!TypeOK, AglSorted
<1>3. Agl!Candidates[next] \in Agl!ShotSizes /\ Agl!Candidates[next] # Agl!NoSize
  BY <1>2, AglCandidatesAre, AglSizes DEF AglIInv
<1>4. CASE status = "success"
             /\ Agl!Return(Agl!Captured, <<Agl!DestroyBuffer, Agl!DestroyScreenshooter>>) /\ UNCHANGED next
  <2>1. result' = [type |-> "buffer", buffer |-> next, size |-> Agl!Candidates[next]]
    BY <1>4 DEF Agl!Return, Agl!Captured
  <2>2. result'.type = "buffer" /\ result'.buffer = next /\ result'.size = Agl!Candidates[next]
    BY <2>1
  <2>3. result' \in [type : {"buffer"}, buffer : Agl!Buffers, size : Agl!ShotSizes]
    BY <1>2, <1>3, <2>1
  <2>4. \A e : result' # Agl!Error(e)
    BY <2>2, AglResultsDiffer
  <2>5. image[next] = Agl!Candidates[next] /\ image' = image
    BY <1>1, <1>2, <1>4 DEF AglTells
  <2>6. Agl!DeliveredAsDrawn' /\ Agl!RejectionJustified'
    BY <2>2, <2>4, <2>5 DEF Agl!DeliveredAsDrawn, Agl!RejectionJustified
  <2>7. Agl!Return(result', <<Agl!DestroyBuffer, Agl!DestroyScreenshooter>>)
    BY <1>4 DEF Agl!Return
  <2> QED
    BY <1>1, <1>2, <1>3, <1>4, <2>2, <2>3, <2>4, <2>5, <2>6, <2>7, AglReturning
<1>5. ASSUME NEW e \in {"failed", "rejected"}, e = "rejected" => changes > 0 \/ known # output,
             Agl!Return(Agl!Error(e), <<Agl!DestroyBuffer, Agl!DestroyScreenshooter>>),
               UNCHANGED next
      PROVE  AglIInv' /\ AglKeeps
  <2>1. result' = Agl!Error(e) /\ Agl!Error(e).type = "error" /\ Agl!Error(e).error = e
          /\ e \in Agl!Errors
    BY <1>5, AglResultsDiffer DEF Agl!Return, Agl!Errors
  <2>2. /\ result'.type # "buffer" /\ result' # Agl!Error("timeout")
        /\ result' # Agl!Error("unknown dimensions") /\ result' # Agl!Error("no memory")
        /\ result' = Agl!Error("rejected") => e = "rejected"
    BY <2>1, AglResultsDiffer
  <2>3. Agl!DeliveredAsDrawn' /\ Agl!RejectionJustified'
    BY <1>1, <1>5, <2>1, <2>2 DEF Agl!DeliveredAsDrawn, Agl!RejectionJustified
  <2>4. Agl!Return(result', <<Agl!DestroyBuffer, Agl!DestroyScreenshooter>>)
    BY <1>5 DEF Agl!Return
  <2> QED
    BY <1>1, <1>2, <1>5, <2>1, <2>2, <2>3, <2>4, AglReturning
<1>6. CASE status = "no_memory"
             /\ Agl!Return(Agl!Error("failed"), <<Agl!DestroyBuffer, Agl!DestroyScreenshooter>>)
           /\ UNCHANGED next
  BY <1>5, <1>6
<1>7. CASE /\ status = "bad_buffer" /\ ~Agl!HasNext
           /\ Agl!Return(Agl!Error("rejected"), <<Agl!DestroyBuffer, Agl!DestroyScreenshooter>>)
           /\ UNCHANGED next
  <2>1. AglRefused(next) /\ (next = 2 => AglRefused(1))
    BY <1>2, <1>7 DEF AglTells, AglIInv, AglClient
  <2>2. next = Len(Agl!Candidates) /\ (known.swaps => next = 2) /\ (~known.swaps => next = 1)
    <3>1. Len(Agl!Candidates) \in {1, 2} /\ next \in 1 .. Len(Agl!Candidates)
            /\ ~(next < Len(Agl!Candidates))
      BY <1>2, <1>7, AglCandidatesAre DEF AglIInv, Agl!HasNext
    <3>2. next = Len(Agl!Candidates)
      BY ONLY <3>1
    <3> QED
      BY <3>2, AglCandidatesAre DEF AglIInv
  <2>3. ASSUME changes = 0, known = output
        PROVE  FALSE
    <3>1. Agl!Wanted \in {known.mode, Agl!Transpose(known.mode)}
          /\ (~known.swaps => Agl!Wanted = known.mode)
      BY <2>3, AglWantedIs DEF AglIInv
    <3>2. ~(changes > 0)
      BY ONLY <2>3
    <3>3. CASE known.swaps
      BY <2>1, <2>2, <3>1, <3>2, <3>3, AglCandidatesAre DEF AglRefused, AglIInv
    <3>4. CASE ~known.swaps
      BY <2>1, <2>2, <3>1, <3>2, <3>4, AglCandidatesAre DEF AglRefused, AglIInv
    <3> QED
      BY <3>3, <3>4
  <2>4. changes > 0 \/ known # output
    <3>1. changes \in Nat
      BY DEF AglIInv, Agl!TypeOK, Agl!AglConstants
    <3>2. changes = 0 \/ changes > 0
      BY ONLY <3>1
    <3> QED
      BY <2>3, <3>2
  <2> QED
    BY <1>5, <1>7, <2>4
<1>8. CASE /\ status = "bad_buffer" /\ Agl!HasNext
           /\ Agl!Issue(<<Agl!DestroyBuffer>>)
           /\ next' = next + 1
           /\ pc' = "shoot"
           /\ UNCHANGED <<result, destroyed>>
  <2>a. PICK d : d = Agl!DestroyBuffer
    OBVIOUS
  <2> DEFINE t == <<d>>
  <2>1. d \in AglRequests /\ d.type = "destroy buffer" /\ d.buffer = next
    BY <2>a, <1>2, AglKnown
  <2>2. next = 1 /\ next' = 2 /\ next' \in DOMAIN Agl!Candidates /\ Agl!Candidates' = Agl!Candidates
    <3>1. /\ Len(Agl!Candidates) = 1 \/ Len(Agl!Candidates) = 2
          /\ next \in 1 .. Len(Agl!Candidates) /\ next < Len(Agl!Candidates) /\ next' = next + 1
      BY <1>2, <1>8, AglCandidatesAre DEF AglIInv, Agl!HasNext
    <3>2. next = 1 /\ Len(Agl!Candidates) = 2
      <4>1. PICK n : n = Len(Agl!Candidates)
        OBVIOUS
      <4>2. (n = 1 \/ n = 2) /\ next \in 1 .. n /\ next < n
        BY <3>1, <4>1
      <4>3. next = 1 /\ n = 2
        BY ONLY <4>2
      <4> QED
        BY <4>1, <4>3
    <3>3. next' = 2 /\ next' \in 1 .. Len(Agl!Candidates)
      BY ONLY <3>1, <3>2
    <3> QED
      BY <1>1, <3>2, <3>3, AglCandidatesAre DEF AglIInv, Agl!Candidates
  <2>3. /\ result = Agl!NoResult /\ result' = Agl!NoResult /\ result.type # "buffer"
             /\ ~Agl!Created' /\ ~AglLeaving
        /\ result # Agl!Error("timeout")
    BY <1>1, <1>8, AglNotLeaving, AglResultsDiffer DEF Agl!Created
  <2>4. Line(t, AglRequests, AglOrder') /\ ToSet(t) = {d}
    BY <2>1, LineOfOne
  <2>5. Line(requests, AglRequests, AglOrder)' /\ AglQueued' = AglQueued \cup {d}
    <3>1. requests' = requests \o t /\ Line(requests, AglRequests, AglOrder)
      BY <1>8, <2>a DEF Agl!Issue, AglIInv, AglSorted
    <3>2. \A p, q \in AglQueued : AglBefore(p, q) => AglBefore(p, q)'
      BY <1>8, <2>3 DEF AglBefore
    <3>3. ASSUME NEW p \in AglQueued
          PROVE  AglBefore(p, d)'
      <4>1. p \in AglRequests /\ p.type # "destroy screenshooter" /\ p.type # "take shot"
        BY <1>1, <1>2, AglNotLeaving DEF AglLeaving, AglTaking
      <4>2. \/ p.type = "bind"
            \/ p.type = "create buffer" /\ p.buffer <= next
            \/ p.type = "destroy buffer" /\ p.buffer < next
        BY <1>1, <4>1, AglNotLeaving, AglRequestFields
      <4> QED
        BY <2>1, <4>2 DEF AglBefore
    <3> HIDE DEF t
    <3> QED
      BY <2>4, <3>1, <3>2, <3>3, AglIssued
  <2>6. Agl!TypeOK'
    <3>1. next' \in Agl!Buffers /\ pc' \in Agl!Phases
      BY <1>8, <2>2 DEF Agl!Buffers, Agl!Phases
    <3> QED
      BY <1>1, <1>8, <2>2, <3>1 DEF AglIInv, Agl!TypeOK
  <2>7. /\ \A b \in Agl!Buffers : AglMade(b) <=> b = 1
        /\ \A b \in Agl!Buffers : AglMade(b)' <=> b = 1
        /\ \A b : AglCreating(b)' <=> AglCreating(b)
        /\ ~AglTaking' /\ ~AglLeaving'
    <3>1. Agl!Created
      BY <1>1, AglNotLeaving
    <3>2. \A b \in Agl!Buffers : (b < 1 \/ b = 1 <=> b = 1) /\ (b < 2 <=> b = 1)
      BY ONLY DEF Agl!Buffers
    <3>3. \A b \in Agl!Buffers : (AglMade(b) <=> b = 1) /\ (AglMade(b)' <=> b = 1)
      BY <2>2, <2>3, <3>1, <3>2 DEF AglMade
    <3> QED
      BY <1>2, <2>1, <2>3, <2>5, <3>3 DEF AglCreating, AglTaking, AglLeaving
  <2>8. AglSorted'
    <3>1. \A q \in AglQueued' : q.type \notin {"bind", "destroy screenshooter"} => q.buffer = 1
      BY <1>1, <1>2, <2>1, <2>2, <2>5, <2>7, AglNotLeaving, AglRequestFields
    <3>2. \A q \in AglQueued' : q.type # "take shot"
      BY <2>7 DEF AglTaking
    <3>3. \A q \in AglQueued' : q.type = "create buffer" => q.size = Agl!Candidates'[q.buffer]
      BY <2>1, <2>2, <2>5 DEF AglIInv, AglSorted
    <3>4. next' = 2 /\ 1 # 2
      BY ONLY <2>2
    <3>5. 1 \in Agl!Buffers
      BY ONLY DEF Agl!Buffers
    <3> QED
      BY <1>1, <1>2, <1>8, <2>5, <2>7, <3>1, <3>2, <3>3, <3>4, <3>5 DEF AglSorted
  <2>9. \A b \in Agl!Buffers : image[b] = Agl!NoSize
    <3>1. image[next] = Agl!NoSize
      BY <1>2, <1>8 DEF AglTells
    <3> QED
      BY <3>1, <2>2 DEF AglIInv, AglServer
  <2>10. AglServer'
    <3>1. \A q \in AglQueued' : q.type = "destroy buffer"
            => pools[q.buffer] # Agl!NoSize \/ AglCreating(q.buffer)
      BY <1>1, <2>1, <2>5 DEF AglIInv, AglServer
    <3> QED
      BY <1>1, <1>2, <1>8, <2>2, <2>7, <2>9, <3>1 DEF AglIInv, AglServer
  <2>11. AglClient'
    <3>1. AglRefused(1)'
      BY <1>1, <1>2, <1>8, <2>2 DEF AglTells, AglRefused, Agl!Wanted
    <3>2. result' # Agl!Error("rejected") /\ result'.type # "buffer"
      BY <2>3, AglResultsDiffer
    <3> QED
      BY <1>1, <1>2, <1>8, <2>3, <3>1, <3>2
      DEF AglIInv, AglClient, Agl!DeliveredAsDrawn, Agl!RejectionJustified
  <2>12. AglKeeps
    BY <1>1, <1>2, <2>3, <2>7 DEF AglKeeps
  <2> QED
    BY <2>6, <2>8, <2>10, <2>11, <2>12 DEF AglIInv
<1> QED
  BY <1>4, <1>6, <1>7, <1>8 DEF Agl!Outcome

\* The deadline passes: the screenshooter is destroyed, then the buffer.
LEMMA AglTimeoutStep == ASSUME Agl!AglConstants, AglIInv, Agl!Timeout PROVE AglIInv' /\ AglKeeps
<1>a. PICK d : d = Agl!DestroyBuffer
  OBVIOUS
<1>b. PICK e : e = Agl!DestroyScreenshooter
  OBVIOUS
<1> DEFINE t == <<e, d>>
<1> USE DEF Agl!Timeout, Agl!Return, Agl!compositorVars
<1>1. /\ next \in Agl!Buffers /\ ~AglLeaving /\ Agl!Created /\ result.type # "buffer"
           /\ AglMade(next)
      /\ Agl!Candidates' = Agl!Candidates /\ pc' = "done" /\ destroyed' = TRUE /\ pc = "await"
      /\ next' = next /\ known.mode # Agl!NoSize
  BY AglNotLeaving DEF Agl!Candidates, AglIInv, AglSorted
<1>2. /\ result' = Agl!Error("timeout") /\ result' # Agl!Error("unknown dimensions")
      /\ result' # Agl!Error("no memory") /\ result' # Agl!Error("rejected")
           /\ result'.type # "buffer"
      /\ Agl!Created'
  BY AglResultsDiffer DEF Agl!Created
<1>3. /\ d \in AglRequests /\ d.type = "destroy buffer" /\ d.buffer = next
      /\ e \in AglRequests /\ e.type = "destroy screenshooter"
  BY <1>a, <1>b, <1>1, AglKnown
<1>4. Line(t, AglRequests, AglOrder') /\ ToSet(t) = {e, d}
  <2>1. <<e, d>> \in AglOrder'
    BY <1>3 DEF AglOrder, AglBefore
  <2>2. e \in AglRequests /\ d \in AglRequests
    BY <1>3
  <2> QED
    BY ONLY <2>1, <2>2, LineOfTwo, Z3
<1>5. Line(requests, AglRequests, AglOrder)' /\ AglQueued' = AglQueued \cup {e, d}
  <2>1. requests' = requests \o t /\ Line(requests, AglRequests, AglOrder)
    BY <1>a, <1>b DEF Agl!Issue, AglIInv, AglSorted
  <2>2. \A p, q \in AglQueued : AglBefore(p, q) => AglBefore(p, q)'
    BY <1>1 DEF AglBefore, AglLeaving
  <2>3. ASSUME NEW p \in AglQueued
        PROVE  AglBefore(p, e)' /\ AglBefore(p, d)'
    <3>1. p \in AglRequests /\ p.type # "destroy screenshooter"
      BY <1>1, AglNotLeaving DEF AglLeaving
    <3>2. \/ p.type = "bind"
          \/ p.type = "create buffer" /\ p.buffer <= next
          \/ p.type = "take shot" /\ p.buffer <= next
          \/ p.type = "destroy buffer" /\ p.buffer < next
      BY <1>1, <3>1, AglNotLeaving, AglRequestFields
    <3> QED
      BY <1>1, <1>3, <3>2 DEF AglBefore
  <2> HIDE DEF t
  <2> QED
    BY <1>4, <2>1, <2>2, <2>3, AglIssued
<1>6. Agl!TypeOK'
  <2>1. pc' \in Agl!Phases /\ result' \in {Agl!Error(x) : x \in Agl!Errors}
    BY <1>2 DEF Agl!Phases, Agl!Errors
  <2> QED
    BY <1>1, <2>1 DEF AglIInv, Agl!TypeOK
<1>7. /\ \A b : (AglCreating(b)' <=> AglCreating(b)) /\ (AglMade(b)' <=> AglMade(b))
      /\ AglTaking' <=> AglTaking
      /\ AglLeaving'
  BY <1>1, <1>2, <1>3, <1>5 DEF AglCreating, AglMade, AglTaking, AglLeaving
<1>8. AglSorted'
  BY <1>1, <1>2, <1>3, <1>5, <1>7 DEF AglIInv, AglSorted
<1>9. AglServer'
  <2>1. \A q \in AglQueued' : q.type = "destroy buffer"
          => pools[q.buffer] # Agl!NoSize \/ AglCreating(q.buffer)
    BY <1>1, <1>3, <1>5 DEF AglIInv, AglServer
  <2> QED
    BY <1>1, <1>2, <1>7, <2>1 DEF AglIInv, AglServer
<1>10. AglClient'
  BY <1>1, <1>2
  DEF AglIInv, AglClient, AglRefused, Agl!Wanted, Agl!DeliveredAsDrawn, Agl!RejectionJustified
<1>11. AglKeeps
  BY <1>1, <1>2, <1>7 DEF AglKeeps
<1> QED
  BY <1>6, <1>8, <1>9, <1>10, <1>11 DEF AglIInv

\* A step of the thread keeps the invariant.
LEMMA AglThreadStep ==
  ASSUME Agl!AglConstants, AglIInv, Agl!Thread
  PROVE AglIInv' /\ (AglKeeps \/ AglLends)
BY AglStartStep, AglAllocationFailedStep, AglTakeShotStep, AglHandleStep, AglOutcomeStep,
   AglTimeoutStep
DEF Agl!Thread

-----------------------------------------------------------------------------
(* The compositor *)

\* What is known of the first request, and of those behind it.
LEMMA AglFirstRequest ==
  ASSUME Agl!AglConstants, AglIInv, Agl!Serve
  PROVE  /\ AglSorted'
         /\ Head(requests) \in AglQueued /\ Head(requests) \in AglRequests
         /\ AglQueued = {Head(requests)} \cup AglQueued'
         /\ \A q \in AglQueued' : q \in AglRequests /\ AglBefore(Head(requests), q)
         /\ Agl!Candidates' = Agl!Candidates /\ Agl!Created' = Agl!Created
         /\ \A b : AglMade(b)' <=> AglMade(b)
<1> USE DEF Agl!Serve, Agl!clientVars
<1>1. /\ Line(requests, AglRequests, AglOrder)' /\ Head(requests) \in AglRequests
      /\ AglQueued = {Head(requests)} \cup AglQueued'
      /\ \A q \in AglQueued' : q \in AglRequests /\ AglBefore(Head(requests), q)
  BY AglServed DEF AglIInv, AglSorted
<1>2. Agl!Candidates' = Agl!Candidates /\ Agl!Created' = Agl!Created
        /\ \A b : AglMade(b)' <=> AglMade(b)
  BY DEF Agl!Candidates, Agl!Created, AglMade
<1>3. AglSorted'
  <2>1. requests = <<>> => FALSE
    OBVIOUS
  <2> QED
    BY <1>1, <1>2, <2>1 DEF AglIInv, AglSorted, AglLeaving
<1> QED
  BY <1>1, <1>2, <1>3

\* A request that neither begins a shot nor ends one does not change what the
\* client may conclude.
LEMMA AglClientServed ==
  ASSUME Agl!AglConstants, AglIInv, Agl!Serve, (shot # 0 \/ AglTaking)' => shot # 0 \/ AglTaking
  PROVE  AglClient'
<1> USE DEF Agl!Serve, Agl!clientVars
<1>1. Agl!Candidates' = Agl!Candidates /\ Agl!Created' = Agl!Created
  BY AglFirstRequest
<1>2. \A x : AglTells(x)' <=> AglTells(x)
  BY <1>1 DEF AglTells, AglRefused, Agl!Wanted
<1>3. (AglRefused(1)' <=> AglRefused(1))
  BY <1>1 DEF AglRefused, Agl!Wanted
<1> QED
  BY <1>1, <1>2, <1>3 DEF AglIInv, AglClient, Agl!DeliveredAsDrawn, Agl!RejectionJustified

\* Is the memory of buffer b held, or about to be?
AglHeld(b) == pools[b] # Agl!NoSize \/ AglCreating(b)

\* The buffers are counted from one.
LEMMA AglCounted == \A b \in Agl!Buffers : b # 0 /\ ~(b < b)
BY DEF Agl!Buffers

\* The screenshooter comes into being.
LEMMA AglBindServed ==
  ASSUME Agl!AglConstants, AglIInv, Agl!Serve, Head(requests).type = "bind"
  PROVE  /\ AglIInv' /\ UNCHANGED <<shot, pools>> /\ (AglTaking' <=> AglTaking)
         /\ \A b \in Agl!Buffers : AglHeld(b)' <=> AglHeld(b)
<1>a. PICK r : r = Head(requests)
  OBVIOUS
<1> USE DEF Agl!Serve, Agl!clientVars
<1>1. /\ AglSorted' /\ AglQueued = {r} \cup AglQueued'
      /\ Agl!Candidates' = Agl!Candidates /\ Agl!Created' = Agl!Created
      /\ \A b : AglMade(b)' <=> AglMade(b)
  BY <1>a, AglFirstRequest
<1>2. r.type = "bind" /\ shot' = shot /\ pools' = pools /\ screenshooter' = TRUE
  BY <1>a
<1>3. /\ (AglTaking' <=> AglTaking) /\ (AglLeaving' <=> AglLeaving)
      /\ \A b : AglCreating(b)' <=> AglCreating(b)
  BY <1>1, <1>2 DEF AglTaking, AglLeaving, AglCreating
<1>4. Agl!TypeOK'
  BY <1>1, <1>2 DEF AglIInv, Agl!TypeOK
<1>5. AglServer'
  <2>1. \A q \in AglQueued' : q.type = "destroy buffer"
          => pools[q.buffer] # Agl!NoSize \/ AglCreating(q.buffer)
    BY <1>1 DEF AglIInv, AglServer
  <2> QED
    BY <1>1, <1>2, <1>3, <2>1 DEF AglIInv, AglServer
<1>6. AglClient'
  BY <1>2, <1>3, AglClientServed
<1> QED
  BY <1>1, <1>2, <1>3, <1>4, <1>5, <1>6 DEF AglIInv, AglHeld

\* A buffer comes into being.
LEMMA AglCreateServed ==
  ASSUME Agl!AglConstants, AglIInv, Agl!Serve, Head(requests).type = "create buffer"
  PROVE  /\ AglIInv' /\ UNCHANGED shot /\ (AglTaking' <=> AglTaking)
         /\ \A b \in Agl!Buffers : AglHeld(b)' <=> AglHeld(b)
<1>a. PICK r : r = Head(requests)
  OBVIOUS
<1> USE DEF Agl!Serve, Agl!clientVars
<1>1. /\ AglSorted' /\ r \in AglQueued /\ AglQueued = {r} \cup AglQueued'
      /\ \A q \in AglQueued' : q \in AglRequests /\ AglBefore(r, q)
      /\ Agl!Candidates' = Agl!Candidates /\ Agl!Created' = Agl!Created
      /\ \A b : AglMade(b)' <=> AglMade(b)
  BY <1>a, AglFirstRequest
<1>2. r \in AglRequests /\ r.type = "create buffer" /\ r.buffer \in Agl!Buffers
        /\ r.size \in Agl!ShotSizes
  BY <1>a, AglFirstRequest, AglRequestFields
<1>3. r.size # Agl!NoSize /\ r.size = Agl!Candidates[r.buffer] /\ AglMade(r.buffer)
  BY <1>1, <1>2, AglSizes DEF AglIInv, AglSorted
<1>4. pools' = [pools EXCEPT ![r.buffer] = r.size] /\ shot' = shot
  BY <1>a, <1>2
<1>5. pools'[r.buffer] = r.size /\ \A b \in Agl!Buffers \ {r.buffer} : pools'[b] = pools[b]
  BY <1>2, <1>4 DEF AglIInv, Agl!TypeOK
<1>6. ~AglCreating(r.buffer)'
        /\ \A b \in Agl!Buffers \ {r.buffer} : AglCreating(b)' <=> AglCreating(b)
  <2>1. \A q \in AglQueued' : q.type = "create buffer" => q.buffer # r.buffer
    <3>1. \A q \in AglQueued' : q.type = "create buffer" => r.buffer < q.buffer
      BY <1>1, <1>2 DEF AglBefore
    <3>2. ~(r.buffer < r.buffer)
      BY <1>2, AglCounted
    <3> QED
      BY <3>1, <3>2
  <2> QED
    BY <1>1, <1>2, <2>1 DEF AglCreating
<1>7. (AglTaking' <=> AglTaking) /\ (AglLeaving' <=> AglLeaving)
  BY <1>1, <1>2 DEF AglTaking, AglLeaving
<1>8. \A b \in Agl!Buffers : AglHeld(b)' <=> AglHeld(b)
  BY <1>1, <1>2, <1>3, <1>5, <1>6 DEF AglHeld, AglCreating
<1>9. Agl!TypeOK'
  BY <1>1, <1>2, <1>4 DEF AglIInv, Agl!TypeOK
<1>10. AglServer'
  <2>1. \A b \in Agl!Buffers : pools'[b] # Agl!NoSize
          => pools'[b] = Agl!Candidates[b] /\ ~AglCreating(b)' /\ AglMade(b)
    BY <1>2, <1>3, <1>5, <1>6 DEF AglIInv, AglServer
  <2>2. \A q \in AglQueued' : q.type = "destroy buffer" => AglHeld(q.buffer)'
    <3>1. \A q \in AglQueued' : q.type = "destroy buffer"
            => q.buffer \in Agl!Buffers /\ AglHeld(q.buffer)
      BY <1>1, AglRequestFields DEF AglIInv, AglServer, AglHeld
    <3> QED
      BY <1>8, <3>1
  <2>3. next \in Agl!Buffers /\ (pc = "await" \/ AglTaking => AglHeld(next)')
    BY <1>8 DEF AglIInv, Agl!TypeOK, AglServer, AglHeld
  <2>4. shot # 0 => shot \in Agl!Buffers /\ pools'[shot] = Agl!Candidates[shot]
    BY <1>2, <1>3, <1>5 DEF AglIInv, AglServer, Agl!TypeOK
  <2> QED
    BY <1>1, <1>4, <1>7, <2>1, <2>2, <2>3, <2>4 DEF AglIInv, AglServer, AglHeld
<1>11. AglClient'
  BY <1>4, <1>7, AglClientServed
<1> QED
  BY <1>1, <1>4, <1>7, <1>8, <1>9, <1>10, <1>11 DEF AglIInv

\* A shot begins.
LEMMA AglTakeServed ==
  ASSUME Agl!AglConstants, AglIInv, Agl!Serve, Head(requests).type = "take shot"
  PROVE  /\ AglIInv' /\ AglTaking /\ ~AglTaking' /\ shot' = next /\ next # 0
         /\ UNCHANGED pools
         /\ \A b \in Agl!Buffers : AglHeld(b)' <=> AglHeld(b)
<1>a. PICK r : r = Head(requests)
  OBVIOUS
<1> USE DEF Agl!Serve, Agl!clientVars
<1>1. /\ AglSorted' /\ r \in AglQueued /\ AglQueued = {r} \cup AglQueued'
      /\ \A q \in AglQueued' : q \in AglRequests /\ AglBefore(r, q)
      /\ Agl!Candidates' = Agl!Candidates /\ Agl!Created' = Agl!Created
      /\ \A b : AglMade(b)' <=> AglMade(b)
  BY <1>a, AglFirstRequest
<1>2. r \in AglRequests /\ r.type = "take shot" /\ r.buffer = next /\ next \in Agl!Buffers
        /\ AglMade(next)
  BY <1>a, <1>1, AglFirstRequest DEF AglIInv, AglSorted, Agl!TypeOK
<1>3. shot' = next /\ pools' = pools
  BY <1>a, <1>2
<1>4. AglTaking /\ ~AglTaking' /\ (AglLeaving' <=> AglLeaving)
  BY <1>1, <1>2 DEF AglTaking, AglLeaving, AglBefore
<1>5. (\A b : ~AglCreating(b)') /\ \A b : ~AglCreating(b)
  BY <1>1, <1>2 DEF AglCreating, AglBefore
<1>6. next # 0 /\ ~(next < next)
  BY <1>2, AglCounted
<1>7. Agl!Created /\ pools[next] = Agl!Candidates[next] /\ status = "pending"
        /\ image[next] = Agl!NoSize
  <2>1. Agl!Created
    BY <1>2, <1>6 DEF AglMade
  <2>2. pools[next] # Agl!NoSize
    BY <1>4, <1>5 DEF AglIInv, AglServer
  <2> QED
    BY <1>2, <1>4, <2>1, <2>2 DEF AglIInv, AglServer
<1>8. Agl!TypeOK'
  BY <1>1, <1>2, <1>3 DEF AglIInv, Agl!TypeOK
<1>9. AglServer'
  <2>1. \A q \in AglQueued' : q.type = "destroy buffer" => pools[q.buffer] # Agl!NoSize
    BY <1>1, <1>5 DEF AglIInv, AglServer
  <2> QED
    BY <1>1, <1>2, <1>3, <1>4, <1>5, <1>7, <2>1 DEF AglIInv, AglServer
<1>10. AglClient'
  BY <1>4, AglClientServed
<1> QED
  BY <1>1, <1>3, <1>4, <1>5, <1>6, <1>8, <1>9, <1>10 DEF AglIInv, AglHeld

\* The screenshooter is destroyed, which abandons the shot in progress.
LEMMA AglScreenshooterDestroyed ==
  ASSUME Agl!AglConstants, AglIInv, Agl!Serve, Head(requests).type = "destroy screenshooter"
  PROVE  /\ AglIInv' /\ ~AglTaking /\ ~AglTaking' /\ shot' = 0 /\ UNCHANGED pools
         /\ \A b \in Agl!Buffers : AglHeld(b)' <=> AglHeld(b)
<1>a. PICK r : r = Head(requests)
  OBVIOUS
<1> USE DEF Agl!Serve, Agl!clientVars
<1>1. /\ AglSorted' /\ r \in AglQueued /\ AglQueued = {r} \cup AglQueued'
      /\ \A q \in AglQueued' : q \in AglRequests /\ AglBefore(r, q)
      /\ Agl!Candidates' = Agl!Candidates /\ Agl!Created' = Agl!Created
      /\ \A b : AglMade(b)' <=> AglMade(b)
  BY <1>a, AglFirstRequest
<1>2. r.type = "destroy screenshooter" /\ pc = "done"
  BY <1>a, <1>1 DEF AglIInv, AglSorted, AglLeaving
<1>3. shot' = 0 /\ pools' = pools
  BY <1>a, <1>2
<1>4. ~AglTaking /\ ~AglTaking'
  BY <1>1, <1>2 DEF AglTaking, AglBefore
<1>5. \A b : AglCreating(b)' <=> AglCreating(b)
  BY <1>1, <1>2 DEF AglCreating
<1>6. Agl!TypeOK'
  BY <1>1, <1>3 DEF AglIInv, Agl!TypeOK
<1>7. AglServer'
  <2>1. \A q \in AglQueued' : q.type = "destroy buffer"
          => pools[q.buffer] # Agl!NoSize \/ AglCreating(q.buffer)'
    BY <1>1, <1>5 DEF AglIInv, AglServer
  <2> QED
    BY <1>1, <1>2, <1>3, <1>4, <1>5, <2>1 DEF AglIInv, AglServer
<1>8. AglClient'
  BY <1>3, <1>4, AglClientServed
<1> QED
  BY <1>1, <1>3, <1>4, <1>5, <1>6, <1>7, <1>8 DEF AglIInv, AglHeld

\* A buffer is destroyed, which is not on loan.
LEMMA AglBufferDestroyed ==
  ASSUME Agl!AglConstants, AglIInv, Agl!Serve, Head(requests).type = "destroy buffer"
  PROVE  \E b \in Agl!Buffers :
           /\ AglIInv' /\ UNCHANGED shot /\ (AglTaking' <=> AglTaking) /\ (shot # 0
                \/ AglTaking => next # b)
           /\ AglHeld(b) /\ ~AglHeld(b)' /\ AglMade(b)
           /\ \A c \in Agl!Buffers \ {b} : AglHeld(c)' <=> AglHeld(c)
<1>a. PICK r : r = Head(requests)
  OBVIOUS
<1> USE DEF Agl!Serve, Agl!clientVars
<1>1. /\ AglSorted' /\ r \in AglQueued /\ AglQueued = {r} \cup AglQueued'
      /\ \A q \in AglQueued' : q \in AglRequests /\ AglBefore(r, q)
      /\ Agl!Candidates' = Agl!Candidates /\ Agl!Created' = Agl!Created
      /\ \A b : AglMade(b)' <=> AglMade(b)
  BY <1>a, AglFirstRequest
<1>2. r \in AglRequests /\ r.type = "destroy buffer" /\ r.buffer \in Agl!Buffers
  BY <1>a, AglFirstRequest, AglRequestFields
<1>3. pools' = [pools EXCEPT ![r.buffer] = Agl!NoSize] /\ shot' = shot
  BY <1>a, <1>2
<1>4. pools'[r.buffer] = Agl!NoSize /\ \A b \in Agl!Buffers \ {r.buffer} : pools'[b] = pools[b]
  BY <1>2, <1>3 DEF AglIInv, Agl!TypeOK
<1>5. ~(r.buffer < r.buffer) /\ ~(next < next)
  BY <1>2, AglCounted DEF AglIInv, Agl!TypeOK
<1>6. /\ ~AglCreating(r.buffer)' /\ \A b : AglCreating(b)' <=> AglCreating(b)
      /\ \A q \in AglQueued' : q.type = "destroy buffer" => q.buffer # r.buffer
  <2>1. \A q \in AglQueued' : q.type = "create buffer" \/ q.type = "destroy buffer"
          => r.buffer < q.buffer
    BY <1>1, <1>2 DEF AglBefore
  <2> QED
    BY <1>1, <1>2, <1>5, <2>1 DEF AglCreating
<1>7. (AglTaking' <=> AglTaking) /\ (AglLeaving' <=> AglLeaving)
  BY <1>1, <1>2 DEF AglTaking, AglLeaving
<1>8. shot # 0 \/ AglTaking => next # r.buffer
  <2> SUFFICES ASSUME shot # 0 \/ AglTaking, next = r.buffer
               PROVE  FALSE
    OBVIOUS
  <2>1. pc = "done"
    BY <1>1, <1>2 DEF AglIInv, AglSorted
  <2>2. result = Agl!Error("timeout") /\ AglLeaving
    BY <2>1 DEF AglIInv, AglServer
  <2>3. PICK q \in AglQueued : q.type = "destroy screenshooter"
    BY <2>2 DEF AglLeaving
  <2>4. AglBefore(r, q)
    BY <1>1, <1>2, <2>3
  <2> QED
    BY <1>2, <1>5, <2>2, <2>3, <2>4 DEF AglBefore
<1>9. pc = "await" => next # r.buffer
  BY <1>1, <1>2 DEF AglIInv, AglSorted
<1>10. Agl!TypeOK'
  BY <1>1, <1>2, <1>3 DEF AglIInv, Agl!TypeOK
<1>11. AglServer'
  <2>1. \A b \in Agl!Buffers : pools'[b] # Agl!NoSize => pools[b] # Agl!NoSize
    BY <1>4
  <2>2. \A b \in Agl!Buffers : pools'[b] # Agl!NoSize => pools'[b] = pools[b]
    BY <1>4
  <2>3. \A q \in AglQueued' : q.type = "destroy buffer"
          => pools'[q.buffer] # Agl!NoSize \/ AglCreating(q.buffer)'
    <3>1. \A q \in AglQueued' : q.type = "destroy buffer" =>
            q.buffer \in Agl!Buffers \ {r.buffer} /\ (pools[q.buffer] # Agl!NoSize
              \/ AglCreating(q.buffer))
      BY <1>1, <1>6, AglRequestFields DEF AglIInv, AglServer
    <3> QED
      BY <1>4, <1>6, <3>1
  <2>4. next \in Agl!Buffers /\ (shot # 0 => shot = next)
    BY DEF AglIInv, AglServer, Agl!TypeOK
  <2>5. pc = "await" \/ AglTaking => pools'[next] # Agl!NoSize \/ AglCreating(next)'
    BY <1>4, <1>6, <1>8, <1>9, <2>4 DEF AglIInv, AglServer
  <2>6. shot # 0 => pools'[shot] = Agl!Candidates[shot]
    BY <1>4, <1>8, <2>4 DEF AglIInv, AglServer
  <2> QED
    BY <1>1, <1>3, <1>6, <1>7, <2>1, <2>2, <2>3, <2>5, <2>6 DEF AglIInv, AglServer
<1>12. AglClient'
  BY <1>3, <1>7, AglClientServed
<1>13. AglHeld(r.buffer) /\ ~AglHeld(r.buffer)' /\ AglMade(r.buffer)
  BY <1>1, <1>2, <1>4, <1>6 DEF AglIInv, AglServer, AglSorted, AglHeld
<1>14. \A c \in Agl!Buffers \ {r.buffer} : AglHeld(c)' <=> AglHeld(c)
  BY <1>4, <1>6 DEF AglHeld
<1> QED
  BY <1>1, <1>2, <1>3, <1>7, <1>8, <1>10, <1>11, <1>12, <1>13, <1>14 DEF AglIInv

\* The compositor answers the shot in progress.
LEMMA AglDoneStep ==
  ASSUME Agl!AglConstants, AglIInv, NEW s \in Agl!DoneStatuses, shot # 0, Agl!Done(s),
         s = "success" => pools[shot] = Agl!Wanted /\ image' = [image EXCEPT ![shot] = pools[shot]],
         s = "bad_buffer" => pools[shot] # Agl!Wanted,
         s # "success" => UNCHANGED image
  PROVE  /\ AglIInv' /\ ~AglTaking /\ ~AglTaking' /\ shot' = 0 /\ shot = next
              /\ shot \in Agl!Buffers
         /\ UNCHANGED <<next, result>> /\ image[next] = Agl!NoSize /\ result.type # "buffer"
         /\ \A b \in Agl!Buffers : AglHeld(b)' <=> AglHeld(b)
         /\ \A b \in Agl!Buffers : AglMade(b)' <=> AglMade(b)
         /\ \A b \in Agl!Buffers \ {next} : image'[b] = image[b]
<1> USE DEF Agl!Done, Agl!clientVars
<1>1. /\ shot = next /\ Agl!Created /\ status = "pending" /\ ~AglTaking /\ shot \in Agl!Buffers
      /\ pools[next] = Agl!Candidates[next] /\ image[next] = Agl!NoSize
  BY DEF AglIInv, AglServer, Agl!TypeOK
<1>2. /\ AglQueued' = AglQueued /\ Line(requests, AglRequests, AglOrder)'
           /\ Agl!Created' = Agl!Created
      /\ Agl!Candidates' = Agl!Candidates
  <2>1. Line(requests, AglRequests, AglOrder)
    BY DEF AglIInv, AglSorted
  <2> QED
    BY <2>1, AglNoneIssued DEF AglBefore, Agl!Created, Agl!Candidates
<1>3. /\ \A b : (AglCreating(b)' <=> AglCreating(b)) /\ (AglMade(b)' <=> AglMade(b))
           /\ (AglHeld(b)' <=> AglHeld(b))
      /\ ~AglTaking' /\ (AglLeaving' <=> AglLeaving)
  BY <1>1, <1>2 DEF AglCreating, AglMade, AglHeld, AglTaking, AglLeaving
<1>4. pc = "await" \/ (pc = "done" /\ result = Agl!Error("timeout") /\ destroyed)
  BY <1>1 DEF Agl!Created, AglIInv, AglServer, AglClient
<1>5. result.type # "buffer" /\ result # Agl!Error("rejected")
  BY <1>4, AglResultsDiffer DEF AglIInv, AglClient
<1>6. /\ image' \in [Agl!Buffers -> Agl!ShotSizes \cup {Agl!NoSize}]
      /\ \A b \in Agl!Buffers \ {next} : image'[b] = image[b]
      /\ image'[next] = IF s = "success" THEN Agl!Candidates[next] ELSE Agl!NoSize
  <2>1. image \in [Agl!Buffers -> Agl!ShotSizes \cup {Agl!NoSize}]
          /\ pools[next] \in Agl!ShotSizes \cup {Agl!NoSize}
    BY <1>1 DEF AglIInv, Agl!TypeOK
  <2>2. CASE s = "success"
    BY <1>1, <2>1, <2>2
  <2>3. CASE s # "success"
    BY <1>1, <2>1, <2>3
  <2> QED
    BY <2>2, <2>3
<1>7. Agl!TypeOK'
  <2>1. shot' = 0
    OBVIOUS
  <2> QED
    BY <1>2, <1>6, <2>1 DEF AglIInv, Agl!TypeOK
<1>8. AglSorted'
  BY <1>2, <1>3 DEF AglIInv, AglSorted
<1>9. AglServer'
  <2>1. \A b \in Agl!Buffers : image'[b] # Agl!NoSize => b = next /\ image'[b] = Agl!Candidates[b]
    BY <1>1, <1>6 DEF AglIInv, AglServer
  <2> QED
    BY <1>1, <1>2, <1>3, <2>1 DEF AglIInv, AglServer
<1>10. AglClient'
  <2>1. AglTells(s)' /\ AglTells(status)'
    <3>1. s = "bad_buffer" => AglRefused(next) /\ image'[next] = Agl!NoSize
      BY <1>1, <1>6 DEF AglRefused
    <3>2. s = "success" => image'[next] = Agl!Candidates[next]
      BY <1>6
    <3>3. AglRefused(next)' <=> AglRefused(next)
      BY <1>2 DEF AglRefused, Agl!Wanted
    <3> QED
      BY <1>1, <1>2, <3>1, <3>2, <3>3 DEF AglTells
  <2>2. pc = "await" => events' = <<s>>
    <3>1. pc = "await" => events = <<>> /\ ~destroyed
      BY DEF AglIInv, AglClient, Agl!TypeOK
    <3> QED
      BY <3>1
  <2>3. pc \notin {"start", "shoot"}
    BY <1>1 DEF Agl!Created
  <2>4. AglRefused(1)' <=> AglRefused(1)
    BY <1>2 DEF AglRefused, Agl!Wanted
  <2> QED
    BY <1>1, <1>2, <1>3, <1>5, <2>1, <2>2, <2>3, <2>4
      DEF AglIInv, AglClient, Agl!DeliveredAsDrawn, Agl!RejectionJustified
<1> QED
  BY <1>1, <1>3, <1>5, <1>6, <1>7, <1>8, <1>9, <1>10 DEF AglIInv

\* The output is rotated or changes mode: from now on a refusal is justified.
LEMMA AglChangeStep ==
  ASSUME Agl!AglConstants, AglIInv, NEW o \in Agl!Outputs, Agl!ChangeOutput(o)
  PROVE  /\ AglIInv' /\ UNCHANGED <<shot, pools, image, next, result>>
         /\ (AglTaking' <=> AglTaking) /\ \A b : (AglHeld(b)' <=> AglHeld(b))
              /\ (AglMade(b)' <=> AglMade(b))
<1> USE DEF Agl!ChangeOutput, Agl!clientVars
<1>1. changes' \in 0 .. MaxChanges /\ changes' # 0 /\ changes' > 0
  <2>1. changes \in 0 .. MaxChanges /\ MaxChanges \in Nat
    BY DEF AglIInv, Agl!TypeOK, Agl!AglConstants
  <2>2. changes' = changes + 1 /\ changes < MaxChanges
    OBVIOUS
  <2> QED
    BY ONLY <2>1, <2>2
<1>2. /\ AglQueued' = AglQueued /\ Line(requests, AglRequests, AglOrder)'
           /\ Agl!Created' = Agl!Created
      /\ Agl!Candidates' = Agl!Candidates
  <2>1. Line(requests, AglRequests, AglOrder)
    BY DEF AglIInv, AglSorted
  <2> QED
    BY <2>1, AglNoneIssued DEF AglBefore, Agl!Created, Agl!Candidates
<1>3. /\ \A b : (AglCreating(b)' <=> AglCreating(b)) /\ (AglMade(b)' <=> AglMade(b))
      /\ (AglTaking' <=> AglTaking) /\ (AglLeaving' <=> AglLeaving)
  BY <1>2 DEF AglCreating, AglMade, AglTaking, AglLeaving
<1>4. Agl!TypeOK'
  BY <1>1, <1>2 DEF AglIInv, Agl!TypeOK
<1>5. AglSorted'
  BY <1>2, <1>3 DEF AglIInv, AglSorted
<1>6. AglServer'
  BY <1>2, <1>3 DEF AglIInv, AglServer
<1>7. AglClient'
  <2>1. \A b : AglRefused(b)'
    BY <1>1 DEF AglRefused
  <2>2. \A x : AglTells(x) => AglTells(x)'
    BY <1>2, <2>1 DEF AglTells
  <2> QED
    BY <1>1, <1>2, <1>3, <2>1, <2>2
    DEF AglIInv, AglClient, Agl!DeliveredAsDrawn, Agl!RejectionJustified
<1> QED
  BY <1>3, <1>4, <1>5, <1>6, <1>7 DEF AglIInv, AglHeld

-----------------------------------------------------------------------------
(* Theorems *)

\* A step of the compositor keeps the invariant.
LEMMA AglCompositorStep == ASSUME Agl!AglConstants, AglIInv, Agl!Compositor PROVE AglIInv'
<1>1. CASE Agl!Serve
  <2>1. \/ Head(requests).type = "create buffer" \/ Head(requests).type = "take shot"
        \/ Head(requests).type = "destroy buffer" \/ Head(requests).type = "destroy screenshooter"
        \/ Head(requests).type = "bind"
    BY <1>1, AglFirstRequest, AglRequestFields
  <2> QED
    BY <1>1, <2>1, AglBindServed, AglCreateServed, AglTakeServed, AglScreenshooterDestroyed,
       AglBufferDestroyed
<1>2. CASE shot # 0 /\ Agl!Succeed
  BY <1>2, AglDoneStep DEF Agl!Succeed, Agl!DoneStatuses
<1>3. CASE shot # 0 /\ Agl!Refuse
  BY <1>3, AglDoneStep DEF Agl!Refuse, Agl!DoneStatuses
<1>4. CASE shot # 0 /\ Agl!OutOfMemory
  BY <1>4, AglDoneStep DEF Agl!OutOfMemory, Agl!DoneStatuses
<1>5. CASE \E o \in Agl!Outputs : Agl!ChangeOutput(o)
  BY <1>5, AglChangeStep
<1> QED
  BY <1>1, <1>2, <1>3, <1>4, <1>5 DEF Agl!Compositor

\* Every step keeps the invariant.
LEMMA AglPreserved == ASSUME Agl!AglConstants, AglIInv, [Agl!Next]_(Agl!vars) PROVE AglIInv'
<1>1. CASE Agl!Next
  BY <1>1, AglThreadStep, AglCompositorStep DEF Agl!Next
<1>2. CASE UNCHANGED Agl!vars
  <2> USE <1>2 DEF Agl!vars
  <2>1. AglQueued' = AglQueued /\ Line(requests, AglRequests, AglOrder)'
          /\ Agl!Candidates' = Agl!Candidates /\ Agl!Created' = Agl!Created
    <3>1. Line(requests, AglRequests, AglOrder)
      BY DEF AglIInv, AglSorted
    <3> QED
      BY <3>1, AglNoneIssued DEF AglBefore, Agl!Candidates, Agl!Created
  <2>2. /\ \A b : (AglMade(b)' <=> AglMade(b)) /\ (AglCreating(b)' <=> AglCreating(b))
        /\ (AglTaking' <=> AglTaking) /\ (AglLeaving' <=> AglLeaving)
    BY <2>1 DEF AglMade, AglCreating, AglTaking, AglLeaving
  <2>3. \A x : (AglTells(x)' <=> AglTells(x)) /\ (AglRefused(x)' <=> AglRefused(x))
    BY <2>1 DEF AglTells, AglRefused, Agl!Wanted
  <2>4. Agl!TypeOK' /\ AglSorted'
    BY <2>1, <2>2 DEF AglIInv, Agl!TypeOK, AglSorted
  <2>5. AglServer' /\ AglClient'
    BY <2>1, <2>2, <2>3
    DEF AglIInv, AglServer, AglClient, Agl!DeliveredAsDrawn, Agl!RejectionJustified
  <2> QED
    BY <2>4, <2>5 DEF AglIInv
<1> QED
  BY <1>1, <1>2

\* The capture, its connection and the compositor's objects stay in step.
THEOREM AglInvariant == Agl!AglConstants => (Agl!Spec => []AglIInv)
<1> SUFFICES ASSUME Agl!AglConstants PROVE Agl!Spec => []AglIInv
  OBVIOUS
<1>1. Agl!Init => AglIInv
  BY AglInitially
<1>2. AglIInv /\ [Agl!Next]_(Agl!vars) => AglIInv'
  BY AglPreserved
<1> QED
  BY <1>1, <1>2, PTL DEF Agl!Spec

\* What the invariant says of the properties of a capture.
LEMMA AglPromises == AglIInv => Agl!TypeOK /\ Agl!DeliveredAsDrawn /\ Agl!RejectionJustified
BY DEF AglIInv, AglClient

\* The state of a capture, of its connection and of the compositor's objects
\* is well-typed (AglState, the candidates and their buffers).
THEOREM AglTypeCorrect == Agl!AglConstants => (Agl!Spec => []Agl!TypeOK)
<1> SUFFICES ASSUME Agl!AglConstants PROVE Agl!Spec => []Agl!TypeOK
  OBVIOUS
<1>1. AglIInv => Agl!TypeOK
  BY AglPromises
<1> QED
  BY <1>1, AglInvariant, PTL

\* The image is described with the size the compositor drew (the width and
\* height that capture() hands on with the candidate that succeeded).
THEOREM AglDrawnAsDescribed == Agl!AglConstants => (Agl!Spec => []Agl!DeliveredAsDrawn)
<1> SUFFICES ASSUME Agl!AglConstants PROVE Agl!Spec => []Agl!DeliveredAsDrawn
  OBVIOUS
<1>1. AglIInv => Agl!DeliveredAsDrawn
  BY AglPromises
<1> QED
  BY <1>1, AglInvariant, PTL

\* One of the candidates is accepted unless the output changed since the
\* refresh (candidate_sizes and the loop of capture()).
THEOREM AglRejectedOnlyIfChanged == Agl!AglConstants => (Agl!Spec => []Agl!RejectionJustified)
<1> SUFFICES ASSUME Agl!AglConstants PROVE Agl!Spec => []Agl!RejectionJustified
  OBVIOUS
<1>1. AglIInv => Agl!RejectionJustified
  BY AglPromises
<1> QED
  BY <1>1, AglInvariant, PTL

-----------------------------------------------------------------------------
(* The loan of a buffer *)

AglLoan ==
  INSTANCE BufferLoan WITH
    Buffers <- Agl!Buffers, NoBuffer <- 0,
    loan <- Agl!Lent, finished <- Agl!Finished, freed <- Agl!Released, delivered <- Agl!Delivered

\* What is lent, in terms of the requests.
AglLendingIs ==
  /\ next \in Agl!Buffers /\ next # 0
  /\ shot # 0 \/ AglTaking => Agl!Lent = next
  /\ shot = 0 /\ ~AglTaking => Agl!Lent = 0
  /\ Agl!Finished = {b \in Agl!Buffers : image[b] # Agl!NoSize}
  /\ Agl!Released = {b \in Agl!Buffers : AglMade(b) /\ ~AglHeld(b)}

\* The invariant tells what is lent.
LEMMA AglLentIs == AglIInv => AglLendingIs
<1> SUFFICES ASSUME AglIInv PROVE AglLendingIs
  OBVIOUS
<1>1. next \in Agl!Buffers /\ next # 0
  BY AglCounted DEF AglIInv, Agl!TypeOK
<1> DEFINE asked == {q.buffer : q \in {r \in ToSet(requests) : r.type = "take shot"}}
           lent == asked \cup (IF shot = 0 THEN {} ELSE {shot})
<1>2. \A b \in asked : b = next
  BY DEF AglIInv, AglSorted, AglQueued
<1>3. (asked = {} <=> ~AglTaking)
  BY DEF AglTaking, AglQueued
<1>4. shot # 0 => shot = next
  BY DEF AglIInv, AglServer
<1>5. Agl!Lent = IF lent = {} THEN 0 ELSE CHOOSE b \in lent : TRUE
  BY DEF Agl!Lent, ToSet, Agl!ToSet
<1>6. CASE shot # 0 \/ AglTaking
  <2>1. lent = {next}
    BY <1>2, <1>3, <1>4, <1>6
  <2> HIDE DEF lent
  <2>2. lent # {} /\ (CHOOSE b \in lent : TRUE) = next
    BY <2>1
  <2> QED
    BY <1>1, <1>5, <1>6, <2>2 DEF AglLendingIs, Agl!Finished, Agl!Released, AglMade,
      AglHeld, AglCreating, AglQueued, ToSet, Agl!ToSet
<1>7. CASE shot = 0 /\ ~AglTaking
  <2>1. lent = {}
    BY <1>3, <1>7
  <2> QED
    BY <1>1, <1>5, <1>7, <2>1 DEF AglLendingIs, Agl!Finished, Agl!Released, AglMade,
      AglHeld, AglCreating, AglQueued, ToSet, Agl!ToSet
<1> QED
  BY <1>6, <1>7

\* The same after a step.
LEMMA AglLentNext == AglIInv' => AglLendingIs'
BY AglLentIs, PTL

\* A step that does not touch what is lent is one of the loan that does nothing.
LEMMA AglLoanUntouched ==
  ASSUME AglIInv, AglIInv', UNCHANGED <<shot, pools, image>>, (AglTaking' <=> AglTaking),
         shot # 0 \/ AglTaking => next' = next,
         \A b \in Agl!Buffers : (AglHeld(b)' <=> AglHeld(b)) /\ (AglMade(b)' <=> AglMade(b))
  PROVE  UNCHANGED <<Agl!Lent, Agl!Finished, Agl!Released>>
<1>1. Agl!Lent' = Agl!Lent
  BY AglLentIs, AglLentNext DEF AglLendingIs
<1>2. Agl!Finished' = Agl!Finished
  BY AglLentIs, AglLentNext DEF AglLendingIs
<1>3. Agl!Released' = Agl!Released
  BY AglLentIs, AglLentNext DEF AglLendingIs
<1> QED
  BY <1>1, <1>2, <1>3

\* Nothing is on loan at first.
LEMMA AglLoanInit == ASSUME Agl!AglConstants, Agl!Init PROVE AglLoan!Init
<1>1. AglIInv
  BY AglInitially
<1>2. pc = "start" /\ image = [b \in Agl!Buffers |-> Agl!NoSize] /\ result = Agl!NoResult
        /\ next = 1
  BY DEF Agl!Init
<1>3. ~Agl!Created
  BY <1>2 DEF Agl!Created
<1>4. ~AglTaking /\ shot = 0
  BY <1>1, <1>2, AglUnmade, <1>3
<1>5. \A b \in Agl!Buffers : ~AglMade(b)
  <2>1. \A b \in Agl!Buffers : ~(b < 1)
    BY DEF Agl!Buffers
  <2> QED
    BY <1>2, <1>3, <2>1 DEF AglMade
<1>6. Agl!Lent = 0 /\ Agl!Finished = {} /\ Agl!Released = {}
  BY <1>1, <1>2, <1>4, <1>5, AglLentIs DEF AglLendingIs
<1>7. Agl!Delivered = 0
  BY <1>2, AglResultsDiffer DEF Agl!Delivered
<1> QED
  BY <1>6, <1>7 DEF AglLoan!Init

\* The compositor is done with the shot.
LEMMA AglDoneLoan ==
  ASSUME Agl!AglConstants, AglIInv, NEW s \in Agl!DoneStatuses, shot # 0, Agl!Done(s),
         s = "success" => pools[shot] = Agl!Wanted /\ image' = [image EXCEPT ![shot] = pools[shot]],
         s = "bad_buffer" => pools[shot] # Agl!Wanted,
         s # "success" => UNCHANGED image
  PROVE  AglLoan!Next
<1>1. /\ AglIInv' /\ ~AglTaking /\ ~AglTaking' /\ shot' = 0 /\ shot = next /\ shot \in Agl!Buffers
      /\ UNCHANGED <<next, result>> /\ image[next] = Agl!NoSize /\ result.type # "buffer"
      /\ \A b \in Agl!Buffers : AglHeld(b)' <=> AglHeld(b)
      /\ \A b \in Agl!Buffers : AglMade(b)' <=> AglMade(b)
      /\ \A b \in Agl!Buffers \ {next} : image'[b] = image[b]
  BY AglDoneStep
<1>2. Agl!Lent = next /\ Agl!Lent' = 0 /\ next # 0 /\ next \in Agl!Buffers
  BY <1>1, AglLentIs, AglLentNext DEF AglLendingIs
<1>3. Agl!Released' = Agl!Released
  BY <1>1, AglLentIs, AglLentNext DEF AglLendingIs
<1>4. Agl!Delivered' = Agl!Delivered
  BY <1>1 DEF Agl!Delivered
<1>5. Agl!Finished' = Agl!Finished \/ Agl!Finished' = Agl!Finished \cup {next}
  BY <1>1, AglLentIs, AglLentNext DEF AglLendingIs
<1> QED
  BY <1>2, <1>3, <1>4, <1>5 DEF AglLoan!Next, AglLoan!Return

\* A step of the compositor at most ends the loan, or releases a buffer.
LEMMA AglCompositorLoan ==
  ASSUME Agl!AglConstants, AglIInv, AglIInv', Agl!Compositor
  PROVE  [AglLoan!Next]_(AglLoan!vars)
<1>1. CASE Agl!Serve
  <2>1. UNCHANGED <<next, result, image>> /\ Agl!Delivered' = Agl!Delivered
          /\ \A b : AglMade(b)' <=> AglMade(b)
    BY <1>1, AglFirstRequest DEF Agl!Serve, Agl!clientVars, Agl!Delivered
  <2>2. CASE Head(requests).type = "create buffer"
    <3>1. /\ UNCHANGED shot /\ (AglTaking' <=> AglTaking)
          /\ \A b \in Agl!Buffers : AglHeld(b)' <=> AglHeld(b)
      BY <1>1, <2>2, AglCreateServed
    <3>2. Agl!Lent' = Agl!Lent /\ Agl!Finished' = Agl!Finished
      BY <2>1, <3>1, AglLentIs, AglLentNext DEF AglLendingIs
    <3>3. Agl!Released' = Agl!Released
      BY <2>1, <3>1, AglLentIs, AglLentNext DEF AglLendingIs
    <3> QED
      BY <2>1, <3>2, <3>3 DEF AglLoan!vars
  <2>3. CASE Head(requests).type = "take shot"
    <3>1. /\ AglTaking /\ shot' = next /\ next # 0
          /\ \A b \in Agl!Buffers : AglHeld(b)' <=> AglHeld(b)
      BY <1>1, <2>3, AglTakeServed
    <3>2. Agl!Lent' = Agl!Lent /\ Agl!Finished' = Agl!Finished
      BY <2>1, <3>1, AglLentIs, AglLentNext DEF AglLendingIs
    <3>3. Agl!Released' = Agl!Released
      BY <2>1, <3>1, AglLentIs, AglLentNext DEF AglLendingIs
    <3> QED
      BY <2>1, <3>2, <3>3 DEF AglLoan!vars
  <2>4. CASE Head(requests).type = "destroy screenshooter"
    <3>1. /\ ~AglTaking /\ ~AglTaking' /\ shot' = 0
          /\ \A b \in Agl!Buffers : AglHeld(b)' <=> AglHeld(b)
      BY <1>1, <2>4, AglScreenshooterDestroyed
    <3>2. Agl!Lent' = 0 /\ Agl!Finished' = Agl!Finished
      BY <2>1, <3>1, AglLentIs, AglLentNext DEF AglLendingIs
    <3>3. Agl!Released' = Agl!Released
      BY <2>1, <3>1, AglLentIs, AglLentNext DEF AglLendingIs
    <3>4. CASE Agl!Lent = 0
      BY <2>1, <3>2, <3>3, <3>4 DEF AglLoan!vars
    <3>5. CASE Agl!Lent # 0
      BY <2>1, <3>2, <3>3, <3>5 DEF AglLoan!Next, AglLoan!Return
    <3> QED
      BY <3>4, <3>5
  <2>5. CASE Head(requests).type = "destroy buffer"
    <3>1. PICK b \in Agl!Buffers :
           /\ UNCHANGED shot /\ (AglTaking' <=> AglTaking) /\ (shot # 0 \/ AglTaking => next # b)
           /\ AglHeld(b) /\ ~AglHeld(b)' /\ AglMade(b)
           /\ \A c \in Agl!Buffers \ {b} : AglHeld(c)' <=> AglHeld(c)
      BY <1>1, <2>5, AglBufferDestroyed
    <3>2. Agl!Lent' = Agl!Lent /\ Agl!Lent # b /\ Agl!Finished' = Agl!Finished
      BY <2>1, <3>1, AglLentIs, AglLentNext, AglCounted DEF AglLendingIs
    <3>3. b \notin Agl!Released /\ Agl!Released' = Agl!Released \cup {b}
      BY <2>1, <3>1, AglLentIs, AglLentNext DEF AglLendingIs
    <3> QED
      BY <2>1, <3>2, <3>3 DEF AglLoan!Next, AglLoan!Free
  <2>6. CASE Head(requests).type = "bind"
    <3>1. /\ UNCHANGED shot /\ (AglTaking' <=> AglTaking)
          /\ \A b \in Agl!Buffers : AglHeld(b)' <=> AglHeld(b)
      BY <1>1, <2>6, AglBindServed
    <3>2. Agl!Lent' = Agl!Lent /\ Agl!Finished' = Agl!Finished
      BY <2>1, <3>1, AglLentIs, AglLentNext DEF AglLendingIs
    <3>3. Agl!Released' = Agl!Released
      BY <2>1, <3>1, AglLentIs, AglLentNext DEF AglLendingIs
    <3> QED
      BY <2>1, <3>2, <3>3 DEF AglLoan!vars
  <2>7. \/ Head(requests).type = "create buffer" \/ Head(requests).type = "take shot"
        \/ Head(requests).type = "destroy buffer" \/ Head(requests).type = "destroy screenshooter"
        \/ Head(requests).type = "bind"
    BY <1>1, AglFirstRequest, AglRequestFields
  <2> QED
    BY <2>2, <2>3, <2>4, <2>5, <2>6, <2>7
<1>2. CASE shot # 0 /\ Agl!Succeed
  BY <1>2, AglDoneLoan DEF Agl!Succeed, Agl!DoneStatuses
<1>3. CASE shot # 0 /\ Agl!Refuse
  BY <1>3, AglDoneLoan DEF Agl!Refuse, Agl!DoneStatuses
<1>4. CASE shot # 0 /\ Agl!OutOfMemory
  BY <1>4, AglDoneLoan DEF Agl!OutOfMemory, Agl!DoneStatuses
<1>5. CASE \E o \in Agl!Outputs : Agl!ChangeOutput(o)
  <2>1. /\ UNCHANGED <<shot, pools, image, next, result>>
        /\ (AglTaking' <=> AglTaking) /\ \A b : (AglHeld(b)' <=> AglHeld(b))
             /\ (AglMade(b)' <=> AglMade(b))
    BY <1>5, AglChangeStep
  <2>2. UNCHANGED <<Agl!Lent, Agl!Finished, Agl!Released>>
    BY <2>1, AglLoanUntouched
  <2> QED
    BY <2>1, <2>2 DEF AglLoan!vars, Agl!Delivered
<1> QED
  BY <1>1, <1>2, <1>3, <1>4, <1>5 DEF Agl!Compositor

\* A step of the thread at most lends a buffer, or delivers one.
LEMMA AglThreadLoan ==
  ASSUME Agl!AglConstants, AglIInv, AglIInv', Agl!Thread
  PROVE  [AglLoan!Next]_(AglLoan!vars)
<1>1. CASE AglKeeps
  <2>1. \A b \in Agl!Buffers : (AglHeld(b)' <=> AglHeld(b)) /\ (AglMade(b)' <=> AglMade(b))
    BY <1>1 DEF AglKeeps, AglHeld
  <2>2. UNCHANGED <<Agl!Lent, Agl!Finished, Agl!Released>>
    BY <1>1, <2>1, AglLoanUntouched DEF AglKeeps
  <2>3. Agl!Delivered = 0
    BY <1>1 DEF AglKeeps, Agl!Delivered
  <2>4. CASE result'.type # "buffer"
    BY <2>2, <2>3, <2>4 DEF Agl!Delivered, AglLoan!vars
  <2>5. CASE result'.type = "buffer"
    <3>1. result'.buffer \in Agl!Finished /\ Agl!Delivered' = result'.buffer
            /\ result'.buffer \in Agl!Buffers
      BY <1>1, <2>5, AglLentIs DEF AglLendingIs, AglKeeps, Agl!Delivered
    <3> QED
      BY <2>2, <2>3, <3>1 DEF AglLoan!Next, AglLoan!Deliver
  <2> QED
    BY <2>4, <2>5
<1>2. CASE AglLends
  <2>1. /\ Agl!Lent = 0 /\ Agl!Lent' = next /\ next \in Agl!Buffers
        /\ next \notin Agl!Released /\ next \notin Agl!Finished /\ Agl!Finished' = Agl!Finished
    BY <1>2, AglLentIs, AglLentNext DEF AglLendingIs, AglLends
  <2>2. Agl!Released' = Agl!Released
    <3>1. AglHeld(next)' /\ \A b \in Agl!Buffers \ {next} : (AglHeld(b)' <=> AglHeld(b))
            /\ (AglMade(b)' <=> AglMade(b))
      BY <1>2 DEF AglLends, AglHeld
    <3> QED
      BY <1>2, <2>1, <3>1, AglLentIs, AglLentNext DEF AglLendingIs, AglLends
  <2>3. Agl!Delivered' = Agl!Delivered /\ Agl!Delivered = 0
    BY <1>2 DEF AglLends, Agl!Delivered
  <2> QED
    BY <2>1, <2>2, <2>3 DEF AglLoan!Next, AglLoan!Lend
<1> QED
  BY <1>1, <1>2, AglThreadStep

\* A step of agl_screenshooter is one of BufferLoan, or leaves the loan alone.
LEMMA AglStepLoan ==
  ASSUME Agl!AglConstants, AglIInv, AglIInv', [Agl!Next]_(Agl!vars)
  PROVE  [AglLoan!Next]_(AglLoan!vars)
<1>1. CASE Agl!Next
  BY <1>1, AglThreadLoan, AglCompositorLoan DEF Agl!Next
<1>2. CASE UNCHANGED Agl!vars
  <2>1. UNCHANGED <<Agl!Lent, Agl!Finished, Agl!Released, Agl!Delivered>>
    BY <1>2 DEF Agl!vars, Agl!Lent, Agl!Finished, Agl!Released, Agl!Delivered, Agl!Created
  <2> QED
    BY <2>1 DEF AglLoan!vars
<1> QED
  BY <1>1, <1>2

\* A capture by agl_screenshooter keeps the promise of every backend: a
\* candidate's buffer is released only when it is not on loan, also when the
\* deadline abandons its shot (destroy_now in capture, the guards of take_shot),
\* and only a complete image is delivered.
THEOREM AglKeepsTheLoan == Agl!AglConstants => (Agl!Spec => AglLoan!Spec)
<1> SUFFICES ASSUME Agl!AglConstants PROVE Agl!Spec => AglLoan!Spec
  OBVIOUS
<1>1. Agl!Init => AglLoan!Init
  BY AglLoanInit
<1>2. AglIInv /\ AglIInv' /\ [Agl!Next]_(Agl!vars) => [AglLoan!Next]_(AglLoan!vars)
  BY AglStepLoan
<1> QED
  BY <1>1, <1>2, AglInvariant, PTL DEF Agl!Spec, AglLoan!Spec

-----------------------------------------------------------------------------
(* What a capture by agl_screenshooter leaves behind *)

AglDropping(b) == \E q \in AglQueued : q.type = "destroy buffer" /\ q.buffer = b

\* Every buffer that the compositor has, or will have, is the one on loan, or its
\* destruction is under way behind whatever creates it.
AglOwned == \A b \in Agl!Buffers : AglHeld(b) => (b = next /\ pc = "await") \/ AglDropping(b)

\* The requests t are issued, in whatever order.
LEMMA AglBehind ==
  ASSUME AglSorted, NEW t \in Seq(AglRequests), requests' = requests \o t
  PROVE  AglQueued' = AglQueued \cup ToSet(t)
<1>1. requests \in Seq(AglRequests)
  BY DEF AglSorted, Line
<1>2. ToSet(requests \o t) = ToSet(requests) \cup ToSet(t)
  BY <1>1, JoinedMembers
<1> QED
  BY <1>2 DEF AglQueued

\* The same of one request.
LEMMA AglBehindOne ==
  ASSUME AglSorted, NEW c \in AglRequests, requests' = requests \o <<c>>
  PROVE  AglQueued' = AglQueued \cup {c}
<1>1. ToSet(<<c>>) = {c} /\ <<c>> \in Seq(AglRequests)
  <2>1. Line(<<c>>, AglRequests, AglRequests \X AglRequests) /\ ToSet(<<c>>) = {c}
    BY LineOfOne
  <2> QED
    BY <2>1 DEF Line
<1> QED
  BY <1>1, AglBehind

\* The same of two.
LEMMA AglBehindTwo ==
  ASSUME AglSorted, NEW c \in AglRequests, NEW d \in AglRequests, requests' = requests \o <<c, d>>
  PROVE  AglQueued' = AglQueued \cup {c, d}
<1>1. ToSet(<<c, d>>) = {c, d} /\ <<c, d>> \in Seq(AglRequests)
  <2>1. <<c, d>> \in AglRequests \X AglRequests
    OBVIOUS
  <2>2. Line(<<c, d>>, AglRequests, AglRequests \X AglRequests) /\ ToSet(<<c, d>>) = {c, d}
    BY <2>1, LineOfTwo
  <2> QED
    BY <2>2 DEF Line
<1> QED
  BY <1>1, AglBehind

\* Nothing is issued or handled.
LEMMA AglOwnedKept ==
  ASSUME AglOwned, UNCHANGED <<requests, next, pools>>, pc = "await" => pc' = "await"
  PROVE  AglOwned'
BY DEF AglOwned, AglHeld, AglCreating, AglDropping, AglQueued

\* Nothing is created, and the buffer on loan is destroyed.
LEMMA AglOwnedClosed ==
  ASSUME AglOwned, NEW D, AglQueued' = AglQueued \cup D, UNCHANGED pools,
         \A q \in D : q.type = "destroy screenshooter" \/ q.type = "destroy buffer",
         pc = "await" => \E q \in D : q.type = "destroy buffer" /\ q.buffer = next
  PROVE  AglOwned'
<1> SUFFICES ASSUME NEW b \in Agl!Buffers, AglHeld(b)'
             PROVE  AglDropping(b)'
  BY DEF AglOwned
<1>1. AglHeld(b)
  BY DEF AglHeld, AglCreating
<1>2. (b = next /\ pc = "await") \/ AglDropping(b)
  BY <1>1 DEF AglOwned
<1> QED
  BY <1>2 DEF AglDropping

\* The thread lends no buffer without an account of it.
LEMMA AglOwnedThread ==
  ASSUME Agl!AglConstants, AglIInv, AglOwned, Agl!Thread PROVE AglOwned'
<1> USE DEF Agl!compositorVars
<1>1. AglSorted /\ next \in Agl!Buffers
  BY DEF AglIInv, Agl!TypeOK
<1>2. /\ Agl!DestroyScreenshooter \in AglRequests
      /\ Agl!DestroyScreenshooter.type = "destroy screenshooter"
      /\ Agl!DestroyBuffer \in AglRequests /\ Agl!DestroyBuffer.type = "destroy buffer"
      /\ Agl!DestroyBuffer.buffer = next
  BY <1>1, AglKnown
<1>3. CASE Agl!Handle
  BY <1>3, AglOwnedKept DEF Agl!Handle
<1>7. CASE Agl!Start
  <2>1. UNCHANGED <<next, pools>> /\ pc # "await"
    BY <1>7 DEF Agl!Start
  <2>2. CASE UNCHANGED requests
    BY <2>1, <2>2, AglOwnedKept
  <2>3. CASE requests' = requests \o <<[type |-> "bind"]>>
    <3>1. PICK c \in AglRequests : c = [type |-> "bind"]
      BY AglKnown
    <3>2. AglQueued' = AglQueued \cup {c}
      BY <1>1, <2>3, <3>1, AglBehindOne
    <3>3. c.type = "bind"
      BY <3>1
    <3> QED
      BY <2>1, <3>2, <3>3 DEF AglOwned, AglHeld, AglCreating, AglDropping
  <2> QED
    BY <1>7, <2>2, <2>3 DEF Agl!Start, Agl!Issue
<1>4. CASE Agl!AllocationFailed
  <2>1. requests' = requests \o <<Agl!DestroyScreenshooter>>
    BY <1>4 DEF Agl!AllocationFailed, Agl!Return, Agl!Issue
  <2>2. PICK D : D = {Agl!DestroyScreenshooter} /\ AglQueued' = AglQueued \cup D
    BY <1>1, <1>2, <2>1, AglBehindOne
  <2>3. pc = "shoot" /\ UNCHANGED pools
    BY <1>4 DEF Agl!AllocationFailed
  <2>4. \A q \in D : q.type = "destroy screenshooter" \/ q.type = "destroy buffer"
    BY <1>2, <2>2
  <2>5. AglQueued' = AglQueued \cup D /\ ~(pc = "await")
    BY <2>2, <2>3
  <2> QED
    BY <2>3, <2>4, <2>5, AglOwnedClosed
<1>5. CASE Agl!TakeShot
  <2>1. PICK c : c = [type |-> "create buffer", buffer |-> next, size |-> Agl!Candidates[next]]
    OBVIOUS
  <2>2. PICK d : d = [type |-> "take shot", buffer |-> next]
    OBVIOUS
  <2>3. requests' = requests \o <<c, d>>
    BY <1>5, <2>1, <2>2 DEF Agl!TakeShot, Agl!Issue
  <2>4. pc = "shoot" /\ pc' = "await" /\ UNCHANGED <<next, pools>>
    BY <1>5 DEF Agl!TakeShot
  <2>5. next \in DOMAIN Agl!Candidates /\ known.mode # Agl!NoSize
    BY <2>4 DEF AglIInv, Agl!TypeOK, AglSorted
  <2>6. Agl!Candidates[next] \in Agl!ShotSizes
    BY <2>5, AglCandidatesAre DEF AglIInv
  <2>7. c \in AglRequests /\ d \in AglRequests
    BY <1>1, <2>1, <2>2, <2>6, AglKnown
  <2>8. AglQueued' = AglQueued \cup {c, d}
    BY <1>1, <2>3, <2>7, AglBehindTwo
  <2>9. ASSUME NEW b \in Agl!Buffers, AglHeld(b)'
        PROVE  b = next \/ AglDropping(b)'
    <3>a. c.buffer = next /\ d.type = "take shot"
      BY <2>1, <2>2
    <3>b. AglCreating(b)' => b = next \/ AglCreating(b)
      BY <2>8, <3>a DEF AglCreating
    <3>1. b = next \/ AglHeld(b)
      BY <2>4, <2>9, <3>b DEF AglHeld
    <3>2. b = next \/ AglDropping(b)
      BY <3>1 DEF AglOwned
    <3> QED
      BY <2>8, <3>2 DEF AglDropping
  <2> QED
    BY <2>4, <2>9 DEF AglOwned
<1>6. CASE Agl!Outcome \/ Agl!Timeout
  <2>1. pc = "await" /\ UNCHANGED pools
    BY <1>6 DEF Agl!Outcome, Agl!Timeout
  <2>2. \/ requests' = requests \o <<Agl!DestroyBuffer>>
        \/ requests' = requests \o <<Agl!DestroyBuffer, Agl!DestroyScreenshooter>>
        \/ requests' = requests \o <<Agl!DestroyScreenshooter, Agl!DestroyBuffer>>
    BY <1>6 DEF Agl!Outcome, Agl!Timeout, Agl!Return, Agl!Issue
  <2>3. \/ AglQueued' = AglQueued \cup {Agl!DestroyBuffer}
        \/ AglQueued' = AglQueued \cup {Agl!DestroyBuffer, Agl!DestroyScreenshooter}
        \/ AglQueued' = AglQueued \cup {Agl!DestroyScreenshooter, Agl!DestroyBuffer}
    BY <1>1, <1>2, <2>2, AglBehindOne, AglBehindTwo
  <2>4. PICK D : /\ AglQueued' = AglQueued \cup D
                 /\ D \subseteq {Agl!DestroyBuffer, Agl!DestroyScreenshooter}
                 /\ Agl!DestroyBuffer \in D
    BY <2>3
  <2>5. \A q \in D : q.type = "destroy screenshooter" \/ q.type = "destroy buffer"
    BY <1>2, <2>4
  <2>6. \E q \in D : q.type = "destroy buffer" /\ q.buffer = next
    BY <1>2, <2>4
  <2> QED
    BY <2>1, <2>4, <2>5, <2>6, AglOwnedClosed
<1> QED
  BY <1>3, <1>4, <1>5, <1>6, <1>7 DEF Agl!Thread

\* The compositor takes the next request: a buffer that it creates was accounted for,
\* and one that it destroys is not created again.
LEMMA AglOwnedServed ==
  ASSUME Agl!AglConstants, AglIInv, AglOwned, Agl!Serve PROVE AglOwned'
<1>1. PICK r : r = Head(requests)
  OBVIOUS
<1>2. UNCHANGED <<pc, next>>
  BY DEF Agl!Serve, Agl!clientVars
<1>3. /\ r \in AglRequests /\ AglQueued = {r} \cup AglQueued'
      /\ \A q \in AglQueued' : q \in AglRequests /\ AglBefore(r, q)
  BY <1>1, AglFirstRequest
<1>4. CASE r.type = "create buffer"
  <2>1. r.buffer \in Agl!Buffers /\ pools' = [pools EXCEPT ![r.buffer] = r.size]
    BY <1>1, <1>3, <1>4, AglRequestFields DEF Agl!Serve
  <2>2. \A b \in Agl!Buffers : b # r.buffer => pools'[b] = pools[b]
    BY <2>1 DEF AglIInv, Agl!TypeOK
  <2>3. \A b \in Agl!Buffers : AglHeld(b)' => AglHeld(b)
    BY <1>3, <1>4, <2>2 DEF AglHeld, AglCreating
  <2>4. \A b : AglDropping(b)' <=> AglDropping(b)
    BY <1>3, <1>4 DEF AglDropping
  <2> QED
    BY <1>2, <2>3, <2>4 DEF AglOwned
<1>5. CASE r.type \in {"bind", "take shot", "destroy screenshooter"}
  <2>1. UNCHANGED pools
    BY <1>1, <1>5 DEF Agl!Serve
  <2> QED
    BY <1>2, <1>3, <1>5, <2>1 DEF AglOwned, AglHeld, AglCreating, AglDropping
<1>6. CASE r.type = "destroy buffer"
  <2>1. r.buffer \in Agl!Buffers /\ pools' = [pools EXCEPT ![r.buffer] = Agl!NoSize]
    BY <1>1, <1>3, <1>6, AglRequestFields DEF Agl!Serve
  <2>2. /\ pools'[r.buffer] = Agl!NoSize
        /\ \A b \in Agl!Buffers : b # r.buffer => pools'[b] = pools[b]
    BY <2>1 DEF AglIInv, Agl!TypeOK
  <2>3. ~AglCreating(r.buffer)'
    <3>1. \A q \in AglQueued' : q.type = "create buffer" => r.buffer < q.buffer
      BY <1>3, <1>6 DEF AglBefore
    <3>2. ~(r.buffer < r.buffer)
      BY <2>1, AglCounted
    <3>3. \A q \in AglQueued' : ~(q.type = "create buffer" /\ q.buffer = r.buffer)
      BY <3>1, <3>2, Zenon
    <3> QED
      BY <3>3, Zenon DEF AglCreating
  <2>4. \A b : AglCreating(b)' <=> AglCreating(b)
    BY <1>3, <1>6 DEF AglCreating
  <2>5. \A b : b # r.buffer => (AglDropping(b)' <=> AglDropping(b))
    BY <1>3, <1>6 DEF AglDropping
  <2> QED
    BY <1>2, <2>2, <2>3, <2>4, <2>5 DEF AglOwned, AglHeld
<1> QED
  BY <1>3, <1>4, <1>5, <1>6, AglRequestFields

\* Every step keeps the accounts of the buffers.
LEMMA AglOwnedStep ==
  ASSUME Agl!AglConstants, AglIInv, AglOwned, [Agl!Next]_(Agl!vars) PROVE AglOwned'
<1>1. CASE Agl!Succeed \/ Agl!Refuse \/ Agl!OutOfMemory
  BY <1>1, AglOwnedKept DEF Agl!Succeed, Agl!Refuse, Agl!OutOfMemory, Agl!Done, Agl!clientVars
<1>2. CASE \E o \in Agl!Outputs : Agl!ChangeOutput(o)
  BY <1>2, AglOwnedKept DEF Agl!ChangeOutput, Agl!clientVars
<1>3. CASE UNCHANGED Agl!vars
  BY <1>3, AglOwnedKept DEF Agl!vars
<1> QED
  BY <1>1, <1>2, <1>3, AglOwnedThread, AglOwnedServed DEF Agl!Next, Agl!Compositor

AglBinding == \E q \in AglQueued : q.type = "bind"

\* The screenshooter that the compositor has, or will have, is in use, or its
\* destruction is under way.
AglBound == screenshooter \/ AglBinding => pc \in {"shoot", "await"} \/ AglLeaving

\* A capture that returns after it bound the screenshooter destroys it.
LEMMA AglBoundThread ==
  ASSUME Agl!AglConstants, AglIInv, AglBound, Agl!Thread PROVE AglBound'
<1> USE DEF Agl!compositorVars
<1>1. AglSorted
  BY DEF AglIInv
<1>2. CASE Agl!Start
  <2>1. CASE pc' = "shoot"
    BY <2>1 DEF AglBound
  <2>2. CASE UNCHANGED <<requests, screenshooter>>
    <3>1. pc = "start"
      BY <1>2 DEF Agl!Start
    <3>2. ~AglLeaving
      BY <3>1, AglUnmade
    <3> QED
      BY <2>2, <3>1, <3>2 DEF AglBound, AglBinding, AglQueued
  <2> QED
    BY <1>2, <2>1, <2>2 DEF Agl!Start
<1>3. CASE pc' \in {"shoot", "await"}
  BY <1>3 DEF AglBound
<1>4. CASE /\ Agl!AllocationFailed \/ Agl!Outcome \/ Agl!Timeout
           /\ pc' \notin {"shoot", "await"}
  <2>1. PICK c \in AglRequests : c = Agl!DestroyScreenshooter /\ c.type = "destroy screenshooter"
    BY AglKnown
  <2>2. next \in Agl!Buffers
    BY DEF AglIInv, Agl!TypeOK
  <2>3. PICK d \in AglRequests : d = Agl!DestroyBuffer
    BY <2>2, AglKnown
  <2>4. \/ requests' = requests \o <<c>>
        \/ requests' = requests \o <<d, c>>
        \/ requests' = requests \o <<c, d>>
    BY <1>4, <2>1, <2>3
    DEF Agl!AllocationFailed, Agl!Outcome, Agl!Timeout, Agl!Return, Agl!Issue
  <2>5. \/ AglQueued' = AglQueued \cup {c}
        \/ AglQueued' = AglQueued \cup {d, c}
        \/ AglQueued' = AglQueued \cup {c, d}
    BY <1>1, <2>4, AglBehindOne, AglBehindTwo
  <2>6. AglLeaving'
    BY <2>1, <2>5 DEF AglLeaving
  <2> QED
    BY <2>6 DEF AglBound
<1>5. Agl!TakeShot \/ Agl!Handle => pc' = "await"
  BY DEF Agl!TakeShot, Agl!Handle
<1> QED
  BY <1>2, <1>3, <1>4, <1>5 DEF Agl!Thread

\* The compositor takes the next request: what comes after the destruction of the
\* screenshooter does not bind it again.
LEMMA AglBoundServed ==
  ASSUME Agl!AglConstants, AglIInv, AglBound, Agl!Serve PROVE AglBound'
<1>1. PICK r : r = Head(requests)
  OBVIOUS
<1>2. UNCHANGED pc
  BY DEF Agl!Serve, Agl!clientVars
<1>3. /\ r \in AglRequests /\ AglQueued = {r} \cup AglQueued'
      /\ \A q \in AglQueued' : q \in AglRequests /\ AglBefore(r, q)
  BY <1>1, AglFirstRequest
<1>4. CASE r.type = "destroy screenshooter"
  <2>1. screenshooter' = FALSE
    BY <1>1, <1>4 DEF Agl!Serve
  <2>2. ~AglBinding'
    BY <1>3, <1>4 DEF AglBinding, AglBefore
  <2> QED
    BY <2>1, <2>2 DEF AglBound
<1>5. CASE r.type # "destroy screenshooter"
  <2>1. AglLeaving' <=> AglLeaving
    BY <1>3, <1>5 DEF AglLeaving
  <2>2. screenshooter' \/ AglBinding' => screenshooter \/ AglBinding
    <3>1. CASE r.type = "bind"
      BY <1>3, <3>1 DEF AglBinding
    <3>2. CASE r.type # "bind"
      BY <1>1, <1>3, <1>5, <3>2 DEF AglBinding, Agl!Serve
    <3> QED
      BY <3>1, <3>2
  <2> QED
    BY <1>2, <2>1, <2>2 DEF AglBound
<1> QED
  BY <1>4, <1>5

\* Every step keeps the account of the screenshooter.
LEMMA AglBoundStep ==
  ASSUME Agl!AglConstants, AglIInv, AglBound, [Agl!Next]_(Agl!vars) PROVE AglBound'
<1>1. CASE UNCHANGED <<pc, requests, screenshooter>>
  BY <1>1 DEF AglBound, AglBinding, AglLeaving, AglQueued
<1>2. CASE \/ Agl!Succeed \/ Agl!Refuse \/ Agl!OutOfMemory \/ UNCHANGED Agl!vars
           \/ \E o \in Agl!Outputs : Agl!ChangeOutput(o)
  BY <1>1, <1>2
  DEF Agl!Succeed, Agl!Refuse, Agl!OutOfMemory, Agl!Done, Agl!clientVars, Agl!ChangeOutput,
      Agl!vars
<1> QED
  BY <1>2, AglBoundThread, AglBoundServed DEF Agl!Next, Agl!Compositor

\* The accounts of a capture that is over.
LEMMA AglNothingOwned ==
  ASSUME AglIInv, AglOwned, AglBound, pc = "done", requests = <<>> PROVE Agl!NothingHeld
<1>1. AglQueued = {}
  BY NoPlace DEF AglQueued, ToSet
<1>2. ~AglLeaving /\ ~AglTaking /\ \A b : ~AglDropping(b)
  BY <1>1 DEF AglLeaving, AglTaking, AglDropping
<1>3. shot = 0
  BY <1>2 DEF AglIInv, AglServer
<1>4. \A b \in Agl!Buffers : pools[b] = Agl!NoSize
  BY <1>2 DEF AglOwned, AglHeld
<1>5. ~screenshooter
  BY <1>2 DEF AglBound
<1> QED
  BY <1>3, <1>4, <1>5 DEF Agl!NothingHeld

\* Nothing exists before the first request.
LEMMA AglOwnedInitially == ASSUME Agl!Init PROVE AglOwned /\ AglBound
<1>1. AglQueued = {}
  BY NoPlace DEF Agl!Init, AglQueued, ToSet
<1> QED
  BY <1>1 DEF Agl!Init, AglOwned, AglHeld, AglCreating, AglBound, AglBinding

-----------------------------------------------------------------------------
(* wlr-screencopy                                                          *)
(*                                                                         *)
(* The requests under way are in the order they are issued in and pc tells *)
(* the last of them (WlrSorted), so that what has been handled follows     *)
(* from what is not among them (WlrServer); and there is one description   *)
(* and one end of a frame, in this order (WlrClient).                      *)

\* Is a request of type a issued before one of type b?
WlrBefore(a, b) ==
  \/ a = "capture output" /\ b # "capture output"
  \/ a = "create buffer" /\ (b = "copy" \/ b = "destroy frame" \/ b = "destroy buffer")
  \/ a = "copy" /\ (b = "destroy frame" \/ b = "destroy buffer")
  \/ a = "destroy frame" /\ b = "destroy buffer"

WlrRequests ==
  [type : {"capture output", "destroy frame"}] \cup [type : {"copy", "destroy buffer"}, buffer :
    {1}]
    \cup [type : {"create buffer"}, buffer : {1}, geometry : Usable]
WlrEvents == [type : {"buffer"}, geometry : Wlr!Geometries] \cup [type : {"ready", "failed"}]

WlrHas(s, type) == \E i \in DOMAIN s : s[i].type = type

\* A stretch of the requests of one capture, in which a buffer has geometry g.
WlrStretch(s, g) ==
  /\ s \in Seq(WlrRequests)
  /\ \A i, j \in DOMAIN s : i < j => WlrBefore(s[i].type, s[j].type)
  /\ \A i \in DOMAIN s : s[i].type = "create buffer" => s[i].geometry = g

WlrSorted ==
  /\ WlrStretch(requests, geometry)
  /\ pc = "start" => requests = <<>>
  /\ pc = "offer" => geometry = None /\ ~WlrHas(requests, "destroy frame")
  /\ pc = "copy" =>
       geometry # None /\ ~WlrHas(requests, "destroy frame") /\ ~WlrHas(requests, "destroy buffer")
  /\ geometry = None =>
       ~WlrHas(requests, "create buffer") /\ ~WlrHas(requests, "copy")
         /\ ~WlrHas(requests, "destroy buffer")
  /\ geometry # None => ~WlrHas(requests, "capture output") /\ pc \in {"copy", "done"}

WlrServer ==
  /\ pc = "start" \/ WlrHas(requests, "capture output") => frame = Wlr!NoFrame
  /\ pc = "done" =>
       WlrHas(requests, "destroy frame") \/ (frame = Wlr!NoFrame
         /\ ~WlrHas(requests, "capture output"))
  /\ frame.type = "copying" =>
       geometry # None /\ ~WlrHas(requests, "copy") /\ ~WlrHas(requests, "create buffer")
  /\ geometry # None =>
       WlrHas(requests, "create buffer") \/ pools[1] = geometry \/ (pc = "done" /\ requests = <<>>)
  /\ geometry = None \/ WlrHas(requests, "create buffer") => pools[1] = None
  /\ image[1] # None =>
       /\ image[1] = geometry /\ frame.type \in {"over", "none"}
       /\ ~WlrHas(requests, "copy") /\ ~WlrHas(requests, "capture output")

\* While the capture waits: what has been read of the frame, and what will be.
WlrWaiting ==
  /\ \A i \in DOMAIN events : events[i].type = "buffer" => i = 1 /\ state = Wlr!Pending
  /\ \A i \in DOMAIN events : events[i].type # "buffer" =>
       /\ i = Len(events) /\ frame.type = "over" /\ state.type \in {"pending", "allocated"}
       /\ events[i].type = "failed" => refused
       /\ events[i].type = "ready" => image[1] # None
  /\ state.type \in {"ready", "failed"} => events = <<>> /\ frame.type = "over"
  /\ state.type = "failed" => refused
  /\ state.type = "ready" => image[1] # None
  /\ image[1] # None => pc = "copy"
  /\ pc = "copy" => state # Wlr!Pending
  /\ pc = "copy" /\ state.type \in {"allocated", "ready"} => state.geometry = geometry

WlrClient ==
  /\ events \in Seq(WlrEvents)
  /\ destroyed <=> pc = "done"
  /\ pc # "done" => result = Wlr!NoResult
  /\ pc = "start" \/ (pc = "offer" /\ WlrHas(requests, "capture output")) =>
       state = Wlr!Pending /\ events = <<>>
  /\ pc \in {"offer", "copy"} => WlrWaiting
  /\ Wlr!DeliveredAsDrawn
  /\ Wlr!FailureJustified

WlrIInv == Wlr!TypeOK /\ WlrSorted /\ WlrServer /\ WlrClient

-----------------------------------------------------------------------------
(* Requests *)

\* What a request is, by its type.
LEMMA WlrRequestFields ==
  ASSUME NEW r \in WlrRequests
  PROVE  \/ r.type = "capture output"
         \/ r.type = "create buffer" /\ r.buffer = 1 /\ r.geometry \in Usable
         \/ r.type = "copy" /\ r.buffer = 1
         \/ r.type = "destroy frame"
         \/ r.type = "destroy buffer" /\ r.buffer = 1
<1>1. CASE r \in [type : {"capture output", "destroy frame"}]
  BY <1>1
<1>2. CASE r \in [type : {"copy", "destroy buffer"}, buffer : {1}]
  BY <1>2
<1>3. CASE r \in [type : {"create buffer"}, buffer : {1}, geometry : Usable]
  BY <1>3
<1> QED
  BY <1>1, <1>2, <1>3 DEF WlrRequests

\* The types of the requests of a stretch.
LEMMA WlrMembers ==
  ASSUME NEW s, NEW g, WlrStretch(s, g)
  PROVE  /\ \A type : WlrHas(s, type) =>
              \/ type = "capture output" \/ type = "create buffer" \/ type = "copy"
              \/ type = "destroy frame" \/ type = "destroy buffer"
         /\ (\E q \in ToSet(s) : q.type = "copy") <=> WlrHas(s, "copy")
         /\ (\E q \in ToSet(s) : q.type = "create buffer") <=> WlrHas(s, "create buffer")
<1>1. \A i \in DOMAIN s : s[i] \in WlrRequests
  <2>1. s \in Seq(WlrRequests)
    BY DEF WlrStretch
  <2> QED
    BY <2>1
<1>2. \A type : (\E q \in ToSet(s) : q.type = type) <=> WlrHas(s, type)
  BY DEF ToSet, WlrHas
<1>3. ASSUME NEW type, WlrHas(s, type)
      PROVE  \/ type = "capture output" \/ type = "create buffer" \/ type = "copy"
             \/ type = "destroy frame" \/ type = "destroy buffer"
  <2>1. PICK i \in DOMAIN s : s[i].type = type
    BY <1>3 DEF WlrHas
  <2> QED
    BY <1>1, <2>1, WlrRequestFields
<1> QED
  BY <1>2, <1>3

\* One request.
LEMMA WlrSingle ==
  ASSUME NEW r \in WlrRequests, NEW g, r.type = "create buffer" => r.geometry = g
  PROVE  WlrStretch(<<r>>, g) /\ \A type : WlrHas(<<r>>, type) <=> type = r.type
<1> DEFINE s == <<r>>
<1>1. /\ s \in Seq(WlrRequests) /\ 1 \in DOMAIN s /\ s[1] = r
      /\ \A i \in DOMAIN s : i = 1
      /\ \A i, j \in DOMAIN s : ~(i < j)
  BY ONLY OnePlace, r \in WlrRequests
<1> HIDE DEF s
<1>2. \A type : WlrHas(s, type) <=> type = r.type
  BY <1>1 DEF WlrHas
<1>3. WlrStretch(s, g)
  BY <1>1 DEF WlrStretch
<1> QED
  BY <1>2, <1>3 DEF s

\* Two requests.
LEMMA WlrPair ==
  ASSUME NEW r \in WlrRequests, NEW q \in WlrRequests, NEW g, WlrBefore(r.type, q.type),
         r.type = "create buffer" => r.geometry = g, q.type = "create buffer" => q.geometry = g
  PROVE  WlrStretch(<<r, q>>, g) /\ \A type : WlrHas(<<r, q>>, type) <=> type = r.type
           \/ type = q.type
<1> DEFINE s == <<r, q>>
<1>1. /\ s \in Seq(WlrRequests)
      /\ 1 \in DOMAIN s /\ s[1] = r /\ 2 \in DOMAIN s /\ s[2] = q
      /\ \A i \in DOMAIN s : i = 1 \/ i = 2
      /\ \A i, j \in DOMAIN s : i < j => i = 1 /\ j = 2
  BY ONLY TwoPlaces, r \in WlrRequests, q \in WlrRequests
<1> HIDE DEF s
<1>2. \A type : WlrHas(s, type) <=> type = r.type \/ type = q.type
  BY <1>1 DEF WlrHas
<1>3. WlrStretch(s, g)
  BY <1>1 DEF WlrStretch
<1> QED
  BY <1>2, <1>3 DEF s

\* Requests that are issued go behind those that come before them.
LEMMA WlrIssued ==
  ASSUME NEW s, NEW t, NEW g, WlrStretch(s, g), WlrStretch(t, g),
         \A low, high : WlrHas(s, low) /\ WlrHas(t, high) => WlrBefore(low, high)
  PROVE  /\ WlrStretch(s \o t, g)
         /\ \A type : WlrHas(s \o t, type) <=> WlrHas(s, type) \/ WlrHas(t, type)
<1> DEFINE u == s \o t
<1>1. /\ u \in Seq(WlrRequests)
      /\ Len(s) \in Nat /\ DOMAIN s = 1 .. Len(s)
      /\ Len(t) \in Nat /\ DOMAIN t = 1 .. Len(t)
      /\ DOMAIN u = 1 .. Len(s) + Len(t)
      /\ \A i \in 1 .. Len(s) : u[i] = s[i]
      /\ \A i \in 1 .. Len(t) : u[Len(s) + i] = t[i]
  <2>1. s \in Seq(WlrRequests) /\ t \in Seq(WlrRequests)
    BY DEF WlrStretch
  <2> QED
    BY <2>1, Joined
<1> HIDE DEF u
<1>2. \A i \in DOMAIN u : \/ i \in DOMAIN s /\ u[i] = s[i]
                          \/ i - Len(s) \in DOMAIN t /\ u[i] = t[i - Len(s)]
  <2> SUFFICES ASSUME NEW i \in DOMAIN u, i \notin DOMAIN s
               PROVE  i - Len(s) \in DOMAIN t /\ u[i] = t[i - Len(s)]
    BY <1>1
  <2>1. i - Len(s) \in 1 .. Len(t) /\ Len(s) + (i - Len(s)) = i
    BY <1>1
  <2> QED
    BY <1>1, <2>1
<1>3. \A type : WlrHas(u, type) <=> WlrHas(s, type) \/ WlrHas(t, type)
  <2> TAKE type
  <2>1. WlrHas(u, type) => WlrHas(s, type) \/ WlrHas(t, type)
    BY <1>2 DEF WlrHas
  <2>2. WlrHas(s, type) => WlrHas(u, type)
    <3> SUFFICES ASSUME NEW i \in DOMAIN s, s[i].type = type PROVE WlrHas(u, type)
      BY DEF WlrHas
    <3>1. i \in DOMAIN u /\ u[i] = s[i]
      BY <1>1
    <3> QED
      BY <3>1 DEF WlrHas
  <2>3. WlrHas(t, type) => WlrHas(u, type)
    <3> SUFFICES ASSUME NEW i \in DOMAIN t, t[i].type = type PROVE WlrHas(u, type)
      BY DEF WlrHas
    <3>1. Len(s) + i \in DOMAIN u /\ u[Len(s) + i] = t[i]
      BY <1>1
    <3> QED
      BY <3>1 DEF WlrHas
  <2> QED
    BY <2>1, <2>2, <2>3
<1>4. ASSUME NEW i \in DOMAIN u, NEW j \in DOMAIN u, i < j
      PROVE  WlrBefore(u[i].type, u[j].type)
  <2>1. CASE j \in DOMAIN s
    <3>1. i \in DOMAIN s
      BY <1>1, <1>4, <2>1
    <3> QED
      BY <1>1, <1>4, <2>1, <3>1 DEF WlrStretch
  <2>2. CASE j \notin DOMAIN s /\ i \in DOMAIN s
    <3>1. j - Len(s) \in DOMAIN t /\ u[j] = t[j - Len(s)] /\ u[i] = s[i]
      BY <1>1, <1>2, <2>2
    <3>2. WlrHas(s, s[i].type) /\ WlrHas(t, t[j - Len(s)].type)
      BY <2>2, <3>1 DEF WlrHas
    <3> QED
      BY <3>1, <3>2
  <2>3. CASE j \notin DOMAIN s /\ i \notin DOMAIN s
    <3>1. /\ i - Len(s) \in DOMAIN t /\ u[i] = t[i - Len(s)]
          /\ j - Len(s) \in DOMAIN t /\ u[j] = t[j - Len(s)]
      BY <1>2, <2>3
    <3>2. i - Len(s) < j - Len(s)
      BY <1>1, <1>4
    <3> QED
      BY <3>1, <3>2 DEF WlrStretch
  <2> QED
    BY <2>1, <2>2, <2>3
<1>5. \A i \in DOMAIN u : u[i].type = "create buffer" => u[i].geometry = g
  BY <1>2 DEF WlrStretch
<1> QED
  BY <1>1, <1>3, <1>4, <1>5 DEF WlrStretch, u

\* The request that is handled comes before the others.
LEMMA WlrTaking ==
  ASSUME NEW s, NEW g, WlrStretch(s, g), s # <<>>
  PROVE  /\ WlrStretch(Tail(s), g)
         /\ Head(s) \in WlrRequests /\ WlrHas(s, Head(s).type)
         /\ Head(s).type = "create buffer" => Head(s).geometry = g
         /\ \A type :
              /\ WlrHas(Tail(s), type) => WlrHas(s, type) /\ WlrBefore(Head(s).type, type)
              /\ WlrHas(s, type) => type = Head(s).type \/ WlrHas(Tail(s), type)
<1>1. /\ Tail(s) \in Seq(WlrRequests) /\ Head(s) = s[1] /\ s[1] \in WlrRequests
      /\ Len(s) \in Nat \ {0} /\ DOMAIN s = 1 .. Len(s)
      /\ DOMAIN Tail(s) = 1 .. Len(s) - 1
      /\ \A i \in 1 .. Len(s) - 1 : Tail(s)[i] = s[i + 1]
  BY Taken DEF WlrStretch
<1>2. \A i \in DOMAIN Tail(s) : i + 1 \in DOMAIN s /\ 1 < i + 1 /\ Tail(s)[i] = s[i + 1]
  BY <1>1
<1>3. 1 \in DOMAIN s
  BY <1>1
<1>4. ASSUME NEW i \in DOMAIN Tail(s), NEW j \in DOMAIN Tail(s), i < j
      PROVE  WlrBefore(Tail(s)[i].type, Tail(s)[j].type)
  <2>1. i + 1 < j + 1
    BY <1>1, <1>4
  <2> QED
    BY <1>2, <2>1 DEF WlrStretch
<1>5. WlrStretch(Tail(s), g)
  BY <1>1, <1>2, <1>4 DEF WlrStretch
<1>6. \A type : WlrHas(Tail(s), type) => WlrHas(s, type) /\ WlrBefore(Head(s).type, type)
  BY <1>1, <1>2, <1>3 DEF WlrHas, WlrStretch
<1>7. \A type : WlrHas(s, type) => type = Head(s).type \/ WlrHas(Tail(s), type)
  <2> SUFFICES ASSUME NEW i \in DOMAIN s, i # 1 PROVE WlrHas(Tail(s), s[i].type)
    BY <1>1 DEF WlrHas
  <2>1. i - 1 \in DOMAIN Tail(s) /\ Tail(s)[i - 1] = s[i]
    <3>1. i - 1 \in 1 .. Len(s) - 1 /\ (i - 1) + 1 = i
      BY <1>1
    <3> QED
      BY <1>1, <3>1
  <2> QED
    BY <2>1 DEF WlrHas
<1>8. WlrHas(s, Head(s).type) /\ (Head(s).type = "create buffer" => Head(s).geometry = g)
  BY <1>1, <1>3 DEF WlrHas, WlrStretch
<1> QED
  BY <1>1, <1>5, <1>6, <1>7, <1>8

\* No request is under way.
LEMMA WlrNoRequest ==
  ASSUME NEW g
  PROVE  WlrStretch(<<>>, g) /\ \A type : ~WlrHas(<<>>, type)
BY DEF WlrStretch, WlrHas

\* A list without requests is empty.
LEMMA WlrNothing ==
  ASSUME NEW s, NEW g, WlrStretch(s, g), ~WlrHas(s, "capture output"), ~WlrHas(s, "create buffer"),
         ~WlrHas(s, "copy"), ~WlrHas(s, "destroy frame"), ~WlrHas(s, "destroy buffer")
  PROVE  s = <<>>
<1> SUFFICES ASSUME s # <<>> PROVE FALSE
  OBVIOUS
<1> QED
  BY WlrTaking, WlrMembers
-----------------------------------------------------------------------------
(* The capturing thread *)

\* A step that lends nothing, and delivers only a complete image.
WlrKeeps ==
  /\ UNCHANGED geometry
  /\ WlrHas(requests', "copy") <=> WlrHas(requests, "copy")
  /\ WlrHas(requests', "create buffer") <=> WlrHas(requests, "create buffer")
  /\ result'.type = "buffer" => result'.buffer = 1 /\ image[1] # None

\* The step that lends the buffer.
WlrLends ==
  /\ geometry = None /\ geometry' # None /\ frame.type # "copying"
  /\ ~WlrHas(requests, "copy") /\ WlrHas(requests', "copy") /\ WlrHas(requests', "create buffer")
  /\ UNCHANGED result

\* Without a result nothing is delivered.
LEMMA WlrNotDelivered == Wlr!NoResult.type # "buffer" /\ \A error : Wlr!Error(error).type # "buffer"
BY DEF Wlr!NoResult, Wlr!Error

\* What the thread issues.
LEMMA WlrKnown ==
  /\ [type |-> "capture output"] \in WlrRequests
  /\ [type |-> "copy", buffer |-> 1] \in WlrRequests
  /\ Wlr!DestroyFrame \in WlrRequests /\ Wlr!DestroyBuffer \in WlrRequests
  /\ \A g \in Usable : [type |-> "create buffer", buffer |-> 1, geometry |-> g] \in WlrRequests
BY DEF WlrRequests, Wlr!DestroyFrame, Wlr!DestroyBuffer

\* The capture begins with an empty connection.
LEMMA WlrInitially == ASSUME Wlr!WlrConstants, Wlr!Init PROVE WlrIInv
<1> USE DEF Wlr!Init, Wlr!Buffers
<1>1. Wlr!TypeOK
  <2>1. pc \in Wlr!Phases /\ state \in Wlr!CaptureState /\ geometry \in Usable \cup {None}
    BY DEF Wlr!Phases, Wlr!CaptureState
  <2>2. destroyed \in BOOLEAN /\ refused \in BOOLEAN /\ screen \in Wlr!Geometries
          /\ frame \in Wlr!Frames
    BY DEF Wlr!Frames
  <2>3. changes \in 0 .. MaxChanges
    BY DEF Wlr!WlrConstants
  <2>4. pools \in [Wlr!Buffers -> Usable \cup {None}]
          /\ image \in [Wlr!Buffers -> Usable \cup {None}]
    OBVIOUS
  <2> QED
    BY <2>1, <2>2, <2>3, <2>4 DEF Wlr!TypeOK
<1>2. WlrSorted
  BY WlrNoRequest DEF WlrSorted
<1>3. WlrServer
  BY WlrNoRequest DEF WlrServer, Wlr!NoFrame
<1>4. WlrClient
  <2>1. events \in Seq(WlrEvents)
    OBVIOUS
  <2> QED
    BY <2>1 DEF WlrClient, Wlr!DeliveredAsDrawn, Wlr!FailureJustified, Wlr!NoResult, Wlr!Error
<1> QED
  BY <1>1, <1>2, <1>3, <1>4 DEF WlrIInv

\* capture_output is the first request.
LEMMA WlrStartStep == ASSUME Wlr!WlrConstants, WlrIInv, Wlr!Start PROVE WlrIInv' /\ WlrKeeps
<1> USE DEF Wlr!Start, Wlr!compositorVars
<1>1. Wlr!TypeOK'
  BY DEF WlrIInv, Wlr!TypeOK, Wlr!Phases
<1>2. /\ WlrStretch(requests', geometry')
      /\ \A type : WlrHas(requests', type) <=> type = "capture output"
  <2>1. requests' = <<>> \o <<[type |-> "capture output"]>>
    BY DEF WlrIInv, WlrSorted, Wlr!Issue
  <2>2. requests' = <<[type |-> "capture output"]>>
    BY <2>1, WlrKnown, ConcatEmptySeq, OnePlace
  <2> QED
    BY <2>2, WlrKnown, WlrSingle
<1>3. geometry = None
  BY DEF WlrIInv, WlrSorted
<1>4. WlrSorted'
  BY <1>2, <1>3 DEF WlrSorted
<1>5. WlrServer'
  BY <1>2, <1>3 DEF WlrIInv, WlrServer, Wlr!NoFrame
<1>6. WlrClient'
  <2>1. state = Wlr!Pending /\ events = <<>> /\ image[1] = None /\ ~destroyed
    BY <1>3 DEF WlrIInv, WlrClient, WlrServer
  <2>2. WlrWaiting'
    <3>1. DOMAIN events' = {}
      BY <2>1, NoPlace
    <3> QED
      BY <2>1, <3>1 DEF WlrWaiting, Wlr!Pending
  <2> QED
    BY <1>2, <2>1, <2>2 DEF WlrIInv, WlrClient, Wlr!DeliveredAsDrawn, Wlr!FailureJustified
<1>7. WlrKeeps
  <2>1. result.type # "buffer" /\ ~WlrHas(requests, "copy") /\ ~WlrHas(requests, "create buffer")
    BY <1>3, WlrNotDelivered DEF WlrIInv, WlrClient, WlrSorted
  <2> QED
    BY <1>2, <2>1 DEF WlrKeeps
<1> QED
  BY <1>1, <1>4, <1>5, <1>6, <1>7 DEF WlrIInv

\* What an event is, by its type.
LEMMA WlrEventFields ==
  ASSUME NEW e \in WlrEvents
  PROVE  e.type \in {"buffer", "ready", "failed"} /\ (e.type = "buffer"
           => e.geometry \in Wlr!Geometries)
BY DEF WlrEvents

\* The states of a capture by their type.
LEMMA WlrStateFields ==
  ASSUME state \in Wlr!CaptureState
  PROVE  /\ state.type \in {"pending", "failed", "allocated", "ready"}
         /\ state.type = "pending" => state = Wlr!Pending
         /\ state.type = "failed" => state = Wlr!Failed
         /\ state.type \in {"allocated", "ready"} => state.geometry \in Wlr!Geometries
BY DEF Wlr!CaptureState, Wlr!Pending, Wlr!Failed

\* The handler reads the description, or the one end that is under way.
LEMMA WlrHandleStep == ASSUME Wlr!WlrConstants, WlrIInv, Wlr!Handle PROVE WlrIInv' /\ WlrKeeps
<1> DEFINE e == Head(events)
<1> USE DEF Wlr!Handle, Wlr!compositorVars
<1>1. /\ events' \in Seq(WlrEvents) /\ e = events[1] /\ events[1] \in WlrEvents
      /\ Len(events) \in Nat \ {0} /\ DOMAIN events = 1 .. Len(events)
      /\ Len(events') = Len(events) - 1 /\ DOMAIN events' = 1 .. Len(events) - 1
      /\ \A i \in 1 .. Len(events) - 1 : events'[i] = events[i + 1]
  <2>1. events \in Seq(WlrEvents) /\ events # <<>> /\ events' = Tail(events)
    BY DEF WlrIInv, WlrClient
  <2> QED
    BY <2>1, Taken
<1>2. /\ WlrWaiting /\ ~destroyed
      /\ ~(pc = "offer" /\ WlrHas(requests, "capture output"))
      /\ state \in Wlr!CaptureState
  BY DEF WlrIInv, WlrClient, Wlr!TypeOK
<1>3. /\ 1 \in DOMAIN events
      /\ \A i \in DOMAIN events' : i + 1 \in DOMAIN events /\ i + 1 # 1
           /\ events'[i] = events[i + 1]
      /\ \A i \in DOMAIN events' : i + 1 = Len(events) => i = Len(events')
  BY <1>1
<1>4. /\ e.type \in {"buffer", "ready", "failed"}
      /\ e.type = "buffer" => e.geometry \in Wlr!Geometries
  BY <1>1, WlrEventFields
<1>5. state' \in Wlr!CaptureState /\ WlrWaiting'
  <2>1. CASE e.type = "buffer"
    <3>1. state = Wlr!Pending /\ pc = "offer"
      BY <1>1, <1>2, <1>3, <2>1 DEF WlrWaiting
    <3>2. state' = [type |-> "allocated", geometry |-> e.geometry]
      BY <2>1
    <3>3. state'.type = "allocated" /\ state' \in Wlr!CaptureState /\ state' # Wlr!Pending
      BY <1>4, <2>1, <3>2 DEF Wlr!CaptureState, Wlr!Pending
    <3>4. \A i \in DOMAIN events' : events'[i].type # "buffer"
      BY <1>2, <1>3 DEF WlrWaiting
    <3> QED
      BY <1>2, <1>3, <3>1, <3>3, <3>4 DEF WlrWaiting
  <2>2. CASE e.type # "buffer"
    <3>1. /\ 1 = Len(events) /\ frame.type = "over" /\ state.type \in {"pending", "allocated"}
          /\ e.type = "failed" => refused
          /\ e.type = "ready" => image[1] # None
      BY <1>1, <1>2, <1>3, <2>2 DEF WlrWaiting
    <3>2. events' = <<>> /\ DOMAIN events' = {}
      BY <1>1, <3>1, NoPlace
    <3>3. CASE e.type = "ready"
      <4>1. pc = "copy" /\ state.type = "allocated" /\ state.geometry = geometry
        BY <1>2, <3>1, <3>3, WlrStateFields DEF WlrWaiting
      <4>2. state' = [type |-> "ready", geometry |-> state.geometry]
        BY <2>2, <3>3, <4>1
      <4>3. /\ state' \in Wlr!CaptureState /\ state'.type = "ready" /\ state' # Wlr!Pending
            /\ state'.geometry = geometry
        BY <1>2, <4>1, <4>2, WlrStateFields DEF Wlr!CaptureState, Wlr!Pending
      <4> QED
        BY <1>2, <3>1, <3>2, <3>3, <4>1, <4>3 DEF WlrWaiting
    <3>4. CASE e.type # "ready"
      <4>1. e.type = "failed"
        BY <1>4, <2>2, <3>4
      <4>2. state' = Wlr!Failed
        BY <2>2, <3>4
      <4>3. state' \in Wlr!CaptureState /\ state'.type = "failed" /\ state' # Wlr!Pending
        BY <4>2 DEF Wlr!CaptureState, Wlr!Failed, Wlr!Pending
      <4> QED
        BY <1>2, <3>1, <3>2, <4>1, <4>3 DEF WlrWaiting
    <3> QED
      BY <3>3, <3>4
  <2> QED
    BY <2>1, <2>2
<1>6. Wlr!TypeOK'
  BY <1>5 DEF WlrIInv, Wlr!TypeOK
<1>7. WlrSorted' /\ WlrServer'
  BY DEF WlrIInv, WlrSorted, WlrStretch, WlrServer, WlrHas
<1>8. WlrClient'
  BY <1>1, <1>2, <1>5 DEF WlrIInv, WlrClient, Wlr!DeliveredAsDrawn, Wlr!FailureJustified, WlrHas
<1>9. WlrKeeps
  BY <1>2, WlrNotDelivered DEF WlrIInv, WlrClient, WlrKeeps
<1> QED
  BY <1>6, <1>7, <1>8, <1>9 DEF WlrIInv

\* A buffer is created as the frame is described, and lent, once the description
\* has arrived.
LEMMA WlrLendStep ==
  ASSUME Wlr!WlrConstants, WlrIInv, NEW g \in Usable, pc = "offer", state.type = "allocated",
         state.geometry = g, geometry' = g, pc' = "copy",
         Wlr!Issue(<<[type |-> "create buffer", buffer |-> 1, geometry |-> g],
                 [type |-> "copy", buffer |-> 1]>>),
         UNCHANGED <<state, destroyed, result, events, Wlr!compositorVars>>
  PROVE  WlrIInv' /\ WlrLends
<1> USE DEF Wlr!compositorVars
<1> DEFINE create == [type |-> "create buffer", buffer |-> 1, geometry |-> g]
           copy == [type |-> "copy", buffer |-> 1]
<1>1. g # None
  BY DEF Wlr!WlrConstants
<1>2. /\ WlrWaiting /\ ~destroyed /\ geometry = None
      /\ ~WlrHas(requests, "capture output") /\ WlrStretch(requests, geometry)
      /\ ~WlrHas(requests, "create buffer") /\ ~WlrHas(requests, "copy")
      /\ ~WlrHas(requests, "destroy frame") /\ ~WlrHas(requests, "destroy buffer")
      /\ state # Wlr!Pending
  <2>1. state # Wlr!Pending
    <3>1. Wlr!Pending.type = "pending"
      BY DEF Wlr!Pending
    <3> QED
      BY <3>1
  <2> QED
    BY <2>1 DEF WlrIInv, WlrClient, WlrSorted
<1>3. requests = <<>>
  BY <1>2, WlrNothing
<1>4. /\ WlrStretch(requests', geometry')
      /\ \A type : WlrHas(requests', type) <=> type = "create buffer" \/ type = "copy"
  <2>1. create \in WlrRequests /\ copy \in WlrRequests
    BY WlrKnown
  <2>2. requests' = <<create, copy>>
    <3>1. requests' = <<>> \o <<create, copy>>
      BY <1>3 DEF Wlr!Issue
    <3> HIDE DEF create, copy
    <3>2. <<create, copy>> \in Seq(WlrRequests)
      BY <2>1, TwoPlaces
    <3> QED
      BY <3>1, <3>2, ConcatEmptySeq
  <2>3. create.type = "create buffer" /\ create.geometry = g /\ copy.type = "copy"
    OBVIOUS
  <2> HIDE DEF create, copy
  <2>4. WlrBefore(create.type, copy.type)
    BY <2>3 DEF WlrBefore
  <2> QED
    BY <2>1, <2>2, <2>3, <2>4, WlrPair
<1>5. Wlr!TypeOK'
  BY DEF WlrIInv, Wlr!TypeOK, Wlr!Phases
<1>6. WlrSorted'
  BY <1>1, <1>4 DEF WlrSorted
<1>7. pools[1] = None /\ image[1] = None /\ frame.type # "copying"
  BY <1>2 DEF WlrIInv, WlrServer
<1>8. WlrServer'
  BY <1>1, <1>4, <1>7 DEF WlrServer
<1>9. WlrClient'
  <2>1. WlrWaiting'
    <3>1. state.type # "ready" /\ state.type # "failed"
      OBVIOUS
    <3>2. /\ \A i \in DOMAIN events' : events'[i].type # "buffer"
          /\ \A i \in DOMAIN events' : events'[i].type # "buffer" =>
               /\ i = Len(events') /\ frame'.type = "over"
                    /\ state'.type \in {"pending", "allocated"}
               /\ events'[i].type = "failed" => refused'
               /\ events'[i].type = "ready" => image'[1] # None
      BY <1>2 DEF WlrWaiting
    <3> QED
      BY <1>2, <1>7, <3>1, <3>2 DEF WlrWaiting
  <2> QED
    BY <1>2, <2>1 DEF WlrIInv, WlrClient, Wlr!DeliveredAsDrawn, Wlr!FailureJustified
<1>10. WlrLends
  BY <1>1, <1>2, <1>4, <1>7 DEF WlrLends
<1> QED
  BY <1>5, <1>6, <1>8, <1>9, <1>10 DEF WlrIInv

\* A capture that ends without a buffer destroys its frame.
LEMMA WlrFailStep ==
  ASSUME Wlr!WlrConstants, WlrIInv, NEW error \in Wlr!Errors, pc = "offer",
         error \in {"no buffer", "failed"} => refused,
         Wlr!Return(Wlr!Error(error), <<Wlr!DestroyFrame>>),
         UNCHANGED <<state, geometry, events, Wlr!compositorVars>>
  PROVE  WlrIInv' /\ WlrKeeps
<1> USE DEF Wlr!compositorVars, Wlr!Return
<1>1. /\ geometry = None /\ WlrStretch(requests, geometry)
      /\ \A type : WlrHas(requests, type) => type = "capture output"
  BY WlrMembers DEF WlrIInv, WlrSorted
<1>2. /\ WlrStretch(requests', geometry')
      /\ \A type : WlrHas(requests', type) <=> WlrHas(requests, type) \/ type = "destroy frame"
  <2>1. Wlr!DestroyFrame \in WlrRequests /\ Wlr!DestroyFrame.type = "destroy frame"
    BY WlrKnown DEF Wlr!DestroyFrame
  <2>2. /\ WlrStretch(<<Wlr!DestroyFrame>>, geometry)
        /\ \A type : WlrHas(<<Wlr!DestroyFrame>>, type) <=> type = "destroy frame"
    BY <2>1, WlrSingle
  <2>3. \A low, high : WlrHas(requests, low) /\ WlrHas(<<Wlr!DestroyFrame>>, high)
          => WlrBefore(low, high)
    BY <1>1, <2>2 DEF WlrBefore
  <2>4. requests' = requests \o <<Wlr!DestroyFrame>>
    BY DEF Wlr!Issue
  <2> QED
    BY <1>1, <2>2, <2>3, <2>4, WlrIssued
<1>3. Wlr!TypeOK'
  BY DEF WlrIInv, Wlr!TypeOK, Wlr!Phases
<1>4. WlrSorted'
  BY <1>1, <1>2 DEF WlrSorted
<1>5. WlrServer'
  BY <1>1, <1>2 DEF WlrIInv, WlrServer
<1>6. WlrClient'
  <2>1. result'.type # "buffer" /\ (result' \in {Wlr!Error("no buffer"), Wlr!Error("failed")}
          => refused)
    BY DEF Wlr!Error
  <2> QED
    BY <2>1 DEF WlrIInv, WlrClient, Wlr!DeliveredAsDrawn, Wlr!FailureJustified
<1>7. WlrKeeps
  BY <1>2, WlrNotDelivered DEF WlrKeeps
<1> QED
  BY <1>3, <1>4, <1>5, <1>6, <1>7 DEF WlrIInv

\* After the loan the frame is destroyed before the buffer.
LEMMA WlrTeardownStep ==
  ASSUME Wlr!WlrConstants, WlrIInv, NEW res, pc = "copy", Wlr!Teardown(res),
         state' \in Wlr!CaptureState,
         \/ \E error \in Wlr!Errors : res = Wlr!Error(error)
              /\ (error \in {"no buffer", "failed"} => refused)
         \/ /\ res \in [type : {"buffer"}, buffer : Wlr!Buffers, geometry : Wlr!Geometries]
            /\ res.geometry = image[1],
         UNCHANGED <<geometry, events, Wlr!compositorVars>>
  PROVE  WlrIInv' /\ WlrKeeps
<1> USE DEF Wlr!compositorVars, Wlr!Return, Wlr!Teardown
<1>1. /\ geometry # None /\ WlrStretch(requests, geometry)
      /\ ~WlrHas(requests, "capture output")
      /\ \A type : WlrHas(requests, type) => type = "create buffer" \/ type = "copy"
  BY WlrMembers DEF WlrIInv, WlrSorted
<1>2. /\ WlrStretch(requests', geometry')
      /\ \A type : WlrHas(requests', type) <=>
                      WlrHas(requests, type) \/ type = "destroy frame" \/ type = "destroy buffer"
  <2>1. /\ Wlr!DestroyFrame \in WlrRequests /\ Wlr!DestroyFrame.type = "destroy frame"
        /\ Wlr!DestroyBuffer \in WlrRequests /\ Wlr!DestroyBuffer.type = "destroy buffer"
    BY WlrKnown DEF Wlr!DestroyFrame, Wlr!DestroyBuffer
  <2> DEFINE ends == <<Wlr!DestroyFrame, Wlr!DestroyBuffer>>
  <2>2. /\ WlrStretch(ends, geometry)
        /\ \A type : WlrHas(ends, type) <=> type = "destroy frame" \/ type = "destroy buffer"
    <3>1. WlrBefore(Wlr!DestroyFrame.type, Wlr!DestroyBuffer.type)
      BY <2>1 DEF WlrBefore
    <3> QED
      BY <2>1, <3>1, WlrPair
  <2>3. requests' = requests \o ends
    BY DEF Wlr!Issue
  <2> HIDE DEF ends
  <2>4. \A low, high : WlrHas(requests, low) /\ WlrHas(ends, high) => WlrBefore(low, high)
    BY <1>1, <2>2 DEF WlrBefore
  <2> QED
    BY <1>1, <2>2, <2>3, <2>4, WlrIssued
<1>3. Wlr!TypeOK'
  BY DEF WlrIInv, Wlr!TypeOK, Wlr!Phases
<1>4. WlrSorted'
  BY <1>1, <1>2 DEF WlrSorted
<1>5. WlrServer'
  BY <1>1, <1>2 DEF WlrIInv, WlrServer
<1>6. WlrClient'
  <2>1. /\ res.type = "buffer" => res.geometry = image[res.buffer]
        /\ res \in {Wlr!Error("no buffer"), Wlr!Error("failed")} => refused
    <3>1. ASSUME NEW error \in Wlr!Errors, res = Wlr!Error(error), error \in {"no buffer",
                   "failed"} => refused
          PROVE  res.type # "buffer" /\ (res \in {Wlr!Error("no buffer"), Wlr!Error("failed")}
                   => refused)
      BY <3>1 DEF Wlr!Error
    <3>2. ASSUME res \in [type : {"buffer"}, buffer : Wlr!Buffers, geometry : Wlr!Geometries],
                 res.geometry = image[1]
          PROVE  res.geometry = image[res.buffer]
                   /\ res \notin {Wlr!Error("no buffer"), Wlr!Error("failed")}
      <4>1. res.type = "buffer" /\ res.buffer = 1
        BY <3>2 DEF Wlr!Buffers
      <4>2. \A error : Wlr!Error(error).type = "error"
        BY DEF Wlr!Error
      <4>3. res \notin {Wlr!Error("no buffer"), Wlr!Error("failed")}
        BY <4>1, <4>2
      <4> QED
        BY <3>2, <4>1, <4>3
    <3> QED
      BY <3>1, <3>2
  <2> QED
    BY <2>1 DEF WlrIInv, WlrClient, Wlr!DeliveredAsDrawn, Wlr!FailureJustified
<1>7. res.type = "buffer" => res.buffer = 1 /\ image[1] # None
  <2>1. \A g \in Wlr!Geometries : g # None
    BY DEF Wlr!WlrConstants, Wlr!Geometries
  <2> QED
    BY <2>1, WlrNotDelivered DEF Wlr!Buffers
<1>8. WlrKeeps
  BY <1>2, <1>7 DEF WlrKeeps
<1> QED
  BY <1>3, <1>4, <1>5, <1>6, <1>8 DEF WlrIInv

\* What every way out of the waits comes to.
LEMMA WlrThreadStep ==
  ASSUME Wlr!WlrConstants, WlrIInv, Wlr!Thread
  PROVE WlrIInv' /\ (WlrKeeps \/ WlrLends)
<1>1. CASE Wlr!Start
  BY <1>1, WlrStartStep
<1>2. CASE Wlr!Handle
  BY <1>2, WlrHandleStep
<1>3. CASE Wlr!Lend
  <2>1. CASE \E error \in Wlr!Errors \ {"no buffer", "failed"} :
               Wlr!Return(Wlr!Error(error), <<Wlr!DestroyFrame>>) /\ UNCHANGED geometry
    BY <1>3, <2>1, WlrFailStep DEF Wlr!Lend
  <2>2. CASE /\ state.geometry \in Usable
             /\ geometry' = state.geometry
             /\ Wlr!Issue(<<[type |-> "create buffer", buffer |-> 1, geometry |-> state.geometry],
                        [type |-> "copy", buffer |-> 1]>>)
             /\ pc' = "copy"
             /\ UNCHANGED <<destroyed, result>>
    BY <1>3, <2>2, WlrLendStep DEF Wlr!Lend
  <2> QED
    BY <1>3, <2>1, <2>2 DEF Wlr!Lend, Wlr!Errors
<1>4. CASE Wlr!NoBuffer
  <2>1. refused
    <3>1. WlrWaiting /\ state \in Wlr!CaptureState
      BY <1>4 DEF Wlr!NoBuffer, WlrIInv, WlrClient, Wlr!TypeOK
    <3>2. geometry = None /\ image[1] = None
      BY <1>4 DEF Wlr!NoBuffer, WlrIInv, WlrSorted, WlrServer
    <3> QED
      BY <1>4, <3>1, <3>2, WlrStateFields DEF Wlr!NoBuffer, WlrWaiting
  <2> QED
    BY <1>4, <2>1, WlrFailStep DEF Wlr!NoBuffer, Wlr!Errors
<1>5. CASE Wlr!Outcome
  <2>1. WlrWaiting /\ state \in Wlr!CaptureState /\ geometry # None
    BY <1>5 DEF Wlr!Outcome, WlrIInv, WlrClient, WlrSorted, Wlr!TypeOK
  <2>2. CASE state.type = "ready"
    <3> DEFINE res == [type |-> "buffer", buffer |-> 1, geometry |-> state.geometry]
    <3>1. res \in [type : {"buffer"}, buffer : Wlr!Buffers, geometry : Wlr!Geometries]
            /\ res.geometry = state.geometry
      BY <2>1, <2>2, WlrStateFields DEF Wlr!Buffers
    <3>2. res.geometry = image[1]
      BY <1>5, <2>1, <2>2, <3>1 DEF Wlr!Outcome, WlrWaiting, WlrIInv, WlrServer
    <3>3. Wlr!TakeBuffer(state) = res
      BY <2>2 DEF Wlr!TakeBuffer
    <3>4. state' \in Wlr!CaptureState
      BY <1>5 DEF Wlr!Outcome, Wlr!CaptureState
    <3> HIDE DEF res
    <3> QED
      BY <1>5, <3>1, <3>2, <3>3, <3>4, WlrTeardownStep DEF Wlr!Outcome
  <2>3. CASE state.type # "ready"
    <3>1. state.type = "failed" /\ refused
      BY <1>5, <2>1, <2>3 DEF Wlr!Outcome, Wlr!IsTerminal, WlrWaiting
    <3>2. Wlr!TakeBuffer(state) = Wlr!Error("failed")
      BY <2>3 DEF Wlr!TakeBuffer
    <3>3. state' \in Wlr!CaptureState
      BY <1>5 DEF Wlr!Outcome, Wlr!CaptureState
    <3> QED
      BY <1>5, <3>1, <3>2, <3>3, WlrTeardownStep DEF Wlr!Outcome, Wlr!Errors
  <2> QED
    BY <2>2, <2>3
<1>6. CASE Wlr!Timeout
  <2>1. CASE pc = "offer" /\ Wlr!Return(Wlr!Error("timeout"), <<Wlr!DestroyFrame>>)
    BY <1>6, <2>1, WlrFailStep DEF Wlr!Timeout, Wlr!Errors
  <2>2. CASE pc = "copy" /\ Wlr!Teardown(Wlr!Error("timeout"))
    <3>1. state' \in Wlr!CaptureState
      BY <1>6 DEF Wlr!Timeout, WlrIInv, Wlr!TypeOK
    <3> QED
      BY <1>6, <2>2, <3>1, WlrTeardownStep DEF Wlr!Timeout, Wlr!Errors
  <2> QED
    BY <1>6, <2>1, <2>2 DEF Wlr!Timeout
<1> QED
  BY <1>1, <1>2, <1>3, <1>4, <1>5, <1>6 DEF Wlr!Thread

-----------------------------------------------------------------------------
(* The compositor *)

\* What Append does to the events while the capture waits.
LEMMA WlrSent ==
  ASSUME WlrIInv, NEW e \in WlrEvents, Wlr!Send(e)
  PROVE  /\ events' \in Seq(WlrEvents)
         /\ destroyed => events' = events
         /\ ~destroyed => /\ Len(events) \in Nat /\ DOMAIN events = 1 .. Len(events)
                          /\ Len(events') = Len(events) + 1 /\ DOMAIN events' = 1 .. Len(events) + 1
                          /\ \A i \in 1 .. Len(events) : events'[i] = events[i]
                          /\ events'[Len(events) + 1] = e
<1>1. events \in Seq(WlrEvents)
  BY DEF WlrIInv, WlrClient
<1> QED
  BY <1>1, Appended DEF Wlr!Send

\* The frame's end is the last event the capture reads.
LEMMA WlrEndSent ==
  ASSUME Wlr!WlrConstants, WlrIInv, NEW e \in WlrEvents, Wlr!Send(e), e.type \in {"ready",
           "failed"},
         frame.type # "over", ~WlrHas(requests, "capture output"), pc # "start",
         frame'.type = "over",
         e.type = "failed" => refused', e.type = "ready" => image'[1] # None,
         image'[1] # None => image[1] # None \/ pc # "offer",
         UNCHANGED <<pc, state, geometry, destroyed, requests>>
  PROVE  /\ events' \in Seq(WlrEvents)
         /\ pc \in {"offer", "copy"} => WlrWaiting'
<1>1. ASSUME pc \in {"offer", "copy"} PROVE WlrWaiting'
  <2>1. WlrWaiting /\ ~destroyed /\ state \in Wlr!CaptureState
    BY <1>1 DEF WlrIInv, WlrClient, Wlr!TypeOK
  <2>2. /\ Len(events) \in Nat /\ DOMAIN events = 1 .. Len(events)
        /\ Len(events') = Len(events) + 1 /\ DOMAIN events' = 1 .. Len(events) + 1
        /\ \A i \in 1 .. Len(events) : events'[i] = events[i]
        /\ events'[Len(events) + 1] = e
    BY <2>1, WlrSent
  <2>3. \A i \in DOMAIN events' :
          (i \in DOMAIN events /\ events'[i] = events[i]) \/ (i = Len(events') /\ events'[i] = e)
    BY ONLY <2>2
  <2>4. state.type \in {"pending", "allocated"}
    BY <2>1, WlrStateFields DEF WlrWaiting
  <2>5. \A i \in DOMAIN events : events[i].type = "buffer"
    BY <2>1 DEF WlrWaiting
  <2>6. /\ \A i \in DOMAIN events' : events'[i].type = "buffer" => i = 1 /\ state' = Wlr!Pending
        /\ \A i \in DOMAIN events' : events'[i].type # "buffer" =>
             /\ i = Len(events') /\ frame'.type = "over" /\ state'.type \in {"pending", "allocated"}
             /\ events'[i].type = "failed" => refused'
             /\ events'[i].type = "ready" => image'[1] # None
    BY <2>1, <2>3, <2>4, <2>5 DEF WlrWaiting
  <2>7. image'[1] # None => pc' = "copy"
    BY <1>1, <2>1 DEF WlrWaiting
  <2> QED
    BY <2>1, <2>4, <2>6, <2>7 DEF WlrWaiting
<1> QED
  BY <1>1, WlrSent

\* What handling the next request does to the requests.
LEMMA WlrServed ==
  ASSUME WlrIInv, Wlr!Serve
  PROVE  /\ WlrStretch(requests', geometry)
         /\ Head(requests) \in WlrRequests /\ WlrHas(requests, Head(requests).type)
         /\ Head(requests).type = "create buffer" => Head(requests).geometry = geometry
         /\ \A type :
              /\ WlrHas(requests', type)
                   => WlrHas(requests, type) /\ WlrBefore(Head(requests).type, type)
              /\ WlrHas(requests, type) => type = Head(requests).type \/ WlrHas(requests', type)
<1>1. WlrStretch(requests, geometry) /\ requests # <<>> /\ requests' = Tail(requests)
  BY DEF WlrIInv, WlrSorted, Wlr!Serve
<1> QED
  BY <1>1, WlrTaking

\* Handling a request leaves the rest in their order.
LEMMA WlrServedSorted == ASSUME WlrIInv, Wlr!Serve PROVE WlrSorted' /\ pc # "start"
<1>1. requests # <<>> /\ UNCHANGED <<pc, geometry>>
  BY DEF Wlr!Serve, Wlr!clientVars
<1> QED
  BY <1>1, WlrServed DEF WlrIInv, WlrSorted

\* A frame is described, or fails, once.
LEMMA WlrCaptureServed ==
  ASSUME Wlr!WlrConstants, WlrIInv, Wlr!Serve, Head(requests).type = "capture output",
           Wlr!Describe, UNCHANGED pools
  PROVE  WlrIInv'
<1>1. UNCHANGED <<Wlr!clientVars, screen, changes, image>>
  BY DEF Wlr!Serve
<1> USE <1>1 DEF Wlr!clientVars
<1>2. /\ frame = Wlr!NoFrame /\ geometry = None /\ pc # "start" /\ pc # "copy"
      /\ ~WlrHas(requests', "capture output")
      /\ pc = "done" => WlrHas(requests', "destroy frame") \/ frame' = Wlr!NoFrame
      /\ ~WlrHas(requests', "create buffer") /\ ~WlrHas(requests', "copy")
  <2>1. frame = Wlr!NoFrame /\ geometry = None /\ pc # "start" /\ pc # "copy"
    BY WlrServed, WlrServedSorted DEF WlrIInv, WlrSorted, WlrServer
  <2>2. ~WlrHas(requests', "capture output")
    BY WlrServed DEF WlrBefore
  <2>3. ~WlrHas(requests', "create buffer") /\ ~WlrHas(requests', "copy")
    BY <2>1, WlrServed DEF WlrIInv, WlrSorted
  <2>4. pc = "done" => WlrHas(requests', "destroy frame")
    BY WlrServed DEF WlrIInv, WlrServer
  <2> QED
    BY <2>1, <2>2, <2>3, <2>4
<1>3. image[1] = None /\ pools[1] = None
  BY <1>2 DEF WlrIInv, WlrServer
<1>4. PICK e \in WlrEvents :
        /\ Wlr!Send(e) /\ frame' \in Wlr!Frames /\ refused' \in BOOLEAN
        /\ \/ e.type = "buffer" /\ frame'.type = "described" /\ UNCHANGED refused
           \/ e.type = "failed" /\ frame'.type = "over" /\ refused'
  <2>1. screen \in Wlr!Geometries /\ refused \in BOOLEAN
    BY DEF WlrIInv, Wlr!TypeOK
  <2>2. CASE /\ frame' = [type |-> "described", geometry |-> screen]
             /\ Wlr!Send([type |-> "buffer", geometry |-> screen])
             /\ UNCHANGED refused
    <3>1. [type |-> "buffer", geometry |-> screen] \in WlrEvents
      BY <2>1 DEF WlrEvents
    <3> QED
      BY <2>1, <2>2, <3>1 DEF Wlr!Frames
  <2>3. CASE /\ frame' = [type |-> "over", geometry |-> screen]
             /\ Wlr!Send([type |-> "failed"])
             /\ refused' = TRUE
    <3>1. [type |-> "failed"] \in WlrEvents
      BY DEF WlrEvents
    <3> QED
      BY <2>1, <2>3, <3>1 DEF Wlr!Frames
  <2> QED
    BY <2>2, <2>3 DEF Wlr!Describe
<1>5. Wlr!TypeOK'
  BY <1>4 DEF WlrIInv, Wlr!TypeOK
<1>6. WlrSorted'
  BY WlrServedSorted
<1>7. WlrServer'
  BY <1>2, <1>3, <1>4 DEF WlrServer
<1>8. WlrClient'
  <2>1. ASSUME pc = "offer" PROVE WlrWaiting'
    <3>1. WlrWaiting /\ ~destroyed /\ state = Wlr!Pending /\ events = <<>>
      BY <2>1, WlrServed DEF WlrIInv, WlrClient
    <3>2. Len(events) = 0
      BY <3>1, NoPlace
    <3>3. 1 \in DOMAIN events' /\ Len(events') = 1 /\ \A i \in DOMAIN events' : events'[i] = e
            /\ i = 1
      <4>1. Len(events') = 1 /\ DOMAIN events' = 1 .. 1 /\ events'[1] = e
        <5>1. /\ Len(events') = Len(events) + 1 /\ DOMAIN events' = 1 .. Len(events) + 1
              /\ events'[Len(events) + 1] = e
          BY <1>4, <3>1, WlrSent
        <5> QED
          BY ONLY <3>2, <5>1
      <4> QED
        BY ONLY <4>1
    <3>4. state.type = "pending"
      BY <3>1 DEF Wlr!Pending
    <3> QED
      BY <1>2, <1>3, <1>4, <3>1, <3>3, <3>4 DEF WlrWaiting
  <2>2. events' \in Seq(WlrEvents)
    BY <1>4, WlrSent
  <2>3. refused => refused'
    BY <1>4
  <2> QED
    BY <1>2, <2>1, <2>2, <2>3 DEF WlrIInv, WlrClient, Wlr!DeliveredAsDrawn, Wlr!FailureJustified
<1> QED
  BY <1>5, <1>6, <1>7, <1>8 DEF WlrIInv

\* A buffer is created with the geometry the client remembers.
LEMMA WlrCreateServed ==
  ASSUME Wlr!WlrConstants, WlrIInv, Wlr!Serve, Head(requests).type = "create buffer",
         pools' = [pools EXCEPT ![Head(requests).buffer] = Head(requests).geometry],
         UNCHANGED <<frame, events, refused>>
  PROVE  WlrIInv'
<1>1. UNCHANGED <<Wlr!clientVars, screen, changes, image>>
  BY DEF Wlr!Serve
<1> USE <1>1 DEF Wlr!clientVars
<1>2. /\ WlrHas(requests, "create buffer") /\ geometry # None
      /\ Head(requests).buffer = 1 /\ Head(requests).geometry = geometry
      /\ geometry \in Usable
      /\ ~WlrHas(requests', "capture output") /\ ~WlrHas(requests', "create buffer")
      /\ \A type : WlrHas(requests', type) => WlrHas(requests, type)
  BY WlrServed, WlrRequestFields DEF WlrIInv, WlrSorted, WlrBefore
<1>3. pools' \in [Wlr!Buffers -> Usable \cup {None}] /\ pools'[1] = geometry
  BY <1>2 DEF WlrIInv, Wlr!TypeOK, Wlr!Buffers
<1>4. Wlr!TypeOK'
  BY <1>3 DEF WlrIInv, Wlr!TypeOK
<1>5. WlrSorted'
  BY WlrServedSorted
<1>6. WlrServer'
  BY <1>2, <1>3, WlrServed DEF WlrIInv, WlrServer
<1>7. WlrClient'
  BY <1>2 DEF WlrIInv, WlrClient, WlrWaiting, Wlr!DeliveredAsDrawn, Wlr!FailureJustified
<1> QED
  BY <1>4, <1>5, <1>6, <1>7 DEF WlrIInv

\* A frame that has been described is copied into the buffer from here on.
LEMMA WlrCopyServed ==
  ASSUME Wlr!WlrConstants, WlrIInv, Wlr!Serve, Head(requests).type = "copy",
         frame' = IF frame.type = "described" THEN [frame EXCEPT !.type = "copying"] ELSE frame,
         UNCHANGED <<pools, events, refused>>
  PROVE  WlrIInv'
<1>1. UNCHANGED <<Wlr!clientVars, screen, changes, image>>
  BY DEF Wlr!Serve
<1> USE <1>1 DEF Wlr!clientVars
<1>2. /\ WlrHas(requests, "copy") /\ geometry # None
      /\ ~WlrHas(requests', "capture output") /\ ~WlrHas(requests', "copy")
      /\ ~WlrHas(requests', "create buffer") /\ ~WlrHas(requests, "create buffer")
      /\ \A type : WlrHas(requests', type) => WlrHas(requests, type)
      /\ WlrHas(requests, "destroy frame") => WlrHas(requests', "destroy frame")
  <2>1. WlrHas(requests, "copy") /\ \A type : WlrHas(requests', type) => WlrHas(requests, type)
    BY WlrServed
  <2>2. geometry # None /\ ~WlrHas(requests, "capture output")
    BY <2>1 DEF WlrIInv, WlrSorted
  <2>3. ~WlrHas(requests', "copy") /\ ~WlrHas(requests', "create buffer")
    <3>1. \A type : WlrBefore(Head(requests).type, type)
            => type = "destroy frame" \/ type = "destroy buffer"
      BY DEF WlrBefore
    <3> QED
      BY <3>1, WlrServed
  <2>4. ~WlrHas(requests, "create buffer")
    BY <2>3, WlrServed
  <2>5. WlrHas(requests, "destroy frame") => WlrHas(requests', "destroy frame")
    BY WlrServed
  <2> QED
    BY <2>1, <2>2, <2>3, <2>4, <2>5
<1>3. /\ frame' \in Wlr!Frames
      /\ frame'.type = "over" <=> frame.type = "over"
      /\ frame = Wlr!NoFrame => frame' = Wlr!NoFrame
  <2>1. frame \in Wlr!Frames
    BY DEF WlrIInv, Wlr!TypeOK
  <2>2. CASE frame.type = "described"
    BY <2>1, <2>2 DEF Wlr!Frames, Wlr!NoFrame
  <2>3. CASE frame.type # "described"
    BY <2>1, <2>3
  <2> QED
    BY <2>2, <2>3
<1>4. Wlr!TypeOK'
  BY <1>3 DEF WlrIInv, Wlr!TypeOK
<1>5. WlrSorted'
  BY WlrServedSorted
<1>6. image[1] = None /\ pc # "start"
  BY <1>2, WlrServedSorted DEF WlrIInv, WlrServer
<1>7. WlrServer'
  <2>1. requests # <<>>
    BY DEF Wlr!Serve
  <2> QED
    BY <1>2, <1>3, <1>6, <2>1 DEF WlrIInv, WlrServer
<1>8. WlrClient'
  BY <1>2, <1>3 DEF WlrIInv, WlrClient, WlrWaiting, Wlr!DeliveredAsDrawn, Wlr!FailureJustified
<1> QED
  BY <1>4, <1>5, <1>7, <1>8 DEF WlrIInv
\* A destroyed frame is forgotten, and with it the copy.
LEMMA WlrFrameDestroyed ==
  ASSUME Wlr!WlrConstants, WlrIInv, Wlr!Serve, Head(requests).type = "destroy frame",
           frame' = Wlr!NoFrame,
         UNCHANGED <<pools, events, refused>>
  PROVE  WlrIInv'
<1>1. UNCHANGED <<Wlr!clientVars, screen, changes, image>>
  BY DEF Wlr!Serve
<1> USE <1>1 DEF Wlr!clientVars
<1>2. /\ pc = "done" /\ requests # <<>>
      /\ \A type : WlrHas(requests', type) => WlrHas(requests, type) /\ type = "destroy buffer"
      /\ ~WlrHas(requests, "create buffer")
  <2>1. pc = "done"
    BY WlrServed, WlrServedSorted DEF WlrIInv, WlrSorted, Wlr!TypeOK, Wlr!Phases
  <2>2. \A type : WlrBefore(Head(requests).type, type) => type = "destroy buffer"
    BY DEF WlrBefore
  <2>3. \A type : WlrHas(requests', type) => WlrHas(requests, type) /\ type = "destroy buffer"
    BY <2>2, WlrServed
  <2>4. ~WlrHas(requests, "create buffer")
    BY <2>3, WlrServed
  <2> QED
    BY <2>1, <2>3, <2>4 DEF Wlr!Serve
<1>3. Wlr!NoFrame \in Wlr!Frames /\ Wlr!NoFrame.type = "none"
  BY DEF Wlr!Frames, Wlr!NoFrame
<1>4. Wlr!TypeOK'
  BY <1>3 DEF WlrIInv, Wlr!TypeOK
<1>5. WlrSorted'
  BY WlrServedSorted
<1>6. WlrServer'
  BY <1>2, <1>3 DEF WlrIInv, WlrServer
<1>7. WlrClient'
  BY <1>2 DEF WlrIInv, WlrClient, Wlr!DeliveredAsDrawn, Wlr!FailureJustified
<1> QED
  BY <1>4, <1>5, <1>6, <1>7 DEF WlrIInv

\* The buffer's destruction is the last request, and its frame is gone by then.
LEMMA WlrBufferDestroyed ==
  ASSUME Wlr!WlrConstants, WlrIInv, Wlr!Serve, Head(requests).type = "destroy buffer",
         pools' = [pools EXCEPT ![Head(requests).buffer] = None],
         UNCHANGED <<frame, events, refused>>
  PROVE  WlrIInv' /\ frame = Wlr!NoFrame /\ pools'[1] = None /\ ~WlrHas(requests, "create buffer")
         /\ geometry # None /\ pools[1] # None /\ ~WlrHas(requests', "create buffer")
         /\ ~WlrHas(requests, "copy") /\ ~WlrHas(requests', "copy")
<1>1. UNCHANGED <<Wlr!clientVars, screen, changes, image>>
  BY DEF Wlr!Serve
<1> USE <1>1 DEF Wlr!clientVars
<1>2. /\ pc = "done" /\ requests # <<>> /\ geometry # None /\ Head(requests).buffer = 1
      /\ \A type : ~WlrHas(requests', type)
      /\ ~WlrHas(requests, "create buffer") /\ ~WlrHas(requests, "copy")
           /\ ~WlrHas(requests, "destroy frame")
  <2>1. pc = "done" /\ geometry # None
    BY WlrServed, WlrServedSorted DEF WlrIInv, WlrSorted, Wlr!TypeOK, Wlr!Phases
  <2>2. \A type : ~WlrBefore(Head(requests).type, type)
    BY DEF WlrBefore
  <2>3. \A type : ~WlrHas(requests', type)
    BY <2>2, WlrServed
  <2>4. ~WlrHas(requests, "create buffer") /\ ~WlrHas(requests, "copy")
          /\ ~WlrHas(requests, "destroy frame")
    BY <2>3, WlrServed
  <2>5. Head(requests).buffer = 1
    BY WlrServed, WlrRequestFields
  <2> QED
    BY <2>1, <2>3, <2>4, <2>5 DEF Wlr!Serve
<1>3. requests' = <<>>
  BY <1>2, WlrServed, WlrNothing
<1>4. pools' \in [Wlr!Buffers -> Usable \cup {None}] /\ pools'[1] = None
  BY <1>2 DEF WlrIInv, Wlr!TypeOK, Wlr!Buffers
<1>5. Wlr!TypeOK'
  BY <1>4 DEF WlrIInv, Wlr!TypeOK
<1>6. WlrSorted'
  BY WlrServedSorted
<1>7. frame = Wlr!NoFrame /\ pools[1] # None
  BY <1>2 DEF WlrIInv, WlrServer
<1>8. WlrServer'
  BY <1>2, <1>3, <1>4, <1>7 DEF WlrIInv, WlrServer, Wlr!NoFrame
<1>9. WlrClient'
  BY <1>2 DEF WlrIInv, WlrClient, Wlr!DeliveredAsDrawn, Wlr!FailureJustified
<1> QED
  BY <1>2, <1>4, <1>5, <1>6, <1>7, <1>8, <1>9 DEF WlrIInv

\* A repaint completes the copy into the buffer the client remembers.
LEMMA WlrRepaintStep ==
  ASSUME Wlr!WlrConstants, WlrIInv, Wlr!Repaint
  PROVE WlrIInv' /\ image'[1] # None
<1> USE DEF Wlr!Repaint, Wlr!clientVars
<1>1. /\ geometry # None /\ ~WlrHas(requests, "copy") /\ ~WlrHas(requests, "create buffer")
      /\ frame # Wlr!NoFrame
  <2>1. Wlr!NoFrame.type = "none"
    BY DEF Wlr!NoFrame
  <2> QED
    BY <2>1 DEF WlrIInv, WlrServer
<1>2. /\ ~WlrHas(requests, "capture output") /\ pc # "start" /\ pc # "offer"
      /\ pools[1] = geometry /\ image[1] = None
      /\ pc = "done" => WlrHas(requests, "destroy frame")
  <2>1. ~WlrHas(requests, "capture output") /\ pc # "start" /\ pc # "offer"
    BY <1>1 DEF WlrIInv, WlrSorted, WlrServer
  <2>2. pc = "done" => WlrHas(requests, "destroy frame")
    BY <1>1 DEF WlrIInv, WlrServer
  <2>3. requests = <<>> => ~WlrHas(requests, "destroy frame")
    BY WlrNoRequest
  <2>4. pools[1] = geometry
    BY <1>1, <2>2, <2>3 DEF WlrIInv, WlrServer
  <2>5. image[1] = None
    BY DEF WlrIInv, WlrServer
  <2> QED
    BY <2>1, <2>2, <2>4, <2>5
<1>3. image'[1] = geometry /\ image' \in [Wlr!Buffers -> Usable \cup {None}]
  BY <1>2 DEF WlrIInv, Wlr!TypeOK, Wlr!Buffers
<1>4. frame' \in Wlr!Frames /\ frame'.type = "over"
  BY DEF WlrIInv, Wlr!TypeOK, Wlr!Frames, Wlr!NoFrame
<1> DEFINE e == [type |-> "ready"]
<1>5. e \in WlrEvents /\ e.type = "ready" /\ Wlr!Send(e)
  BY DEF WlrEvents
<1> HIDE DEF e
<1>6. events' \in Seq(WlrEvents) /\ (pc \in {"offer", "copy"} => WlrWaiting')
  <2>1. frame.type # "over"
    OBVIOUS
  <2> QED
    BY <1>1, <1>2, <1>3, <1>4, <1>5, <2>1, WlrEndSent
<1>7. Wlr!TypeOK'
  BY <1>3, <1>4 DEF WlrIInv, Wlr!TypeOK
<1>8. WlrSorted'
  BY DEF WlrIInv, WlrSorted
<1>9. WlrServer'
  BY <1>1, <1>2, <1>3, <1>4 DEF WlrIInv, WlrServer
<1>10. result.type # "buffer"
  <2> SUFFICES ASSUME result.type = "buffer" PROVE FALSE
    OBVIOUS
  <2>1. result \in [type : {"buffer"}, buffer : Wlr!Buffers, geometry : Wlr!Geometries]
    <3>1. Wlr!NoResult.type = "none" /\ \A error : Wlr!Error(error).type = "error"
      BY DEF Wlr!NoResult, Wlr!Error
    <3> QED
      BY <3>1 DEF WlrIInv, Wlr!TypeOK
  <2>2. result.buffer = 1 /\ result.geometry # None
    BY <2>1 DEF Wlr!Buffers, Wlr!Geometries, Wlr!WlrConstants
  <2> QED
    BY <1>2, <2>2 DEF WlrIInv, WlrClient, Wlr!DeliveredAsDrawn
<1>11. WlrClient'
  BY <1>2, <1>6, <1>10 DEF WlrIInv, WlrClient, Wlr!DeliveredAsDrawn, Wlr!FailureJustified
<1> QED
  BY <1>1, <1>3, <1>7, <1>8, <1>9, <1>11 DEF WlrIInv

\* A frame fails before it is copied.
LEMMA WlrFailFrameStep == ASSUME Wlr!WlrConstants, WlrIInv, Wlr!FailFrame PROVE WlrIInv'
<1> USE DEF Wlr!FailFrame, Wlr!clientVars
<1>1. /\ ~WlrHas(requests, "capture output") /\ pc # "start" /\ image[1] = None
      /\ frame # Wlr!NoFrame /\ frame.type # "over"
  <2>1. Wlr!NoFrame.type = "none"
    BY DEF Wlr!NoFrame
  <2>2. frame # Wlr!NoFrame /\ frame.type # "over" /\ frame.type # "none"
    BY <2>1
  <2> QED
    BY <2>2 DEF WlrIInv, WlrServer
<1>2. frame' \in Wlr!Frames /\ frame'.type = "over"
  BY DEF WlrIInv, Wlr!TypeOK, Wlr!Frames, Wlr!NoFrame
<1> DEFINE e == [type |-> "failed"]
<1>3. e \in WlrEvents /\ e.type = "failed" /\ Wlr!Send(e)
  BY DEF WlrEvents
<1> HIDE DEF e
<1>4. events' \in Seq(WlrEvents) /\ (pc \in {"offer", "copy"} => WlrWaiting')
  BY <1>1, <1>2, <1>3, WlrEndSent
<1>5. Wlr!TypeOK'
  BY <1>2 DEF WlrIInv, Wlr!TypeOK
<1>6. WlrSorted'
  BY DEF WlrIInv, WlrSorted
<1>7. WlrServer'
  BY <1>1, <1>2 DEF WlrIInv, WlrServer
<1>8. WlrClient'
  BY <1>1, <1>4 DEF WlrIInv, WlrClient, Wlr!DeliveredAsDrawn, Wlr!FailureJustified
<1> QED
  BY <1>5, <1>6, <1>7, <1>8 DEF WlrIInv

\* What the compositor does keeps the invariant.
LEMMA WlrCompositorStep == ASSUME Wlr!WlrConstants, WlrIInv, Wlr!Compositor PROVE WlrIInv'
<1>1. CASE Wlr!Serve
  BY <1>1, WlrCaptureServed, WlrCreateServed, WlrCopyServed, WlrFrameDestroyed, WlrBufferDestroyed
  DEF Wlr!Serve
<1>2. CASE Wlr!Repaint
  BY <1>2, WlrRepaintStep
<1>3. CASE Wlr!FailFrame
  BY <1>3, WlrFailFrameStep
<1>4. ASSUME NEW g \in Wlr!Geometries, Wlr!ChangeScreen(g) PROVE WlrIInv'
  <2> USE <1>4 DEF Wlr!ChangeScreen, Wlr!clientVars
  <2>1. Wlr!TypeOK'
    BY DEF WlrIInv, Wlr!TypeOK, Wlr!WlrConstants
  <2>2. WlrSorted' /\ WlrServer'
    BY DEF WlrIInv, WlrSorted, WlrServer
  <2>3. WlrClient'
    BY DEF WlrIInv, WlrClient, WlrWaiting, Wlr!DeliveredAsDrawn, Wlr!FailureJustified
  <2> QED
    BY <2>1, <2>2, <2>3 DEF WlrIInv
<1> QED
  BY <1>1, <1>2, <1>3, <1>4 DEF Wlr!Compositor
-----------------------------------------------------------------------------
(* Theorems *)

\* Every step keeps the invariant.
LEMMA WlrPreserved == ASSUME Wlr!WlrConstants, WlrIInv, [Wlr!Next]_(Wlr!vars) PROVE WlrIInv'
<1>1. CASE Wlr!Next
  BY <1>1, WlrThreadStep, WlrCompositorStep DEF Wlr!Next
<1>2. CASE UNCHANGED Wlr!vars
  <2> USE <1>2 DEF Wlr!vars
  <2>1. Wlr!TypeOK'
    BY DEF WlrIInv, Wlr!TypeOK
  <2>2. WlrSorted' /\ WlrServer'
    BY DEF WlrIInv, WlrSorted, WlrServer
  <2>3. WlrClient'
    BY DEF WlrIInv, WlrClient, WlrWaiting, Wlr!DeliveredAsDrawn, Wlr!FailureJustified
  <2> QED
    BY <2>1, <2>2, <2>3 DEF WlrIInv
<1> QED
  BY <1>1, <1>2

\* The capture, its connection and the compositor's objects stay in step.
THEOREM WlrInvariant == Wlr!WlrConstants => (Wlr!Spec => []WlrIInv)
<1> SUFFICES ASSUME Wlr!WlrConstants PROVE Wlr!Spec => []WlrIInv
  OBVIOUS
<1>1. Wlr!Init => WlrIInv
  BY WlrInitially
<1>2. WlrIInv /\ [Wlr!Next]_(Wlr!vars) => WlrIInv'
  BY WlrPreserved
<1> QED
  BY <1>1, <1>2, PTL DEF Wlr!Spec

\* What the invariant says of the properties of a capture.
LEMMA WlrPromises == WlrIInv => Wlr!TypeOK /\ Wlr!DeliveredAsDrawn /\ Wlr!FailureJustified
BY DEF WlrIInv, WlrClient

\* The state of a capture, of its connection and of the compositor's objects
\* is well-typed (CaptureState, the frame's events and requests).
THEOREM WlrTypeCorrect == Wlr!WlrConstants => (Wlr!Spec => []Wlr!TypeOK)
<1> SUFFICES ASSUME Wlr!WlrConstants PROVE Wlr!Spec => []Wlr!TypeOK
  OBVIOUS
<1>1. WlrIInv => Wlr!TypeOK
  BY WlrPromises
<1> QED
  BY <1>1, WlrInvariant, PTL

\* A delivered image is described as the compositor drew it, however often the
\* output has changed in between.
THEOREM WlrDrawnAsDescribed == Wlr!WlrConstants => (Wlr!Spec => []Wlr!DeliveredAsDrawn)
<1> SUFFICES ASSUME Wlr!WlrConstants PROVE Wlr!Spec => []Wlr!DeliveredAsDrawn
  OBVIOUS
<1>1. WlrIInv => Wlr!DeliveredAsDrawn
  BY WlrPromises
<1> QED
  BY <1>1, WlrInvariant, PTL

\* The capture reports a failed frame only if the compositor failed it.
THEOREM WlrFailsOnlyIfRefused == Wlr!WlrConstants => (Wlr!Spec => []Wlr!FailureJustified)
<1> SUFFICES ASSUME Wlr!WlrConstants PROVE Wlr!Spec => []Wlr!FailureJustified
  OBVIOUS
<1>1. WlrIInv => Wlr!FailureJustified
  BY WlrPromises
<1> QED
  BY <1>1, WlrInvariant, PTL

-----------------------------------------------------------------------------
(* The loan of the buffer *)

WlrLoan ==
  INSTANCE BufferLoan WITH
    Buffers <- Wlr!Buffers, NoBuffer <- 0,
    loan <- Wlr!Lent, finished <- Wlr!Finished, freed <- Wlr!Released, delivered <- Wlr!Delivered

\* What is lent, in terms of the requests.
LEMMA WlrLentIs ==
  ASSUME WlrIInv
  PROVE  /\ frame.type = "copying" \/ WlrHas(requests, "copy") => Wlr!Lent = 1
         /\ ~(frame.type = "copying") /\ ~WlrHas(requests, "copy") => Wlr!Lent = 0
         /\ Wlr!Finished = IF image[1] # None THEN {1} ELSE {}
         /\ Wlr!Released =
              IF geometry # None /\ pools[1] = None /\ ~WlrHas(requests, "create buffer")
              THEN {1} ELSE {}
BY WlrMembers
DEF WlrIInv, WlrSorted, Wlr!Lent, Wlr!Finished, Wlr!Released, Wlr!Buffers, ToSet, Wlr!ToSet

\* The same after a step.
LEMMA WlrLentNext ==
  ASSUME WlrIInv'
  PROVE  /\ frame'.type = "copying" \/ WlrHas(requests', "copy") => Wlr!Lent' = 1
         /\ ~(frame'.type = "copying") /\ ~WlrHas(requests', "copy") => Wlr!Lent' = 0
         /\ Wlr!Finished' = IF image'[1] # None THEN {1} ELSE {}
         /\ Wlr!Released' =
              IF geometry' # None /\ pools'[1] = None /\ ~WlrHas(requests', "create buffer")
              THEN {1} ELSE {}
BY WlrMembers
DEF WlrIInv, WlrSorted, Wlr!Lent, Wlr!Finished, Wlr!Released, Wlr!Buffers, ToSet, Wlr!ToSet

\* Nothing is on loan at first.
LEMMA WlrLoanInit == ASSUME Wlr!WlrConstants, Wlr!Init PROVE WlrLoan!Init
<1>1. WlrIInv
  BY WlrInitially
<1>2. /\ frame.type # "copying" /\ ~WlrHas(requests, "copy") /\ image[1] = None /\ geometry = None
      /\ result.type # "buffer"
  BY WlrNoRequest DEF Wlr!Init, Wlr!NoFrame, Wlr!NoResult, Wlr!Buffers
<1>3. Wlr!Lent = 0 /\ Wlr!Finished = {} /\ Wlr!Released = {}
  BY <1>1, <1>2, WlrLentIs
<1> QED
  BY <1>2, <1>3 DEF WlrLoan!Init, Wlr!Delivered

\* A step of the compositor at most ends the loan, or releases the buffer.
LEMMA WlrCompositorLoan ==
  ASSUME Wlr!WlrConstants, WlrIInv, WlrIInv', Wlr!Compositor
  PROVE  [WlrLoan!Next]_(WlrLoan!vars)
<1>1. Wlr!Delivered' = Wlr!Delivered /\ UNCHANGED <<geometry, result>>
  BY
  DEF Wlr!Compositor, Wlr!Serve, Wlr!Repaint, Wlr!FailFrame, Wlr!ChangeScreen, Wlr!clientVars,
      Wlr!Delivered
<1>2. CASE UNCHANGED <<Wlr!Lent, Wlr!Finished, Wlr!Released>>
  BY <1>1, <1>2 DEF WlrLoan!vars
<1>3. CASE Wlr!Lent = 1 /\ Wlr!Lent' = 0 /\ Wlr!Released' = Wlr!Released
             /\ Wlr!Finished' \in {Wlr!Finished, Wlr!Finished \cup {1}}
  BY <1>1, <1>3 DEF WlrLoan!Next, WlrLoan!Return
<1>4. CASE Wlr!Lent = 0 /\ Wlr!Released = {} /\ Wlr!Released' = {1}
             /\ UNCHANGED <<Wlr!Lent, Wlr!Finished>>
  BY <1>1, <1>4 DEF WlrLoan!Next, WlrLoan!Free, Wlr!Buffers
<1>5. CASE Wlr!Serve
  <2> DEFINE r == Head(requests)
  <2>1. UNCHANGED image
    BY <1>5 DEF Wlr!Serve
  <2>2. CASE r.type = "capture output" /\ Wlr!Describe /\ UNCHANGED pools
    <3>1. /\ frame = Wlr!NoFrame /\ frame'.type # "copying"
          /\ ~WlrHas(requests, "copy") /\ ~WlrHas(requests', "copy") /\ geometry = None
      <4>1. WlrHas(requests, "capture output") /\ \A type : WlrHas(requests', type)
              => WlrHas(requests, type)
        BY <1>5, <2>2, WlrServed
      <4>2. frame = Wlr!NoFrame /\ geometry = None
        BY <4>1 DEF WlrIInv, WlrServer, WlrSorted
      <4>3. ~WlrHas(requests, "copy")
        BY <4>2 DEF WlrIInv, WlrSorted
      <4>4. frame'.type # "copying"
        <5>1. CASE frame' = [type |-> "described", geometry |-> screen]
          BY <5>1
        <5>2. CASE frame' = [type |-> "over", geometry |-> screen]
          BY <5>2
        <5> QED
          BY <2>2, <5>1, <5>2 DEF Wlr!Describe
      <4> QED
        BY <4>1, <4>2, <4>3, <4>4
    <3>2. frame.type # "copying"
      BY <3>1 DEF Wlr!NoFrame
    <3> QED
      BY <1>1, <1>2, <2>1, <3>1, <3>2, WlrLentIs, WlrLentNext
  <2>3. CASE /\ r.type = "create buffer"
             /\ pools' = [pools EXCEPT ![r.buffer] = r.geometry]
             /\ UNCHANGED frame
    <3>1. /\ WlrHas(requests, "create buffer") /\ geometry # None
          /\ r.buffer = 1 /\ r.geometry = geometry
          /\ WlrHas(requests', "copy") <=> WlrHas(requests, "copy")
      BY <1>5, <2>3, WlrServed, WlrRequestFields DEF WlrIInv, WlrSorted
    <3>2. pools'[1] # None
      BY <2>3, <3>1 DEF WlrIInv, Wlr!TypeOK, Wlr!Buffers
    <3> QED
      BY <1>1, <1>2, <2>1, <2>3, <3>1, <3>2, WlrLentIs, WlrLentNext
  <2>4. CASE /\ r.type = "copy"
             /\ frame' = IF frame.type = "described" THEN [frame EXCEPT !.type = "copying"] ELSE frame
             /\ UNCHANGED pools
    <3>1. /\ WlrHas(requests, "copy") /\ ~WlrHas(requests', "copy")
          /\ WlrHas(requests', "create buffer") <=> WlrHas(requests, "create buffer")
      <4>1. ~WlrBefore(r.type, "copy")
        BY <2>4 DEF WlrBefore
      <4> QED
        BY <1>5, <2>4, <4>1, WlrServed
    <3> QED
      BY <1>1, <1>2, <1>3, <2>1, <2>4, <3>1, WlrLentIs, WlrLentNext
  <2>5. CASE r.type = "destroy frame" /\ frame' = Wlr!NoFrame /\ UNCHANGED pools
    <3>1. /\ ~WlrHas(requests, "copy") /\ ~WlrHas(requests', "copy")
          /\ WlrHas(requests', "create buffer") <=> WlrHas(requests, "create buffer")
      <4>1. ~WlrBefore(r.type, "copy")
        BY <2>5 DEF WlrBefore
      <4> QED
        BY <1>5, <2>5, <4>1, WlrServed
    <3>2. frame'.type # "copying"
      BY <2>5 DEF Wlr!NoFrame
    <3> QED
      BY <1>1, <1>2, <1>3, <2>1, <2>5, <3>1, <3>2, WlrLentIs, WlrLentNext
  <2>6. CASE /\ r.type = "destroy buffer"
             /\ pools' = [pools EXCEPT ![r.buffer] = None]
             /\ UNCHANGED <<frame, events, refused>>
    <3>1. /\ frame = Wlr!NoFrame /\ pools'[1] = None /\ ~WlrHas(requests, "create buffer")
          /\ geometry # None /\ pools[1] # None /\ ~WlrHas(requests', "create buffer")
          /\ ~WlrHas(requests, "copy") /\ ~WlrHas(requests', "copy")
      BY <1>5, <2>6, WlrBufferDestroyed
    <3>2. frame.type # "copying"
      BY <3>1 DEF Wlr!NoFrame
    <3> QED
      BY <1>1, <1>4, <2>1, <2>6, <3>1, <3>2, WlrLentIs, WlrLentNext
  <2> QED
    BY <1>5, <2>2, <2>3, <2>4, <2>5, <2>6 DEF Wlr!Serve
<1>6. CASE Wlr!Repaint
  <2>1. /\ frame.type = "copying" /\ frame'.type = "over" /\ image'[1] # None
        /\ ~WlrHas(requests, "copy") /\ UNCHANGED <<requests, pools>>
    BY <1>6, WlrRepaintStep DEF Wlr!Repaint, WlrIInv, WlrServer, Wlr!TypeOK, Wlr!Frames, Wlr!NoFrame
  <2> QED
    BY <1>1, <1>3, <2>1, WlrLentIs, WlrLentNext
<1>7. CASE Wlr!FailFrame
  <2>1. frame'.type = "over" /\ UNCHANGED <<requests, pools, image>>
    BY <1>7 DEF Wlr!FailFrame, WlrIInv, Wlr!TypeOK, Wlr!Frames, Wlr!NoFrame
  <2> QED
    BY <1>1, <1>2, <1>3, <2>1, WlrLentIs, WlrLentNext
<1>8. CASE \E g \in Wlr!Geometries : Wlr!ChangeScreen(g)
  <2>1. UNCHANGED <<requests, frame, pools, image>>
    BY <1>8 DEF Wlr!ChangeScreen
  <2> QED
    BY <1>1, <1>2, <2>1, WlrLentIs, WlrLentNext
<1> QED
  BY <1>5, <1>6, <1>7, <1>8 DEF Wlr!Compositor
\* A step of the thread at most lends the buffer, or delivers it.
LEMMA WlrThreadLoan ==
  ASSUME Wlr!WlrConstants, WlrIInv, WlrIInv', Wlr!Thread
  PROVE  [WlrLoan!Next]_(WlrLoan!vars)
<1>1. UNCHANGED <<frame, pools, image>>
  BY
  DEF Wlr!Thread, Wlr!Start, Wlr!Handle, Wlr!Lend, Wlr!NoBuffer, Wlr!Outcome, Wlr!Timeout,
      Wlr!compositorVars
<1>2. Wlr!Delivered = 0
  <2>1. pc # "done"
    BY DEF Wlr!Thread, Wlr!Start, Wlr!Handle, Wlr!Lend, Wlr!NoBuffer, Wlr!Outcome, Wlr!Timeout
  <2> QED
    BY <2>1, WlrNotDelivered DEF WlrIInv, WlrClient, Wlr!Delivered
<1>3. CASE WlrKeeps
  <2>1. UNCHANGED <<Wlr!Lent, Wlr!Finished, Wlr!Released>>
    BY <1>1, <1>3, WlrLentIs, WlrLentNext DEF WlrKeeps
  <2>2. CASE result'.type # "buffer"
    BY <1>2, <2>1, <2>2 DEF Wlr!Delivered, WlrLoan!vars
  <2>3. CASE result'.type = "buffer"
    <3>1. 1 \in Wlr!Finished /\ Wlr!Delivered' = 1
      BY <1>3, <2>3, WlrLentIs DEF WlrKeeps, Wlr!Delivered
    <3> QED
      BY <1>2, <2>1, <3>1 DEF WlrLoan!Next, WlrLoan!Deliver, Wlr!Buffers
  <2> QED
    BY <2>2, <2>3
<1>4. CASE WlrLends
  <2>1. image[1] = None
    BY <1>4 DEF WlrLends, WlrIInv, WlrServer
  <2>2. Wlr!Lent = 0 /\ Wlr!Lent' = 1 /\ Wlr!Finished = {} /\ Wlr!Finished' = {}
          /\ Wlr!Released = {} /\ Wlr!Released' = {}
    BY <1>1, <1>4, <2>1, WlrLentIs, WlrLentNext DEF WlrLends
  <2>3. Wlr!Delivered' = Wlr!Delivered
    BY <1>4 DEF WlrLends, Wlr!Delivered
  <2> QED
    BY <1>2, <2>2, <2>3 DEF WlrLoan!Next, WlrLoan!Lend, Wlr!Buffers
<1> QED
  BY <1>3, <1>4, WlrThreadStep

\* A step of wlr-screencopy is one of BufferLoan, or leaves the loan alone.
LEMMA WlrStepLoan ==
  ASSUME Wlr!WlrConstants, WlrIInv, WlrIInv', [Wlr!Next]_(Wlr!vars)
  PROVE  [WlrLoan!Next]_(WlrLoan!vars)
<1>1. CASE Wlr!Next
  BY <1>1, WlrThreadLoan, WlrCompositorLoan DEF Wlr!Next
<1>2. CASE UNCHANGED Wlr!vars
  <2>1. UNCHANGED <<Wlr!Lent, Wlr!Finished, Wlr!Released, Wlr!Delivered>>
    BY <1>2 DEF Wlr!vars, Wlr!Lent, Wlr!Finished, Wlr!Released, Wlr!Delivered
  <2> QED
    BY <2>1 DEF WlrLoan!vars
<1> QED
  BY <1>1, <1>2

\* The capture by wlr-screencopy keeps the promise of every backend: the
\* compositor's buffer is released only when it is not on loan, and only a
\* complete image is delivered (the guards of capture and their order).
THEOREM WlrKeepsTheLoan == Wlr!WlrConstants => (Wlr!Spec => WlrLoan!Spec)
<1> SUFFICES ASSUME Wlr!WlrConstants PROVE Wlr!Spec => WlrLoan!Spec
  OBVIOUS
<1>1. Wlr!Init => WlrLoan!Init
  BY WlrLoanInit
<1>2. WlrIInv /\ WlrIInv' /\ [Wlr!Next]_(Wlr!vars) => [WlrLoan!Next]_(WlrLoan!vars)
  BY WlrStepLoan
<1> QED
  BY <1>1, <1>2, WlrInvariant, PTL DEF Wlr!Spec, WlrLoan!Spec

-----------------------------------------------------------------------------
(* What a capture by wlr-screencopy leaves behind *)

\* A buffer that the compositor has, or will have, is on loan, or its destruction is
\* under way behind whatever creates it.  (What becomes of the frame is in WlrServer.)
WlrOwned ==
  pools[1] # None \/ WlrHas(requests, "create buffer")
    => pc = "copy" \/ WlrHas(requests, "destroy buffer")

\* Until the buffer is lent there is none.
LEMMA WlrUnlent == ASSUME WlrIInv', geometry' = None \/ pc' # "done" PROVE WlrOwned'
<1>1. geometry' # None /\ pc' # "done" => pc' = "copy"
  BY DEF WlrIInv, WlrSorted
<1>2. geometry' = None => pools'[1] = None /\ ~WlrHas(requests', "create buffer")
  BY DEF WlrIInv, WlrSorted, WlrServer
<1> QED
  BY <1>1, <1>2 DEF WlrOwned

\* The end of the second wait destroys the buffer.
LEMMA WlrBufferLeaves ==
  ASSUME WlrIInv, NEW res, Wlr!Teardown(res) PROVE WlrHas(requests', "destroy buffer")
<1>1. /\ requests \in Seq(WlrRequests)
      /\ requests' = requests \o <<Wlr!DestroyFrame, Wlr!DestroyBuffer>>
  BY DEF WlrIInv, WlrSorted, WlrStretch, Wlr!Teardown, Wlr!Return, Wlr!Issue
<1>2. PICK f : f = Wlr!DestroyFrame
  OBVIOUS
<1>3. PICK b : b = Wlr!DestroyBuffer
  OBVIOUS
<1>4. f \in WlrRequests /\ b \in WlrRequests /\ b.type = "destroy buffer"
  BY <1>2, <1>3, WlrKnown DEF Wlr!DestroyBuffer
<1>5. PICK t : t = <<f, b>>
  OBVIOUS
<1>6. t \in Seq(WlrRequests) /\ Len(t) = 2 /\ t[2] = b
  <2>1. <<f, b>> \in Seq(WlrRequests)
    BY <1>4, TwoPlaces
  <2>2. Len(<<f, b>>) = 2 /\ <<f, b>>[2] = b
    OBVIOUS
  <2> QED
    BY <1>5, <2>1, <2>2
<1>7. PICK s : s = requests
  OBVIOUS
<1>8. Len(s) + 2 \in DOMAIN (s \o t) /\ (s \o t)[Len(s) + 2] = b
  <2>a. s \in Seq(WlrRequests) /\ t \in Seq(WlrRequests)
    BY <1>1, <1>6, <1>7
  <2>1. /\ Len(s) \in Nat /\ DOMAIN (s \o t) = 1 .. Len(s) + Len(t)
        /\ \A i \in 1 .. Len(t) : (s \o t)[Len(s) + i] = t[i]
    BY ONLY <2>a, Joined
  <2>2. 2 \in 1 .. Len(t) /\ Len(s) + 2 \in 1 .. Len(s) + Len(t)
    BY <1>6, <2>1
  <2> QED
    BY <1>6, <2>1, <2>2
<1>9. requests' = s \o t
  BY <1>1, <1>2, <1>3, <1>5, <1>7
<1> QED
  BY <1>4, <1>8, <1>9 DEF WlrHas

\* The compositor takes the next request: a buffer that it creates was accounted for,
\* and one that it destroys is not created again.
LEMMA WlrOwnedServed == ASSUME WlrIInv, WlrOwned, Wlr!Serve PROVE WlrOwned'
<1>1. PICK r : r = Head(requests)
  OBVIOUS
<1>2. /\ r \in WlrRequests /\ WlrHas(requests, r.type)
      /\ \A type :
           /\ WlrHas(requests', type) => WlrHas(requests, type) /\ WlrBefore(r.type, type)
           /\ WlrHas(requests, type) => type = r.type \/ WlrHas(requests', type)
  BY <1>1, WlrServed
<1>3. UNCHANGED pc
  BY DEF Wlr!Serve, Wlr!clientVars
<1>4. CASE r.type = "destroy buffer"
  <2>1. pools' = [pools EXCEPT ![r.buffer] = None] /\ r.buffer = 1
    BY <1>1, <1>2, <1>4, WlrRequestFields DEF Wlr!Serve
  <2>2. pools'[1] = None
    BY <2>1 DEF WlrIInv, Wlr!TypeOK, Wlr!Buffers
  <2>3. ~WlrHas(requests', "create buffer")
    BY <1>2, <1>4 DEF WlrBefore
  <2> QED
    BY <2>2, <2>3 DEF WlrOwned
<1>5. CASE r.type # "destroy buffer"
  <2>1. r.type # "create buffer" => UNCHANGED pools
    BY <1>1, <1>2, <1>5, WlrRequestFields DEF Wlr!Serve
  <2>2. pools'[1] # None \/ WlrHas(requests', "create buffer")
          => pools[1] # None \/ WlrHas(requests, "create buffer")
    BY <1>2, <2>1
  <2>3. WlrHas(requests, "destroy buffer") => WlrHas(requests', "destroy buffer")
    BY <1>2, <1>5
  <2> QED
    BY <1>3, <2>2, <2>3 DEF WlrOwned
<1> QED
  BY <1>4, <1>5

\* Every step keeps the account of the buffer.
LEMMA WlrOwnedStep ==
  ASSUME Wlr!WlrConstants, WlrIInv, WlrOwned, [Wlr!Next]_(Wlr!vars) PROVE WlrOwned'
<1>1. WlrIInv'
  BY WlrPreserved
<1>2. ASSUME UNCHANGED <<pc, requests, pools>> PROVE WlrOwned'
  BY <1>2 DEF WlrOwned
<1>3. CASE Wlr!Start \/ Wlr!Handle
  <2>1. pc' # "done"
    BY <1>3 DEF Wlr!Start, Wlr!Handle
  <2> QED
    BY <1>1, <2>1, WlrUnlent
<1>4. CASE Wlr!Lend \/ Wlr!NoBuffer
  <2>1. geometry = None
    BY <1>4 DEF Wlr!Lend, Wlr!NoBuffer, WlrIInv, WlrSorted
  <2>2. geometry' = None \/ pc' # "done"
    BY <1>4, <2>1 DEF Wlr!Lend, Wlr!NoBuffer
  <2> QED
    BY <1>1, <2>2, WlrUnlent
<1>5. CASE Wlr!Outcome
  <2>1. WlrHas(requests', "destroy buffer")
    BY <1>5, WlrBufferLeaves DEF Wlr!Outcome
  <2> QED
    BY <2>1 DEF WlrOwned
<1>6. CASE Wlr!Timeout
  <2>1. CASE pc = "offer"
    <3>1. geometry' = None
      BY <1>6, <2>1 DEF Wlr!Timeout, WlrIInv, WlrSorted
    <3> QED
      BY <1>1, <3>1, WlrUnlent
  <2>2. CASE pc # "offer"
    <3>1. WlrHas(requests', "destroy buffer")
      BY <1>6, <2>2, WlrBufferLeaves DEF Wlr!Timeout
    <3> QED
      BY <3>1 DEF WlrOwned
  <2> QED
    BY <2>1, <2>2
<1>7. CASE Wlr!Serve
  BY <1>7, WlrOwnedServed
<1>8. CASE Wlr!Repaint \/ Wlr!FailFrame \/ \E g \in Wlr!Geometries : Wlr!ChangeScreen(g)
  BY <1>2, <1>8 DEF Wlr!Repaint, Wlr!FailFrame, Wlr!ChangeScreen, Wlr!clientVars
<1>9. CASE UNCHANGED Wlr!vars
  BY <1>2, <1>9 DEF Wlr!vars
<1> QED
  BY <1>3, <1>4, <1>5, <1>6, <1>7, <1>8, <1>9 DEF Wlr!Next, Wlr!Thread, Wlr!Compositor

\* The accounts of a capture that is over.
LEMMA WlrNothingOwned ==
  ASSUME WlrIInv, WlrOwned, pc = "done", requests = <<>> PROVE Wlr!NothingHeld
<1>1. \A type : ~WlrHas(requests, type)
  BY WlrNoRequest
<1>2. frame = Wlr!NoFrame
  BY <1>1 DEF WlrIInv, WlrServer
<1>3. pools[1] = None
  BY <1>1 DEF WlrOwned
<1> QED
  BY <1>2, <1>3 DEF Wlr!NothingHeld, Wlr!Buffers

-----------------------------------------------------------------------------
(* weston_capture_v1, of which WestonCaptureProofs says it all *)

WestonP == INSTANCE WestonCaptureProofs

\* WestonCaptureProofs is about the same captures.
LEMMA WestonConstantsAre == Weston!WestonConstants => WestonP!WestonConstants
<1> SUFFICES ASSUME Weston!WestonConstants PROVE WestonP!WestonConstants
  OBVIOUS
<1>1. /\ WestonP!Sources = Weston!Sources /\ WestonP!Formats = Weston!Formats
      /\ WestonP!Params = Weston!Params /\ WestonP!Tasks = Weston!Tasks
  BY DEF Weston!Sources, Weston!Formats, Weston!Params, Weston!Tasks, Weston!Buffers, Weston!ToSet,
         WestonP!Sources, WestonP!Formats, WestonP!Params, WestonP!Tasks, WestonP!Buffers,
         WestonP!ToSet
<1> QED
  BY <1>1, Zenon DEF Weston!WestonConstants, WestonP!WestonConstants

\* The same in every initial state.
LEMMA WestonInitIs == Weston!Init => WestonP!Init
BY DEF Weston!Init, Weston!Sources, Weston!Offers, Weston!Formats, Weston!Buffers,
       Weston!NoResult, Weston!ToSet,
       WestonP!Init, WestonP!Sources, WestonP!Offers, WestonP!Formats, WestonP!Buffers,
       WestonP!NoResult, WestonP!ToSet

\* The same in every step of the capturing thread.
LEMMA WestonThreadIs == Weston!Thread => WestonP!Thread
<1> USE DEF Weston!compositorVars, Weston!clientVars, Weston!Source, Weston!Issue,
            Weston!DestroySource, Weston!DestroyBuffer, Weston!Return, Weston!Error,
            WestonP!compositorVars, WestonP!clientVars, WestonP!Source, WestonP!Issue,
            WestonP!DestroySource, WestonP!DestroyBuffer, WestonP!Return, WestonP!Error
<1>1. Weston!Flush \/ Weston!Read => WestonP!Flush \/ WestonP!Read
  BY DEF Weston!Flush, Weston!FlushOutbox, Weston!Read, Weston!ReadEvent,
         WestonP!Flush, WestonP!FlushOutbox, WestonP!Read, WestonP!ReadEvent
<1>2. Weston!Handle => WestonP!Handle
  BY DEF Weston!Handle, Weston!Statuses, WestonP!Handle, WestonP!Statuses
<1>3. Weston!CreateSource => WestonP!CreateSource
  BY DEF Weston!CreateSource, Weston!CreateFrame, WestonP!CreateSource, WestonP!CreateFrame
<1>4. Weston!Negotiated => WestonP!Negotiated
  BY DEF Weston!Negotiated, Weston!Announced, WestonP!Negotiated, WestonP!Announced
<1>5. Weston!Reject => WestonP!Reject
  BY DEF Weston!Reject, WestonP!Reject
<1>6. Weston!GiveUp \/ Weston!Attempt => WestonP!GiveUp \/ WestonP!Attempt
  BY DEF Weston!GiveUp, Weston!Refusals, Weston!Attempt, WestonP!GiveUp, WestonP!Refusals,
         WestonP!Attempt
<1>7. Weston!Outcome => WestonP!Outcome
  BY DEF Weston!Outcome, Weston!Completed, WestonP!Outcome, WestonP!Completed
<1>8. Weston!Timeout => WestonP!Timeout
  BY DEF Weston!Timeout, Weston!Announced, WestonP!Timeout, WestonP!Announced
<1> QED
  BY <1>1, <1>2, <1>3, <1>4, <1>5, <1>6, <1>7, <1>8 DEF Weston!Thread, WestonP!Thread

\* The same in every step of the compositor.
LEMMA WestonCompositorIs == Weston!Compositor => WestonP!Compositor
<1> USE DEF Weston!clientVars, Weston!Event, Weston!Announcement,
            WestonP!clientVars, WestonP!Event, WestonP!Announcement
<1>1. Weston!Serve => WestonP!Serve
  BY DEF Weston!Serve, Weston!Nothing, WestonP!Serve, WestonP!Nothing
<1>2. Weston!Complete \/ Weston!Retry \/ Weston!Fail => WestonP!Complete \/ WestonP!Retry \/ WestonP!Fail
  BY DEF Weston!Complete, Weston!Retry, Weston!Fail, Weston!Retire, Weston!Compatible,
         Weston!Params, Weston!Formats, WestonP!Complete, WestonP!Retry, WestonP!Fail,
         WestonP!Retire, WestonP!Compatible, WestonP!Params, WestonP!Formats
<1>3. ASSUME NEW s \in Weston!Sources, NEW p \in Weston!Offers, Weston!ChangeInfo(s, p)
      PROVE  s \in WestonP!Sources /\ p \in WestonP!Offers /\ WestonP!ChangeInfo(s, p)
  BY <1>3 DEF Weston!ChangeInfo, Weston!Sources, Weston!Offers, Weston!Formats, Weston!ToSet,
              WestonP!ChangeInfo, WestonP!Sources, WestonP!Offers, WestonP!Formats, WestonP!ToSet
<1> QED
  BY <1>1, <1>2, <1>3 DEF Weston!Compositor, WestonP!Compositor

\* The same in every step.
LEMMA WestonStepIs == [Weston!Next]_(Weston!vars) => [WestonP!Next]_(WestonP!vars)
<1>1. Weston!FlushByOther \/ Weston!ReadByOther => WestonP!FlushByOther \/ WestonP!ReadByOther
  BY DEF Weston!FlushByOther, Weston!FlushOutbox, Weston!ReadByOther, Weston!ReadEvent,
         Weston!compositorVars, Weston!clientVars, WestonP!FlushByOther, WestonP!FlushOutbox,
         WestonP!ReadByOther, WestonP!ReadEvent, WestonP!compositorVars, WestonP!clientVars
<1>2. UNCHANGED Weston!vars => UNCHANGED WestonP!vars
  BY DEF Weston!vars, WestonP!vars
<1> QED
  BY <1>1, <1>2, WestonThreadIs, WestonCompositorIs DEF Weston!Next, WestonP!Next

\* What the invariant says of the properties of a capture.
LEMMA WestonPromises ==
  WestonP!IInv =>
    /\ Weston!TypeOK /\ Weston!DeliveredAsDrawn /\ Weston!RetryLimitJustified
    /\ Weston!NoSequenceError /\ Weston!OneSourceUnlessChanged
<1> SUFFICES ASSUME WestonP!IInv
             PROVE  /\ Weston!TypeOK /\ Weston!DeliveredAsDrawn /\ Weston!RetryLimitJustified
                    /\ Weston!NoSequenceError /\ Weston!OneSourceUnlessChanged
  OBVIOUS
<1>1. Weston!TypeOK
  BY DEF Weston!TypeOK, Weston!Phases, Weston!Formats, Weston!Statuses, Weston!Params,
         Weston!Sources, Weston!Results, Weston!NoResult, Weston!Errors, Weston!Buffers,
         Weston!Offers, Weston!Tasks, Weston!ToSet,
         WestonP!IInv, WestonP!TypeOK, WestonP!Phases, WestonP!Formats, WestonP!Statuses,
         WestonP!Params, WestonP!Sources, WestonP!Results, WestonP!NoResult, WestonP!Errors,
         WestonP!Buffers, WestonP!Offers, WestonP!Tasks, WestonP!ToSet
<1>2. Weston!DeliveredAsDrawn
  BY DEF Weston!DeliveredAsDrawn, WestonP!IInv, WestonP!Client, WestonP!DeliveredAsDrawn
<1>3. Weston!RetryLimitJustified
  BY DEF Weston!RetryLimitJustified, Weston!Error, WestonP!IInv, WestonP!Retries,
         WestonP!RetryLimitJustified, WestonP!Error
<1>4. Weston!NoSequenceError
  BY DEF Weston!NoSequenceError, WestonP!IInv, WestonP!Server
<1>5. Weston!OneSourceUnlessChanged
  BY DEF Weston!OneSourceUnlessChanged, Weston!SameSource, Weston!Source,
         WestonP!IInv, WestonP!Unmixed, WestonP!Source
<1> QED
  BY <1>1, <1>2, <1>3, <1>4, <1>5

\* What is lent, finished, freed and delivered is the same.
LEMMA WestonLoanIs ==
  /\ WestonP!Lent = Weston!Lent /\ WestonP!Finished = Weston!Finished
  /\ WestonP!Released = Weston!Released /\ WestonP!Delivered = Weston!Delivered
  /\ WestonP!Buffers = 1 .. MaxAttempts
<1>1. WestonP!Lent = Weston!Lent
  BY DEF Weston!Lent, Weston!InFlight, Weston!ToSet, WestonP!Lent, WestonP!InFlight, WestonP!ToSet
<1>2. WestonP!Released = Weston!Released
  BY DEF Weston!Released, Weston!InFlight, Weston!ToSet,
         WestonP!Released, WestonP!InFlight, WestonP!ToSet
<1> QED
  BY <1>1, <1>2
  DEF Weston!Finished, Weston!Delivered, Weston!Buffers,
      WestonP!Finished, WestonP!Delivered, WestonP!Buffers

-----------------------------------------------------------------------------
(* capture_on *)

IInv ==
  /\ caps \in AdvertisedSets /\ backend \in caps /\ backend \in Backends
  /\ backend = "weston" => WestonP!IInv
  /\ backend = "agl" => AglIInv
  /\ backend = "wlr" => WlrIInv

\* The constants of every backend are as it needs them.
LEMMA ConstantsOf == WestonP!WestonConstants /\ Agl!AglConstants /\ Wlr!WlrConstants
BY CaptureOnAssumption, WestonConstantsAre

\* The selected backend starts in its invariant.
LEMMA Initially == Init => IInv
<1> SUFFICES ASSUME Init PROVE IInv
  OBVIOUS
<1>1. caps \in AdvertisedSets /\ backend \in caps /\ backend \in Backends
  BY CaptureOnAssumption DEF Init, Selected, Backends
<1>2. /\ backend = "weston" => Weston!Init
      /\ backend = "agl" => Agl!Init
      /\ backend = "wlr" => Wlr!Init
  BY DEF Init
<1>3. backend = "weston" => WestonP!IInv
  BY <1>2, ConstantsOf, WestonInitIs, WestonP!Initially
<1> QED
  BY <1>1, <1>2, <1>3, ConstantsOf, AglInitially, WlrInitially DEF IInv

\* Only the selected backend takes a step, and the selection stays.
LEMMA StepsOf ==
  ASSUME [Next]_vars
  PROVE  /\ UNCHANGED <<caps, backend>>
         /\ backend = "weston" => [Weston!Next]_(Weston!vars)
         /\ backend = "agl" => [Agl!Next]_(Agl!vars)
         /\ backend = "wlr" => [Wlr!Next]_(Wlr!vars)
<1>1. CASE InWeston /\ Weston!Next
  BY <1>1 DEF InWeston, selection
<1>2. CASE InAgl /\ Agl!Next
  BY <1>2 DEF InAgl, selection
<1>3. CASE InWlr /\ Wlr!Next
  BY <1>3 DEF InWlr, selection
<1>4. CASE UNCHANGED vars
  <2> USE <1>4 DEF vars, selection, common, westonOnly, aglOnly, wlrOnly
  <2>1. UNCHANGED <<caps, backend>>
    OBVIOUS
  <2>2. UNCHANGED Weston!vars
    BY DEF Weston!vars
  <2>3. UNCHANGED Agl!vars
    BY DEF Agl!vars
  <2>4. UNCHANGED Wlr!vars
    BY DEF Wlr!vars
  <2> QED
    BY <2>1, <2>2, <2>3, <2>4
<1> QED
  BY <1>1, <1>2, <1>3, <1>4 DEF Next

\* Every step keeps the invariant of the selected backend.
LEMMA Preserved == IInv /\ [Next]_vars => IInv'
<1> SUFFICES ASSUME IInv, [Next]_vars PROVE IInv'
  OBVIOUS
<1>1. caps' = caps /\ backend' = backend
  BY StepsOf
<1>2. backend = "weston" => WestonP!IInv'
  BY StepsOf, ConstantsOf, WestonStepIs, WestonP!Preserved DEF IInv
<1>3. backend = "agl" => AglIInv'
  BY StepsOf, ConstantsOf, AglPreserved DEF IInv
<1>4. backend = "wlr" => WlrIInv'
  BY StepsOf, ConstantsOf, WlrPreserved DEF IInv
<1> QED
  BY <1>1, <1>2, <1>3, <1>4 DEF IInv

\* What the invariants of the backends say of the properties.
LEMMA Promised ==
  IInv => /\ TypeOK /\ DeliveredAsDrawn /\ FailureJustified /\ NoSequenceError
          /\ OneSourceUnlessChanged
<1> SUFFICES ASSUME IInv
             PROVE  /\ TypeOK /\ DeliveredAsDrawn /\ FailureJustified /\ NoSequenceError
                    /\ OneSourceUnlessChanged
  OBVIOUS
<1>1. CASE backend = "weston"
  BY <1>1, WestonPromises
  DEF IInv, TypeOK, DeliveredAsDrawn, FailureJustified, NoSequenceError,
      OneSourceUnlessChanged, Of
<1>2. CASE backend = "agl"
  <2>1. Agl!TypeOK /\ Agl!DeliveredAsDrawn /\ Agl!RejectionJustified
    BY <1>2, AglPromises DEF IInv
  <2> QED
    BY <1>2, <2>1
    DEF IInv, TypeOK, DeliveredAsDrawn, FailureJustified, NoSequenceError,
        OneSourceUnlessChanged, Of
<1>3. CASE backend = "wlr"
  <2>1. Wlr!TypeOK /\ Wlr!DeliveredAsDrawn /\ Wlr!FailureJustified
    BY <1>3, WlrPromises DEF IInv
  <2> QED
    BY <1>3, <2>1
    DEF IInv, TypeOK, DeliveredAsDrawn, FailureJustified, NoSequenceError,
        OneSourceUnlessChanged, Of
<1> QED
  BY <1>1, <1>2, <1>3 DEF IInv, Backends

\* Whatever the compositor advertises, the selected backend is in its invariant.
THEOREM Invariant == Spec => []IInv
BY Initially, Preserved, PTL DEF Spec

\* A capture's state is well-typed, whichever backend performs it.
THEOREM TypeCorrect == Spec => []TypeOK
<1>1. IInv => TypeOK
  BY Promised
<1> QED
  BY <1>1, Invariant, PTL

\* What a capture says of its image is what the compositor drew, for every
\* backend and every change of the output under it.
THEOREM DrawnAsDescribed == Spec => []DeliveredAsDrawn
<1>1. IInv => DeliveredAsDrawn
  BY Promised
<1> QED
  BY <1>1, Invariant, PTL

\* A capture fails for its geometry only if the output changed under it, and
\* for its frame only if the compositor failed it (the retry limit of weston,
\* the second candidate of agl, the terminal state of wlr).
THEOREM FailsForAReason == Spec => []FailureJustified
<1>1. IInv => FailureJustified
  BY Promised
<1> QED
  BY <1>1, Invariant, PTL

\* The client never provokes the compositor's "sequence" error.
THEOREM OneCaptureAtATime == Spec => []NoSequenceError
<1>1. IInv => NoSequenceError
  BY Promised
<1> QED
  BY <1>1, Invariant, PTL

\* Whoever else flushes, reads and queues the events of this connection: as long
\* as the compositor changes nothing, the format and size that a buffer is made
\* from are those of the chosen source (the reset in negotiate_source).
THEOREM OneSourceAnnounced == Spec => []OneSourceUnlessChanged
<1>1. IInv => OneSourceUnlessChanged
  BY Promised
<1> QED
  BY <1>1, Invariant, PTL

-----------------------------------------------------------------------------
(* The loan of a buffer *)

\* What LendsSafely takes for the loan is that of the selected backend.
LoanOf(lent, finished, released, delivered) ==
  /\ Of(Weston!Lent, Agl!Lent, Wlr!Lent) = lent
  /\ Of(Weston!Finished, Agl!Finished, Wlr!Finished) = finished
  /\ Of(Weston!Released, Agl!Released, Wlr!Released) = released
  /\ Of(Weston!Delivered, Agl!Delivered, Wlr!Delivered) = delivered

LoanIs ==
  /\ backend = "weston" =>
       LoanOf(WestonP!Lent, WestonP!Finished, WestonP!Released, WestonP!Delivered)
  /\ backend = "agl" => LoanOf(Agl!Lent, Agl!Finished, Agl!Released, Agl!Delivered)
  /\ backend = "wlr" => LoanOf(Wlr!Lent, Wlr!Finished, Wlr!Released, Wlr!Delivered)

\* In every state.
LEMMA LoanSelected == LoanIs
<1>1. backend = "weston" => LoanOf(WestonP!Lent, WestonP!Finished, WestonP!Released, WestonP!Delivered)
  BY WestonLoanIs DEF LoanOf, Of
<1>2. backend = "agl" => LoanOf(Agl!Lent, Agl!Finished, Agl!Released, Agl!Delivered)
  BY DEF LoanOf, Of
<1>3. backend = "wlr" => LoanOf(Wlr!Lent, Wlr!Finished, Wlr!Released, Wlr!Delivered)
  BY DEF LoanOf, Of
<1> QED
  BY <1>1, <1>2, <1>3 DEF LoanIs

\* So in the next one.
LEMMA LoanSelectedNext == LoanIs'
BY LoanSelected, PTL

\* Every backend's buffers are among those of LendsSafely.
LEMMA BuffersOf ==
  LET all == 1 .. (IF MaxAttempts > 2 THEN MaxAttempts ELSE 2) IN
  WestonP!Buffers \subseteq all /\ Agl!Buffers \subseteq all /\ Wlr!Buffers \subseteq all
<1>1. MaxAttempts \in Nat
  BY ConstantsOf DEF WestonP!WestonConstants
<1> QED
  BY <1>1, WestonLoanIs DEF Agl!Buffers, Wlr!Buffers

\* Nothing is on loan at first.
LEMMA LoanInit == Init => Loan!Init
<1> SUFFICES ASSUME Init PROVE Loan!Init
  OBVIOUS
<1>1. backend \in Backends
  BY Initially DEF IInv
<1>2. CASE backend = "weston"
  <2>1. WestonP!Init
    BY <1>2, WestonInitIs DEF Init
  <2>2. WestonP!Loan!Init
    BY <2>1, ConstantsOf, WestonP!LoanInit
  <2> QED
    BY <1>2, <2>2, LoanSelected DEF LoanIs, LoanOf, Loan!Init, WestonP!Loan!Init
<1>3. CASE backend = "agl"
  <2>1. Agl!Init
    BY <1>3 DEF Init
  <2>2. AglLoan!Init
    BY <2>1, ConstantsOf, AglLoanInit
  <2> QED
    BY <1>3, <2>2, LoanSelected DEF LoanIs, LoanOf, Loan!Init, AglLoan!Init
<1>4. CASE backend = "wlr"
  <2>1. Wlr!Init
    BY <1>4 DEF Init
  <2>2. WlrLoan!Init
    BY <2>1, ConstantsOf, WlrLoanInit
  <2> QED
    BY <1>4, <2>2, LoanSelected DEF LoanIs, LoanOf, Loan!Init, WlrLoan!Init
<1> QED
  BY <1>1, <1>2, <1>3, <1>4 DEF Backends

\* A step of the selected backend's loan is one of LendsSafely.
LEMMA StepLoan == IInv /\ IInv' /\ [Next]_vars => [Loan!Next]_(Loan!vars)
<1> SUFFICES ASSUME IInv, IInv', [Next]_vars PROVE [Loan!Next]_(Loan!vars)
  OBVIOUS
<1>1. backend \in Backends /\ backend' = backend
  BY StepsOf DEF IInv
<1>2. CASE backend = "weston"
  <2>1. [WestonP!Loan!Next]_(WestonP!Loan!vars)
    BY <1>1, <1>2, StepsOf, ConstantsOf, WestonStepIs, WestonP!StepLoan DEF IInv
  <2>2. /\ LoanOf(WestonP!Lent, WestonP!Finished, WestonP!Released, WestonP!Delivered)
        /\ LoanOf(WestonP!Lent, WestonP!Finished, WestonP!Released, WestonP!Delivered)'
    BY <1>1, <1>2, LoanSelected, LoanSelectedNext DEF LoanIs
  <2> QED
    BY <2>1, <2>2, BuffersOf
    DEF LoanOf, Loan!Next, Loan!vars, Loan!Lend, Loan!Return, Loan!Free, Loan!Deliver,
        WestonP!Loan!Next, WestonP!Loan!vars, WestonP!Loan!Lend, WestonP!Loan!Return,
        WestonP!Loan!Free, WestonP!Loan!Deliver
<1>3. CASE backend = "agl"
  <2>1. [AglLoan!Next]_(AglLoan!vars)
    BY <1>1, <1>3, StepsOf, ConstantsOf, AglStepLoan DEF IInv
  <2>2. /\ LoanOf(Agl!Lent, Agl!Finished, Agl!Released, Agl!Delivered)
        /\ LoanOf(Agl!Lent, Agl!Finished, Agl!Released, Agl!Delivered)'
    BY <1>1, <1>3, LoanSelected, LoanSelectedNext DEF LoanIs
  <2> QED
    BY <2>1, <2>2, BuffersOf
    DEF LoanOf, Loan!Next, Loan!vars, Loan!Lend, Loan!Return, Loan!Free, Loan!Deliver,
        AglLoan!Next, AglLoan!vars, AglLoan!Lend, AglLoan!Return, AglLoan!Free, AglLoan!Deliver
<1>4. CASE backend = "wlr"
  <2>1. [WlrLoan!Next]_(WlrLoan!vars)
    BY <1>1, <1>4, StepsOf, ConstantsOf, WlrStepLoan DEF IInv
  <2>2. /\ LoanOf(Wlr!Lent, Wlr!Finished, Wlr!Released, Wlr!Delivered)
        /\ LoanOf(Wlr!Lent, Wlr!Finished, Wlr!Released, Wlr!Delivered)'
    BY <1>1, <1>4, LoanSelected, LoanSelectedNext DEF LoanIs
  <2> QED
    BY <2>1, <2>2, BuffersOf
    DEF LoanOf, Loan!Next, Loan!vars, Loan!Lend, Loan!Return, Loan!Free, Loan!Deliver,
        WlrLoan!Next, WlrLoan!vars, WlrLoan!Lend, WlrLoan!Return, WlrLoan!Free, WlrLoan!Deliver
<1> QED
  BY <1>1, <1>2, <1>3, <1>4 DEF Backends

\* Whichever backend performs the capture, and wherever a deadline or an error
\* ends it: memory on loan to the compositor is not released under it, and only
\* a finished buffer is delivered (the guards of the three backends).
THEOREM KeepsTheLoan == Spec => LendsSafely
<1>1. Init => Loan!Init
  BY LoanInit
<1>2. IInv /\ IInv' /\ [Next]_vars => [Loan!Next]_(Loan!vars)
  BY StepLoan
<1> QED
  BY <1>1, <1>2, Invariant, PTL DEF Spec, LendsSafely, Loan!Spec

-----------------------------------------------------------------------------
(* What a capture leaves behind *)

\* The selected backend keeps the accounts of its objects.
Owned ==
  /\ backend = "weston" => WestonP!Owned
  /\ backend = "agl" => AglOwned /\ AglBound
  /\ backend = "wlr" => WlrOwned

\* No request of the capture is under way.
NoneUnderWay == Of(Weston!InFlight = {}, requests = <<>>, requests = <<>>)

\* When a capture is over and none of its requests is under way, the compositor has no
\* object of it (comment of Guard: an early return cannot leak a protocol object).
LeavesNothing ==
  pc = "done" /\ NoneUnderWay => Of(Weston!NothingHeld, Agl!NothingHeld, Wlr!NothingHeld)

\* No backend has an object before its first request.
LEMMA OwnedInitially == Init => Owned
<1> SUFFICES ASSUME Init PROVE Owned
  OBVIOUS
<1>1. /\ backend = "weston" => Weston!Init
      /\ backend = "agl" => Agl!Init
      /\ backend = "wlr" => Wlr!Init
  BY DEF Init
<1>2. backend = "weston" => WestonP!Owned
  BY <1>1, ConstantsOf, WestonInitIs, WestonP!OwnedInitially
<1>3. backend = "wlr" => WlrOwned
  <2> SUFFICES ASSUME Wlr!Init PROVE WlrOwned
    BY <1>1
  <2>1. pools[1] = None /\ requests = <<>>
    BY DEF Wlr!Init, Wlr!Buffers
  <2> QED
    BY <2>1, WlrNoRequest DEF WlrOwned
<1> QED
  BY <1>1, <1>2, <1>3, AglOwnedInitially DEF Owned

\* Every step keeps the accounts of the selected backend.
LEMMA OwnedStep == IInv /\ Owned /\ [Next]_vars => Owned'
<1> SUFFICES ASSUME IInv, Owned, [Next]_vars PROVE Owned'
  OBVIOUS
<1>1. backend' = backend
  BY StepsOf
<1>2. backend = "weston" => WestonP!Owned'
  BY StepsOf, ConstantsOf, WestonStepIs, WestonP!OwnedStep DEF IInv, Owned
<1>3. backend = "agl" => AglOwned' /\ AglBound'
  BY StepsOf, ConstantsOf, AglOwnedStep, AglBoundStep DEF IInv, Owned
<1>4. backend = "wlr" => WlrOwned'
  BY StepsOf, ConstantsOf, WlrOwnedStep DEF IInv, Owned
<1> QED
  BY <1>1, <1>2, <1>3, <1>4 DEF Owned

\* The accounts of a capture that is over.
LEMMA NothingOwned == IInv /\ Owned => LeavesNothing
<1> SUFFICES ASSUME IInv, Owned, pc = "done", NoneUnderWay
             PROVE  Of(Weston!NothingHeld, Agl!NothingHeld, Wlr!NothingHeld)
  BY DEF LeavesNothing
<1>1. CASE backend = "weston"
  <2>1. Weston!InFlight = {}
    BY <1>1 DEF NoneUnderWay, Of
  <2>2. WestonP!InFlight = {}
    BY <2>1 DEF Weston!InFlight, Weston!ToSet, WestonP!InFlight, WestonP!ToSet
  <2>3. WestonP!LeavesNothing
    BY <1>1, WestonP!NothingOwned DEF IInv, Owned
  <2>4. WestonP!NothingHeld
    BY <2>2, <2>3 DEF WestonP!LeavesNothing
  <2>5. Weston!NothingHeld
    BY <2>4 DEF Weston!NothingHeld, Weston!Buffers, WestonP!NothingHeld, WestonP!Buffers
  <2> QED
    BY <1>1, <2>5 DEF Of
<1>2. CASE backend = "agl"
  <2>1. requests = <<>>
    BY <1>2 DEF NoneUnderWay, Of
  <2>2. Agl!NothingHeld
    BY <1>2, <2>1, AglNothingOwned DEF IInv, Owned
  <2> QED
    BY <1>2, <2>2 DEF Of
<1>3. CASE backend = "wlr"
  <2>1. requests = <<>>
    BY <1>3 DEF NoneUnderWay, Of
  <2>2. Wlr!NothingHeld
    BY <1>3, <2>1, WlrNothingOwned DEF IInv, Owned
  <2> QED
    BY <1>3, <2>2 DEF Of
<1> QED
  BY <1>1, <1>2, <1>3 DEF IInv, Backends

\* No way out of a capture forgets an object, the screenshooter that agl binds for
\* it included, whichever backend performs it: what
\* NothingLeft promises in the end needs only that the requests under way are flushed
\* and handled (Guard in mod.rs, destroy_now).
THEOREM NothingForgotten == Spec => []LeavesNothing
BY OwnedInitially, OwnedStep, NothingOwned, Invariant, PTL DEF Spec
================================================================================
