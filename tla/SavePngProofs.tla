----------------------------- MODULE SavePngProofs -----------------------------
(***************************************************************************)
(* What a saved screenshot is worth, for any number of calls, directories, *)
(* clock readings and attempts.                                            *)
(*                                                                         *)
(* OwnImage and NoNameMeansNone speak of calls that are over.  They rest   *)
(* on what holds of the save in progress (Saving): there is only one, as   *)
(* the runtime has one thread, so that nobody else moves its locals; the   *)
(* file it has created is still its own when it is written; and the names  *)
(* it has passed over are still taken when it runs out of them.            *)
(***************************************************************************)
EXTENDS SavePng, WellFoundedInduction, TLAPS

-----------------------------------------------------------------------------
(* Positions *)

\* A set of natural numbers that is not empty, finite or not, has a least element,
\* and Min is that element (Iterator::position, the first directory that is there).
LEMMA LeastNatural ==
  ASSUME NEW S \in SUBSET Nat, S # {}
  PROVE  /\ Min(S) \in S
         /\ \A k \in S : Min(S) <= k
<1> DEFINE less == OpToRel(<, Nat)
<1>1. IsWellFoundedOn(less, Nat)
  BY NatLessThanWellFounded
<1>2. \A i, j \in Nat : i < j => <<i, j>> \in less
  BY DEF OpToRel
<1> HIDE DEF less
<1>3. PICK m \in S : \A k \in S : <<k, m>> \notin less
  BY <1>1, WFMin
<1>4. \A k \in S : m <= k
  <2> SUFFICES ASSUME NEW k \in S, ~(m <= k)
               PROVE  FALSE
    OBVIOUS
  <2>1. k \in Nat /\ m \in Nat /\ k < m
    OBVIOUS
  <2>2. <<k, m>> \in less
    BY <1>2, <2>1
  <2> QED
    BY <1>3, <2>2
<1> QED
  BY <1>4 DEF Min

Active(r) == pc[r] \in {"open", "write"}

Saving ==
  /\ \A q, r \in Requests : Active(q) /\ Active(r) => q = r
  /\ \A r \in Requests : pc[r] = "write" => Name \in Names /\ files[Name] = Part(r)
  /\ \A r \in Requests : pc[r] = "open" =>
       \A n \in 0 .. attempt - 1 : files[<<dir, ts, n>>] # Absent

IInv == TypeOK /\ Saving /\ OwnImage /\ NoNameMeansNone

-----------------------------------------------------------------------------

\* Whichever directories there are, the one that is chosen is one of Dirs.
LEMMA ScreenshotDirType ==
  ASSUME NEW present \in SUBSET ToSet(Pictures)
  PROVE  ScreenshotDir(present) \in Dirs
<1> DEFINE there == There(present)
<1>1. CASE there = {}
  BY <1>1 DEF ScreenshotDir, Dirs
<1>2. CASE there # {}
  <2>1. there \subseteq DOMAIN Pictures /\ DOMAIN Pictures \subseteq Nat
    <3>1. Len(Pictures) \in Nat /\ DOMAIN Pictures = 1 .. Len(Pictures)
      BY SaveAssumption
    <3> QED
      BY <3>1 DEF There
  <2>2. Min(there) \in there
    BY <1>2, <2>1, LeastNatural
  <2>3. Pictures[Min(there)] \in ToSet(Pictures)
    BY <2>1, <2>2 DEF ToSet
  <2> QED
    BY <1>2, <2>3 DEF ScreenshotDir, Dirs
<1> QED
  BY <1>1, <1>2

\* Files differ by what they hold.
LEMMA FilesDiffer ==
  /\ \A r \in Requests : Part(r) # Absent /\ Whole(r) # Absent /\ Part(r) # Foreign
  /\ \A q, r \in Requests : Part(q) # Whole(r)
  /\ Foreign # Absent
BY DEF Part, Whole, Absent, Foreign

\* The name a save is about to try is a name.
LEMMA NameType ==
  ASSUME TypeOK, attempt < MaxAttempts
  PROVE  Name \in Names
BY SaveAssumption DEF TypeOK, Name, Names

\* The fields of an answer.
LEMMA AnswerFields ==
  /\ \A n : Saved(n).type = "uri" /\ Saved(n).name = n
  /\ \A d, s : Exhausted(d, s).type = "no free name" /\ Exhausted(d, s).dir = d /\ Exhausted(d, s).ts = s
BY DEF Saved, Exhausted

\* What an answer says of names.
LEMMA ReplyFields ==
  ASSUME TypeOK, NEW q \in Requests
  PROVE  /\ reply[q].type = "uri" => reply[q].name \in Names
         /\ reply[q].type = "no free name" => reply[q].dir \in Dirs /\ reply[q].ts \in Stamps
<1>1. reply[q] \in Replies
  BY DEF TypeOK
<1> QED
  BY <1>1 DEF Replies

\* An answer only changes when its own call ends, in one of these ways.
LEMMA AnswersOnce ==
  ASSUME TypeOK, [Next]_vars, NEW q \in Requests, reply'[q] # reply[q]
  PROVE  \/ Write(q) /\ reply'[q] = Saved(Name)
         \/ NoName(q) /\ reply'[q] = Exhausted(dir, ts)
         \/ reply'[q].type = "error"
<1>1. PICK r \in Requests : Step(r)
  BY DEF Next, Other, vars
<1>2. ASSUME NEW answer, Reply(r, answer)
      PROVE  q = r /\ reply'[q] = answer
  BY <1>2 DEF Reply, TypeOK
<1>3. CASE Begin(r)
  BY <1>2, <1>3 DEF Begin, Failed
<1>4. CASE OpenFails(r) \/ WriteFails(r) \/ Killed(r)
  BY <1>2, <1>4 DEF OpenFails, WriteFails, Killed, Failed
<1>5. CASE Write(r) \/ NoName(r)
  BY <1>2, <1>5 DEF Write, NoName
<1>6. CASE Create(r) \/ AlreadyExists(r)
  BY <1>6 DEF Create, AlreadyExists
<1> QED
  BY <1>1, <1>3, <1>4, <1>5, <1>6 DEF Step

-----------------------------------------------------------------------------
(* The parts of IInv *)

\* A step keeps every variable in its type.
LEMMA StepTypeOK ==
  ASSUME TypeOK, Saving, [Next]_vars
  PROVE  TypeOK'
<1> USE SaveAssumption
<1>1. ASSUME NEW r \in Requests, Begin(r)
      PROVE  TypeOK'
  <2>1. CASE Reply(r, Failed("io")) /\ UNCHANGED <<dir, ts, attempt>>
    BY <1>1, <2>1 DEF Begin, Reply, Goto, TypeOK, Replies, Failed
  <2>2. CASE /\ \E present \in SUBSET ToSet(Pictures) : dir' = ScreenshotDir(present)
             /\ ts' \in Stamps
             /\ attempt' = 0
             /\ Goto(r, "open")
             /\ UNCHANGED reply
    <3>1. dir' \in Dirs
      BY <2>2, ScreenshotDirType
    <3> QED
      BY <1>1, <2>2, <3>1 DEF Begin, Goto, TypeOK
  <2> QED
    BY <1>1, <2>1, <2>2 DEF Begin
<1>2. ASSUME NEW r \in Requests, Create(r)
      PROVE  TypeOK'
  <2>1. Part(r) \in Files
    BY DEF Files
  <2> QED
    BY <1>2, <2>1 DEF Create, Goto, TypeOK
<1>3. ASSUME NEW r \in Requests, AlreadyExists(r)
      PROVE  TypeOK'
  BY <1>3 DEF AlreadyExists, TypeOK
<1>4. ASSUME NEW r \in Requests, OpenFails(r) \/ WriteFails(r) \/ Killed(r)
      PROVE  TypeOK'
  <2>1. Failed("io") \in Replies /\ Failed("killed") \in Replies
    BY DEF Replies, Failed
  <2>2. ASSUME NEW answer \in Replies, Reply(r, answer), UNCHANGED <<dir, ts, attempt, files>>
        PROVE  TypeOK'
    BY <2>2 DEF Reply, Goto, TypeOK
  <2> QED
    BY <1>4, <2>1, <2>2 DEF OpenFails, WriteFails, Killed
<1>5. ASSUME NEW r \in Requests, NoName(r)
      PROVE  TypeOK'
  <2>1. Exhausted(dir, ts) \in Replies
    BY DEF TypeOK, Replies, Exhausted
  <2> QED
    BY <1>5, <2>1 DEF NoName, Reply, Goto, TypeOK
<1>6. ASSUME NEW r \in Requests, Write(r)
      PROVE  TypeOK'
  <2>1. Saved(Name) \in Replies
    BY <1>6 DEF Saving, Write, Replies, Saved
  <2>2. Whole(r) \in Files
    BY DEF Files
  <2> QED
    BY <1>6, <2>1, <2>2 DEF Write, Reply, Goto, TypeOK
<1>7. ASSUME NEW n \in Names, Other(n)
      PROVE  TypeOK'
  BY <1>7 DEF Other, TypeOK, Files
<1>8. CASE UNCHANGED vars
  BY <1>8 DEF vars, TypeOK
<1> QED
  BY <1>1, <1>2, <1>3, <1>4, <1>5, <1>6, <1>7, <1>8 DEF Next, Step

\* There is one save in progress; its file is its own, and the names it has
\* passed over stay taken.
LEMMA StepSaving ==
  ASSUME TypeOK, Saving, [Next]_vars
  PROVE  Saving'
<1> USE DEF Active
<1>1. ASSUME NEW r \in Requests, Begin(r)
      PROVE  Saving'
  BY <1>1 DEF Begin, Reply, Goto, TypeOK, Saving, Name
<1>2. ASSUME NEW r \in Requests, Create(r)
      PROVE  Saving'
  <2>1. Name \in Names
    BY <1>2, NameType DEF Create
  <2>2. Name' = Name /\ files' = [files EXCEPT ![Name] = Part(r)] /\ files \in [Names -> Files]
    BY <1>2 DEF Create, Name, TypeOK
  <2>3. \A q \in Requests : pc'[q] = "write" => q = r
    BY <1>2 DEF Create, Goto, TypeOK, Saving
  <2>4. \A q \in Requests : ~(pc'[q] = "open")
    BY <1>2 DEF Create, Goto, TypeOK, Saving
  <2>5. \A p, q \in Requests : Active(p)' /\ Active(q)' => p = q
    BY <1>2 DEF Create, Goto, TypeOK, Saving
  <2> QED
    BY <2>1, <2>2, <2>3, <2>4, <2>5 DEF Saving
<1>3. ASSUME NEW r \in Requests, AlreadyExists(r)
      PROVE  Saving'
  <2>1. \A n \in 0 .. attempt' - 1 : files[<<dir, ts, n>>] # Absent
    <3> SUFFICES ASSUME NEW n \in 0 .. attempt' - 1
                 PROVE  files[<<dir, ts, n>>] # Absent
      OBVIOUS
    <3>1. CASE n = attempt
      BY <1>3, <3>1 DEF AlreadyExists, Name
    <3>2. CASE n \in 0 .. attempt - 1
      BY <1>3, <3>2 DEF AlreadyExists, Saving
    <3> QED
      BY <1>3, <3>1, <3>2 DEF AlreadyExists, TypeOK
  <2>2. \A q \in Requests : pc[q] # "write"
    BY <1>3 DEF AlreadyExists, Saving
  <2> QED
    BY <1>3, <2>1, <2>2 DEF AlreadyExists, Saving
<1>4. ASSUME NEW r \in Requests, NEW answer, Active(r), Reply(r, answer),
             UNCHANGED <<dir, ts, attempt>>
      PROVE  Saving'
  BY <1>4 DEF Reply, Goto, TypeOK, Saving
<1>5. ASSUME NEW r \in Requests, OpenFails(r) \/ NoName(r) \/ Write(r) \/ WriteFails(r) \/ Killed(r)
      PROVE  Saving'
  BY <1>4, <1>5 DEF OpenFails, NoName, Write, WriteFails, Killed
<1>6. ASSUME NEW n \in Names, Other(n)
      PROVE  Saving'
  BY <1>6, FilesDiffer DEF Other, TypeOK, Saving, Name
<1>7. CASE UNCHANGED vars
  BY <1>7 DEF vars, Saving, Name
<1> QED
  BY <1>1, <1>2, <1>3, <1>5, <1>6, <1>7 DEF Next, Step

\* A file is only changed by the call that has created it.
LEMMA StepKeepsFiles ==
  ASSUME TypeOK, Saving, [Next]_vars, NEW n \in Names, files[n] \notin {Absent, files'[n]}
  PROVE  \E r \in Requests : files[n] = Part(r) /\ files'[n] = Whole(r)
<1>1. ASSUME NEW r \in Requests, Step(r)
      PROVE  \E q \in Requests : files[n] = Part(q) /\ files'[n] = Whole(q)
  <2>1. CASE Write(r)
    BY <2>1 DEF Write, Saving, TypeOK
  <2>2. CASE Create(r)
    BY <2>2 DEF Create, TypeOK
  <2>3. CASE ~Write(r) /\ ~Create(r)
    BY <1>1, <2>3 DEF Step, Begin, AlreadyExists, OpenFails, NoName, WriteFails, Killed
  <2> QED
    BY <2>1, <2>2, <2>3
<1>2. ASSUME NEW o \in Names, Other(o)
      PROVE  FALSE
  BY <1>2 DEF Other, TypeOK
<1> QED
  BY <1>1, <1>2 DEF Next, vars

\* A file that is there stays there.
LEMMA StepPresent ==
  ASSUME TypeOK, Saving, [Next]_vars, NEW n \in Names, files[n] # Absent
  PROVE  files'[n] # Absent
BY StepKeepsFiles, FilesDiffer

\* An announced file is the caller's own, and stays so.
LEMMA StepOwnImage ==
  ASSUME TypeOK, Saving, OwnImage, [Next]_vars
  PROVE  OwnImage'
<1> SUFFICES ASSUME NEW q \in Requests, reply'[q].type = "uri"
             PROVE  files'[reply'[q].name] = Whole(q)
  BY DEF OwnImage
<1>1. CASE reply'[q] = reply[q]
  <2>1. files[reply[q].name] = Whole(q)
    BY <1>1 DEF OwnImage
  <2>2. reply[q].name \in Names
    BY <1>1, ReplyFields
  <2> QED
    BY <1>1, <2>1, <2>2, StepKeepsFiles, FilesDiffer
<1>2. CASE reply'[q] # reply[q]
  <2>1. Write(q) /\ reply'[q] = Saved(Name)
    <3>1. \/ Write(q) /\ reply'[q] = Saved(Name)
          \/ NoName(q) /\ reply'[q] = Exhausted(dir, ts)
          \/ reply'[q].type = "error"
      BY <1>2, AnswersOnce
    <3> QED
      BY <3>1, AnswerFields
  <2>2. Name \in Names
    BY <2>1 DEF Write, Saving
  <2>3. reply'[q].name = Name
    BY <2>1, AnswerFields, Zenon
  <2>4. files'[Name] = Whole(q)
    BY <2>1, <2>2 DEF Write, TypeOK
  <2> QED
    BY <2>3, <2>4
<1> QED
  BY <1>1, <1>2

\* The names of a save that has given up stay taken.
LEMMA StepNoName ==
  ASSUME TypeOK, Saving, NoNameMeansNone, [Next]_vars
  PROVE  NoNameMeansNone'
<1> SUFFICES ASSUME NEW q \in Requests, reply'[q].type = "no free name",
                    NEW n \in 0 .. MaxAttempts - 1
             PROVE  files'[<<reply'[q].dir, reply'[q].ts, n>>] # Absent
  BY DEF NoNameMeansNone
<1>1. CASE reply'[q] = reply[q]
  <2>1. reply[q].dir \in Dirs /\ reply[q].ts \in Stamps
    BY <1>1, ReplyFields
  <2>2. <<reply[q].dir, reply[q].ts, n>> \in Names
    BY <2>1 DEF Names
  <2> QED
    BY <1>1, <2>2, StepPresent DEF NoNameMeansNone
<1>2. CASE reply'[q] # reply[q]
  <2>1. NoName(q) /\ reply'[q] = Exhausted(dir, ts)
    <3>1. \/ Write(q) /\ reply'[q] = Saved(Name)
          \/ NoName(q) /\ reply'[q] = Exhausted(dir, ts)
          \/ reply'[q].type = "error"
      BY <1>2, AnswersOnce
    <3> QED
      BY <3>1, AnswerFields
  <2>2. files[<<dir, ts, n>>] # Absent
    <3>1. pc[q] = "open" /\ attempt = MaxAttempts
      BY <2>1 DEF NoName
    <3> QED
      BY <3>1 DEF Saving
  <2>3. reply'[q].dir = dir /\ reply'[q].ts = ts
    <3>1. reply'[q] = Exhausted(dir, ts)
      BY <2>1
    <3>2. Exhausted(dir, ts).dir = dir /\ Exhausted(dir, ts).ts = ts
      BY AnswerFields
    <3> QED
      BY <3>1, <3>2
  <2>4. files' = files
    BY <2>1 DEF NoName
  <2> QED
    BY <2>2, <2>3, <2>4
<1> QED
  BY <1>1, <1>2

-----------------------------------------------------------------------------

\* IInv is an inductive invariant of the saves.
THEOREM Inductive == Spec => []IInv
<1>1. Init => IInv
  <2> SUFFICES ASSUME Init
               PROVE  IInv
    OBVIOUS
  <2>1. TypeOK
    BY SaveAssumption DEF Init, TypeOK, Replies, NoReply, Files, Dirs
  <2>2. Saving /\ OwnImage /\ NoNameMeansNone
    BY DEF Init, Saving, Active, OwnImage, NoNameMeansNone, NoReply
  <2> QED
    BY <2>1, <2>2 DEF IInv
<1>2. IInv /\ [Next]_vars => IInv'
  BY StepTypeOK, StepSaving, StepOwnImage, StepNoName DEF IInv
<1> QED
  BY <1>1, <1>2, PTL DEF Spec

\* Every variable keeps its type: a save never leaves its directories and names.
THEOREM TypeCorrect == Spec => []TypeOK
<1>1. IInv => TypeOK
  BY DEF IInv
<1> QED
  BY <1>1, Inductive, PTL

\* A URI stands for the complete image of the call it was given to, for ever.
THEOREM UriIsOwnImage == Spec => []OwnImage
<1>1. IInv => OwnImage
  BY DEF IInv
<1> QED
  BY <1>1, Inductive, PTL

\* The search gives up only when all its names are taken.
THEOREM GivesUpRightly == Spec => []NoNameMeansNone
<1>1. IInv => NoNameMeansNone
  BY DEF IInv
<1> QED
  BY <1>1, Inductive, PTL

\* No step replaces or shortens a file that is there.
THEOREM FilesKept == Spec => KeepsFiles
<1>1. IInv /\ [Next]_vars =>
        [\A n \in Names :
           files[n] \notin {Absent, files'[n]} =>
             \E r \in Requests : files[n] = Part(r) /\ files'[n] = Whole(r)]_vars
  BY StepKeepsFiles DEF IInv
<1> QED
  BY <1>1, Inductive, PTL DEF Spec, KeepsFiles

================================================================================
