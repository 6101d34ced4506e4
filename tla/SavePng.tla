-------------------------------- MODULE SavePng --------------------------------
(***************************************************************************)
(* save_png: where an encoded screenshot is stored, and what is told about *)
(* it.  It runs on the daemon's only runtime thread, so the daemon saves   *)
(* one image at a time; other processes write into the same directory      *)
(* whenever they like, and the daemon may be killed at any moment.         *)
(***************************************************************************)
EXTENDS Naturals, Sequences, SequencesExt

CONSTANTS
  Requests,     \* Screenshot calls
  Pictures,     \* the pictures directories, in the order of screenshot_dir
  StateDir,     \* the directory used when none of them is there
  Stamps,       \* what the clock may show, in ms; it may repeat or go back
  MaxAttempts,  \* MAX_NAME_ATTEMPTS
  None

ASSUME SaveAssumption ==
  /\ Pictures \in Seq(ToSet(Pictures))
  /\ StateDir \notin ToSet(Pictures) /\ None \notin ToSet(Pictures) \cup {StateDir}
  /\ MaxAttempts \in Nat \ {0}

VARIABLES
  pc,       \* where each call is
  dir, ts, attempt,   \* the locals of the save in progress
  reply,    \* per call, the answer to it
  files     \* per name, the file of that name, or Absent

vars == <<pc, dir, ts, attempt, reply, files>>

Dirs == ToSet(Pictures) \cup {StateDir}
\* "Screenshot-{ts}.png" for attempt 0, "Screenshot-{ts}-{attempt}.png" after.
Names == Dirs \X Stamps \X (0 .. MaxAttempts - 1)
Name == <<dir, ts, attempt>>

\* A file holds the image of a call, or a part of it, or is somebody else's.
Absent == [type |-> "absent"]
Foreign == [type |-> "foreign"]
Whole(r) == [type |-> "whole", by |-> r]
Part(r) == [type |-> "part", by |-> r]
Files == {Absent, Foreign} \cup UNION {{Whole(r), Part(r)} : r \in Requests}

NoReply == [type |-> "none"]
Saved(n) == [type |-> "uri", name |-> n]
Failed(e) == [type |-> "error", error |-> e]
Exhausted(d, s) == [type |-> "no free name", dir |-> d, ts |-> s]
Replies ==
  [type : {"none"}] \cup [type : {"error"}, error : {"io", "killed"}]
    \cup [type : {"uri"}, name : Names] \cup [type : {"no free name"}, dir : Dirs, ts : Stamps]

\* png    has its image, waits for the runtime
\* open   looks for a free name
\* write  has created its file
TypeOK ==
  /\ pc \in [Requests -> {"png", "open", "write", "done"}]
  /\ dir \in Dirs /\ ts \in Stamps /\ attempt \in 0 .. MaxAttempts
  /\ reply \in [Requests -> Replies]
  /\ files \in [Names -> Files]

\* Files of earlier runs and of other programs may be there.
Init ==
  /\ pc = [r \in Requests |-> "png"] /\ reply = [r \in Requests |-> NoReply]
  /\ dir = StateDir /\ ts \in Stamps /\ attempt = 0
  /\ files \in [Names -> {Absent, Foreign}]

Goto(r, phase) == pc' = [pc EXCEPT ![r] = phase]

Reply(r, answer) == Goto(r, "done") /\ reply' = [reply EXCEPT ![r] = answer]

There(present) == {i \in DOMAIN Pictures : Pictures[i] \in present}

\* Mutant: without a pictures directory there is none at all.
ScreenshotDirNoState(present) ==
  IF There(present) = {} THEN None ELSE Pictures[Min(There(present))]

\* The first of the pictures directories that is there, else the state directory.
ScreenshotDir(present) ==
  IF There(present) = {} THEN StateDir ELSE Pictures[Min(There(present))]

\* The runtime is free: the call is resumed, finds its directory and looks at
\* the clock, unless the directory cannot be created.
Begin(r) ==
  /\ pc[r] = "png"
  /\ \A q \in Requests : pc[q] \notin {"open", "write"}
  /\ \/ /\ \E present \in SUBSET ToSet(Pictures) : dir' = ScreenshotDir(present)
        /\ ts' \in Stamps
        /\ attempt' = 0
        /\ Goto(r, "open")
        /\ UNCHANGED reply
     \/ Reply(r, Failed("io")) /\ UNCHANGED <<dir, ts, attempt>>
  /\ UNCHANGED files

\* Mutant: File::create instead of create_new.
CreateTruncating(r) ==
  /\ pc[r] = "open" /\ attempt < MaxAttempts
  /\ files' = [files EXCEPT ![Name] = Part(r)]
  /\ Goto(r, "write")
  /\ UNCHANGED <<dir, ts, attempt, reply>>

\* create_new (O_EXCL): the name is free, and now it is ours.
Create(r) ==
  /\ pc[r] = "open" /\ attempt < MaxAttempts
  /\ files[Name] = Absent
  /\ files' = [files EXCEPT ![Name] = Part(r)]
  /\ Goto(r, "write")
  /\ UNCHANGED <<dir, ts, attempt, reply>>

\* The name is taken.
AlreadyExists(r) ==
  /\ pc[r] = "open" /\ attempt < MaxAttempts
  /\ files[Name] # Absent
  /\ attempt' = attempt + 1
  /\ UNCHANGED <<pc, dir, ts, reply, files>>

\* Mutant: every error of open is taken for AlreadyExists.
OpenFailsContinues(r) ==
  /\ pc[r] = "open" /\ attempt < MaxAttempts
  /\ attempt' = attempt + 1
  /\ UNCHANGED <<pc, dir, ts, reply, files>>

\* Any other error of open ends the save.
OpenFails(r) ==
  /\ pc[r] = "open" /\ attempt < MaxAttempts
  /\ Reply(r, Failed("io"))
  /\ UNCHANGED <<dir, ts, attempt, files>>

NoName(r) ==
  /\ pc[r] = "open" /\ attempt = MaxAttempts
  /\ Reply(r, Exhausted(dir, ts))
  /\ UNCHANGED <<dir, ts, attempt, files>>

Write(r) ==
  /\ pc[r] = "write"
  /\ files' = [files EXCEPT ![Name] = Whole(r)]
  /\ Reply(r, Saved(Name))
  /\ UNCHANGED <<dir, ts, attempt>>

\* Mutant: the result of write_all is ignored.
WriteFailsIgnored(r) ==
  /\ pc[r] = "write"
  /\ Reply(r, Saved(Name))
  /\ UNCHANGED <<dir, ts, attempt, files>>

\* The disk is full: what has been written of the file stays behind.
WriteFails(r) ==
  /\ pc[r] = "write"
  /\ Reply(r, Failed("io"))
  /\ UNCHANGED <<dir, ts, attempt, files>>

\* The daemon is killed in the middle of a save, and started again.
Killed(r) ==
  /\ pc[r] \in {"open", "write"}
  /\ Reply(r, Failed("killed"))
  /\ UNCHANGED <<dir, ts, attempt, files>>

\* Another process saves a file (external).
Other(n) ==
  /\ files[n] = Absent
  /\ files' = [files EXCEPT ![n] = Foreign]
  /\ UNCHANGED <<pc, dir, ts, attempt, reply>>

Step(r) ==
  \/ Begin(r) \/ Create(r) \/ AlreadyExists(r) \/ OpenFails(r) \/ NoName(r)
  \/ Write(r) \/ WriteFails(r) \/ Killed(r)

Next == (\E r \in Requests : Step(r)) \/ (\E n \in Names : Other(n))

Spec == Init /\ [][Next]_vars

-----------------------------------------------------------------------------
(* Safety *)

\* A call that is answered with a URI finds its own image there, complete, then
\* and for ever after, and no other call is given that URI ("a name no concurrent
\* request can steal"); what a failed write or a crash has left is never announced.
OwnImage ==
  \A r \in Requests : reply[r].type = "uri" => files[reply[r].name] = Whole(r)

\* "could not find a free screenshot filename" is true: every name that the save
\* may use is taken.
NoNameMeansNone ==
  \A r \in Requests : reply[r].type = "no free name" =>
    \A n \in 0 .. MaxAttempts - 1 : files[<<reply[r].dir, reply[r].ts, n>>] # Absent

\* A file that is there is never replaced or shortened, not even the remains of
\* a save that failed: the only change is a call's completion of its own file.
KeepsFiles ==
  [][\A n \in Names :
       files[n] \notin {Absent, files'[n]} =>
         \E r \in Requests : files[n] = Part(r) /\ files'[n] = Whole(r)]_vars
================================================================================
