-------------------------- MODULE CaptureDeadlineProofs --------------------------
(***************************************************************************)
(* The two bounds of CaptureDeadline for every finite number of captures,  *)
(* every budget and every number of attempts.                              *)
(*                                                                         *)
(* Neither bound is inductive: elapsed time says nothing of what may still *)
(* pass.  OwnTime relates it to the phase and to what is left of the       *)
(* running deadline.  QueueBound charges every tick spent on the mutex to  *)
(* the refresh of another capture: either one that is over, which lasted   *)
(* at most a budget, or the one in progress, which has used Budget - left. *)
(* A capture refreshes once, so there are at most N - 1 to be charged.     *)
(***************************************************************************)
EXTENDS CaptureDeadline, FiniteSetTheorems, TLAPS

\* Time the capture has not spent on the mutex, and may still spend waiting.
OwnTime(r) ==
  /\ phase[r] \in {"new", "refresh"} => elapsed[r] <= queued[r]
  /\ phase[r] = "refreshing" => elapsed[r] + left[r] <= queued[r] + Budget
  /\ phase[r] = "select" => elapsed[r] <= queued[r] + Budget
  /\ phase[r] = "capture" => elapsed[r] + left[r] <= queued[r] + 2 * Budget
  /\ phase[r] = "done" => elapsed[r] <= queued[r] + 2 * Budget

\* The captures whose refresh is over.
Refreshed == {q \in Requests : phase[q] \in {"select", "capture", "done"}}

\* What the refresh in progress, if it is not r's own, has lasted so far.
Running(r) == IF lock \in Requests \ {r} THEN Budget - left[lock] ELSE 0

QueueBound(r) == queued[r] <= Cardinality(Refreshed \ {r}) * Budget + Running(r)

IInv ==
  /\ TypeOK
  /\ \A r \in Requests : OwnTime(r)
  /\ \A r \in Requests : QueueBound(r)

-----------------------------------------------------------------------------
(* Arithmetic and cardinalities *)

LEMMA CapNat == N \in Nat /\ N * Budget \in Nat /\ Cap \in Nat /\ N * Budget <= Cap
<1>1. N \in Nat
  BY DeadlineAssumption, FS_CardinalityType DEF N
<1>2. \A n, b \in Nat : n * b \in Nat /\ (n + 1) * b = n * b + b
  BY SMT
<1> QED
  BY <1>1, <1>2, DeadlineAssumption DEF Cap

LEMMA Monotone == \A m, n, b \in Nat : m <= n => m * b <= n * b
<1> SUFFICES ASSUME NEW m \in Nat, NEW n \in Nat, NEW b \in Nat, m <= n
             PROVE  m * b <= n * b
  OBVIOUS
<1>1. PICK d \in Nat : n = m + d
  BY n - m \in Nat
<1>2. (m + d) * b = m * b + d * b /\ d * b >= 0 /\ m * b \in Nat
  BY SMT
<1> QED
  BY <1>1, <1>2

\* The refreshes that a capture can be charged with.
LEMMA Others ==
  ASSUME NEW r
  PROVE  IsFiniteSet(Refreshed \ {r}) /\ Cardinality(Refreshed \ {r}) \in Nat
<1>1. Refreshed \ {r} \in SUBSET Requests
  BY DEF Refreshed
<1> QED
  BY <1>1, DeadlineAssumption, FS_Subset, FS_CardinalityType

-----------------------------------------------------------------------------
(* TypeOK *)

LEMMA StepTypeOK ==
  ASSUME TypeOK, NEW r \in Requests, Step(r)
  PROVE  TypeOK'
<1> USE DeadlineAssumption DEF TypeOK, Goto, StartClock, Phases, Waiting, Dispatching
<1>1. CASE Enter(r)
  BY <1>1 DEF Enter
<1>2. CASE BeginRefresh(r)
  BY <1>2 DEF BeginRefresh
<1>3. CASE EndRefresh(r)
  BY <1>3 DEF EndRefresh
<1>4. CASE BeginCapture(r)
  BY <1>4 DEF BeginCapture
<1>5. CASE Retry(r)
  BY <1>5 DEF Retry
<1>6. CASE EndCapture(r)
  BY <1>6 DEF EndCapture
<1>7. CASE SelectNothing(r)
  BY <1>7 DEF SelectNothing
<1> QED
  BY <1>1, <1>2, <1>3, <1>4, <1>5, <1>6, <1>7 DEF Step

LEMMA TickTypeOK ==
  ASSUME TypeOK, Tick
  PROVE  TypeOK'
<1>1. left' \in [Requests -> 0 .. Budget]
  BY DeadlineAssumption DEF TypeOK, Tick
<1>2. elapsed' \in [Requests -> 0 .. Cap] /\ queued' \in [Requests -> 0 .. Cap]
  BY CapNat DEF TypeOK, Tick
<1> QED
  BY <1>1, <1>2 DEF TypeOK, Tick

-----------------------------------------------------------------------------
(* OwnTime *)

LEMMA StepOwnTime ==
  ASSUME TypeOK, NEW r \in Requests, Step(r), NEW q \in Requests, OwnTime(q)
  PROVE  OwnTime(q)'
<1> USE DeadlineAssumption, CapNat DEF TypeOK, OwnTime, Goto, StartClock
<1>1. CASE Enter(r)
  BY <1>1 DEF Enter
<1>2. CASE BeginRefresh(r)
  BY <1>2 DEF BeginRefresh
<1>3. CASE EndRefresh(r)
  BY <1>3 DEF EndRefresh
<1>4. CASE BeginCapture(r)
  BY <1>4 DEF BeginCapture
<1>5. CASE Retry(r)
  BY <1>5 DEF Retry
<1>6. CASE EndCapture(r)
  BY <1>6 DEF EndCapture
<1>7. CASE SelectNothing(r)
  BY <1>7 DEF SelectNothing
<1> QED
  BY <1>1, <1>2, <1>3, <1>4, <1>5, <1>6, <1>7 DEF Step

\* A tick costs a waiter one tick of queueing, and one who dispatches one tick
\* of its deadline.  When `queued` has reached its cap, `elapsed` is no larger.
LEMMA TickOwnTime ==
  ASSUME TypeOK, Tick, NEW q \in Requests, OwnTime(q)
  PROVE  OwnTime(q)'
<1> USE DeadlineAssumption, CapNat
<1>1. phase'[q] = phase[q]
  BY DEF Tick
<1>2. CASE phase[q] \in Waiting
  <2>1. left'[q] = left[q]
    BY <1>2 DEF Tick, Waiting, Dispatching, TypeOK
  <2>2. elapsed'[q] - queued'[q] <= elapsed[q] - queued[q] \/ elapsed'[q] <= queued'[q]
    BY <1>2 DEF Tick, TypeOK
  <2>3. elapsed'[q] \in 0 .. Cap /\ queued'[q] \in 0 .. Cap
    BY TickTypeOK DEF TypeOK
  <2> QED
    BY <1>1, <1>2, <2>1, <2>2, <2>3 DEF OwnTime, TypeOK, Waiting
<1>3. CASE phase[q] \in Dispatching
  <2>1. left[q] > 0
    BY <1>3 DEF Tick, MustRun, TypeOK
  <2>2. /\ left'[q] = left[q] - 1
        /\ queued'[q] = queued[q]
        /\ elapsed'[q] \in {elapsed[q], elapsed[q] + 1}
    BY <1>3, <2>1 DEF Tick, TypeOK, Waiting, Dispatching
  <2> QED
    BY <1>1, <1>3, <2>1, <2>2 DEF OwnTime, TypeOK, Dispatching
<1>4. CASE phase[q] \notin Waiting \cup Dispatching
  <2>1. left'[q] = left[q] /\ queued'[q] = queued[q] /\ elapsed'[q] = elapsed[q]
    BY <1>4 DEF Tick, TypeOK
  <2> QED
    BY <1>1, <2>1 DEF OwnTime
<1> QED
  BY <1>2, <1>3, <1>4

-----------------------------------------------------------------------------
(* QueueBound *)

LEMMA StepQueueBound ==
  ASSUME TypeOK, NEW r \in Requests, Step(r), NEW q \in Requests, QueueBound(q)
  PROVE  QueueBound(q)'
<1> USE DeadlineAssumption
<1>1. queued' = queued
  BY DEF Step, Enter, BeginRefresh, EndRefresh, SelectNothing, BeginCapture, Retry, EndCapture
<1>2. CASE Enter(r)
  <2>1. Refreshed' = Refreshed /\ Running(q)' = Running(q)
    BY <1>2 DEF Enter, Goto, Refreshed, Running, TypeOK
  <2> QED
    BY <1>1, <2>1 DEF QueueBound
<1>3. CASE BeginRefresh(r)
  <2>1. Refreshed' = Refreshed
    BY <1>3 DEF BeginRefresh, Goto, Refreshed, TypeOK
  <2>2. Running(q)' = 0 /\ Running(q) = 0
    BY <1>3 DEF BeginRefresh, StartClock, Running, TypeOK
  <2> QED
    BY <1>1, <2>1, <2>2 DEF QueueBound
<1>4. CASE EndRefresh(r)
  <2>1. Refreshed' = Refreshed \cup {r} /\ r \notin Refreshed
    BY <1>4 DEF EndRefresh, Goto, Refreshed, TypeOK
  <2>2. lock = r /\ Running(q)' = 0
    BY <1>4 DEF EndRefresh, Running, TypeOK
  <2>3. CASE q = r
    BY <1>1, <2>1, <2>2, <2>3 DEF QueueBound, Running
  <2>4. CASE q # r
    <3> DEFINE c == Cardinality(Refreshed \ {q})
    <3>1. Refreshed' \ {q} = (Refreshed \ {q}) \cup {r} /\ r \notin Refreshed \ {q}
      BY <2>1, <2>4
    <3>2. Cardinality(Refreshed' \ {q}) = c + 1 /\ c \in Nat
      BY <3>1, Others, FS_AddElement
    <3>3. Running(q) <= Budget
      BY <2>2, <2>4 DEF Running, TypeOK
    <3>4. (c + 1) * Budget = c * Budget + Budget /\ c * Budget \in Nat
      BY <3>2, SMT
    <3>5. queued[q] \in Nat /\ Running(q) \in Int
      BY <2>2, <2>4, CapNat DEF TypeOK, Running
    <3> QED
      BY <1>1, <2>2, <3>2, <3>3, <3>4, <3>5 DEF QueueBound
  <2> QED
    BY <2>3, <2>4
<1>5. CASE BeginCapture(r)
  <2>1. Refreshed' = Refreshed
    BY <1>5 DEF BeginCapture, Goto, Refreshed, TypeOK
  <2>2. Running(q)' = 0 /\ Running(q) = 0
    BY <1>5 DEF BeginCapture, Running
  <2> QED
    BY <1>1, <2>1, <2>2 DEF QueueBound
<1>6. CASE Retry(r)
  BY <1>6 DEF Retry, QueueBound, Refreshed, Running
<1>7. CASE EndCapture(r)
  <2>1. Refreshed' = Refreshed /\ Running(q)' = Running(q)
    BY <1>7 DEF EndCapture, Goto, Refreshed, Running, TypeOK
  <2> QED
    BY <1>1, <2>1 DEF QueueBound
<1>8. CASE SelectNothing(r)
  <2>1. Refreshed' = Refreshed /\ Running(q)' = Running(q)
    BY <1>8 DEF SelectNothing, Goto, Refreshed, Running, TypeOK
  <2> QED
    BY <1>1, <2>1 DEF QueueBound
<1> QED
  BY <1>2, <1>3, <1>4, <1>5, <1>6, <1>7, <1>8 DEF Step

\* Time passes for a waiter only while another capture refreshes, and uses up
\* that capture's deadline.
LEMMA TickQueueBound ==
  ASSUME TypeOK, Tick, NEW q \in Requests, QueueBound(q)
  PROVE  QueueBound(q)'
<1> DEFINE c == Cardinality(Refreshed \ {q}) * Budget
<1>1. Refreshed' = Refreshed
  BY DEF Tick, Refreshed
<1>2. c \in Nat /\ queued[q] \in Nat /\ queued'[q] \in Nat
  <2>1. Cardinality(Refreshed \ {q}) \in Nat
    BY Others
  <2>2. \A m, n \in Nat : m * n \in Nat
    BY SMT
  <2> QED
    BY <2>1, <2>2, TickTypeOK, CapNat, DeadlineAssumption DEF TypeOK
<1>3. CASE phase[q] \in Waiting
  <2>1. PICK h \in Requests : lock = h
    BY <1>3 DEF Tick, MustRun, TypeOK
  <2>2. h # q /\ phase[h] = "refreshing"
    BY <1>3, <2>1 DEF TypeOK, Waiting
  <2>3. left[h] > 0 /\ left'[h] = left[h] - 1
    BY <2>2 DEF Tick, MustRun, Dispatching, TypeOK
  <2>4. Running(q) = Budget - left[h] /\ Running(q)' = Budget - (left[h] - 1)
    BY <2>1, <2>2, <2>3 DEF Running, Tick
  <2>5. queued'[q] <= queued[q] + 1
    BY <1>2 DEF Tick, TypeOK
  <2>6. left[h] \in Nat /\ Budget \in Nat
    BY DeadlineAssumption DEF TypeOK
  <2> QED
    BY <1>1, <1>2, <2>4, <2>5, <2>6 DEF QueueBound
<1>4. CASE phase[q] \notin Waiting
  <2>1. queued'[q] = queued[q]
    BY <1>4 DEF Tick, TypeOK
  <2>2. Running(q) <= Running(q)' /\ Running(q) \in Int /\ Running(q)' \in Int
    BY DeadlineAssumption DEF Running, Tick, TypeOK
  <2> QED
    BY <1>1, <1>2, <2>1, <2>2 DEF QueueBound
<1> QED
  BY <1>3, <1>4

-----------------------------------------------------------------------------

\* The invariant is inductive.
THEOREM Inductive == Spec => []IInv
<1>1. Init => IInv
  <2> SUFFICES ASSUME Init PROVE IInv
    OBVIOUS
  <2>1. TypeOK
    BY DeadlineAssumption, CapNat DEF Init, TypeOK, Phases
  <2>2. ASSUME NEW r \in Requests PROVE OwnTime(r)
    BY DEF Init, OwnTime
  <2>3. ASSUME NEW r \in Requests PROVE QueueBound(r)
    <3>1. Refreshed \ {r} = {}
      BY DEF Init, Refreshed
    <3>2. queued[r] = 0 /\ Running(r) = 0
      BY DeadlineAssumption DEF Init, Running
    <3> QED
      BY <3>1, <3>2, FS_EmptySet, DeadlineAssumption DEF QueueBound
  <2> QED
    BY <2>1, <2>2, <2>3 DEF IInv
<1>2. IInv /\ [Next]_vars => IInv'
  <2> SUFFICES ASSUME IInv, [Next]_vars PROVE IInv'
    OBVIOUS
  <2> USE DEF IInv
  <2>1. ASSUME NEW r \in Requests, Step(r) PROVE IInv'
    BY <2>1, StepTypeOK, StepOwnTime, StepQueueBound
  <2>2. CASE Tick
    BY <2>2, TickTypeOK, TickOwnTime, TickQueueBound
  <2>3. CASE UNCHANGED vars
    BY <2>3 DEF vars, TypeOK, OwnTime, QueueBound, Refreshed, Running
  <2> QED
    BY <2>1, <2>2, <2>3 DEF Next
<1> QED
  BY <1>1, <1>2, PTL DEF Spec

\* Every variable keeps its type, and the mutex is held exactly while its
\* owner waits in refresh().
THEOREM TypeCorrect == Spec => []TypeOK
<1>1. IInv => TypeOK
  BY DEF IInv
<1> QED
  BY <1>1, Inductive, PTL

\* Apart from the mutex a capture waits for at most two budgets, one in
\* refresh() and one in the backend, however many attempts the backend makes.
THEOREM OwnWait == Spec => []WaitsTwoBudgets
<1>1. IInv => WaitsTwoBudgets
  <2> SUFFICES ASSUME IInv, NEW r \in Requests
               PROVE  elapsed[r] <= queued[r] + 2 * Budget
    BY DEF WaitsTwoBudgets
  <2> QED
    BY DeadlineAssumption, CapNat
    DEF IInv, TypeOK, OwnTime, Phases, Waiting, Dispatching
<1> QED
  BY <1>1, Inductive, PTL

\* N concurrent captures are over after N + 1 budgets, whatever the compositor
\* does: on the mutex each waits for at most N - 1 refreshes.
THEOREM LongestWait == Spec => []WorstCase
<1>1. IInv => WorstCase
  <2> SUFFICES ASSUME IInv, NEW r \in Requests
               PROVE  elapsed[r] <= (N + 1) * Budget
    BY DEF WorstCase
  <2> DEFINE c == Cardinality(Refreshed \ {r})
  <2>1. elapsed[r] <= queued[r] + 2 * Budget
    BY DeadlineAssumption, CapNat
    DEF IInv, TypeOK, OwnTime, Phases, Waiting, Dispatching
  <2>2. N \in Nat \ {0} /\ IsFiniteSet(Requests \ {r}) /\ Cardinality(Requests \ {r}) = N - 1
    BY DeadlineAssumption, FS_RemoveElement, FS_EmptySet, CapNat DEF N
  <2>3. queued[r] <= (N - 1) * Budget
    <3>0. (\A m, n \in Int : m * n \in Int) /\ c \in Nat
      <4>1. \A m, n \in Int : m * n \in Int
        BY SMT
      <4>2. c \in Nat
        BY Others
      <4> QED
        BY <4>1, <4>2
    <3>1. CASE lock \in Requests \ {r}
      <4>1. Refreshed \ {r} \in SUBSET ((Requests \ {r}) \ {lock})
        BY <3>1 DEF IInv, TypeOK, Refreshed
      <4>2. /\ IsFiniteSet((Requests \ {r}) \ {lock})
            /\ Cardinality((Requests \ {r}) \ {lock}) = N - 2
        BY <2>2, <3>1, FS_RemoveElement
      <4>3. c <= N - 2 /\ c \in Nat
        <5>1. c <= Cardinality((Requests \ {r}) \ {lock})
          BY <4>1, <4>2, FS_Subset
        <5> QED
          BY <3>0, <4>2, <5>1
      <4>4. c * Budget <= (N - 2) * Budget /\ (N - 2) * Budget + Budget = (N - 1) * Budget
        <5>1. c * Budget <= (N - 2) * Budget
          BY <2>2, <4>3, Monotone, DeadlineAssumption
        <5>2. \A n, b \in Int : (n - 2) * b + b = (n - 1) * b
          BY SMT
        <5> QED
          BY <2>2, <5>1, <5>2, DeadlineAssumption
      <4>5. Running(r) <= Budget /\ Running(r) \in Int
        BY <3>1, DeadlineAssumption DEF Running, IInv, TypeOK
      <4>6. /\ queued[r] \in Int /\ c * Budget \in Int
            /\ (N - 2) * Budget \in Int /\ (N - 1) * Budget \in Int
        BY <2>2, <3>0, <4>3, CapNat, DeadlineAssumption DEF IInv, TypeOK
      <4>7. queued[r] <= c * Budget + Running(r)
        BY DEF IInv, QueueBound
      <4> QED
        BY <4>4, <4>5, <4>6, <4>7, DeadlineAssumption
    <3>2. CASE lock \notin Requests \ {r}
      <4>1. Refreshed \ {r} \in SUBSET (Requests \ {r})
        BY DEF Refreshed
      <4>2. c <= N - 1 /\ c \in Nat
        <5>1. c <= Cardinality(Requests \ {r})
          BY <2>2, <4>1, FS_Subset
        <5> QED
          BY <2>2, <3>0, <5>1
      <4>3. c * Budget <= (N - 1) * Budget
        BY <2>2, <4>2, Monotone, DeadlineAssumption
      <4>4. queued[r] <= c * Budget + 0
        BY <3>2 DEF IInv, QueueBound, Running
      <4>5. /\ queued[r] \in Int /\ c * Budget \in Int /\ (N - 1) * Budget \in Int
        BY <2>2, <3>0, <4>2, CapNat, DeadlineAssumption DEF IInv, TypeOK
      <4> QED
        BY <4>3, <4>4, <4>5
    <3> QED
      BY <3>1, <3>2
  <2>4. (N - 1) * Budget + 2 * Budget = (N + 1) * Budget
    <3>1. \A n, b \in Int : (n - 1) * b + 2 * b = (n + 1) * b
      BY SMT
    <3> QED
      BY <2>2, <3>1, DeadlineAssumption
  <2>5. elapsed[r] \in Int /\ queued[r] \in Int /\ (N - 1) * Budget \in Int
    BY <2>2, CapNat, DeadlineAssumption DEF IInv, TypeOK
  <2> QED
    BY <2>1, <2>3, <2>4, <2>5, DeadlineAssumption
<1> QED
  BY <1>1, Inductive, PTL

================================================================================
