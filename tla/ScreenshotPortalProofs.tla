-------------------------- MODULE ScreenshotPortalProofs --------------------------
(***************************************************************************)
(* The safety of the request path, for every number of requests, every     *)
(* pool size, every set of connection names and every set of globals a     *)
(* compositor may advertise.                                               *)
(*                                                                         *)
(* The four invariants checked by TLC are inductive together: a thread     *)
(* that connects owns the cache mutex (LockDiscipline), so nobody else can *)
(* fill the cache (ConnectOnlyWhenEmpty), so the eviction made by a failed *)
(* request can be undone only by a connection nobody refers to             *)
(* (ErrorEvicts).  TypeOK gives the domains of the functions.              *)
(***************************************************************************)
EXTENDS ScreenshotPortal, TLAPS

IInv == TypeOK /\ LockDiscipline /\ ConnectOnlyWhenEmpty /\ ErrorEvicts

USE DEF portalVars, worldVars, Goto

-----------------------------------------------------------------------------
(* Each part of IInv is preserved by every step of one request.            *)

\* A step keeps every variable in its type, and never lets a request work
\* without a connection.
LEMMA StepTypeOK ==
  ASSUME TypeOK, NEW r \in Requests, RequestStep(r)
  PROVE  TypeOK'
<1> USE PortalAssumption DEF TypeOK, Phases, Using, Outcomes
<1>1. CASE Call(r)
  BY <1>1 DEF Call
<1>2. CASE Start(r)
  BY <1>2 DEF Start
<1>3. CASE Reply(r)
  BY <1>3 DEF Reply
<1>4. CASE TakeCached(r)
  BY <1>4 DEF TakeCached
<1>5. CASE BeginConnect(r)
  BY <1>5 DEF BeginConnect
<1>6. CASE ConnectOk(r)
  BY <1>6 DEF ConnectOk, Unreferenced
<1>7. CASE ConnectRefused(r)
  BY <1>7 DEF ConnectRefused, ConnectError, Join
<1>8. CASE ConnectRejected(r)
  BY <1>8 DEF ConnectRejected, ConnectError, Join
<1>9. CASE Invalidate(r)
  BY <1>9 DEF Invalidate, Join
<1>10. CASE BeginRefresh(r)
  BY <1>10 DEF BeginRefresh
<1>11. CASE RefreshOnDead(r)
  BY <1>11 DEF RefreshOnDead
<1>12. CASE EndRefresh(r)
  BY <1>12 DEF EndRefresh, Join
<1>13. CASE SelectOutput(r)
  BY <1>13 DEF SelectOutput, Join
<1>14. CASE EndCapture(r)
  BY <1>14 DEF EndCapture, Encode, Join, SocketError
<1>15. CASE ProtocolError(r)
  BY <1>15 DEF ProtocolError
<1>16. CASE Discard(r)
  BY <1>16 DEF Discard
<1> QED
  BY <1>1, <1>2, <1>3, <1>4, <1>5, <1>6, <1>7, <1>8, <1>9, <1>10, <1>11, <1>12, <1>13, <1>14,
     <1>15, <1>16 DEF RequestStep

\* A step takes or releases a mutex exactly when it enters or leaves the
\* phase that owns it.
LEMMA StepLocks ==
  ASSUME TypeOK, LockDiscipline, NEW r \in Requests, RequestStep(r)
  PROVE  LockDiscipline'
<1> USE PortalAssumption DEF TypeOK, Using, LockDiscipline
<1>1. CASE Call(r)
  BY <1>1 DEF Call
<1>2. CASE Start(r)
  BY <1>2 DEF Start
<1>3. CASE Reply(r)
  BY <1>3 DEF Reply
<1>4. CASE TakeCached(r)
  BY <1>4 DEF TakeCached
<1>5. CASE BeginConnect(r)
  BY <1>5 DEF BeginConnect
<1>6. CASE ConnectOk(r)
  BY <1>6 DEF ConnectOk, Unreferenced
<1>7. CASE ConnectRefused(r)
  BY <1>7 DEF ConnectRefused, ConnectError, Join
<1>8. CASE ConnectRejected(r)
  BY <1>8 DEF ConnectRejected, ConnectError, Join
<1>9. CASE Invalidate(r)
  BY <1>9 DEF Invalidate, Join
<1>10. CASE BeginRefresh(r)
  BY <1>10 DEF BeginRefresh
<1>11. CASE RefreshOnDead(r)
  BY <1>11 DEF RefreshOnDead
<1>12. CASE EndRefresh(r)
  BY <1>12 DEF EndRefresh, Join
<1>13. CASE SelectOutput(r)
  BY <1>13 DEF SelectOutput, Join
<1>14. CASE EndCapture(r)
  BY <1>14 DEF EndCapture, Encode, Join, SocketError
<1>15. CASE ProtocolError(r)
  BY <1>15 DEF ProtocolError
<1>16. CASE Discard(r)
  BY <1>16 DEF Discard
<1> QED
  BY <1>1, <1>2, <1>3, <1>4, <1>5, <1>6, <1>7, <1>8, <1>9, <1>10, <1>11, <1>12, <1>13, <1>14,
     <1>15, <1>16 DEF RequestStep

\* Only the owner of the cache mutex can fill the cache.
LEMMA StepConnect ==
  ASSUME TypeOK, LockDiscipline, ConnectOnlyWhenEmpty, NEW r \in Requests, RequestStep(r)
  PROVE  ConnectOnlyWhenEmpty'
<1> USE PortalAssumption DEF TypeOK, LockDiscipline, ConnectOnlyWhenEmpty
<1>1. CASE Call(r)
  BY <1>1 DEF Call
<1>2. CASE Start(r)
  BY <1>2 DEF Start
<1>3. CASE Reply(r)
  BY <1>3 DEF Reply
<1>4. CASE TakeCached(r)
  BY <1>4 DEF TakeCached
<1>5. CASE BeginConnect(r)
  BY <1>5 DEF BeginConnect
<1>6. CASE ConnectOk(r)
  BY <1>6 DEF ConnectOk, Unreferenced
<1>7. CASE ConnectRefused(r)
  BY <1>7 DEF ConnectRefused, ConnectError, Join
<1>8. CASE ConnectRejected(r)
  BY <1>8 DEF ConnectRejected, ConnectError, Join
<1>9. CASE Invalidate(r)
  BY <1>9 DEF Invalidate, Join
<1>10. CASE BeginRefresh(r)
  BY <1>10 DEF BeginRefresh
<1>11. CASE RefreshOnDead(r)
  BY <1>11 DEF RefreshOnDead
<1>12. CASE EndRefresh(r)
  BY <1>12 DEF EndRefresh, Join
<1>13. CASE SelectOutput(r)
  BY <1>13 DEF SelectOutput, Join
<1>14. CASE EndCapture(r)
  BY <1>14 DEF EndCapture, Encode, Join, SocketError
<1>15. CASE ProtocolError(r)
  BY <1>15 DEF ProtocolError
<1>16. CASE Discard(r)
  BY <1>16 DEF Discard
<1> QED
  BY <1>1, <1>2, <1>3, <1>4, <1>5, <1>6, <1>7, <1>8, <1>9, <1>10, <1>11, <1>12, <1>13, <1>14,
     <1>15, <1>16 DEF RequestStep

\* A connection enters the cache only if no call refers to it, a failed one
\* included; and a connect() that fails leaves the cache empty.
LEMMA StepEvicts ==
  ASSUME TypeOK, ConnectOnlyWhenEmpty, ErrorEvicts, NEW r \in Requests, RequestStep(r)
  PROVE  ErrorEvicts'
<1> USE PortalAssumption DEF TypeOK, Using, ConnectOnlyWhenEmpty, ErrorEvicts
<1>1. CASE Call(r)
  BY <1>1 DEF Call
<1>2. CASE Start(r)
  BY <1>2 DEF Start
<1>3. CASE Reply(r)
  BY <1>3 DEF Reply
<1>4. CASE TakeCached(r)
  BY <1>4 DEF TakeCached
<1>5. CASE BeginConnect(r)
  BY <1>5 DEF BeginConnect
<1>6. CASE ConnectOk(r)
  BY <1>6 DEF ConnectOk, Unreferenced
<1>7. CASE ConnectRefused(r)
  BY <1>7 DEF ConnectRefused, ConnectError, Join
<1>8. CASE ConnectRejected(r)
  BY <1>8 DEF ConnectRejected, ConnectError, Join
<1>9. CASE Invalidate(r)
  BY <1>9 DEF Invalidate, Join
<1>10. CASE BeginRefresh(r)
  BY <1>10 DEF BeginRefresh
<1>11. CASE RefreshOnDead(r)
  BY <1>11 DEF RefreshOnDead
<1>12. CASE EndRefresh(r)
  BY <1>12 DEF EndRefresh, Join
<1>13. CASE SelectOutput(r)
  BY <1>13 DEF SelectOutput, Join
<1>14. CASE EndCapture(r)
  BY <1>14 DEF EndCapture, Encode, Join, SocketError
<1>15. CASE ProtocolError(r)
  BY <1>15 DEF ProtocolError
<1>16. CASE Discard(r)
  BY <1>16 DEF Discard
<1> QED
  BY <1>1, <1>2, <1>3, <1>4, <1>5, <1>6, <1>7, <1>8, <1>9, <1>10, <1>11, <1>12, <1>13, <1>14,
     <1>15, <1>16 DEF RequestStep

-----------------------------------------------------------------------------
(* The steps of the compositor and of main() touch none of the requests'.  *)

\* A crash or a restart of the compositor keeps IInv, and so does a shutdown.
LEMMA WorldStep ==
  ASSUME IInv, Crash \/ Boot \/ Signal \/ Exit
  PROVE  IInv'
<1> USE PortalAssumption DEF TypeOK
<1>1. TypeOK'
  BY DEF IInv, Crash, Boot, Signal, Exit
<1>2. LockDiscipline'
  BY DEF IInv, Crash, Boot, Signal, Exit, LockDiscipline
<1>3. ConnectOnlyWhenEmpty'
  BY DEF IInv, Crash, Boot, Signal, Exit, ConnectOnlyWhenEmpty
<1>4. ErrorEvicts'
  BY DEF IInv, Crash, Boot, Signal, Exit, ErrorEvicts
<1> QED
  BY <1>1, <1>2, <1>3, <1>4 DEF IInv

\* IInv is an inductive invariant of the request path.
THEOREM Inductive == Spec => []IInv
<1>1. Init => IInv
  BY PortalAssumption
  DEF Init, IInv, TypeOK, Phases, Using, Outcomes, LockDiscipline,
      ConnectOnlyWhenEmpty, ErrorEvicts
<1>2. IInv /\ [Next]_vars => IInv'
  <2> SUFFICES ASSUME IInv, [Next]_vars
               PROVE  IInv'
    OBVIOUS
  <2>1. ASSUME NEW r \in Requests, RequestStep(r)
        PROVE  IInv'
    BY <2>1, StepTypeOK, StepLocks, StepConnect, StepEvicts DEF IInv
  <2>2. CASE Crash \/ Boot \/ Signal \/ Exit
    BY <2>2, WorldStep
  <2>3. CASE UNCHANGED vars
    BY <2>3 DEF vars, IInv, TypeOK, LockDiscipline, ConnectOnlyWhenEmpty, ErrorEvicts
  <2> QED
    BY <2>1, <2>2, <2>3 DEF Next
<1> QED
  BY <1>1, <1>2, PTL DEF Spec

\* Every variable keeps its type, and a request that refreshes, selects,
\* captures or invalidates always has a connection to do it on.
THEOREM TypeCorrect == Spec => []TypeOK
<1>1. IInv => TypeOK
  BY DEF IInv
<1> QED
  BY <1>1, Inductive, PTL

\* The cache mutex is held exactly while connecting and a registry's mutex
\* exactly while it is refreshed.
THEOREM LocksHeld == Spec => []LockDiscipline
<1>1. IInv => LockDiscipline
  BY DEF IInv
<1> QED
  BY <1>1, Inductive, PTL

\* Two calls never connect at once, and none overwrites a cached connection.
THEOREM SingleConnector == Spec => []ConnectOnlyWhenEmpty
<1>1. IInv => ConnectOnlyWhenEmpty
  BY DEF IInv
<1> QED
  BY <1>1, Inductive, PTL

\* A call that failed with a WaylandError leaves behind a cache without the
\* connection it failed on.
THEOREM FailureEvicts == Spec => []ErrorEvicts
<1>1. IInv => ErrorEvicts
  BY DEF IInv
<1> QED
  BY <1>1, Inductive, PTL

===================================================================================
