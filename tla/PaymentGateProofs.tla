------------------------- MODULE PaymentGateProofs -------------------------
(***************************************************************************)
(* The payment gate keeps its promises for any number of requests, keys,   *)
(* retries and crashes.  Two arguments meet here: one follows an order     *)
(* from the handler to the chain, and needs no replay guard; the other     *)
(* ties where a request is to the handle it has, and lets the invariant of *)
(* NonceGuard do the rest.                                                 *)
(***************************************************************************)
EXTENDS PaymentGate, NonceGuardProofs

(* A retry is waited for only while there is one left.                     *)
Tries == \A r \in Ops : stage[r] = "backoff" => attempts[r] <= MaxRetries

(* An order follows the handler's success; the chain remembers the request *)
(* whose order it executed first.                                          *)
Exchange ==
    /\ \A r \in Ops :
          /\ stage[r] \in Active => auth[r] \in Keys
          /\ stage[r] \in {"new", "guard", "verifying", "backoff", "handling"} => order[r] = "none"
          /\ stage[r] = "delivered" => order[r] = "executed"
          /\ order[r] # "none" => auth[r] \in Keys /\ response[r] = "ok"
          /\ order[r] = "executed" => paid[auth[r]] # None
    /\ \A k \in Keys : paid[k] # None => order[paid[k]] = "executed" /\ auth[paid[k]] = k

(* With a guard: where a request is tells what handle it has, and the      *)
(* guard's promises are the quarantines.                                   *)
Handles ==
    \A r \in Ops :
        /\ stage[r] = "guard" => call[r] = "reserve"
        /\ stage[r] \in Working => call[r] = "held"
        /\ stage[r] \notin Active => call[r] \in Resting
        /\ stage[r] \in Active => key[r] = auth[r]
        /\ stage[r] \in Working => (retain[r] <=> stage[r] \in {"handling", "settling"})

Coupled ==
    /\ orphaned = {}
    /\ Handles
    /\ quarantine = until
    /\ \A e \in expirations : e[1] > 0

(* Without one the table is empty, and nobody asks it.                     *)
Unguarded == Protected = {} /\ \A r \in Ops : stage[r] # "guard"

GInv == /\ IInv
        /\ GateTypeOK
        /\ Tries
        /\ Exchange
        /\ IF guarded THEN Coupled ELSE Unguarded
---------------------------------------------------------------------------
(* The gate uses the guard as any caller does, except that it crashes.     *)

LEMMA CrashIInv == IInv /\ Crash => IInv'
<1> SUFFICES ASSUME IInv, Crash PROVE IInv'
  OBVIOUS
<1> USE GuardAssumption DEF Crash
<1>1. TypeOK'
  BY DEF IInv, TypeOK, Resting
<1>2. CallerShape' /\ GenerationsUnique' /\ PendingProtected'
  BY DEF IInv, TypeOK, CallerShape, GenerationsUnique, PendingProtected, Asking, Holding
<1>3. IndexConsistent' /\ RetentionHeld' /\ PromiseIndexed'
  BY DEF IInv, TypeOK, IndexConsistent, RetentionHeld, PromiseIndexed, Protected, Holding
<1> QED
  BY <1>1, <1>2, <1>3 DEF IInv

LEMMA GateUsesGuard == [GateNext]_gvars => [Next]_vars \/ Crash
<1> SUFFICES ASSUME [GateNext]_gvars, ~Crash PROVE [Next]_vars
  OBVIOUS
<1>1. CASE Pass
  BY <1>1 DEF Pass, Next
<1>2. CASE Quiet \/ UNCHANGED gvars
  BY <1>2 DEF Quiet, gvars
<1>3. ASSUME NEW r \in Ops, Drop(r) \/ UNCHANGED vars PROVE [Next]_vars
  BY <1>3 DEF Next, CallerStep
<1>4. ASSUME NEW r \in Ops, Arrival(r) PROVE [Next]_vars
  <2>1. CASE Misconfigured(r) \/ ChallengeUnpaid(r) \/ ChallengeExpired(r)
    BY <2>1 DEF Misconfigured, ChallengeUnpaid, ChallengeExpired
  <2>2. ASSUME NEW k \in Keys, Present(r, k) PROVE [Next]_vars
    BY <2>2 DEF Present, Next, CallerStep
  <2> QED
    BY <1>4, <2>1, <2>2 DEF Arrival
<1>5. ASSUME NEW r \in Ops, Progress(r) \/ Handler(r) PROVE [Next]_vars
  <2>1. CASE Reserved(r) \/ ChallengeReplay(r) \/ GuardFull(r)
    BY <2>1 DEF Reserved, ChallengeReplay, GuardFull, Next, CallerStep
  <2>2. CASE RetryVerify(r) \/ BackoffEnds(r) \/ HandlerSucceeds(r)
    BY <2>2 DEF RetryVerify, BackoffEnds, HandlerSucceeds
  <2>3. CASE ChallengeUnverified(r) \/ SettleConfirmed(r) \/ SettleRejected(r) \/ SettleUnavailable(r)
    BY <2>3, <1>3 DEF ChallengeUnverified, SettleConfirmed, SettleRejected, SettleUnavailable,
       DropReservation
  <2>4. CASE Verified(r) \/ HandlerFails(r)
    BY <2>4 DEF Verified, HandlerFails, Next, CallerStep
  <2> QED
    BY <1>5, <2>1, <2>2, <2>3, <2>4 DEF Progress, Handler
<1>6. ASSUME NEW r \in Ops, Abandon(r) \/ Execute(r) \/ Refuse(r) PROVE [Next]_vars
  BY <1>6, <1>3 DEF Abandon, Execute, Refuse, DropReservation
<1> QED
  BY <1>1, <1>2, <1>4, <1>5, <1>6 DEF GateNext

LEMMA GateIInv == IInv /\ [GateNext]_gvars => IInv'
BY GateUsesGuard, CrashIInv, NextIInv
---------------------------------------------------------------------------
(* Types, and retries.                                                     *)

LEMMA CountType ==
    ASSUME metrics \in Counters, NEW fields, Count(fields)
    PROVE  metrics' \in Counters
BY DEF Counters, Count

LEMMA DeadlineType == ASSUME TypeOK PROVE Deadline(clock) \in 1..(MaxInstant + 1)
BY GuardAssumption DEF TypeOK, Deadline

LEMMA QuarantineType ==
    ASSUME TypeOK, quarantine \in [Keys -> 0..(MaxInstant + 1)], NEW r \in Ops, Quarantine(r)
    PROVE  quarantine' \in [Keys -> 0..(MaxInstant + 1)]
<1>1. Deadline(clock) \in 0..(MaxInstant + 1)
  BY DeadlineType, GuardAssumption
<1> QED
  BY <1>1 DEF Quarantine

(* A step keeps the types, and a retry is one of those left.               *)
LEMMA TypesStep ==
    ASSUME GateTypeOK, TypeOK', Tries, [GateNext]_gvars
    PROVE  GateTypeOK' /\ Tries'
<1> USE GateAssumption, GuardAssumption, DeadlineType DEF GateTypeOK, Tries, Working, Active, Answered, Over, gate
<1>1. ASSUME NEW r \in Ops, Misconfigured(r) PROVE GateTypeOK' /\ Tries'
  BY <1>1, CountType DEF Misconfigured, GoTo
<1>2. ASSUME NEW r \in Ops, ChallengeUnpaid(r) PROVE GateTypeOK' /\ Tries'
  BY <1>2, CountType DEF ChallengeUnpaid, GoTo
<1>3. ASSUME NEW r \in Ops, ChallengeExpired(r) PROVE GateTypeOK' /\ Tries'
  BY <1>3, CountType DEF ChallengeExpired, GoTo
<1>4. ASSUME NEW r \in Ops, Reserved(r) PROVE GateTypeOK' /\ Tries'
  BY <1>4 DEF Reserved, GoTo
<1>5. ASSUME NEW r \in Ops, ChallengeReplay(r) PROVE GateTypeOK' /\ Tries'
  BY <1>5, CountType DEF ChallengeReplay, GoTo
<1>6. ASSUME NEW r \in Ops, GuardFull(r) PROVE GateTypeOK' /\ Tries'
  BY <1>6 DEF GuardFull, GoTo
<1>7. ASSUME NEW r \in Ops, RetryVerify(r) PROVE GateTypeOK' /\ Tries'
  BY <1>7 DEF RetryVerify, GoTo
<1>8. ASSUME NEW r \in Ops, BackoffEnds(r) PROVE GateTypeOK' /\ Tries'
  BY <1>8 DEF BackoffEnds, GoTo
<1>9. ASSUME NEW r \in Ops, ChallengeUnverified(r) PROVE GateTypeOK' /\ Tries'
  BY <1>9, CountType DEF ChallengeUnverified, GoTo
<1>10. ASSUME NEW r \in Ops, Verified(r) PROVE GateTypeOK' /\ Tries'
  BY <1>10, CountType DEF Verified, GoTo
<1>11. ASSUME NEW r \in Ops, HandlerFails(r) PROVE GateTypeOK' /\ Tries'
  BY <1>11 DEF HandlerFails, GoTo
<1>12. ASSUME NEW r \in Ops, HandlerSucceeds(r) PROVE GateTypeOK' /\ Tries'
  BY <1>12 DEF HandlerSucceeds, GoTo
<1>13. ASSUME NEW r \in Ops, SettleConfirmed(r) PROVE GateTypeOK' /\ Tries'
  <2>1. metrics' \in Counters
    BY <1>13, CountType DEF SettleConfirmed
  <2>2. quarantine' \in [Keys -> 0..(MaxInstant + 1)]
    BY <1>13, QuarantineType DEF SettleConfirmed
  <2> QED
    BY <1>13, <2>1, <2>2 DEF SettleConfirmed, GoTo
<1>14. ASSUME NEW r \in Ops, SettleRejected(r) PROVE GateTypeOK' /\ Tries'
  <2>1. metrics' \in Counters
    BY <1>14, CountType DEF SettleRejected
  <2>2. quarantine' \in [Keys -> 0..(MaxInstant + 1)]
    BY <1>14, QuarantineType DEF SettleRejected
  <2> QED
    BY <1>14, <2>1, <2>2 DEF SettleRejected, GoTo
<1>15. ASSUME NEW r \in Ops, SettleUnavailable(r) PROVE GateTypeOK' /\ Tries'
  <2>1. metrics' \in Counters
    BY <1>15, CountType DEF SettleUnavailable
  <2>2. quarantine' \in [Keys -> 0..(MaxInstant + 1)]
    BY <1>15, QuarantineType DEF SettleUnavailable
  <2> QED
    BY <1>15, <2>1, <2>2 DEF SettleUnavailable, GoTo
<1>16. ASSUME NEW r \in Ops, Abandon(r) PROVE GateTypeOK' /\ Tries'
  BY <1>16 DEF Abandon, GoTo, Quarantine
<1>17. ASSUME NEW r \in Ops, Execute(r) PROVE GateTypeOK' /\ Tries'
  BY <1>17 DEF Execute, GoTo
<1>18. ASSUME NEW r \in Ops, Refuse(r) PROVE GateTypeOK' /\ Tries'
  BY <1>18 DEF Refuse, GoTo
<1>19. ASSUME NEW r \in Ops, NEW k \in Keys, Present(r, k) PROVE GateTypeOK' /\ Tries'
  BY <1>19, CountType DEF Present, GoTo
<1>20. CASE Crash
  BY <1>20 DEF Crash, NoCounts, Counters
<1>21. CASE Pass \/ Quiet \/ UNCHANGED gvars
  BY <1>21 DEF Pass, Quiet, gvars, gate
<1> QED
  BY <1>1, <1>2, <1>3, <1>4, <1>5, <1>6, <1>7, <1>8, <1>9, <1>10, <1>11, <1>12, <1>13, <1>14, <1>15, <1>16, <1>17, <1>18, <1>19, <1>20, <1>21
     DEF GateNext, Arrival, Progress, Handler

(* A step keeps orders, payments and answers consistent.                  *)
LEMMA ExchangeStep ==
    ASSUME GateTypeOK, Exchange, [GateNext]_gvars
    PROVE  Exchange'
<1> USE GateAssumption, GuardAssumption DEF GateTypeOK, Exchange, Working, Active, gate
<1>1. ASSUME NEW r \in Ops, Misconfigured(r) PROVE Exchange'
  BY <1>1 DEF Misconfigured, GoTo
<1>2. ASSUME NEW r \in Ops, ChallengeUnpaid(r) PROVE Exchange'
  BY <1>2 DEF ChallengeUnpaid, GoTo
<1>3. ASSUME NEW r \in Ops, ChallengeExpired(r) PROVE Exchange'
  BY <1>3 DEF ChallengeExpired, GoTo
<1>4. ASSUME NEW r \in Ops, Reserved(r) PROVE Exchange'
  BY <1>4 DEF Reserved, GoTo
<1>5. ASSUME NEW r \in Ops, ChallengeReplay(r) PROVE Exchange'
  BY <1>5 DEF ChallengeReplay, GoTo
<1>6. ASSUME NEW r \in Ops, GuardFull(r) PROVE Exchange'
  BY <1>6 DEF GuardFull, GoTo
<1>7. ASSUME NEW r \in Ops, RetryVerify(r) PROVE Exchange'
  BY <1>7 DEF RetryVerify, GoTo
<1>8. ASSUME NEW r \in Ops, BackoffEnds(r) PROVE Exchange'
  BY <1>8 DEF BackoffEnds, GoTo
<1>9. ASSUME NEW r \in Ops, ChallengeUnverified(r) PROVE Exchange'
  BY <1>9 DEF ChallengeUnverified, GoTo
<1>10. ASSUME NEW r \in Ops, Verified(r) PROVE Exchange'
  BY <1>10 DEF Verified, GoTo
<1>11. ASSUME NEW r \in Ops, HandlerFails(r) PROVE Exchange'
  BY <1>11 DEF HandlerFails, GoTo
<1>12. ASSUME NEW r \in Ops, HandlerSucceeds(r) PROVE Exchange'
  BY <1>12 DEF HandlerSucceeds, GoTo
<1>13. ASSUME NEW r \in Ops, SettleConfirmed(r) PROVE Exchange'
  BY <1>13 DEF SettleConfirmed, GoTo
<1>14. ASSUME NEW r \in Ops, SettleRejected(r) PROVE Exchange'
  BY <1>14 DEF SettleRejected, GoTo
<1>15. ASSUME NEW r \in Ops, SettleUnavailable(r) PROVE Exchange'
  BY <1>15 DEF SettleUnavailable, GoTo
<1>16. ASSUME NEW r \in Ops, Abandon(r) PROVE Exchange'
  BY <1>16 DEF Abandon, GoTo
<1>17. ASSUME NEW r \in Ops, Execute(r) PROVE Exchange'
  BY <1>17 DEF Execute, GoTo
<1>18. ASSUME NEW r \in Ops, Refuse(r) PROVE Exchange'
  BY <1>18 DEF Refuse, GoTo
<1>19. ASSUME NEW r \in Ops, NEW k \in Keys, Present(r, k) PROVE Exchange'
  BY <1>19 DEF Present, GoTo
<1>20. CASE Crash
  BY <1>20 DEF Crash
<1>21. CASE Pass \/ Quiet \/ UNCHANGED gvars
  BY <1>21 DEF Pass, Quiet, gvars, gate
<1> QED
  BY <1>1, <1>2, <1>3, <1>4, <1>5, <1>6, <1>7, <1>8, <1>9, <1>10, <1>11, <1>12, <1>13, <1>14, <1>15, <1>16, <1>17, <1>18, <1>19, <1>20, <1>21
     DEF GateNext, Arrival, Progress, Handler
---------------------------------------------------------------------------
(* Requests and their handles.                                             *)

(* A request that is answered or dropped has no handle any more.           *)
LEMMA HandleEnds ==
    ASSUME GateTypeOK, Coupled, NEW r \in Ops, NEW s \in Over,
           EndHandle(r), GoTo(r, s), UNCHANGED auth
    PROVE  Handles' /\ orphaned' = {}
BY DEF GateTypeOK, TypeOK, Coupled, Handles, EndHandle, GoTo, Resting, Working, Active,
   Answered, Over

LEMMA Released ==
    ASSUME Coupled, NEW r \in Ops, DropReleased(r)
    PROVE  EndHandle(r) /\ until' = until /\ (\A e \in expirations' : e[1] > 0)
BY DEF Coupled, DropReleased, Forget, Superseded, store

LEMMA Retained ==
    ASSUME TypeOK, Coupled, NEW r \in Ops, stage[r] \in Working, DropRetained(r)
    PROVE  /\ EndHandle(r)
           /\ until' = [until EXCEPT ![auth[r]] = Deadline(clock)]
           /\ \A e \in expirations' : e[1] > 0
<1>1. key[r] = auth[r] /\ r \notin orphaned
  BY DEF Coupled, Handles, Active
<1>2. EndHandle(r) /\ until' = [until EXCEPT ![auth[r]] = Deadline(clock)]
  BY <1>1 DEF DropRetained
<1>3. expirations' = expirations \/ expirations' = expirations \cup {e \in {<<clock + Ttl, key[r]>>} : e[1] <= MaxInstant}
  BY DEF DropRetained, Keep, Superseded, store
<1>4. clock + Ttl > 0
  BY GuardAssumption DEF TypeOK
<1> QED
  BY <1>2, <1>3, <1>4 DEF Coupled

(* Before the handler a dropped reservation is given up ...                *)
LEMMA DropBefore ==
    ASSUME GateTypeOK, Coupled, guarded, NEW r \in Ops, NEW s \in Over,
           stage[r] \in {"verifying", "backoff"},
           DropReservation(r), GoTo(r, s), UNCHANGED <<auth, quarantine>>
    PROVE  Coupled'
<1>1. ~retain[r]
  BY DEF Coupled, Handles, Working
<1>2. DropReleased(r)
  BY <1>1 DEF DropReservation, Drop
<1> QED
  BY <1>2, Released, HandleEnds DEF Coupled

(* ... and from then on it is retained.                                    *)
LEMMA DropAfter ==
    ASSUME GateTypeOK, Coupled, guarded, NEW r \in Ops, NEW s \in Over,
           stage[r] \in {"handling", "settling"},
           DropReservation(r), GoTo(r, s), Quarantine(r), UNCHANGED auth
    PROVE  Coupled'
<1>1. retain[r]
  BY DEF Coupled, Handles, Working
<1>2. DropRetained(r)
  BY <1>1 DEF DropReservation, Drop
<1>3. TypeOK /\ stage[r] \in Working
  BY DEF GateTypeOK, Working
<1>4. quarantine' = until'
  BY <1>2, <1>3, Retained DEF Quarantine, Coupled
<1> QED
  BY <1>2, <1>3, <1>4, Retained, HandleEnds DEF Coupled

(* A step that leaves the guard alone, and the request where its handle    *)
(* belongs.                                                                *)
LEMMA HandleStays ==
    ASSUME GateTypeOK, Coupled, NEW r \in Ops, NEW s,
           UNCHANGED vars, GoTo(r, s), UNCHANGED <<auth, quarantine>>,
           \/ stage[r] = "new" /\ s \in Over
           \/ stage[r] \in {"verifying", "backoff"} /\ s \in {"verifying", "backoff"}
           \/ stage[r] = "handling" /\ s = "settling"
    PROVE  Coupled'
BY DEF GateTypeOK, Coupled, Handles, GoTo, vars, Working, Active, Answered, Over

(* What a request is told by the guard.                                    *)
LEMMA GuardAnswers ==
    ASSUME GateTypeOK, Coupled, NEW r \in Ops, NEW s \in Over, NEW c \in {"replayed", "full"},
           stage[r] = "guard", GoTo(r, s), Reject(r, c), expirations' \subseteq expirations,
           UNCHANGED <<auth, quarantine>>
    PROVE  Coupled'
<1>1. Handles'
  BY DEF GateTypeOK, TypeOK, Coupled, Handles, GoTo, Reject, Answer, Resting, Working, Active,
     Answered, Over
<1> QED
  BY <1>1 DEF Coupled, Reject

(* A step keeps every request in step with its handle.                     *)
LEMMA CoupledStep ==
    ASSUME IInv, GateTypeOK, Coupled, guarded, [GateNext]_gvars
    PROVE  Coupled'
<1>1. CASE Pass
  <2>1. Handles'
    BY <1>1 DEF Pass, Tick, Coupled, Handles, gate, caller
  <2> QED
    BY <1>1, <2>1 DEF Pass, Tick, Coupled, gate, store
<1>2. CASE Crash
  <2>1. Handles'
    BY <1>2 DEF Crash, Coupled, Handles, Working, Active, Resting, GateTypeOK
  <2> QED
    BY <1>2, <2>1 DEF Crash, Coupled
<1>3. CASE Quiet \/ UNCHANGED gvars
  BY <1>3 DEF Quiet, gvars, vars, gate, Coupled, Handles
<1>4. ASSUME NEW r \in Ops, Arrival(r) PROVE Coupled'
  <2>1. CASE Misconfigured(r) \/ ChallengeUnpaid(r) \/ ChallengeExpired(r)
    BY <2>1, HandleStays DEF Misconfigured, ChallengeUnpaid, ChallengeExpired, Over, Answered
  <2>2. ASSUME NEW k \in Keys, Present(r, k) PROVE Coupled'
    <3>1. Handles'
      BY <2>2 DEF Present, CallReserve, CallGuard, GoTo, Coupled, Handles, GateTypeOK, TypeOK,
         Working, Active, Resting
    <3> QED
      BY <2>2, <3>1 DEF Present, CallReserve, CallGuard, Coupled, store
  <2> QED
    BY <1>4, <2>1, <2>2 DEF Arrival
<1>5. ASSUME NEW r \in Ops, Progress(r) \/ Handler(r) PROVE Coupled'
  <2>1. CASE Reserved(r)
    <3>1. PICK S \in Sweeps(stamp[r]), g \in Generations : Insert(r, S, g)
      BY <2>1 DEF Reserved, Admit
    <3>2. call[r] = "reserve" /\ ~retain[r]
      BY <2>1 DEF Reserved, Coupled, Handles, IInv, CallerShape
    <3>3. Handles'
      BY <2>1, <3>1, <3>2 DEF Reserved, Insert, Answer, GoTo, Coupled, Handles, GateTypeOK,
         TypeOK, Working, Active, Resting
    <3> QED
      BY <2>1, <3>1, <3>3 DEF Reserved, Insert, Coupled
  <2>2. CASE ChallengeReplay(r)
    BY <2>2, GuardAnswers DEF ChallengeReplay, ReplayDetected, Over, Answered
  <2>3. CASE GuardFull(r)
    BY <2>3, GuardAnswers DEF GuardFull, CapacityExceeded, Over, Answered
  <2>4. CASE RetryVerify(r) \/ BackoffEnds(r) \/ HandlerSucceeds(r)
    BY <2>4, HandleStays DEF RetryVerify, BackoffEnds, HandlerSucceeds
  <2>5. CASE ChallengeUnverified(r)
    BY <2>5, DropBefore DEF ChallengeUnverified, Over, Answered
  <2>6. CASE Verified(r)
    <3>1. Handles'
      BY <2>6 DEF Verified, RetainOnDrop, GoTo, Coupled, Handles, GateTypeOK, TypeOK,
         Working, Active
    <3> QED
      BY <2>6, <3>1 DEF Verified, RetainOnDrop, Coupled, store
  <2>7. CASE HandlerFails(r)
    <3>1. DropReleased(r)
      BY <2>7 DEF HandlerFails, Release
    <3> QED
      BY <2>7, <3>1, Released, HandleEnds DEF HandlerFails, Coupled, Over, Answered
  <2>8. CASE SettleConfirmed(r) \/ SettleRejected(r) \/ SettleUnavailable(r)
    BY <2>8, DropAfter DEF SettleConfirmed, SettleRejected, SettleUnavailable, Over, Answered
  <2> QED
    BY <1>5, <2>1, <2>2, <2>3, <2>4, <2>5, <2>6, <2>7, <2>8 DEF Progress, Handler
<1>6. ASSUME NEW r \in Ops, Abandon(r) PROVE Coupled'
  BY <1>6, DropBefore, DropAfter DEF Abandon, Working, Over
<1>7. ASSUME NEW r \in Ops, Execute(r) \/ Refuse(r) PROVE Coupled'
  BY <1>7 DEF Execute, Refuse, vars, Coupled, Handles
<1> QED
  BY <1>1, <1>2, <1>3, <1>4, <1>5, <1>6, <1>7 DEF GateNext

---------------------------------------------------------------------------
(* The invariant, and what follows from it.                                *)

LEMMA InitGInv == GateInit => GInv
<1> SUFFICES ASSUME GateInit PROVE GInv
  OBVIOUS
<1>1. IInv
  BY InitIInv DEF GateInit
<1>2. GateTypeOK
  <2>1. metrics \in Counters
    BY DEF GateInit, NoCounts, Counters
  <2> QED
    BY <1>1, <2>1, GateAssumption, GuardAssumption DEF IInv, GateInit, GateTypeOK
<1>3. Tries /\ Exchange
  BY DEF GateInit, Tries, Exchange, Active, Working
<1>4. Coupled
  BY DEF GateInit, Init, Coupled, Handles, Active, Working, Resting
<1>5. Unguarded
  BY DEF GateInit, Init, Unguarded, Protected
<1> QED
  BY <1>1, <1>2, <1>3, <1>4, <1>5 DEF GInv

LEMMA NextGInv == GInv /\ [GateNext]_gvars => GInv'
<1> SUFFICES ASSUME GInv, [GateNext]_gvars PROVE GInv'
  OBVIOUS
<1>1. IInv' /\ TypeOK'
  BY GateIInv DEF GInv, IInv
<1>2. GateTypeOK' /\ Tries'
  BY <1>1, TypesStep DEF GInv
<1>3. Exchange'
  BY ExchangeStep DEF GInv
<1>4. guarded' = guarded
  BY DEF GateNext, Pass, Crash, Quiet, Arrival, Progress, Handler, Misconfigured, ChallengeUnpaid,
     ChallengeExpired, Present, Reserved, ChallengeReplay, GuardFull, RetryVerify, BackoffEnds,
     ChallengeUnverified, Verified, HandlerFails, HandlerSucceeds, SettleConfirmed,
     SettleRejected, SettleUnavailable, Abandon, Execute, Refuse, gvars
<1>5. guarded' => Coupled'
  BY <1>4, CoupledStep DEF GInv
<1>6. ~guarded' => Unguarded'
  <2>. SUFFICES ASSUME ~guarded, GateTypeOK, Unguarded PROVE Unguarded'
    BY <1>4 DEF GInv
  <2>1. UNCHANGED vars \/ Crash
    BY DEF GateNext, Pass, Quiet, Arrival, Progress, Handler, Misconfigured, ChallengeUnpaid,
       ChallengeExpired, Present, Reserved, ChallengeReplay, GuardFull, RetryVerify, BackoffEnds,
       ChallengeUnverified, Verified, HandlerFails, HandlerSucceeds, SettleConfirmed,
       SettleRejected, SettleUnavailable, Abandon, Execute, Refuse, gvars, DropReservation,
       Unguarded
  <2>2. Protected' = {}
    BY <2>1 DEF Unguarded, Protected, vars, Crash
  <2>3. \A r \in Ops : stage'[r] # "guard"
    BY DEF GateNext, Pass, Quiet, Arrival, Progress, Handler, Misconfigured, ChallengeUnpaid,
       ChallengeExpired, Present, Reserved, ChallengeReplay, GuardFull, RetryVerify, BackoffEnds,
       ChallengeUnverified, Verified, HandlerFails, HandlerSucceeds, SettleConfirmed,
       SettleRejected, SettleUnavailable, Abandon, Execute, Refuse, Crash, gvars, gate, GoTo,
       GateTypeOK, Unguarded, Active, Working
  <2> QED
    BY <2>2, <2>3 DEF Unguarded
<1> QED
  BY <1>1, <1>2, <1>3, <1>5, <1>6 DEF GInv

(* The invariant holds of every state of the gate (middleware.rs,          *)
(* x402_payment), across cancellations and crashes.                        *)
THEOREM GateInvariantHolds == GateSpec => []GInv
<1> QED
  BY InitGInv, NextGInv, PTL DEF GateSpec

(* Type correctness of the gate, retries and crashes included.             *)
THEOREM GateTypeCorrect == GateSpec => []GateTypeOK
<1>1. GInv => GateTypeOK
  BY DEF GInv
<1> QED
  BY <1>1, GateInvariantHolds, PTL

(* x402_payment: no payment without an answer from the handler, and no     *)
(* content without a payment, with or without a replay guard.              *)
THEOREM ExchangeFair == GateSpec => []FairExchange
<1>1. GInv => FairExchange
  BY DEF GInv, Exchange, FairExchange, GateTypeOK
<1> QED
  BY <1>1, GateInvariantHolds, PTL

(* nonce_guard.reserve before verify: copies of an authorization do not    *)
(* work together.                                                          *)
THEOREM CopiesExclude == GateSpec => []OneCopyAtWork
<1>1. ASSUME GInv, guarded, NEW q \in Ops, NEW r \in Ops,
             stage[q] \in Working, stage[r] \in Working, auth[q] = auth[r]
      PROVE  q = r
  BY <1>1, OneOwner DEF GInv, Coupled, Handles, Active, Holding
<1>2. GInv => OneCopyAtWork
  BY <1>1 DEF OneCopyAtWork
<1> QED
  BY <1>2, GateInvariantHolds, PTL

(* Drop of the reservation: what is in the table is there for a cause.     *)
THEOREM NoLeaks == GateSpec => []NothingLeaks
<1>1. ASSUME GInv, NEW k \in Protected, quarantine[k] = 0
      PROVE  \E r \in Ops : stage[r] \in Working /\ auth[r] = k
  <2>. k \in Keys /\ Coupled
    BY <1>1 DEF GInv, Protected, Unguarded
  <2>1. until[k] = 0 /\ <<until[k], k>> \notin expirations
    BY <1>1 DEF Coupled
  <2>2. Owned(k)
    BY <1>1, <2>1, GuardAssumption DEF GInv, IInv, PromiseIndexed
  <2>3. PICK r \in Ops : call[r] \in Holding /\ key[r] = k
    BY <2>2 DEF Owned
  <2>4. stage[r] \in Working
    BY <1>1, <2>3 DEF GInv, Coupled, Handles, GateTypeOK, Active, Holding, Resting
  <2> QED
    BY <1>1, <2>3, <2>4 DEF GInv, Coupled, Handles, Active
<1>2. GInv => NothingLeaks
  BY <1>1 DEF NothingLeaks
<1> QED
  BY <1>2, GateInvariantHolds, PTL

(* retain_on_drop before the handler: an authorization that may have been  *)
(* used comes back to no handler before its retention has passed.          *)
THEOREM NoReplay == GateSpec => NoEarlyReplay
<1>1. ASSUME GInv, [GateNext]_gvars, NEW r \in Ops, guarded,
             stage[r] # "handling", stage'[r] = "handling"
      PROVE  quarantine[auth[r]] <= clock
  <2>1. stage[r] = "verifying"
    <3>1. ASSUME NEW q \in Ops, NEW s, s # "handling" PROVE ~GoTo(q, s)
      BY <1>1, <3>1 DEF GoTo, GInv, GateTypeOK
    <3>2. ~UNCHANGED stage /\ ~Crash
      BY <1>1 DEF Crash, GInv, GateTypeOK
    <3>3. \A q \in Ops : ~Arrival(q)
      BY <3>1 DEF Arrival, Misconfigured, ChallengeUnpaid, ChallengeExpired, Present
    <3>4. \A q \in Ops : ~(Abandon(q) \/ Execute(q) \/ Refuse(q))
      BY <3>1, <3>2 DEF Abandon, Execute, Refuse
    <3>5. \A q \in Ops : Progress(q) \/ Handler(q) => Verified(q)
      BY <3>1 DEF Progress, Handler, Reserved, ChallengeReplay, GuardFull, RetryVerify, BackoffEnds,
         ChallengeUnverified, HandlerFails, HandlerSucceeds, SettleConfirmed, SettleRejected,
         SettleUnavailable
    <3>6. ~(Pass \/ Quiet \/ UNCHANGED gvars)
      BY <3>2 DEF Pass, Quiet, gvars, gate
    <3>7. PICK q \in Ops : Verified(q)
      BY <1>1, <3>2, <3>3, <3>4, <3>5, <3>6 DEF GateNext
    <3> QED
      BY <1>1, <3>7 DEF Verified, GoTo, GInv, GateTypeOK
  <2>2. call[r] = "held" /\ key[r] = auth[r] /\ r \notin orphaned /\ quarantine = until
    BY <1>1, <2>1 DEF GInv, Coupled, Handles, Working, Active
  <2> QED
    BY <2>2, <1>1 DEF GInv, IInv, PromiseIndexed, Holding
<1>2. GInv /\ [GateNext]_gvars =>
         [\A r \in Ops : guarded /\ stage[r] # "handling" /\ stage'[r] = "handling" =>
             quarantine[auth[r]] <= clock]_gvars
  BY <1>1
<1> QED
  BY <1>2, GateInvariantHolds, PTL DEF GateSpec, NoEarlyReplay
=============================================================================
