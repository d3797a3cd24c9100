-------------------------- MODULE AcpManagerProofs --------------------------
(***************************************************************************)
(* Proofs about AcpManager, for any number of sessions, goroutines, agent  *)
(* processes and turns, and any limit.                                     *)
(***************************************************************************)
EXTENDS AcpManager, FiniteSetTheorems, TLAPS

USE AcpManagerAssumption

-----------------------------------------------------------------------------
(* The inductive invariant.                                                *)

\* Where a goroutine is inside Run, and where it waits to get in.
Inside ==
  {"evictClose", "ensure", "ensured", "unslot", "started", "cancelling", "cancellingToClose",
   "closing", "clear", "leave"}

Queued == Ops \cup {"evictQueued"}

KeyKept == \A p \in Procs : pc[p] \in Inside \cup Queued => key[p] \in Sessions

\* The lock of a session is held by the one goroutine that is inside Run for it.
LockHeld ==
  /\ \A p \in Procs, s \in Sessions : p \in holders[s] <=> pc[p] \in Inside /\ key[p] = s
  /\ \A p, q \in Procs : pc[p] \in Inside /\ pc[q] \in Inside /\ key[p] = key[q] => p = q

\* pendingSessionInits counts the initializations that have a slot.
Slotted == {p \in Procs : pc[p] \in {"ensure", "ensured", "unslot"}}

SlotsCounted == MaxSessions > 0 => slots = Cardinality(Slotted)

Going(t) == phase[t] # "none"

\* A turn that is started but not registered is the only one of its session.
StartedIsAlone ==
  /\ \A t \in Turns : Going(t) => of[t] \in Sessions
  /\ \A p \in Procs : At(p, "started") =>
       /\ tn[p] \in Turns /\ phase[tn[p]] \in {"running", "ended"}
       /\ of[tn[p]] = key[p] /\ active[key[p]] = NoTurn

\* A handle belongs to one session, and a turn on it is a turn of that session.
HandlesDistinct ==
  /\ \A r, s \in Sessions : cache[r] = cache[s] /\ cache[r] # NoHandle => r = s
  /\ \A p \in Procs : At(p, "ensured") =>
       /\ h[p] \in Handles
       /\ \A s \in Sessions : cache[s] # h[p]
       /\ \A t \in Turns : on[t] # h[p]
       /\ \A q \in Procs : At(q, "ensured") /\ h[q] = h[p] => q = p
  /\ \A t \in Turns, s \in Sessions : Going(t) /\ on[t] = cache[s] /\ cache[s] # NoHandle => of[t] = s

\* Nobody caches anything for a session that is being initialized or closed.
CacheWhileInside ==
  \A p \in Procs :
    /\ pc[p] \in {"ensure", "ensured"} => cache[key[p]] = NoHandle
    /\ pc[p] = "clear" => cache[key[p]] \notin open

\* CloseSession has its turn cancelled, whichever it awaits, and no new one comes.
CancelledBeforeClosing ==
  \A p \in Procs, t \in Turns : Going(t) /\ of[t] = key[p] =>
    /\ pc[p] = "cancellingToClose" => tn[p] = t
    /\ pc[p] = "closing" => cancel[t] = "ok"

IInv ==
  /\ TypeOK /\ KeyKept /\ LockHeld
  /\ SlotsCounted /\ WithinLimit
  /\ StartedIsAlone /\ OneTurn
  /\ HandlesDistinct /\ CacheWhileInside /\ NoOrphanRuntime
  /\ CancelledBeforeClosing

-----------------------------------------------------------------------------
LEMMA TypeInit == Init => TypeOK /\ KeyKept
BY DEF Init, InitWith, TypeOK, KeyKept, Lock!Init, Registered, Locations, Ops, Evicting, Direct,
       Phases, Inside, Queued

LEMMA TypeStep == TypeOK /\ KeyKept /\ [Next]_vars => TypeOK'
<1> SUFFICES ASSUME TypeOK, KeyKept, Next PROVE TypeOK'
  BY DEF TypeOK, Registered, vars, lock, cached, turns
<1> USE DEF TypeOK, Registered, lock, cached, turns, At, Goto
<1>1. ASSUME NEW s \in Sessions, Idles(s) PROVE TypeOK'
  BY <1>1 DEF Idles
<1>2. ASSUME NEW p \in Procs, CollectIdle(p) PROVE TypeOK'
  BY <1>2 DEF CollectIdle, Locations
<1>3. ASSUME NEW p \in Procs, NEW s \in Sessions, EvictNext(p, s) PROVE TypeOK'
  BY <1>3 DEF EvictNext, Lock!Request, Locations
<1>4. ASSUME NEW p \in Procs, EvictTake(p) PROVE TypeOK'
  BY <1>4 DEF EvictTake, Lock!Grant, Locations, KeyKept, Queued
<1>5. ASSUME NEW p \in Procs, EvictClose(p) PROVE TypeOK'
  BY <1>5 DEF EvictClose, Lock!Release, Locations
<1>6. ASSUME NEW p \in Procs, NEW s \in Sessions, NEW o \in Ops, Enqueue(p, o, s) PROVE TypeOK'
  BY <1>6 DEF Enqueue, Lock!Request, Locations
<1>7. ASSUME NEW p \in Procs, InitializeNothing(p) PROVE TypeOK'
  BY <1>7 DEF InitializeNothing, Entered, Lock!Grant, Touch, Locations
<1>8. ASSUME NEW p \in Procs, AcquireSlot(p) PROVE TypeOK'
  <2>1. /\ Lock!Grant(p, key[p]) /\ slots' \in {slots, slots + 1} /\ pc' = [pc EXCEPT ![p] = "ensure"]
        /\ UNCHANGED <<key, cand, h, tn, cached, open, turns>>
    BY <1>8 DEF AcquireSlot, Entered
  <2>2. slots' \in Nat
    BY <2>1
  <2>3. pc' \in [Procs -> Locations]
    BY <2>1 DEF Locations
  <2>4. waiting' \in [Sessions -> SUBSET Procs] /\ holders' \in [Sessions -> SUBSET Procs]
    BY <2>1 DEF Lock!Grant
  <2> QED
    BY <2>1, <2>2, <2>3, <2>4
<1>9. ASSUME NEW p \in Procs, Ask(p) PROVE TypeOK'
  BY <1>9 DEF Ask, Entered, Lock!Grant, Touch, Locations
<1>10. ASSUME NEW p \in Procs, TurnRefused(p) PROVE TypeOK'
  BY <1>10 DEF TurnRefused, Entered, Lock!Grant, Touch, Locations
<1>11. ASSUME NEW p \in Procs, RunTurn(p) PROVE TypeOK'
  BY <1>11 DEF RunTurn, StartTurn, FreshTurns, Entered, Lock!Grant, Touch, Locations, Phases,
               KeyKept, Queued, Ops, Direct
<1>12. ASSUME NEW p \in Procs, CancelNothing(p) PROVE TypeOK'
  BY <1>12 DEF CancelNothing, Entered, Lock!Grant, Locations
<1>13. ASSUME NEW p \in Procs, CancelActive(p) PROVE TypeOK'
  BY <1>13 DEF CancelActive, Await, Entered, Lock!Grant, Locations, KeyKept, Queued, Ops, Evicting
<1>14. ASSUME NEW p \in Procs, Return(p) PROVE TypeOK'
  BY <1>14 DEF Return, Lock!Release, Locations
<1>15. ASSUME NEW p \in Procs, EnsureSession(p) PROVE TypeOK'
  BY <1>15 DEF EnsureSession, FreshHandles, Locations
<1>16. ASSUME NEW p \in Procs, CacheHandle(p) PROVE TypeOK'
  BY <1>16 DEF CacheHandle, Locations
<1>17. ASSUME NEW p \in Procs, ReleaseSlot(p) PROVE TypeOK'
  BY <1>17 DEF ReleaseSlot, Locations
<1>18. ASSUME NEW p \in Procs, RegisterTurn(p) PROVE TypeOK'
  BY <1>18 DEF RegisterTurn, Locations
<1>19. ASSUME NEW p \in Procs, Cancelled(p) PROVE TypeOK'
  BY <1>19 DEF Cancelled, Locations
<1>20. ASSUME NEW p \in Procs, CloseRuntime(p) PROVE TypeOK'
  BY <1>20 DEF CloseRuntime, Touch, Locations
<1>21. ASSUME NEW p \in Procs, ClearCache(p) PROVE TypeOK'
  BY <1>21 DEF ClearCache, Locations
<1>22. ASSUME NEW t \in Turns, TurnEnds(t) \/ CloseTracked(t) \/ Unregister(t) PROVE TypeOK'
  BY <1>22 DEF TurnEnds, CloseTracked, Unregister, Phases
<1>23. ASSUME NEW t \in Turns, CancelAnswers(t) PROVE TypeOK'
  BY <1>23 DEF CancelAnswers
<1> QED
  BY <1>1, <1>2, <1>3, <1>4, <1>5, <1>6, <1>7, <1>8, <1>9, <1>10, <1>11, <1>12, <1>13, <1>14,
     <1>15, <1>16, <1>17, <1>18, <1>19, <1>20, <1>21, <1>22, <1>23
     DEF Next, Step, Enter, Ops

-----------------------------------------------------------------------------
(* The lock.                                                               *)

\* What a step does to the locks, the locations and the keys, apart from the fields
\* of the manager.
Waits(p, s, l) ==
  /\ Lock!Request(p, s) /\ l \in Queued
  /\ key' = [key EXCEPT ![p] = s] /\ Goto(p, l)

Gets(p, l) ==
  /\ pc[p] \in Queued /\ Lock!Grant(p, key[p]) /\ l \in Inside
  /\ UNCHANGED key /\ Goto(p, l)

Moves(p, l) ==
  /\ pc[p] \in Inside /\ l \in Inside
  /\ UNCHANGED <<lock, key>> /\ Goto(p, l)

Leaves(p, l) ==
  /\ pc[p] \in Inside /\ Lock!Release(p, key[p]) /\ l \in {"out", "evict"}
  /\ key' = [key EXCEPT ![p] = NoSession] /\ Goto(p, l)

Evicts(p) ==
  /\ pc[p] \in {"out", "evict"}
  /\ UNCHANGED <<lock, key>> /\ (UNCHANGED pc \/ Goto(p, "evict"))

LEMMA LockSteps ==
  ASSUME TypeOK, Next
  PROVE  \/ UNCHANGED <<lock, key, pc>>
         \/ \E p \in Procs : \/ \E s \in Sessions, l \in Locations : Waits(p, s, l)
                             \/ \E l \in Locations : Gets(p, l) \/ Moves(p, l) \/ Leaves(p, l)
                             \/ Evicts(p)
<1> USE DEF At, Goto, lock, Inside, Queued, Locations, Ops, Evicting, Direct
<1> DEFINE P == \/ UNCHANGED <<lock, key, pc>>
                \/ \E p \in Procs : \/ \E s \in Sessions, l \in Locations : Waits(p, s, l)
                                    \/ \E l \in Locations : Gets(p, l) \/ Moves(p, l) \/ Leaves(p, l)
                                    \/ Evicts(p)
<1>1. ASSUME NEW s \in Sessions, Idles(s) PROVE P
  BY <1>1 DEF Idles
<1>2. ASSUME NEW t \in Turns, TurnEnds(t) \/ CloseTracked(t) \/ Unregister(t) \/ CancelAnswers(t)
      PROVE  P
  BY <1>2 DEF TurnEnds, CloseTracked, Unregister, CancelAnswers
<1>3. ASSUME NEW p \in Procs, CollectIdle(p) PROVE Evicts(p)
  BY <1>3 DEF CollectIdle, Evicts
<1>4. ASSUME NEW p \in Procs, NEW s \in Sessions, EvictNext(p, s)
      PROVE  Evicts(p) \/ Waits(p, s, "evictQueued")
  BY <1>4 DEF EvictNext, Evicts, Waits
<1>5. ASSUME NEW p \in Procs, NEW s \in Sessions, NEW o \in Ops, Enqueue(p, o, s)
      PROVE  Waits(p, s, o)
  BY <1>5 DEF Enqueue, Waits
<1>6. ASSUME NEW p \in Procs, EvictTake(p) \/ Enter(p)
      PROVE  \E l \in Inside : Gets(p, l)
  <2>1. CASE EvictTake(p)
    BY <2>1 DEF EvictTake, Gets
  <2>2. CASE InitializeNothing(p) \/ AcquireSlot(p) \/ Ask(p) \/ TurnRefused(p) \/ RunTurn(p)
    BY <2>2 DEF InitializeNothing, AcquireSlot, Ask, TurnRefused, RunTurn, Entered, Gets
  <2>3. CASE CancelNothing(p) \/ CancelActive(p)
    BY <2>3 DEF CancelNothing, CancelActive, Await, Entered, Gets
  <2> QED
    BY <1>6, <2>1, <2>2, <2>3 DEF Enter
<1>7. ASSUME NEW p \in Procs, EvictClose(p) \/ Return(p)
      PROVE  \E l \in {"out", "evict"} : Leaves(p, l)
  BY <1>7 DEF EvictClose, Return, Leaves
<1>8. ASSUME NEW p \in Procs,
             \/ EnsureSession(p) \/ CacheHandle(p) \/ ReleaseSlot(p) \/ RegisterTurn(p)
             \/ Cancelled(p) \/ CloseRuntime(p) \/ ClearCache(p)
      PROVE  \E l \in Inside : Moves(p, l)
  <2>1. CASE EnsureSession(p) \/ CacheHandle(p) \/ ReleaseSlot(p) \/ RegisterTurn(p)
    BY <2>1 DEF EnsureSession, CacheHandle, ReleaseSlot, RegisterTurn, Moves
  <2>2. CASE Cancelled(p) \/ CloseRuntime(p) \/ ClearCache(p)
    BY <2>2 DEF Cancelled, CloseRuntime, ClearCache, Moves
  <2> QED
    BY <1>8, <2>1, <2>2
<1> HIDE DEF Goto
<1> QED
  BY <1>1, <1>2, <1>3, <1>4, <1>5, <1>6, <1>7, <1>8 DEF Next, Step

LEMMA LockStep ==
  TypeOK /\ KeyKept /\ LockHeld /\ [Next]_vars => KeyKept' /\ LockHeld'
<1> SUFFICES ASSUME TypeOK, KeyKept, LockHeld, Next PROVE KeyKept' /\ LockHeld'
  BY DEF KeyKept, LockHeld, vars, lock
<1> USE DEF TypeOK, KeyKept, LockHeld, Goto, Inside, Queued, Ops, Evicting, Direct
<1>1. CASE UNCHANGED <<lock, key, pc>>
  BY <1>1 DEF lock
<1>2. ASSUME NEW p \in Procs, NEW s \in Sessions, NEW l \in Locations, Waits(p, s, l)
      PROVE  KeyKept' /\ LockHeld'
  BY <1>2 DEF Waits, Lock!Request, Lock!Uninvolved
<1>3. ASSUME NEW p \in Procs, NEW l \in Locations, Gets(p, l) PROVE KeyKept' /\ LockHeld'
  BY <1>3 DEF Gets, Lock!Grant
<1>4. ASSUME NEW p \in Procs, NEW l \in Locations, Moves(p, l) PROVE KeyKept' /\ LockHeld'
  BY <1>4 DEF Moves, lock
<1>5. ASSUME NEW p \in Procs, NEW l \in Locations, Leaves(p, l) PROVE KeyKept' /\ LockHeld'
  BY <1>5 DEF Leaves, Lock!Release
<1>6. ASSUME NEW p \in Procs, Evicts(p) PROVE KeyKept' /\ LockHeld'
  BY <1>6 DEF Evicts, lock
<1> QED
  BY <1>1, <1>2, <1>3, <1>4, <1>5, <1>6, LockSteps

-----------------------------------------------------------------------------
(* The limit.                                                              *)

LEMMA Sizes ==
  ASSUME TypeOK
  PROVE  /\ IsFiniteSet(Slotted) /\ IsFiniteSet(Initializing) /\ IsFiniteSet(Registered)
         /\ Cardinality(Slotted) \in Nat /\ Cardinality(Registered) \in Nat
         /\ Cardinality(Initializing) \in Nat /\ Cardinality(Initializing) <= Cardinality(Slotted)
<1>1. Slotted \subseteq Procs /\ Initializing \subseteq Slotted /\ Registered \subseteq Sessions
  BY DEF Slotted, Initializing, Registered
<1>2. IsFiniteSet(Slotted) /\ IsFiniteSet(Registered)
  BY <1>1, FS_Subset, AcpManagerAssumption
<1>3. IsFiniteSet(Initializing) /\ Cardinality(Initializing) <= Cardinality(Slotted)
  BY <1>1, <1>2, FS_Subset
<1> QED
  BY <1>2, <1>3, FS_CardinalityType

\* Whatever takes no part in an initialization registers nothing.
LEMMA LimitFrame ==
  ASSUME TypeOK, TypeOK', SlotsCounted, WithinLimit,
         UNCHANGED <<Slotted, Initializing, slots>>, Registered' \subseteq Registered
  PROVE  SlotsCounted' /\ WithinLimit'
<1>1. Cardinality(Registered') <= Cardinality(Registered)
  BY Sizes, FS_Subset
<1>2. Cardinality(Registered') \in Nat
  BY Sizes, FS_Subset, FS_CardinalityType
<1> QED
  BY <1>1, <1>2, Sizes DEF SlotsCounted, WithinLimit

LEMMA LimitStep ==
  TypeOK /\ SlotsCounted /\ WithinLimit /\ TypeOK' /\ [Next]_vars => SlotsCounted' /\ WithinLimit'
<1> SUFFICES ASSUME TypeOK, SlotsCounted, WithinLimit, TypeOK', Next
             PROVE  SlotsCounted' /\ WithinLimit'
  BY LimitFrame DEF vars, cached, Slotted, Initializing, Registered
<1> USE DEF At, Goto, cached, turns
<1> DEFINE Frame == /\ UNCHANGED <<Slotted, Initializing, slots>> /\ Registered' \subseteq Registered
<1>1. ASSUME NEW p \in Procs, AcquireSlot(p) PROVE SlotsCounted' /\ WithinLimit'
  <2>1. Slotted' = Slotted \cup {p} /\ Initializing' = Initializing \cup {p}
    BY <1>1 DEF AcquireSlot, Entered, TypeOK, Slotted, Initializing
  <2>2. p \notin Slotted /\ p \notin Initializing
    BY <1>1 DEF AcquireSlot, Entered, Slotted, Initializing
  <2>3. Registered' = Registered
    BY <1>1 DEF AcquireSlot, Registered
  <2>4. /\ Cardinality(Slotted') = Cardinality(Slotted) + 1
        /\ Cardinality(Initializing') = Cardinality(Initializing) + 1
    BY <2>1, <2>2, Sizes, FS_AddElement
  <2>5. MaxSessions > 0 => slots' = slots + 1 /\ Cardinality(Registered) + slots < MaxSessions
    BY <1>1 DEF AcquireSlot
  <2> QED
    BY <2>3, <2>4, <2>5, Sizes DEF SlotsCounted, WithinLimit
<1>2. ASSUME NEW p \in Procs, EnsureSession(p) PROVE SlotsCounted' /\ WithinLimit'
  <2>1. Slotted' = Slotted /\ Initializing' \subseteq Initializing /\ Registered' = Registered
    BY <1>2 DEF EnsureSession, TypeOK, Slotted, Initializing, Registered
  <2>2. Cardinality(Initializing') <= Cardinality(Initializing) /\ Cardinality(Initializing') \in Nat
    BY <2>1, Sizes, FS_Subset, FS_CardinalityType
  <2>3. slots' = slots
    BY <1>2 DEF EnsureSession
  <2> QED
    BY <2>1, <2>2, <2>3, Sizes DEF SlotsCounted, WithinLimit
<1>3. ASSUME NEW p \in Procs, CacheHandle(p) PROVE SlotsCounted' /\ WithinLimit'
  <2>1. Slotted' = Slotted /\ Initializing' = Initializing \ {p} /\ p \in Initializing
    BY <1>3 DEF CacheHandle, TypeOK, Slotted, Initializing
  <2>2. Registered' \subseteq Registered \cup {key[p]}
    BY <1>3 DEF CacheHandle, TypeOK, Registered
  <2>3. Cardinality(Initializing') = Cardinality(Initializing) - 1
    BY <2>1, Sizes, FS_RemoveElement
  <2>4. /\ IsFiniteSet(Registered \cup {key[p]})
        /\ Cardinality(Registered \cup {key[p]}) <= Cardinality(Registered) + 1
        /\ Cardinality(Registered \cup {key[p]}) \in Nat
    <3>1. /\ IsFiniteSet(Registered \cup {key[p]})
          /\ \/ Cardinality(Registered \cup {key[p]}) = Cardinality(Registered)
             \/ Cardinality(Registered \cup {key[p]}) = Cardinality(Registered) + 1
      BY Sizes, FS_AddElement
    <3> QED
      BY <3>1, Sizes
  <2>5. Cardinality(Registered') <= Cardinality(Registered) + 1 /\ Cardinality(Registered') \in Nat
    <3>1. Cardinality(Registered') <= Cardinality(Registered \cup {key[p]})
      BY <2>2, <2>4, FS_Subset
    <3>2. Cardinality(Registered') \in Nat
      BY <2>2, <2>4, FS_Subset, FS_CardinalityType
    <3> QED
      BY <3>1, <3>2, <2>4, Sizes
  <2>6. slots' = slots
    BY <1>3 DEF CacheHandle
  <2> QED
    BY <2>1, <2>3, <2>5, <2>6, Sizes DEF SlotsCounted, WithinLimit
<1>4. ASSUME NEW p \in Procs, ReleaseSlot(p) PROVE SlotsCounted' /\ WithinLimit'
  <2>1. /\ Slotted' = Slotted \ {p} /\ p \in Slotted
        /\ Initializing' = Initializing /\ Registered' = Registered
    BY <1>4 DEF ReleaseSlot, TypeOK, Slotted, Initializing, Registered
  <2>2. Cardinality(Slotted') = Cardinality(Slotted) - 1
    BY <2>1, Sizes, FS_RemoveElement
  <2>3. Cardinality(Slotted) > 0
    BY <2>1, Sizes, FS_EmptySet
  <2>4. MaxSessions > 0 => slots' = slots - 1
    BY <1>4, <2>3 DEF ReleaseSlot, SlotsCounted
  <2> QED
    BY <2>1, <2>2, <2>4, Sizes DEF SlotsCounted, WithinLimit
<1>5. ASSUME NEW s \in Sessions, Idles(s) PROVE Frame
  BY <1>5 DEF Idles, Slotted, Initializing, Registered
<1>6. ASSUME NEW t \in Turns, TurnEnds(t) \/ CloseTracked(t) \/ Unregister(t) \/ CancelAnswers(t)
      PROVE  Frame
  BY <1>6 DEF TurnEnds, CloseTracked, Unregister, CancelAnswers, Slotted, Initializing, Registered
<1>7. ASSUME NEW p \in Procs,
             \/ CollectIdle(p)
             \/ \E s \in Sessions : EvictNext(p, s) \/ \E o \in Ops : Enqueue(p, o, s)
             \/ EvictTake(p) \/ EvictClose(p) \/ Return(p)
      PROVE  Frame
  BY <1>7 DEF CollectIdle, EvictNext, Enqueue, EvictTake, EvictClose, Return, Ops, Evicting, Direct,
              TypeOK, Slotted, Initializing, Registered
<1>8. ASSUME NEW p \in Procs,
             \/ InitializeNothing(p) \/ Ask(p) \/ TurnRefused(p) \/ RunTurn(p)
             \/ CancelNothing(p) \/ CancelActive(p)
      PROVE  Frame
  <2>1. CASE InitializeNothing(p)
    BY <2>1 DEF InitializeNothing, Entered, Touch, TypeOK, Slotted, Initializing, Registered
  <2>2. CASE Ask(p) \/ TurnRefused(p) \/ RunTurn(p)
    BY <2>2 DEF Ask, TurnRefused, RunTurn, Entered, Touch, TypeOK, Slotted, Initializing, Registered
  <2>3. CASE CancelNothing(p) \/ CancelActive(p)
    BY <2>3 DEF CancelNothing, CancelActive, Await, Entered, TypeOK, Slotted, Initializing, Registered
  <2> QED
    BY <1>8, <2>1, <2>2, <2>3
<1>9. ASSUME NEW p \in Procs, RegisterTurn(p) \/ Cancelled(p) \/ CloseRuntime(p) \/ ClearCache(p)
      PROVE  Frame
  BY <1>9 DEF RegisterTurn, Cancelled, CloseRuntime, ClearCache, Touch,
              TypeOK, Slotted, Initializing, Registered
<1>10. Frame => SlotsCounted' /\ WithinLimit'
  BY LimitFrame
<1> QED
  BY <1>1, <1>2, <1>3, <1>4, <1>5, <1>6, <1>7, <1>8, <1>9, <1>10 DEF Next, Step, Enter, Ops

-----------------------------------------------------------------------------
(* One turn of a session.                                                  *)

\* Whatever neither starts, registers nor ends a turn.
TurnsKept ==
  /\ UNCHANGED <<active, phase, of>>
  /\ \A p \in Procs : pc'[p] = "started" <=> pc[p] = "started"
  /\ \A p \in Procs : pc[p] = "started" => tn'[p] = tn[p] /\ key'[p] = key[p]

LEMMA TurnsFrame ==
  ASSUME StartedIsAlone, OneTurn, TurnsKept PROVE StartedIsAlone' /\ OneTurn'
<1>1. StartedIsAlone'
  BY DEF StartedIsAlone, TurnsKept, Going, At
<1>2. OneTurn'
  BY DEF OneTurn, TurnsKept, At
<1> QED
  BY <1>1, <1>2

LEMMA MostKeepTurns ==
  ASSUME TypeOK, NEW p \in Procs,
         \/ CollectIdle(p)
         \/ \E s \in Sessions : EvictNext(p, s) \/ \E o \in Ops : Enqueue(p, o, s)
         \/ EvictTake(p) \/ EvictClose(p) \/ Return(p)
         \/ InitializeNothing(p) \/ AcquireSlot(p) \/ Ask(p) \/ TurnRefused(p)
         \/ CancelNothing(p) \/ CancelActive(p)
         \/ EnsureSession(p) \/ CacheHandle(p) \/ ReleaseSlot(p)
         \/ Cancelled(p) \/ CloseRuntime(p) \/ ClearCache(p)
  PROVE  TurnsKept
<1> USE DEF TypeOK, TurnsKept, At, Goto, Entered, turns
<1>1. CASE CollectIdle(p) \/ \E s \in Sessions : EvictNext(p, s) \/ \E o \in Ops : Enqueue(p, o, s)
  BY <1>1 DEF CollectIdle, EvictNext, Enqueue, Ops, Evicting, Direct
<1>2. CASE EvictTake(p) \/ EvictClose(p) \/ Return(p)
  BY <1>2 DEF EvictTake, EvictClose, Return
<1>3. CASE InitializeNothing(p) \/ AcquireSlot(p)
  <2>1. /\ UNCHANGED <<active, phase, of, tn, key>>
        /\ pc[p] = "initialize" /\ pc' \in {[pc EXCEPT ![p] = l] : l \in {"leave", "ensure"}}
    BY <1>3 DEF InitializeNothing, AcquireSlot
  <2> QED
    BY <2>1
<1>4. CASE Ask(p) \/ TurnRefused(p) \/ CancelNothing(p)
  BY <1>4 DEF Ask, TurnRefused, CancelNothing
<1>5. CASE CancelActive(p) \/ Cancelled(p)
  BY <1>5 DEF CancelActive, Await, Cancelled
<1>6. CASE EnsureSession(p) \/ CacheHandle(p) \/ ReleaseSlot(p) \/ CloseRuntime(p) \/ ClearCache(p)
  BY <1>6 DEF EnsureSession, CacheHandle, ReleaseSlot, CloseRuntime, ClearCache
<1> QED
  BY <1>1, <1>2, <1>3, <1>4, <1>5, <1>6

\* Nobody is inside Run for a session that another goroutine enters.
LEMMA EnteredAlone ==
  ASSUME KeyKept, LockHeld, NEW p \in Procs, NEW o \in Ops, Entered(p, o)
  PROVE  /\ key[p] \in Sessions
         /\ \A q \in Procs : pc[q] \in Inside => key[q] # key[p] /\ q # p
BY DEF Entered, At, Lock!Grant, KeyKept, LockHeld, Queued, Inside, Ops, Evicting, Direct

LEMMA TurnsStep ==
  /\ TypeOK /\ KeyKept /\ LockHeld /\ StartedIsAlone /\ OneTurn
  /\ [Next]_vars
  => StartedIsAlone' /\ OneTurn'
<1> SUFFICES ASSUME TypeOK, KeyKept, LockHeld, StartedIsAlone, OneTurn, Next
             PROVE  StartedIsAlone' /\ OneTurn'
  BY TurnsFrame DEF vars, turns, TurnsKept
<1> USE DEF At, Goto
<1>2. ASSUME NEW p \in Procs, RunTurn(p) PROVE StartedIsAlone' /\ OneTurn'
  <2>1. PICK t \in FreshTurns :
           /\ phase' = [phase EXCEPT ![t] = "running"] /\ of' = [of EXCEPT ![t] = key[p]]
           /\ tn' = [tn EXCEPT ![p] = t]
    BY <1>2 DEF RunTurn, StartTurn
  <2>2. /\ active[key[p]] = NoTurn /\ pc[p] = "turn" /\ pc' = [pc EXCEPT ![p] = "started"]
        /\ UNCHANGED <<key, active>>
    BY <1>2 DEF RunTurn, Entered
  <2>3. /\ t \in Turns /\ phase[t] = "none" /\ \A q \in Procs : tn[q] # t
    BY DEF FreshTurns
  <2>4. /\ key[p] \in Sessions
        /\ \A q \in Procs : pc[q] = "started" => key[q] # key[p] /\ q # p
    BY <1>2, EnteredAlone DEF RunTurn, Ops, Direct, Inside
  <2>5. StartedIsAlone'
    BY <2>1, <2>2, <2>3, <2>4 DEF StartedIsAlone, Going, TypeOK
  <2>6. OneTurn'
    <3> SUFFICES ASSUME NEW u \in Turns, phase'[u] # "none"
                 PROVE  \/ active'[of'[u]] = u
                        \/ \E q \in Procs : /\ pc'[q] = "started" /\ tn'[q] = u
                                           /\ key'[q] = of'[u] /\ active'[of'[u]] = NoTurn
      BY DEF OneTurn
    <3>1. CASE u = t
      BY <3>1, <2>1, <2>2, <2>3 DEF TypeOK
    <3>2. CASE u # t
      <4>1. phase[u] # "none" /\ of'[u] = of[u] /\ active' = active /\ key' = key
        BY <3>2, <2>1, <2>2, <2>3 DEF TypeOK
      <4>2. \A q \in Procs : pc[q] = "started" => pc'[q] = "started" /\ tn'[q] = tn[q]
        BY <2>1, <2>2, <2>3 DEF TypeOK
      <4> QED
        BY <4>1, <4>2 DEF OneTurn
    <3> QED
      BY <3>1, <3>2
  <2> QED
    BY <2>5, <2>6
<1>3. ASSUME NEW p \in Procs, RegisterTurn(p) PROVE StartedIsAlone' /\ OneTurn'
  <2>1. /\ pc[p] = "started" /\ pc' = [pc EXCEPT ![p] = "leave"]
        /\ active' = [active EXCEPT ![key[p]] = tn[p]]
        /\ tn' = [tn EXCEPT ![p] = NoTurn]
        /\ UNCHANGED <<key, phase, of>>
    BY <1>3 DEF RegisterTurn
  <2>2. /\ key[p] \in Sessions /\ tn[p] \in Turns
        /\ of[tn[p]] = key[p] /\ active[key[p]] = NoTurn
        /\ \A q \in Procs : pc[q] = "started" /\ q # p => key[q] # key[p]
    BY <2>1 DEF KeyKept, LockHeld, StartedIsAlone, Inside
  <2>3. StartedIsAlone'
    BY <2>1, <2>2 DEF StartedIsAlone, Going, TypeOK
  <2>4. OneTurn'
    <3> SUFFICES ASSUME NEW u \in Turns, phase[u] # "none"
                 PROVE  \/ active'[of[u]] = u
                        \/ \E q \in Procs : /\ pc'[q] = "started" /\ tn'[q] = u
                                           /\ key[q] = of[u] /\ active'[of[u]] = NoTurn
      BY <2>1 DEF OneTurn
    <3>1. of[u] \in Sessions
      BY DEF StartedIsAlone, Going
    <3>2. CASE of[u] = key[p]
      <4>1. u = tn[p]
        BY <3>2, <2>2 DEF OneTurn, TypeOK
      <4> QED
        BY <4>1, <3>2, <2>1, <2>2 DEF TypeOK
    <3>3. CASE of[u] # key[p]
      BY <3>1, <3>3, <2>1 DEF OneTurn, TypeOK
    <3> QED
      BY <3>2, <3>3
  <2> QED
    BY <2>3, <2>4
<1>4. ASSUME NEW t \in Turns, TurnEnds(t) \/ CloseTracked(t) PROVE StartedIsAlone' /\ OneTurn'
  <2>1. /\ UNCHANGED <<pc, key, tn, active, of>>
        /\ \A u \in Turns : phase'[u] # "none" => phase[u] # "none"
        /\ \A p \in Procs : pc[p] = "started" => phase'[tn[p]] \in {"running", "ended"}
    BY <1>4 DEF TurnEnds, CloseTracked, TypeOK, StartedIsAlone
  <2>2. StartedIsAlone'
    BY <2>1 DEF StartedIsAlone, Going
  <2>3. OneTurn'
    BY <2>1 DEF OneTurn
  <2> QED
    BY <2>2, <2>3
<1>5. ASSUME NEW t \in Turns, Unregister(t) PROVE StartedIsAlone' /\ OneTurn'
  <2>1. /\ phase[t] = "closed" /\ phase' = [phase EXCEPT ![t] = "none"]
        /\ active' = [active EXCEPT ![of[t]] = NoTurn] /\ of' = [of EXCEPT ![t] = NoSession]
        /\ UNCHANGED <<pc, key, tn>>
    BY <1>5 DEF Unregister
  <2>2. \A p \in Procs : pc[p] = "started" => tn[p] # t
    BY <2>1 DEF StartedIsAlone
  <2>3. active[of[t]] = t
    BY <2>1, <2>2 DEF OneTurn
  <2>4. StartedIsAlone'
    BY <2>1, <2>2 DEF StartedIsAlone, Going, TypeOK, KeyKept, Inside
  <2>5. OneTurn'
    <3> SUFFICES ASSUME NEW u \in Turns, phase'[u] # "none"
                 PROVE  \/ active'[of'[u]] = u
                        \/ \E q \in Procs : /\ pc[q] = "started" /\ tn[q] = u
                                           /\ key[q] = of'[u] /\ active'[of'[u]] = NoTurn
      BY <2>1 DEF OneTurn
    <3>1. u # t /\ phase[u] # "none" /\ of'[u] = of[u] /\ of[u] \in Sessions
      BY <2>1 DEF TypeOK, StartedIsAlone, Going
    <3> QED
      BY <3>1, <2>1, <2>3 DEF OneTurn, TypeOK
  <2> QED
    BY <2>4, <2>5
<1>6. (\E s \in Sessions : Idles(s)) \/ (\E t \in Turns : CancelAnswers(t)) => TurnsKept
  BY DEF Idles, CancelAnswers, TurnsKept, turns
<1> QED
  BY <1>2, <1>3, <1>4, <1>5, <1>6, TurnsFrame, MostKeepTurns DEF Next, Step, Enter, Ops

-----------------------------------------------------------------------------
(* Handles: distinct, none lost.                                           *)

Holding == {"ensure", "ensured", "clear", "evictClose"}

\* Whatever makes, hands over or closes no runtime, and starts no turn.
HandlesKept ==
  /\ UNCHANGED <<cache, open>>
  /\ \A p \in Procs : pc'[p] = pc[p] \/ (pc[p] \notin Holding /\ pc'[p] \notin Holding)
  /\ \A p \in Procs : pc[p] \in Holding => h'[p] = h[p] /\ key'[p] = key[p]
  /\ \A t \in Turns : on'[t] \in {on[t], NoHandle}
  /\ \A t \in Turns : phase'[t] # "none" => phase[t] # "none" /\ on'[t] = on[t] /\ of'[t] = of[t]

LEMMA HandlesFrame ==
  ASSUME HandlesDistinct, CacheWhileInside, NoOrphanRuntime, HandlesKept
  PROVE  HandlesDistinct' /\ CacheWhileInside' /\ NoOrphanRuntime'
<1> USE DEF HandlesKept, Holding, At, Going
<1>1. HandlesDistinct'
  BY DEF HandlesDistinct
<1>2. CacheWhileInside'
  BY DEF CacheWhileInside
<1>3. NoOrphanRuntime'
  BY DEF NoOrphanRuntime
<1> QED
  BY <1>1, <1>2, <1>3

LEMMA MostKeepHandles ==
  ASSUME TypeOK, NEW p \in Procs,
         \/ CollectIdle(p)
         \/ \E s \in Sessions : EvictNext(p, s) \/ \E o \in Ops : Enqueue(p, o, s)
         \/ Return(p) \/ InitializeNothing(p) \/ Ask(p) \/ TurnRefused(p)
         \/ CancelNothing(p) \/ CancelActive(p) \/ Cancelled(p)
         \/ ReleaseSlot(p) \/ RegisterTurn(p)
  PROVE  HandlesKept
<1> DEFINE Kept == /\ UNCHANGED <<cache, open, phase, on, of, h>>
                   /\ \A q \in Procs \ {p} : pc'[q] = pc[q] /\ key'[q] = key[q]
                   /\ pc[p] \notin Holding /\ pc'[p] \notin Holding
<1> SUFFICES Kept
  BY DEF HandlesKept
<1>1. CASE CollectIdle(p) \/ \E s \in Sessions : EvictNext(p, s) \/ \E o \in Ops : Enqueue(p, o, s)
  <2>1. UNCHANGED <<cache, open, phase, on, of, h>>
    BY <1>1 DEF CollectIdle, EvictNext, Enqueue, cached, turns
  <2>2. \A q \in Procs \ {p} : pc'[q] = pc[q] /\ key'[q] = key[q]
    BY <1>1 DEF CollectIdle, EvictNext, Enqueue, Goto, TypeOK
  <2>3. pc[p] \notin Holding /\ pc'[p] \notin Holding
    BY <1>1 DEF CollectIdle, EvictNext, Enqueue, At, Goto, TypeOK, Holding, Ops, Evicting, Direct
  <2> QED
    BY <2>1, <2>2, <2>3
<1>2. CASE Return(p) \/ ReleaseSlot(p) \/ RegisterTurn(p)
  BY <1>2 DEF Return, ReleaseSlot, RegisterTurn, cached, turns, At, Goto, TypeOK, Holding
<1>3. CASE InitializeNothing(p)
  <2>1. /\ UNCHANGED <<cache, open, h, key, on, phase, of>>
        /\ pc[p] = "initialize" /\ pc' = [pc EXCEPT ![p] = "leave"]
    BY <1>3 DEF InitializeNothing, Entered, Touch, At, Goto, turns
  <2> QED
    BY <2>1 DEF Holding, TypeOK
<1>4. CASE Ask(p) \/ TurnRefused(p)
  BY <1>4 DEF Ask, TurnRefused, Entered, Touch, turns, At, Goto, TypeOK, Holding
<1>5. CASE CancelNothing(p) \/ CancelActive(p) \/ Cancelled(p)
  BY <1>5 DEF CancelNothing, CancelActive, Await, Cancelled, Entered, cached, turns, At, Goto, TypeOK, Holding
<1> QED
  BY <1>1, <1>2, <1>3, <1>4, <1>5

LEMMA HandlesStep ==
  /\ TypeOK /\ KeyKept /\ LockHeld
  /\ HandlesDistinct /\ CacheWhileInside /\ NoOrphanRuntime
  /\ [Next]_vars
  => HandlesDistinct' /\ CacheWhileInside' /\ NoOrphanRuntime'
<1> DEFINE Goal == HandlesDistinct' /\ CacheWhileInside' /\ NoOrphanRuntime'
<1> SUFFICES ASSUME TypeOK, KeyKept, LockHeld, HandlesDistinct, CacheWhileInside, NoOrphanRuntime, Next
             PROVE  Goal
  BY HandlesFrame DEF vars, cached, turns, HandlesKept
<1> USE DEF At, Goto, Going, cached, turns
<1>1. ASSUME NEW p \in Procs, EvictTake(p) PROVE Goal
  <2>1. /\ key[p] \in Sessions /\ pc[p] = "evictQueued" /\ pc' = [pc EXCEPT ![p] = "evictClose"]
        /\ h' = [h EXCEPT ![p] = cache[key[p]]] /\ cache' = [cache EXCEPT ![key[p]] = NoHandle]
        /\ UNCHANGED <<key, open, phase, on, of>>
    BY <1>1 DEF EvictTake, KeyKept, Queued
  <2>2. HandlesDistinct'
    BY <2>1 DEF HandlesDistinct, TypeOK
  <2>3. CacheWhileInside'
    BY <2>1, AcpManagerAssumption DEF CacheWhileInside, TypeOK
  <2>4. NoOrphanRuntime'
    BY <2>1 DEF NoOrphanRuntime, TypeOK
  <2> QED
    BY <2>2, <2>3, <2>4
<1>2. ASSUME NEW p \in Procs, EvictClose(p) PROVE Goal
  <2>1. /\ pc[p] = "evictClose" /\ pc' = [pc EXCEPT ![p] = "evict"]
        /\ open' = open \ {h[p]} /\ h' = [h EXCEPT ![p] = NoHandle]
        /\ key' = [key EXCEPT ![p] = NoSession] /\ UNCHANGED <<cache, phase, on, of>>
    BY <1>2 DEF EvictClose
  <2>2. HandlesDistinct'
    BY <2>1 DEF HandlesDistinct, TypeOK
  <2>3. CacheWhileInside'
    BY <2>1 DEF CacheWhileInside, TypeOK
  <2>4. NoOrphanRuntime'
    BY <2>1 DEF NoOrphanRuntime, TypeOK
  <2> QED
    BY <2>2, <2>3, <2>4
<1>3. ASSUME NEW p \in Procs, AcquireSlot(p) PROVE Goal
  <2>1. /\ pc[p] = "initialize" /\ pc' = [pc EXCEPT ![p] = "ensure"] /\ cache[key[p]] = NoHandle
        /\ UNCHANGED <<key, h, cache, open, phase, on, of>>
    BY <1>3 DEF AcquireSlot, Entered
  <2>2. HandlesDistinct'
    BY <2>1 DEF HandlesDistinct, TypeOK
  <2>3. CacheWhileInside'
    BY <2>1 DEF CacheWhileInside, TypeOK
  <2>4. NoOrphanRuntime'
    BY <2>1 DEF NoOrphanRuntime, TypeOK
  <2> QED
    BY <2>2, <2>3, <2>4
<1>4. ASSUME NEW p \in Procs, EnsureSession(p) PROVE Goal
  <2>1. /\ pc[p] = "ensure" /\ UNCHANGED <<key, cache, phase, on, of>>
    BY <1>4 DEF EnsureSession
  <2>2. CASE Goto(p, "unslot") /\ UNCHANGED <<open, h>>
    <3>1. HandlesDistinct' /\ CacheWhileInside'
      BY <2>1, <2>2 DEF HandlesDistinct, CacheWhileInside, TypeOK
    <3>2. NoOrphanRuntime'
      BY <2>1, <2>2 DEF NoOrphanRuntime, TypeOK
    <3> QED
      BY <3>1, <3>2
  <2>3. ASSUME NEW x \in FreshHandles, open' = open \cup {x}, h' = [h EXCEPT ![p] = x], Goto(p, "ensured")
        PROVE  Goal
    <3>1. /\ x \in Handles /\ x \notin open
          /\ \A s \in Sessions : cache[s] # x
          /\ \A q \in Procs : h[q] # x
          /\ \A t \in Turns : on[t] # x
      BY DEF FreshHandles
    <3>2. HandlesDistinct'
      BY <2>1, <2>3, <3>1 DEF HandlesDistinct, TypeOK
    <3>3. CacheWhileInside'
      BY <2>1, <2>3, <3>1 DEF CacheWhileInside, TypeOK, KeyKept, Inside
    <3>4. NoOrphanRuntime'
      BY <2>1, <2>3, <3>1 DEF NoOrphanRuntime, TypeOK
    <3> QED
      BY <3>2, <3>3, <3>4
  <2> QED
    BY <1>4, <2>2, <2>3 DEF EnsureSession
<1>5. ASSUME NEW p \in Procs, CacheHandle(p) PROVE Goal
  <2>1. /\ key[p] \in Sessions /\ pc[p] = "ensured" /\ pc' = [pc EXCEPT ![p] = "unslot"]
        /\ cache' = [cache EXCEPT ![key[p]] = h[p]] /\ h' = [h EXCEPT ![p] = NoHandle]
        /\ UNCHANGED <<key, open, phase, on, of>>
    BY <1>5 DEF CacheHandle, KeyKept, Inside
  <2>2. /\ cache[key[p]] = NoHandle
        /\ \A q \in Procs : pc[q] \in Inside /\ q # p => key[q] # key[p]
    BY <2>1 DEF CacheWhileInside, LockHeld, Inside
  <2>3. HandlesDistinct'
    BY <2>1 DEF HandlesDistinct, TypeOK
  <2>4. CacheWhileInside'
    BY <2>1, <2>2 DEF CacheWhileInside, TypeOK, Inside
  <2>5. NoOrphanRuntime'
    BY <2>1, <2>2, AcpManagerAssumption DEF NoOrphanRuntime, TypeOK
  <2> QED
    BY <2>3, <2>4, <2>5
<1>6. ASSUME NEW p \in Procs, RunTurn(p) PROVE Goal
  <2>1. PICK t \in FreshTurns :
           /\ phase' = [phase EXCEPT ![t] = "running"]
           /\ on' = [on EXCEPT ![t] = cache[key[p]]] /\ of' = [of EXCEPT ![t] = key[p]]
    BY <1>6 DEF RunTurn, StartTurn
  <2>2. /\ pc[p] = "turn" /\ pc' = [pc EXCEPT ![p] = "started"] /\ key[p] \in Sessions
        /\ UNCHANGED <<key, h, cache, open>>
    BY <1>6 DEF RunTurn, Entered, Touch, KeyKept, Queued, Ops, Direct
  <2>3. t \in Turns
    BY DEF FreshTurns
  <2>4. HandlesDistinct'
    BY <2>1, <2>2, <2>3 DEF HandlesDistinct, TypeOK
  <2>5. CacheWhileInside'
    BY <2>2 DEF CacheWhileInside, TypeOK
  <2>6. NoOrphanRuntime'
    BY <2>2 DEF NoOrphanRuntime, TypeOK
  <2> QED
    BY <2>4, <2>5, <2>6
<1>7. ASSUME NEW p \in Procs, CloseRuntime(p) PROVE Goal
  <2>1. /\ pc[p] = "closing" /\ pc' \in {[pc EXCEPT ![p] = l] : l \in {"clear", "leave"}}
        /\ open' = open \ {cache[key[p]]}
        /\ UNCHANGED <<key, h, cache, phase, on, of>>
    BY <1>7 DEF CloseRuntime, Touch
  <2>2. HandlesDistinct'
    BY <2>1 DEF HandlesDistinct, TypeOK
  <2>3. CacheWhileInside'
    BY <2>1 DEF CacheWhileInside, TypeOK
  <2>4. NoOrphanRuntime'
    BY <2>1 DEF NoOrphanRuntime, TypeOK
  <2> QED
    BY <2>2, <2>3, <2>4
<1>8. ASSUME NEW p \in Procs, ClearCache(p) PROVE Goal
  <2>1. /\ pc[p] = "clear" /\ pc' = [pc EXCEPT ![p] = "leave"] /\ key[p] \in Sessions
        /\ cache' = [cache EXCEPT ![key[p]] = NoHandle]
        /\ UNCHANGED <<key, h, open, phase, on, of>>
    BY <1>8 DEF ClearCache, KeyKept, Inside
  <2>2. HandlesDistinct'
    BY <2>1 DEF HandlesDistinct, TypeOK
  <2>3. CacheWhileInside'
    BY <2>1, AcpManagerAssumption DEF CacheWhileInside, TypeOK
  <2>4. NoOrphanRuntime'
    BY <2>1 DEF NoOrphanRuntime, CacheWhileInside, TypeOK
  <2> QED
    BY <2>2, <2>3, <2>4
<1>9. ASSUME NEW t \in Turns, TurnEnds(t) \/ CloseTracked(t) \/ Unregister(t) \/ CancelAnswers(t)
      PROVE  HandlesKept
  BY <1>9 DEF TurnEnds, CloseTracked, Unregister, CancelAnswers, HandlesKept, Holding, TypeOK
<1>10. ASSUME NEW s \in Sessions, Idles(s) PROVE HandlesKept
  BY <1>10 DEF Idles, HandlesKept
<1> QED
  BY <1>1, <1>2, <1>3, <1>4, <1>5, <1>6, <1>7, <1>8, <1>9, <1>10, HandlesFrame, MostKeepHandles
     DEF Next, Step, Enter, Ops

-----------------------------------------------------------------------------
(* Closing a session.                                                      *)

ClosingLocations == {"cancellingToClose", "closing"}

\* Whatever starts no turn, waits for no cancellation and closes nothing.
ClosingKept ==
  /\ \A p \in Procs : pc'[p] \in ClosingLocations =>
       pc'[p] = pc[p] /\ key'[p] = key[p] /\ tn'[p] = tn[p]
  /\ \A t \in Turns : phase'[t] # "none" => phase[t] # "none" /\ of'[t] = of[t]
  /\ \A t \in Turns : cancel[t] = "ok" /\ phase'[t] # "none" => cancel'[t] = "ok"

LEMMA ClosingFrame ==
  ASSUME CancelledBeforeClosing, ClosingKept PROVE CancelledBeforeClosing'
BY DEF CancelledBeforeClosing, ClosingKept, ClosingLocations, Going

LEMMA MostKeepClosing ==
  ASSUME TypeOK, NEW p \in Procs,
         \/ CollectIdle(p)
         \/ \E s \in Sessions : EvictNext(p, s) \/ \E o \in Ops : Enqueue(p, o, s)
         \/ EvictTake(p) \/ EvictClose(p) \/ Return(p)
         \/ InitializeNothing(p) \/ AcquireSlot(p) \/ Ask(p) \/ TurnRefused(p)
         \/ EnsureSession(p) \/ CacheHandle(p) \/ ReleaseSlot(p) \/ RegisterTurn(p)
         \/ CloseRuntime(p) \/ ClearCache(p)
  PROVE  ClosingKept
<1> DEFINE Kept == /\ UNCHANGED <<phase, of, cancel>>
                   /\ \A q \in Procs \ {p} : pc'[q] = pc[q] /\ key'[q] = key[q] /\ tn'[q] = tn[q]
                   /\ pc'[p] \notin ClosingLocations
<1> SUFFICES Kept
  BY DEF ClosingKept
<1> USE DEF ClosingLocations, TypeOK, At, Goto, Entered, turns
<1>1. CASE CollectIdle(p) \/ \E s \in Sessions : EvictNext(p, s) \/ \E o \in Ops : Enqueue(p, o, s)
  BY <1>1 DEF CollectIdle, EvictNext, Enqueue, Ops, Evicting, Direct
<1>2. CASE EvictTake(p) \/ EvictClose(p) \/ Return(p)
  BY <1>2 DEF EvictTake, EvictClose, Return
<1>3. CASE InitializeNothing(p) \/ AcquireSlot(p)
  <2>1. /\ UNCHANGED <<phase, of, cancel, tn, key>>
        /\ \E l \in {"leave", "ensure"} : pc' = [pc EXCEPT ![p] = l]
    BY <1>3 DEF InitializeNothing, AcquireSlot
  <2> QED
    BY <2>1
<1>4. CASE Ask(p) \/ TurnRefused(p) \/ RegisterTurn(p)
  BY <1>4 DEF Ask, TurnRefused, RegisterTurn
<1>5. CASE EnsureSession(p) \/ CacheHandle(p) \/ ReleaseSlot(p) \/ CloseRuntime(p) \/ ClearCache(p)
  BY <1>5 DEF EnsureSession, CacheHandle, ReleaseSlot, CloseRuntime, ClearCache
<1> QED
  BY <1>1, <1>2, <1>3, <1>4, <1>5

\* A session that somebody enters has no turn but the registered one.
LEMMA EnteredKnowsTurns ==
  ASSUME KeyKept, LockHeld, OneTurn, NEW p \in Procs, NEW o \in Ops, Entered(p, o),
         NEW t \in Turns, Going(t), of[t] = key[p]
  PROVE  active[key[p]] = t
BY EnteredAlone DEF OneTurn, Going, At, Inside

LEMMA ClosingStep ==
  /\ TypeOK /\ KeyKept /\ LockHeld /\ StartedIsAlone /\ OneTurn /\ CancelledBeforeClosing
  /\ [Next]_vars
  => CancelledBeforeClosing'
<1> SUFFICES ASSUME TypeOK, KeyKept, LockHeld, StartedIsAlone, OneTurn, CancelledBeforeClosing, Next
             PROVE  CancelledBeforeClosing'
  BY ClosingFrame DEF vars, turns, ClosingKept
<1> USE DEF At, Goto, Going
<1>1. ASSUME NEW p \in Procs, RunTurn(p) PROVE CancelledBeforeClosing'
  <2>1. PICK t \in FreshTurns :
           /\ phase' = [phase EXCEPT ![t] = "running"] /\ of' = [of EXCEPT ![t] = key[p]]
           /\ tn' = [tn EXCEPT ![p] = t]
    BY <1>1 DEF RunTurn, StartTurn
  <2>2. pc' = [pc EXCEPT ![p] = "started"] /\ UNCHANGED <<key, cancel>>
    BY <1>1 DEF RunTurn
  <2>3. \A q \in Procs : pc[q] \in Inside => key[q] # key[p] /\ q # p
    BY <1>1, EnteredAlone DEF RunTurn, Ops, Direct
  <2> QED
    BY <2>1, <2>2, <2>3 DEF CancelledBeforeClosing, TypeOK, Inside, FreshTurns
<1>2. ASSUME NEW p \in Procs, CancelNothing(p) PROVE CancelledBeforeClosing'
  <2>1. /\ pc' \in {[pc EXCEPT ![p] = l] : l \in {"leave", "closing"}}
        /\ active[key[p]] = NoTurn /\ UNCHANGED <<key, tn, phase, of, cancel>>
    BY <1>2 DEF CancelNothing, turns
  <2>2. \A t \in Turns : Going(t) => of[t] # key[p]
    BY <1>2, <2>1, EnteredKnowsTurns, AcpManagerAssumption DEF CancelNothing, Ops, Evicting
  <2> QED
    BY <2>1, <2>2 DEF CancelledBeforeClosing, TypeOK
<1>3. ASSUME NEW p \in Procs, CancelActive(p) PROVE CancelledBeforeClosing'
  <2>1. /\ pc' \in {[pc EXCEPT ![p] = l] : l \in {"cancelling", "cancellingToClose"}}
        /\ tn' = [tn EXCEPT ![p] = active[key[p]]]
        /\ UNCHANGED <<key, phase, of>>
    BY <1>3 DEF CancelActive, Await
  <2>2. \A t \in Turns : cancel[t] = "ok" => cancel'[t] = "ok"
    BY <1>3 DEF CancelActive, TypeOK
  <2>3. \A t \in Turns : Going(t) /\ of[t] = key[p] => active[key[p]] = t
    BY <1>3, EnteredKnowsTurns DEF CancelActive, Await, Ops, Evicting
  <2> QED
    BY <2>1, <2>2, <2>3 DEF CancelledBeforeClosing, TypeOK
<1>4. ASSUME NEW p \in Procs, Cancelled(p) PROVE CancelledBeforeClosing'
  <2>1. /\ \/ pc' = [pc EXCEPT ![p] = "leave"]
           \/ /\ pc' = [pc EXCEPT ![p] = "closing"]
              /\ pc[p] = "cancellingToClose" /\ cancel[tn[p]] = "ok"
        /\ tn' = [tn EXCEPT ![p] = NoTurn] /\ UNCHANGED <<key, phase, of>>
    BY <1>4 DEF Cancelled
  <2>2. \A t \in Turns : Going(t) => cancel'[t] = cancel[t]
    BY <1>4 DEF Cancelled, TypeOK
  <2> QED
    BY <2>1, <2>2 DEF CancelledBeforeClosing, TypeOK
<1>5. ASSUME NEW t \in Turns, TurnEnds(t) \/ CloseTracked(t) \/ CancelAnswers(t) PROVE ClosingKept
  BY <1>5 DEF TurnEnds, CloseTracked, CancelAnswers, ClosingKept, TypeOK
<1>6. ASSUME NEW t \in Turns, Unregister(t) PROVE ClosingKept
  <2>1. /\ UNCHANGED <<pc, key, tn>> /\ phase' = [phase EXCEPT ![t] = "none"]
        /\ of' = [of EXCEPT ![t] = NoSession]
        /\ \A u \in Turns \ {t} : cancel'[u] = cancel[u]
    BY <1>6 DEF Unregister, TypeOK
  <2> QED
    BY <2>1 DEF ClosingKept, TypeOK
<1>7. ASSUME NEW s \in Sessions, Idles(s) PROVE ClosingKept
  BY <1>7 DEF Idles, ClosingKept, turns
<1> QED
  BY <1>1, <1>2, <1>3, <1>4, <1>5, <1>6, <1>7, ClosingFrame, MostKeepClosing DEF Next, Step, Enter, Ops

-----------------------------------------------------------------------------
(* The theorems.                                                           *)

LEMMA InitInv == Init => IInv
<1> SUFFICES ASSUME Init PROVE IInv
  OBVIOUS
<1> USE DEF Init, InitWith
<1>1. TypeOK /\ KeyKept
  BY TypeInit
<1>2. LockHeld /\ StartedIsAlone /\ OneTurn /\ HandlesDistinct /\ CacheWhileInside /\ CancelledBeforeClosing
  BY DEF Lock!Init, LockHeld, Inside, StartedIsAlone, OneTurn, HandlesDistinct, CacheWhileInside,
         CancelledBeforeClosing, Going, At
<1>3. NoOrphanRuntime
  BY DEF NoOrphanRuntime
<1>4. Slotted = {} /\ Initializing = {} /\ Registered = {}
  BY DEF Slotted, Initializing, Registered
<1>5. SlotsCounted /\ WithinLimit
  BY <1>4, FS_EmptySet, AcpManagerAssumption DEF SlotsCounted, WithinLimit
<1> QED
  BY <1>1, <1>2, <1>3, <1>5 DEF IInv

LEMMA NextInv == IInv /\ [Next]_vars => IInv'
<1> SUFFICES ASSUME IInv, [Next]_vars PROVE IInv'
  OBVIOUS
<1>1. TypeOK' /\ KeyKept' /\ LockHeld'
  BY TypeStep, LockStep DEF IInv
<1>2. SlotsCounted' /\ WithinLimit'
  BY <1>1, LimitStep DEF IInv
<1>3. StartedIsAlone' /\ OneTurn'
  BY TurnsStep DEF IInv
<1>4. HandlesDistinct' /\ CacheWhileInside' /\ NoOrphanRuntime'
  BY HandlesStep DEF IInv
<1>5. CancelledBeforeClosing'
  BY ClosingStep DEF IInv
<1> QED
  BY <1>1, <1>2, <1>3, <1>4, <1>5 DEF IInv

\* Every reachable state satisfies the inductive invariant.
THEOREM Invariance == Spec => []IInv
BY InitInv, NextInv, PTL DEF Spec

\* The variables have their types; in particular the idle sessions are cached ones,
\* and pendingSessionInits does not go below zero.
THEOREM TypeCorrect == Spec => []TypeOK
<1>1. IInv => TypeOK
  BY DEF IInv
<1> QED
  BY <1>1, Invariance, PTL

\* acp.max_concurrent_sessions is respected, however many initializations overlap
\* (acquireSessionInitSlot).
THEOREM LimitRespected == Spec => []WithinLimit
<1>1. IInv => WithinLimit
  BY DEF IInv
<1> QED
  BY <1>1, Invariance, PTL

\* A session has one turn at a time, which cancellations find (RunTrackedTurn).
THEOREM TurnsSerialized == Spec => []OneTurn
<1>1. IInv => OneTurn
  BY DEF IInv
<1> QED
  BY <1>1, Invariance, PTL

\* No agent process is left behind by initialization, eviction or closing.
THEOREM RuntimesOwned == Spec => []NoOrphanRuntime
<1>1. IInv => NoOrphanRuntime
  BY DEF IInv
<1> QED
  BY <1>1, Invariance, PTL

\* CloseSession closes no runtime under a turn that it has not cancelled.
THEOREM ClosesCancelled == Spec => CloseCancelsFirst
<1> DEFINE A == \A p \in Procs, t \in Turns :
                  pc[p] \in {"close", "closing"} /\ pc'[p] # pc[p] /\ phase[t] = "running" /\ on[t] \in open
                    => on[t] \in open' \/ cancel[t] = "ok"
<1>1. ASSUME IInv, Next PROVE A
  <2> SUFFICES ASSUME NEW p \in Procs, NEW t \in Turns,
                      pc[p] \in {"close", "closing"}, pc'[p] # pc[p],
                      phase[t] = "running", on[t] \in open, on[t] \notin open'
               PROVE  cancel[t] = "ok"
    OBVIOUS
  <2>1. ASSUME NEW q \in Procs, EvictClose(q) PROVE FALSE
    BY <1>1, <2>1 DEF EvictClose, At, Goto, IInv, TypeOK
  <2>2. ASSUME NEW q \in Procs, CloseRuntime(q) PROVE cancel[t] = "ok"
    <3>1. q = p /\ open' = open \ {cache[key[q]]} /\ pc[q] = "closing"
      <4>1. pc \in [Procs -> Locations]
        BY <1>1 DEF IInv, TypeOK
      <4>2. pc[q] = "closing" /\ open' = open \ {cache[key[q]]}
        BY <2>2 DEF CloseRuntime, At
      <4>3. pc' = [pc EXCEPT ![q] = "clear"] \/ pc' = [pc EXCEPT ![q] = "leave"]
        BY <2>2 DEF CloseRuntime, Goto
      <4> QED
        BY <4>1, <4>2, <4>3
    <3>2. key[p] \in Sessions /\ on[t] = cache[key[p]]
      BY <1>1, <3>1 DEF IInv, KeyKept, Inside
    <3>3. on[t] # NoHandle
      BY <1>1 DEF IInv, TypeOK
    <3>4. Going(t)
      BY DEF Going
    <3>5. of[t] = key[p]
      BY <1>1, <3>2, <3>3, <3>4 DEF IInv, HandlesDistinct
    <3> QED
      BY <1>1, <3>1, <3>4, <3>5 DEF IInv, CancelledBeforeClosing
  <2>3. ASSUME NEW s \in Sessions, Idles(s) PROVE FALSE
    BY <2>3 DEF Idles
  <2>4. ASSUME NEW u \in Turns, TurnEnds(u) \/ CloseTracked(u) \/ Unregister(u) \/ CancelAnswers(u)
        PROVE  FALSE
    BY <2>4 DEF TurnEnds, CloseTracked, Unregister, CancelAnswers
  <2>5. ASSUME NEW q \in Procs,
               \/ CollectIdle(q)
               \/ \E s \in Sessions : EvictNext(q, s) \/ \E o \in Ops : Enqueue(q, o, s)
               \/ EvictTake(q) \/ Enter(q) \/ Return(q)
               \/ EnsureSession(q) \/ CacheHandle(q) \/ ReleaseSlot(q) \/ RegisterTurn(q)
               \/ Cancelled(q) \/ ClearCache(q)
        PROVE  FALSE
    <3>1. open \subseteq open'
      BY <2>5 DEF CollectIdle, EvictNext, Enqueue, EvictTake, Enter, Return,
                  InitializeNothing, AcquireSlot, Ask, TurnRefused, RunTurn, CancelNothing, CancelActive,
                  EnsureSession, CacheHandle, ReleaseSlot, RegisterTurn, Cancelled, ClearCache
    <3> QED
      BY <3>1
  <2> QED
    BY <1>1, <2>1, <2>2, <2>3, <2>4, <2>5 DEF Next, Step, Ops
<1>2. IInv /\ [Next]_vars => [A]_vars
  BY <1>1
<1> QED
  BY <1>2, Invariance, PTL DEF Spec, CloseCancelsFirst
=============================================================================
