-------------------------- MODULE SubagentsProofs --------------------------
(***************************************************************************)
(* Proofs about Subagents, for any number of messages, subagents and       *)
(* workers: the pending count is exact, no result is lost, and a run that  *)
(* waits has something to wait for.                                        *)
(***************************************************************************)
EXTENDS Subagents, Functions, FiniteSetTheorems, TLAPS

USE SubagentsAssumption

-----------------------------------------------------------------------------
(* The inductive invariant.                                                *)

\* What is in a follow-up queue has ended, was not taken, and was spawned by a
\* run of that session: no result is in two queues.
QueuesHoldResults ==
  \A k \in Keys : \A t \in queue[k] :
    pc[t] = "over" /\ taker[t] = NoRun /\ parent[t] \in Runs /\ key[parent[t]] = k

\* A subagent has a parent from its spawn on, is counted only if it was started, and
\* is taken only after its announcement.
LifeOfSubagents ==
  \A t \in Subs :
    /\ pc[t] = "new" => parent[t] = NoRun
    /\ pc[t] # "new" => parent[t] \in Runs
    /\ pc[t] \in {"new", "failed"} => t \notin counted
    /\ pc[t] # "over" => taker[t] = NoRun

\* Nothing but its completion removes the record of a subagent.
RecordsOutlive ==
  ~EarlyArchive => \A t \in Subs : pc[t] \in Looping \cup Ended => t \in registry

\* A message that has not been taken off the bus has spawned nothing.
NewHasNothing ==
  \A r \in Messages : pc[r] = "new" => \A t \in Subs : parent[t] # r

\* A run that ended by itself has nothing pending.
FinishedHasNone == \A r \in Messages : pc[r] = "finished" => pending[r] <= 0

\* With one worker, one run at a time takes results, so those of its own subagents
\* are not taken by another.
OneAtATime ==
  /\ IsFiniteSet(Handled)
  /\ Workers = 1 => \A r1, r2 \in Handled : r1 = r2
  /\ Workers = 1 => \A r \in Handled : \A t \in Subs : parent[t] = r => taker[t] \in {NoRun, r}

Structure ==
  /\ TypeOK /\ QueuesHoldResults /\ LifeOfSubagents /\ RecordsOutlive
  /\ NewHasNothing /\ FinishedHasNone

IInv == Structure /\ OneAtATime /\ Accounting /\ NoResultLost

-----------------------------------------------------------------------------
(* Sizes of finite sets.                                                   *)

\* The size of a union of two disjoint sets.
LEMMA CardinalityOfUnion ==
  ASSUME NEW A, NEW B, IsFiniteSet(A), IsFiniteSet(B), A \cap B = {}
  PROVE  Cardinality(A \cup B) = Cardinality(A) + Cardinality(B)
<1>1. Cardinality(A \cup B) = Cardinality(A) + Cardinality(B) - Cardinality(A \cap B)
  BY FS_Union
<1>2. Cardinality(A \cap B) = 0
  BY FS_EmptySet
<1>3. Cardinality(A) \in Nat /\ Cardinality(B) \in Nat
  BY FS_CardinalityType
<1>. QED  BY <1>1, <1>2, <1>3

\* What a run spawned or took is finite.
LEMMA SubsFinite == \A S \in SUBSET Subs : IsFiniteSet(S) /\ Cardinality(S) \in Nat
BY FS_Subset, FS_CardinalityType

-----------------------------------------------------------------------------
(* The steps of the system, as far as the invariant tells them apart.      *)

\* A step of runLoop that touches its own counters only, with or without an end.
LoopStep(r) ==
  /\ pc[r] \in Looping
  /\ \E l \in Looping \cup Ended :
       /\ pc' = [pc EXCEPT ![r] = l]
       /\ l = "finished" => pending[r] <= 0
  /\ calls' \in [Runs -> 0..MaxIterations]
  /\ fails' \in [Runs -> 0..MaxToolFailures]
  /\ UNCHANGED <<key, pending, parent, counted, registry, queue, taker>>

\* Counters stay within their limits.
LEMMA CountersBounded ==
  ASSUME TypeOK, NEW r \in Runs
  PROVE  /\ ~AtLimit(r) => [calls EXCEPT ![r] = @ + 1] \in [Runs -> 0..MaxIterations]
         /\ Fail(r) => fails' \in [Runs -> 0..MaxToolFailures]
         /\ [calls EXCEPT ![r] = 0] \in [Runs -> 0..MaxIterations]
         /\ [fails EXCEPT ![r] = 0] \in [Runs -> 0..MaxToolFailures]
<1>1. ~AtLimit(r) => [calls EXCEPT ![r] = @ + 1] \in [Runs -> 0..MaxIterations]
  <2> HAVE ~AtLimit(r)
  <2>1. calls[r] \in 0..MaxIterations /\ ~(calls[r] >= MaxIterations)
    BY DEF AtLimit, TypeOK
  <2>2. calls[r] + 1 \in 0..MaxIterations
    BY <2>1
  <2>. QED  BY <2>2 DEF TypeOK
<1>2. Fail(r) => fails' \in [Runs -> 0..MaxToolFailures]
  <2>1. (IF fails[r] < MaxToolFailures THEN fails[r] + 1 ELSE fails[r]) \in 0..MaxToolFailures
    BY DEF TypeOK
  <2>. QED  BY <2>1 DEF TypeOK, Fail
<1>3. /\ [calls EXCEPT ![r] = 0] \in [Runs -> 0..MaxIterations]
      /\ [fails EXCEPT ![r] = 0] \in [Runs -> 0..MaxToolFailures]
  BY DEF TypeOK
<1>. QED  BY <1>1, <1>2, <1>3

\* What a step can be.
LEMMA StepCases ==
  ASSUME TypeOK, [Next]_vars
  PROVE  \/ UNCHANGED vars
         \/ \E r \in Messages : HandleInboundMessage(r)
         \/ \E r \in Runs : LoopStep(r) \/ TakeFollowUps(r)
         \/ \E r \in Runs, t \in Subs : SpawnFails(r, t) \/ \E inTime \in BOOLEAN : SpawnSubagent(r, t, inTime)
         \/ \E t \in Subs : MarkCompleted(t) \/ Sweep(t) \/ \E delete \in BOOLEAN : Announce(t, delete)
<1>1. ASSUME NEW r \in Runs, FinalReflection(r) PROVE LoopStep(r)
  BY <1>1, CountersBounded DEF FinalReflection, Return, Goto, LoopStep, Looping, Ended
<1>2. ASSUME NEW r \in Runs, CallLLM(r) PROVE LoopStep(r)
  <2>1. calls' \in [Runs -> 0..MaxIterations]
    BY <1>2, CountersBounded DEF CallLLM
  <2>2. fails' \in [Runs -> 0..MaxToolFailures]
    BY <1>2 DEF CallLLM, TypeOK
  <2>. QED  BY <1>2, <2>1, <2>2 DEF CallLLM, Goto, LoopStep, Looping, Ended
<1>3. ASSUME NEW r \in Runs, CallFails(r) PROVE LoopStep(r)
  BY <1>3, CountersBounded DEF CallFails, Return, Goto, LoopStep, Looping, Ended
<1>4. ASSUME NEW r \in Runs, OtherToolFails(r) PROVE LoopStep(r)
  <2>1. pc' = [pc EXCEPT ![r] = "tools"]
    BY <1>4 DEF OtherToolFails, TypeOK
  <2>2. calls' \in [Runs -> 0..MaxIterations] /\ fails' \in [Runs -> 0..MaxToolFailures]
    BY <1>4, CountersBounded DEF OtherToolFails, TypeOK
  <2>. QED  BY <1>4, <2>1, <2>2 DEF OtherToolFails, LoopStep, Looping, Ended
<1>5. ASSUME NEW r \in Runs, ToolsDone(r) PROVE LoopStep(r)
  BY <1>5 DEF ToolsDone, Goto, LoopStep, Looping, Ended, loop, TypeOK
<1>6. ASSUME NEW r \in Runs, Finish(r) PROVE LoopStep(r)
  BY <1>6, CountersBounded DEF Finish, Return, Goto, LoopStep, Looping, Ended
<1>7. ASSUME NEW t \in Subs, TimeOut(t) PROVE t \in Runs /\ LoopStep(t)
  BY <1>7, CountersBounded DEF TimeOut, Return, Goto, LoopStep, Looping, Ended, Runs
<1>8. CASE Next
  BY <1>8, <1>1, <1>2, <1>3, <1>4, <1>5, <1>6, <1>7, Zenon DEF Next, RunLoop, Completion
<1>. QED  BY <1>8

-----------------------------------------------------------------------------
(* The structural part of the invariant.                                   *)

LEMMA InitStructure == Init => Structure
<1> SUFFICES ASSUME Init PROVE Structure
  OBVIOUS
<1>1. TypeOK
  <2>1. key \in [Runs -> Keys]
    BY DEF Init, Keys, Runs
  <2>. QED  BY <2>1 DEF Init, TypeOK
<1>2. QueuesHoldResults /\ LifeOfSubagents /\ RecordsOutlive /\ NewHasNothing /\ FinishedHasNone
  BY DEF Init, QueuesHoldResults, LifeOfSubagents, RecordsOutlive, NewHasNothing, FinishedHasNone,
         Runs, Looping, Ended
<1>. QED  BY <1>1, <1>2 DEF Structure

\* What is polled by a run of the manager is the queue of its session.
LEMMA TakesFromItsQueue ==
  ASSUME NEW r \in Runs, TakeFollowUps(r)
  PROVE  r \in Messages /\ FollowUps(r) = queue[key[r]]
BY DEF TakeFollowUps, FollowUps

LEMMA NextStructure == Structure /\ [Next]_vars => Structure'
<1> SUFFICES ASSUME Structure, [Next]_vars PROVE Structure'
  OBVIOUS
<1> USE DEF Structure, Runs, Looping, Ended
<1>1. CASE UNCHANGED vars
  BY <1>1 DEF vars, loop, TypeOK, QueuesHoldResults, LifeOfSubagents, RecordsOutlive, NewHasNothing,
              FinishedHasNone
<1>2. ASSUME NEW r \in Messages, HandleInboundMessage(r) PROVE Structure'
  <2> USE <1>2 DEF HandleInboundMessage, Goto, loop
  <2>1. TypeOK'
    BY DEF TypeOK
  <2>2. QueuesHoldResults'
    BY DEF QueuesHoldResults, TypeOK
  <2>3. LifeOfSubagents' /\ RecordsOutlive'
    BY DEF LifeOfSubagents, RecordsOutlive, TypeOK
  <2>4. NewHasNothing' /\ FinishedHasNone'
    BY DEF NewHasNothing, FinishedHasNone, TypeOK
  <2>. QED  BY <2>1, <2>2, <2>3, <2>4
<1>3. ASSUME NEW r \in Runs, LoopStep(r) PROVE Structure'
  <2> PICK l \in Looping \cup Ended :
        pc' = [pc EXCEPT ![r] = l] /\ (l = "finished" => pending[r] <= 0)
    BY <1>3 DEF LoopStep
  <2> USE <1>3 DEF LoopStep
  <2>1. TypeOK'
    BY DEF TypeOK
  <2>2. QueuesHoldResults'
    BY DEF QueuesHoldResults, TypeOK
  <2>3. LifeOfSubagents' /\ RecordsOutlive'
    BY DEF LifeOfSubagents, RecordsOutlive, TypeOK
  <2>4. NewHasNothing' /\ FinishedHasNone'
    BY DEF NewHasNothing, FinishedHasNone, TypeOK
  <2>. QED  BY <2>1, <2>2, <2>3, <2>4
<1>4. ASSUME NEW r \in Runs, TakeFollowUps(r) PROVE Structure'
  <2> DEFINE Q == queue[key[r]]
  <2>0. /\ r \in Messages /\ pc[r] = "outer" /\ pc' = [pc EXCEPT ![r] = "llm"]
        /\ pending' = [pending EXCEPT ![r] = @ - Cardinality(Q)]
        /\ taker' = [t \in Subs |-> IF t \in Q THEN r ELSE taker[t]]
        /\ queue' = [queue EXCEPT ![key[r]] = {}]
        /\ UNCHANGED <<key, calls, fails, parent, counted, registry>>
    BY <1>4, TakesFromItsQueue DEF TakeFollowUps, Goto, loop
  <2>1. Q \in SUBSET Subs /\ Cardinality(Q) \in Nat /\ key[r] \in Keys
    BY SubsFinite DEF TypeOK
  <2> HIDE DEF Q
  <2>2. TypeOK'
    BY <2>0, <2>1 DEF TypeOK
  <2>3. QueuesHoldResults'
    <3> SUFFICES ASSUME NEW k \in Keys, NEW t \in queue'[k]
                 PROVE  pc'[t] = "over" /\ taker'[t] = NoRun /\ parent'[t] \in Runs /\ key'[parent'[t]] = k
      BY DEF QueuesHoldResults
    <3>1. k # key[r] /\ t \in queue[k] /\ t \in Subs
      BY <2>0, <2>1 DEF TypeOK
    <3>2. pc[t] = "over" /\ taker[t] = NoRun /\ parent[t] \in Runs /\ key[parent[t]] = k
      BY <3>1 DEF QueuesHoldResults
    <3>3. t \notin Q
      BY <3>1, <3>2, <2>1 DEF QueuesHoldResults, Q
    <3>. QED  BY <2>0, <3>1, <3>2, <3>3 DEF TypeOK
  <2>4. LifeOfSubagents'
    <3>1. \A t \in Q : pc[t] = "over"
      BY <2>1 DEF QueuesHoldResults, Q
    <3>. QED  BY <2>0, <2>1, <3>1 DEF LifeOfSubagents, TypeOK
  <2>5. RecordsOutlive' /\ NewHasNothing'
    BY <2>0 DEF RecordsOutlive, NewHasNothing, TypeOK
  <2>6. FinishedHasNone'
    BY <2>0 DEF FinishedHasNone, TypeOK
  <2>. QED  BY <2>2, <2>3, <2>4, <2>5, <2>6
<1>5. ASSUME NEW r \in Runs, NEW t \in Subs, SpawnFails(r, t) PROVE Structure'
  <2> USE <1>5 DEF SpawnFails, Goto, loop
  <2>1. TypeOK'
    BY DEF TypeOK
  <2>2. QueuesHoldResults'
    BY DEF QueuesHoldResults, TypeOK
  <2>3. LifeOfSubagents' /\ RecordsOutlive'
    BY DEF LifeOfSubagents, RecordsOutlive, TypeOK
  <2>4. NewHasNothing' /\ FinishedHasNone'
    BY DEF NewHasNothing, FinishedHasNone, TypeOK
  <2>. QED  BY <2>1, <2>2, <2>3, <2>4
<1>6. ASSUME NEW r \in Runs, NEW t \in Subs, NEW inTime \in BOOLEAN, SpawnSubagent(r, t, inTime)
      PROVE Structure'
  <2> USE <1>6 DEF SpawnSubagent
  <2>0. /\ fails' \in [Runs -> 0..MaxToolFailures]
        /\ pending' \in [Runs -> Int] /\ counted' \in SUBSET Subs
        /\ \A q \in Runs \ {r} : pending'[q] = pending[q]
        /\ counted \subseteq counted' /\ counted' \subseteq counted \cup {t}
    BY CountersBounded DEF TypeOK
  <2>1. TypeOK'
    BY <2>0 DEF TypeOK
  <2>2. QueuesHoldResults'
    BY DEF QueuesHoldResults, TypeOK
  <2>3. LifeOfSubagents' /\ RecordsOutlive'
    BY <2>0 DEF LifeOfSubagents, RecordsOutlive, TypeOK
  <2>4. NewHasNothing' /\ FinishedHasNone'
    BY <2>0 DEF NewHasNothing, FinishedHasNone, TypeOK
  <2>. QED  BY <2>1, <2>2, <2>3, <2>4
<1>7. ASSUME NEW t \in Subs, MarkCompleted(t) PROVE Structure'
  <2> USE <1>7 DEF MarkCompleted, Goto, loop
  <2>1. TypeOK'
    BY DEF TypeOK
  <2>2. QueuesHoldResults'
    BY DEF QueuesHoldResults, TypeOK
  <2>3. LifeOfSubagents' /\ RecordsOutlive'
    BY DEF LifeOfSubagents, RecordsOutlive, TypeOK
  <2>4. NewHasNothing' /\ FinishedHasNone'
    BY DEF NewHasNothing, FinishedHasNone, TypeOK
  <2>. QED  BY <2>1, <2>2, <2>3, <2>4
<1>8. ASSUME NEW t \in Subs, NEW delete \in BOOLEAN, Announce(t, delete) PROVE Structure'
  <2> USE <1>8 DEF Announce, Goto, loop
  <2>0. parent[t] \in Runs /\ key[parent[t]] \in Keys /\ taker[t] = NoRun
    BY DEF LifeOfSubagents, TypeOK
  <2>1. TypeOK'
    BY <2>0 DEF TypeOK
  <2>2. QueuesHoldResults'
    BY <2>0 DEF QueuesHoldResults, TypeOK
  <2>3. LifeOfSubagents' /\ RecordsOutlive'
    BY DEF LifeOfSubagents, RecordsOutlive, TypeOK
  <2>4. NewHasNothing' /\ FinishedHasNone'
    BY DEF NewHasNothing, FinishedHasNone, TypeOK
  <2>. QED  BY <2>1, <2>2, <2>3, <2>4
<1>9. ASSUME NEW t \in Subs, Sweep(t) PROVE Structure'
  <2> USE <1>9 DEF Sweep, loop
  <2>1. TypeOK'
    BY DEF TypeOK
  <2>2. QueuesHoldResults' /\ LifeOfSubagents' /\ NewHasNothing' /\ FinishedHasNone'
    BY DEF QueuesHoldResults, LifeOfSubagents, NewHasNothing, FinishedHasNone, TypeOK
  <2>3. RecordsOutlive'
    BY DEF RecordsOutlive, TypeOK
  <2>. QED  BY <2>1, <2>2, <2>3
<1>. QED
  BY <1>1, <1>2, <1>3, <1>4, <1>5, <1>6, <1>7, <1>8, <1>9, StepCases, Zenon

-----------------------------------------------------------------------------
(* One run at a time takes results, if there is one worker.                *)

LEMMA InitOneAtATime == Init => OneAtATime
<1> SUFFICES ASSUME Init PROVE OneAtATime
  OBVIOUS
<1>1. Handled = {}
  BY DEF Init, Handled, Looping, Runs
<1>. QED  BY <1>1, FS_EmptySet DEF OneAtATime

\* Steps that start no message and change neither parents nor takers of what the
\* handled messages spawned.
LEMMA NoneStarted ==
  ASSUME OneAtATime, Handled' \subseteq Handled,
         \A r \in Handled' : \A t \in Subs : parent'[t] = r /\ parent[t] # r => taker'[t] = NoRun,
         \A t \in Subs : taker'[t] = taker[t] \/ taker'[t] \in Handled
  PROVE  OneAtATime'
<1>1. IsFiniteSet(Handled')
  BY FS_Subset DEF OneAtATime
<1>2. Workers = 1 => \A r1, r2 \in Handled' : r1 = r2
  BY DEF OneAtATime
<1>3. ASSUME Workers = 1, NEW r \in Handled', NEW t \in Subs, parent'[t] = r
      PROVE  taker'[t] \in {NoRun, r}
  BY <1>3 DEF OneAtATime
<1>. QED  BY <1>1, <1>2, <1>3 DEF OneAtATime

LEMMA NextOneAtATime == Structure /\ OneAtATime /\ [Next]_vars => OneAtATime'
<1> SUFFICES ASSUME Structure, OneAtATime, [Next]_vars PROVE OneAtATime'
  OBVIOUS
<1> USE DEF Structure, Runs, Looping, Ended
<1>1. CASE UNCHANGED vars
  BY <1>1, NoneStarted DEF vars, Handled
<1>2. ASSUME NEW r \in Messages, HandleInboundMessage(r) PROVE OneAtATime'
  <2> USE <1>2 DEF HandleInboundMessage, Goto
  <2>1. Handled' = Handled \cup {r}
    BY DEF Handled, TypeOK
  <2>2. IsFiniteSet(Handled')
    BY <2>1, FS_AddElement DEF OneAtATime
  <2>3. Workers = 1 => Handled = {}
    BY FS_CardinalityType, FS_EmptySet DEF OneAtATime
  <2>4. \A t \in Subs : parent[t] # r
    BY DEF NewHasNothing
  <2>. QED  BY <2>1, <2>2, <2>3, <2>4 DEF OneAtATime
<1>3. ASSUME NEW r \in Runs, LoopStep(r) PROVE OneAtATime'
  <2>1. Handled' \subseteq Handled
    BY <1>3 DEF LoopStep, Handled, TypeOK
  <2>. QED  BY <1>3, <2>1, NoneStarted DEF LoopStep
<1>4. ASSUME NEW r \in Runs, TakeFollowUps(r) PROVE OneAtATime'
  <2>1. r \in Messages /\ Handled' \subseteq Handled /\ r \in Handled
    BY <1>4, TakesFromItsQueue DEF TakeFollowUps, Goto, Handled, TypeOK
  <2>2. parent' = parent /\ \A t \in Subs : taker'[t] = taker[t] \/ taker'[t] = r
    BY <1>4 DEF TakeFollowUps
  <2>. QED  BY <2>1, <2>2, NoneStarted
<1>5. ASSUME NEW r \in Runs, NEW t \in Subs,
             SpawnFails(r, t) \/ \E inTime \in BOOLEAN : SpawnSubagent(r, t, inTime)
      PROVE  OneAtATime'
  <2>1. /\ pc[t] = "new" /\ (pc' = [pc EXCEPT ![t] = "failed"] \/ pc' = [pc EXCEPT ![t] = "llm"])
        /\ parent' = [parent EXCEPT ![t] = r] /\ taker' = taker
    BY <1>5 DEF SpawnFails, SpawnSubagent, Goto
  <2>2. Handled' \subseteq Handled
    BY <2>1 DEF Handled, TypeOK
  <2>3. taker[t] = NoRun
    BY <2>1 DEF LifeOfSubagents
  <2>4. \A u \in Subs \ {t} : parent'[u] = parent[u]
    BY <2>1 DEF TypeOK
  <2>. QED  BY <2>1, <2>2, <2>3, <2>4, NoneStarted
<1>6. ASSUME NEW t \in Subs,
             MarkCompleted(t) \/ Sweep(t) \/ \E delete \in BOOLEAN : Announce(t, delete)
      PROVE  OneAtATime'
  <2>1. Handled' \subseteq Handled
    BY <1>6 DEF MarkCompleted, Sweep, Announce, Goto, Handled, TypeOK
  <2>2. parent' = parent /\ taker' = taker
    BY <1>6 DEF MarkCompleted, Sweep, Announce
  <2>. QED  BY <2>1, <2>2, NoneStarted
<1>. QED
  BY <1>1, <1>2, <1>3, <1>4, <1>5, <1>6, StepCases, Zenon

-----------------------------------------------------------------------------
(* The pending count.                                                      *)

\* Steps that change none of what Accounting speaks about.
LEMMA CountUnchanged ==
  ASSUME Accounting, UNCHANGED <<pending, taker>>,
         \A t \in counted \cup counted' : parent'[t] = parent[t] /\ t \in counted /\ t \in counted'
  PROVE  Accounting'
<1>1. \A r \in Runs : Spawned(r)' = Spawned(r) /\ Taken(r)' = Taken(r)
  BY DEF Spawned, Taken
<1>. QED  BY <1>1 DEF Accounting

LEMMA NextAccounting == Structure /\ Accounting /\ [Next]_vars => Accounting'
<1> SUFFICES ASSUME Structure, Accounting, [Next]_vars PROVE Accounting'
  OBVIOUS
<1> USE DEF Structure
<1>0. \A r \in Runs : /\ IsFiniteSet(Spawned(r)) /\ Cardinality(Spawned(r)) \in Nat
                      /\ IsFiniteSet(Taken(r)) /\ Cardinality(Taken(r)) \in Nat
  BY SubsFinite DEF Spawned, Taken
<1>1. CASE UNCHANGED vars
  BY <1>1, CountUnchanged DEF vars
<1>2. ASSUME NEW r \in Messages, HandleInboundMessage(r) PROVE Accounting'
  BY <1>2, CountUnchanged DEF HandleInboundMessage
<1>3. ASSUME NEW r \in Runs, LoopStep(r) PROVE Accounting'
  BY <1>3, CountUnchanged DEF LoopStep
<1>4. ASSUME NEW r \in Runs, TakeFollowUps(r) PROVE Accounting'
  <2> DEFINE Q == queue[key[r]]
  <2>1. /\ pending' = [pending EXCEPT ![r] = @ - Cardinality(Q)]
        /\ taker' = [t \in Subs |-> IF t \in Q THEN r ELSE taker[t]]
        /\ UNCHANGED <<parent, counted>>
    BY <1>4, TakesFromItsQueue DEF TakeFollowUps
  <2>2. Q \in SUBSET Subs /\ \A t \in Q : taker[t] = NoRun
    BY DEF QueuesHoldResults, TypeOK
  <2> HIDE DEF Q
  <2>3. Taken(r)' = Taken(r) \cup Q /\ Taken(r) \cap Q = {}
    BY <2>1, <2>2 DEF Taken, Runs
  <2>4. Cardinality(Taken(r)') = Cardinality(Taken(r)) + Cardinality(Q) /\ Cardinality(Q) \in Nat
    BY <1>0, <2>2, <2>3, SubsFinite, CardinalityOfUnion
  <2>5. \A q \in Runs : Spawned(q)' = Spawned(q)
    BY <2>1 DEF Spawned
  <2>6. \A q \in Runs \ {r} : Taken(q)' = Taken(q) /\ pending'[q] = pending[q]
    BY <2>1, <2>2 DEF Taken, TypeOK, Runs
  <2>7. pending'[r] = Cardinality(Spawned(r)') - Cardinality(Taken(r)')
    BY <1>0, <2>1, <2>4, <2>5 DEF Accounting, TypeOK
  <2>. QED  BY <2>5, <2>6, <2>7 DEF Accounting
<1>5. ASSUME NEW r \in Runs, NEW t \in Subs, SpawnFails(r, t) PROVE Accounting'
  <2>1. t \notin counted
    BY <1>5 DEF SpawnFails, LifeOfSubagents
  <2>2. \A u \in counted : parent'[u] = parent[u]
    BY <1>5, <2>1 DEF SpawnFails, TypeOK
  <2>. QED  BY <1>5, <2>2, CountUnchanged DEF SpawnFails
<1>6. ASSUME NEW r \in Runs, NEW t \in Subs, NEW inTime \in BOOLEAN, SpawnSubagent(r, t, inTime)
      PROVE Accounting'
  <2>1. /\ t \notin counted /\ parent[t] = NoRun
        /\ parent' = [parent EXCEPT ![t] = r] /\ taker' = taker
    BY <1>6 DEF SpawnSubagent, LifeOfSubagents
  <2>2. \A u \in counted : parent'[u] = parent[u]
    BY <2>1 DEF TypeOK
  <2>3. CASE ~inTime
    BY <1>6, <2>2, <2>3, CountUnchanged DEF SpawnSubagent
  <2>4. CASE inTime
    <3>1. pending' = [pending EXCEPT ![r] = @ + 1] /\ counted' = counted \cup {t}
      BY <1>6, <2>4 DEF SpawnSubagent
    <3>2. Spawned(r)' = Spawned(r) \cup {t} /\ t \notin Spawned(r)
      BY <2>1, <3>1 DEF Spawned, TypeOK
    <3>3. Cardinality(Spawned(r)') = Cardinality(Spawned(r)) + 1
      BY <1>0, <3>2, FS_AddElement
    <3>4. \A q \in Runs \ {r} : Spawned(q)' = Spawned(q) /\ pending'[q] = pending[q]
      BY <2>1, <3>1 DEF Spawned, TypeOK
    <3>5. \A q \in Runs : Taken(q)' = Taken(q)
      BY <2>1 DEF Taken
    <3>6. pending'[r] = Cardinality(Spawned(r)') - Cardinality(Taken(r)')
      BY <1>0, <3>1, <3>3, <3>5 DEF Accounting, TypeOK
    <3>. QED  BY <3>4, <3>5, <3>6 DEF Accounting
  <2>. QED  BY <2>3, <2>4
<1>7. ASSUME NEW t \in Subs,
             MarkCompleted(t) \/ Sweep(t) \/ \E delete \in BOOLEAN : Announce(t, delete)
      PROVE  Accounting'
  <2>1. UNCHANGED <<pending, taker, parent, counted>>
    BY <1>7 DEF MarkCompleted, Sweep, Announce
  <2>. QED  BY <2>1, CountUnchanged
<1>. QED
  BY <1>1, <1>2, <1>3, <1>4, <1>5, <1>6, <1>7, StepCases, Zenon

-----------------------------------------------------------------------------
(* No result is lost between the registry and the queue.                   *)

LEMMA NextNoResultLost == Structure /\ NoResultLost /\ [Next]_vars => NoResultLost'
<1> SUFFICES ASSUME Structure, NoResultLost, [Next]_vars, ~EarlyArchive,
                    NEW u \in Subs, pc'[u] = "over"
             PROVE  taker'[u] = NoRun <=> u \in queue'[key'[parent'[u]]]
  BY DEF NoResultLost
<1> USE DEF Structure, Runs, Looping, Ended
<1>0. pc[u] = "over" => /\ taker[u] = NoRun <=> u \in queue[key[parent[u]]]
                        /\ parent[u] \in Runs /\ key[parent[u]] \in Keys
  BY DEF NoResultLost, LifeOfSubagents, TypeOK
<1>1. CASE UNCHANGED vars
  BY <1>0, <1>1 DEF vars
<1>2. ASSUME NEW r \in Messages, HandleInboundMessage(r)
      PROVE  taker'[u] = NoRun <=> u \in queue'[key'[parent'[u]]]
  BY <1>0, <1>2 DEF HandleInboundMessage, Goto, TypeOK
<1>3. ASSUME NEW r \in Runs, LoopStep(r)
      PROVE  taker'[u] = NoRun <=> u \in queue'[key'[parent'[u]]]
  BY <1>0, <1>3 DEF LoopStep, TypeOK
<1>4. ASSUME NEW r \in Runs, TakeFollowUps(r)
      PROVE  taker'[u] = NoRun <=> u \in queue'[key'[parent'[u]]]
  <2> DEFINE Q == queue[key[r]]
  <2>0. key[r] \in Keys
    BY DEF TypeOK
  <2>1. /\ r \in Messages /\ key[r] \in Keys
        /\ taker' = [t \in Subs |-> IF t \in Q THEN r ELSE taker[t]]
        /\ queue' = [queue EXCEPT ![key[r]] = {}]
        /\ pc' = [pc EXCEPT ![r] = "llm"]
        /\ UNCHANGED <<key, parent>>
    BY <1>4, <2>0, TakesFromItsQueue DEF TakeFollowUps, Goto
  <2>2. pc[u] = "over"
    BY <2>1 DEF TypeOK
  <2>3. u \in Q => key[parent[u]] = key[r]
    BY <2>1 DEF QueuesHoldResults
  <2> HIDE DEF Q
  <2>4. CASE u \in Q
    BY <2>1, <2>2, <2>3, <2>4, <1>0 DEF TypeOK
  <2>5. CASE u \notin Q
    <3>1. taker'[u] = taker[u]
      BY <2>1, <2>5
    <3>2. CASE key[parent[u]] = key[r]
      <4>1. u \notin queue[key[parent[u]]]
        BY <2>5, <3>2 DEF Q
      <4>. QED  BY <2>1, <2>2, <3>1, <3>2, <4>1, <1>0 DEF TypeOK
    <3>3. CASE key[parent[u]] # key[r]
      BY <2>1, <2>2, <3>1, <3>3, <1>0 DEF TypeOK
    <3>. QED  BY <3>2, <3>3
  <2>. QED  BY <2>4, <2>5
<1>5. ASSUME NEW r \in Runs, NEW t \in Subs,
             SpawnFails(r, t) \/ \E inTime \in BOOLEAN : SpawnSubagent(r, t, inTime)
      PROVE  taker'[u] = NoRun <=> u \in queue'[key'[parent'[u]]]
  <2>1. /\ pc[t] = "new" /\ (pc' = [pc EXCEPT ![t] = "failed"] \/ pc' = [pc EXCEPT ![t] = "llm"])
        /\ parent' = [parent EXCEPT ![t] = r] /\ UNCHANGED <<key, queue, taker>>
    BY <1>5 DEF SpawnFails, SpawnSubagent, Goto
  <2>2. u # t /\ pc[u] = "over" /\ parent'[u] = parent[u]
    BY <2>1 DEF TypeOK
  <2>. QED  BY <1>0, <2>1, <2>2
<1>6. ASSUME NEW t \in Subs, MarkCompleted(t)
      PROVE  taker'[u] = NoRun <=> u \in queue'[key'[parent'[u]]]
  <2>1. t \in registry
    BY <1>6 DEF MarkCompleted, RecordsOutlive
  <2>2. pc[u] = "over"
    BY <1>6, <2>1 DEF MarkCompleted, Goto, TypeOK
  <2>. QED  BY <1>0, <1>6, <2>2 DEF MarkCompleted
<1>7. ASSUME NEW t \in Subs, NEW delete \in BOOLEAN, Announce(t, delete)
      PROVE  taker'[u] = NoRun <=> u \in queue'[key'[parent'[u]]]
  <2>1. /\ pc[t] = "announcing" /\ pc' = [pc EXCEPT ![t] = "over"]
        /\ queue' = [queue EXCEPT ![key[parent[t]]] = @ \cup {t}]
        /\ UNCHANGED <<key, parent, taker>>
    BY <1>7 DEF Announce, Goto
  <2>2. parent[t] \in Runs /\ key[parent[t]] \in Keys /\ taker[t] = NoRun
    BY <2>1 DEF LifeOfSubagents, TypeOK
  <2>3. CASE u = t
    BY <2>1, <2>2, <2>3 DEF TypeOK
  <2>4. CASE u # t
    BY <1>0, <2>1, <2>2, <2>4 DEF TypeOK
  <2>. QED  BY <2>3, <2>4
<1>8. ASSUME NEW t \in Subs, Sweep(t)
      PROVE  taker'[u] = NoRun <=> u \in queue'[key'[parent'[u]]]
  BY <1>0, <1>8 DEF Sweep
<1>. QED
  BY <1>1, <1>2, <1>3, <1>4, <1>5, <1>6, <1>7, <1>8, StepCases, Zenon

-----------------------------------------------------------------------------
(* The invariant, and what follows from it.                                *)

LEMMA InitIInv == Init => IInv
<1> SUFFICES ASSUME Init PROVE IInv
  OBVIOUS
<1>1. Accounting
  <2>1. \A r \in Runs : Spawned(r) = {} /\ Taken(r) = {}
    BY DEF Init, Spawned, Taken, Runs
  <2>2. Cardinality({}) = 0
    BY FS_EmptySet
  <2>3. \A r \in Runs : pending[r] = 0
    BY DEF Init
  <2>. QED  BY <2>1, <2>2, <2>3 DEF Accounting
<1>2. NoResultLost
  BY DEF Init, NoResultLost, Runs
<1>. QED  BY <1>1, <1>2, InitStructure, InitOneAtATime DEF IInv

LEMMA NextIInv == IInv /\ [Next]_vars => IInv'
BY NextStructure, NextOneAtATime, NextAccounting, NextNoResultLost DEF IInv

\* The invariant holds in every reachable state.
THEOREM Invariance == Spec => []IInv
<1>1. Init => IInv
  BY InitIInv
<1>2. IInv /\ [Next]_vars => IInv'
  BY NextIInv
<1>. QED  BY <1>1, <1>2, PTL DEF Spec

\* Every variable keeps to its range: no run exceeds its limits of calls and of
\* failures (runLoop, 186-219).
THEOREM TypeCorrect == Spec => []TypeOK
<1>1. IInv => TypeOK
  BY DEF IInv, Structure
<1>. QED  BY <1>1, Invariance, PTL

\* The pending count is exact, with any number of workers: PendingSubagents is the
\* number of subagents spawned less the number of results taken.
THEOREM PendingIsExact == Spec => []Accounting
<1>1. IInv => Accounting
  BY DEF IInv
<1>. QED  BY <1>1, Invariance, PTL

\* A run that ended by itself took at least as many results as it spawned subagents,
\* with any number of workers, although they need not be the results of its own.
THEOREM FinishedRunsTookAsMany == Spec => []FinishedTookAsMany
<1>1. IInv => FinishedTookAsMany
  <2> SUFFICES ASSUME IInv, NEW r \in Messages, pc[r] = "finished"
               PROVE  Cardinality(Taken(r)) >= Cardinality(Spawned(r))
    BY DEF FinishedTookAsMany
  <2>1. pending[r] <= 0 /\ pending[r] = Cardinality(Spawned(r)) - Cardinality(Taken(r))
    BY DEF IInv, Structure, FinishedHasNone, Accounting, Runs
  <2>2. Cardinality(Spawned(r)) \in Nat /\ Cardinality(Taken(r)) \in Nat
    BY SubsFinite DEF Spawned, Taken
  <2>. QED  BY <2>1, <2>2
<1>. QED  BY <1>1, Invariance, PTL

\* The result of a subagent that is over was taken, or waits in the queue of the
\* session of the run that spawned it, and in no other.
THEOREM ResultsNotLost == Spec => []NoResultLost
<1>1. IInv => NoResultLost
  BY DEF IInv
<1>. QED  BY <1>1, Invariance, PTL

\* With one worker, a run that waits has a subagent of its own whose result is on its
\* way: the poll in outerCheck has something to wait for.
THEOREM WaitingIsNotInVain == Spec => []WaitsForSomething
<1>1. IInv => WaitsForSomething
  <2> SUFFICES ASSUME IInv, Workers = 1, ~EarlyArchive,
                      NEW r \in Messages, pc[r] \in Looping, pending[r] > 0
               PROVE  \E t \in Spawned(r) : OnItsWay(t)
    BY DEF WaitsForSomething
  <2>1. PICK t \in Spawned(r) : t \notin Taken(r)
    <3>1. Cardinality(Spawned(r)) > Cardinality(Taken(r))
      <4>1. pending[r] = Cardinality(Spawned(r)) - Cardinality(Taken(r))
        BY DEF IInv, Accounting, Runs
      <4>2. Cardinality(Spawned(r)) \in Nat /\ Cardinality(Taken(r)) \in Nat
        BY SubsFinite DEF Spawned, Taken
      <4>. QED  BY <4>1, <4>2
    <3>2. IsFiniteSet(Taken(r)) /\ Cardinality(Spawned(r)) \in Nat /\ Cardinality(Taken(r)) \in Nat
      BY SubsFinite DEF Spawned, Taken
    <3>3. CASE Spawned(r) \subseteq Taken(r)
      <4>1. Cardinality(Spawned(r)) <= Cardinality(Taken(r))
        BY <3>2, <3>3, FS_Subset
      <4>. QED  BY <3>1, <3>2, <4>1
    <3>. QED  BY <3>3
  <2>2. t \in Subs /\ parent[t] = r /\ t \in counted
    BY DEF Spawned
  <2>3. taker[t] = NoRun
    BY <2>1, <2>2 DEF IInv, OneAtATime, Handled, Taken
  <2>4. pc[t] \in Looping \cup Ended \cup {"announcing", "over"}
    BY <2>2 DEF IInv, Structure, TypeOK, LifeOfSubagents, Runs
  <2>5. pc[t] \in Ended => t \in registry
    BY <2>2 DEF IInv, Structure, RecordsOutlive
  <2>6. pc[t] = "over" => t \in queue[key[parent[t]]]
    BY <2>2, <2>3 DEF IInv, NoResultLost
  <2>. QED  BY <2>4, <2>5, <2>6 DEF OnItsWay
<1>. QED  BY <1>1, Invariance, PTL

-----------------------------------------------------------------------------
(* Subagents implements ResultDelivery.                                    *)

\* Steps that start, announce and take nothing are none of ResultDelivery.
LEMMA NothingDelivered ==
  ASSUME UNCHANGED <<key, queue, taker>>,
         \A t \in Subs : /\ Expected(t)' = Expected(t)
                         /\ t \in Started' <=> t \in Started
                         /\ Expected(t) => parent'[t] = parent[t]
  PROVE  UNCHANGED Delivery!vars
<1>1. \A k \in Keys : OwedTo(k)' = OwedTo(k)
  BY DEF OwedTo
<1>2. \A k \in Keys : DeliveredTo(k)' = DeliveredTo(k)
  BY DEF DeliveredTo
<1>3. Started' = Started
  BY DEF Started
<1>. QED  BY <1>1, <1>2, <1>3 DEF Delivery!vars

LEMMA InitDelivery == Init => Delivery!Init
<1> SUFFICES ASSUME Init PROVE Delivery!Init
  OBVIOUS
<1>1. \A t \in Subs : pc[t] = "new" /\ taker[t] = NoRun
  BY DEF Init, Runs
<1>2. Started = {} /\ \A k \in Keys : OwedTo(k) = {}
  BY <1>1 DEF Started, OwedTo, Expected, Looping, Ended
<1>3. \A k \in Keys : DeliveredTo(k) = {}
  BY <1>1 DEF DeliveredTo
<1>. QED  BY <1>2, <1>3 DEF Init, Delivery!Init

LEMMA NextDelivery == Structure /\ [Next]_vars => [Delivery!Next]_(Delivery!vars)
<1> SUFFICES ASSUME Structure, [Next]_vars PROVE Delivery!Next \/ UNCHANGED Delivery!vars
  OBVIOUS
<1> USE DEF Structure, Runs, Looping, Ended
<1>1. CASE UNCHANGED vars
  BY <1>1, NothingDelivered DEF vars, Expected, Started
<1>2. ASSUME NEW r \in Messages, HandleInboundMessage(r) PROVE UNCHANGED Delivery!vars
  <2>1. \A t \in Subs : pc'[t] = pc[t]
    BY <1>2 DEF HandleInboundMessage, Goto, TypeOK
  <2>. QED  BY <1>2, <2>1, NothingDelivered DEF HandleInboundMessage, Expected, Started
<1>3. ASSUME NEW r \in Runs, LoopStep(r) PROVE UNCHANGED Delivery!vars
  <2>1. \A t \in Subs : pc'[t] = pc[t] \/ (pc[t] \in Looping /\ pc'[t] \in Looping \cup Ended)
    BY <1>3 DEF LoopStep, TypeOK
  <2>. QED  BY <1>3, <2>1, NothingDelivered DEF LoopStep, Expected, Started
<1>4. ASSUME NEW r \in Runs, TakeFollowUps(r) PROVE Delivery!Deliver(key[r]) /\ key[r] \in Keys
  <2> DEFINE k == key[r]
             Q == queue[k]
  <2>0. k \in Keys
    BY DEF TypeOK
  <2>1. /\ r \in Messages /\ Q # {}
        /\ taker' = [t \in Subs |-> IF t \in Q THEN r ELSE taker[t]]
        /\ queue' = [queue EXCEPT ![k] = {}]
        /\ pc[r] = "outer" /\ pc' = [pc EXCEPT ![r] = "llm"]
        /\ UNCHANGED <<key, parent>>
    BY <1>4, TakesFromItsQueue DEF TakeFollowUps, Goto
  <2>2. Q \in SUBSET Subs /\ \A t \in Q : taker[t] = NoRun
    BY <2>0 DEF QueuesHoldResults, TypeOK
  <2>3. \A t \in Subs : pc'[t] = pc[t]
    BY <2>1 DEF TypeOK
  <2>4. Started' = Started /\ \A j \in Keys : OwedTo(j)' = OwedTo(j)
    BY <2>1, <2>3 DEF OwedTo, Expected, Started
  <2> HIDE DEF Q, k
  <2>5. r # NoRun
    OBVIOUS
  <2>6. key[r] = k
    BY DEF k
  <2>7. ASSUME NEW j \in Keys
        PROVE  DeliveredTo(j)' = IF j = k THEN DeliveredTo(j) \cup Q ELSE DeliveredTo(j)
    <3>1. \A t \in Q : taker'[t] = r
      BY <2>1, <2>2
    <3>2. \A t \in Subs \ Q : taker'[t] = taker[t]
      BY <2>1
    <3>3. CASE j = k
      BY <2>1, <2>2, <2>5, <2>6, <3>1, <3>2, <3>3 DEF DeliveredTo
    <3>4. CASE j # k
      BY <2>1, <2>2, <2>5, <2>6, <3>1, <3>2, <3>4 DEF DeliveredTo
    <3>. QED  BY <3>3, <3>4
  <2>. QED  BY <2>0, <2>1, <2>4, <2>7 DEF Delivery!Deliver, Q, k
<1>5. ASSUME NEW r \in Runs, NEW t \in Subs, SpawnFails(r, t) PROVE UNCHANGED Delivery!vars
  <2>1. /\ pc[t] = "new" /\ pc'[t] = "failed"
        /\ \A u \in Subs \ {t} : pc'[u] = pc[u] /\ parent'[u] = parent[u]
    BY <1>5 DEF SpawnFails, Goto, TypeOK
  <2>. QED  BY <1>5, <2>1, NothingDelivered DEF SpawnFails, Expected, Started
<1>6. ASSUME NEW r \in Runs, NEW t \in Subs, NEW inTime \in BOOLEAN, SpawnSubagent(r, t, inTime)
      PROVE  Delivery!Promise(t, key[r]) /\ key[r] \in Keys
  <2>1. /\ pc[t] = "new" /\ pc'[t] = "llm" /\ parent'[t] = r /\ key[r] \in Keys
        /\ \A u \in Subs \ {t} : pc'[u] = pc[u] /\ parent'[u] = parent[u]
        /\ UNCHANGED <<key, queue, taker>>
    BY <1>6 DEF SpawnSubagent, TypeOK
  <2>2. t \notin Started /\ Started' = Started \cup {t}
    BY <2>1 DEF Started
  <2>3. \A k \in Keys : DeliveredTo(k)' = DeliveredTo(k)
    BY <2>1 DEF DeliveredTo
  <2>4. ~Expected(t) /\ Expected(t)' /\ \A u \in Subs \ {t} : Expected(u)' = Expected(u)
    BY <2>1 DEF Expected
  <2>5. \A k \in Keys : OwedTo(k)' = IF k = key[r] THEN OwedTo(k) \cup {t} ELSE OwedTo(k)
    BY <2>1, <2>4 DEF OwedTo
  <2>. QED  BY <2>1, <2>2, <2>3, <2>5 DEF Delivery!Promise
<1>7. ASSUME NEW t \in Subs, MarkCompleted(t)
      PROVE  (\E k \in Keys : Delivery!Lose(t, k)) \/ UNCHANGED Delivery!vars
  <2>1. /\ pc[t] \in Ended /\ pc'[t] = IF t \in registry THEN "announcing" ELSE "over"
        /\ \A u \in Subs \ {t} : pc'[u] = pc[u]
        /\ UNCHANGED <<key, queue, taker, parent>>
    BY <1>7 DEF MarkCompleted, Goto, TypeOK
  <2>2. CASE t \in registry
    BY <2>1, <2>2, NothingDelivered DEF Expected, Started
  <2>3. CASE t \notin registry
    <3>1. EarlyArchive
      BY <2>1, <2>3 DEF RecordsOutlive
    <3> DEFINE k == key[parent[t]]
    <3>2. k \in Keys
      BY <2>1 DEF LifeOfSubagents, TypeOK
    <3>3. Expected(t) /\ ~Expected(t)' /\ \A u \in Subs \ {t} : Expected(u)' = Expected(u)
      BY <2>1, <2>3 DEF Expected
    <3>4. /\ t \in OwedTo(k)
          /\ \A j \in Keys : OwedTo(j)' = IF j = k THEN OwedTo(j) \ {t} ELSE OwedTo(j)
      BY <2>1, <3>3 DEF OwedTo
    <3>5. Started' = Started /\ \A j \in Keys : DeliveredTo(j)' = DeliveredTo(j)
      BY <2>1, <2>3 DEF Started, DeliveredTo
    <3>6. Delivery!Lose(t, k)
      BY <2>1, <3>1, <3>2, <3>4, <3>5 DEF Delivery!Lose
    <3>. QED  BY <3>2, <3>6
  <2>. QED  BY <2>2, <2>3
<1>8. ASSUME NEW t \in Subs, NEW delete \in BOOLEAN, Announce(t, delete)
      PROVE  \E k \in Keys : Delivery!Arrive(t, k)
  <2> DEFINE k == key[parent[t]]
  <2>1. /\ pc[t] = "announcing" /\ pc'[t] = "over"
        /\ \A u \in Subs \ {t} : pc'[u] = pc[u]
        /\ queue' = [queue EXCEPT ![k] = @ \cup {t}]
        /\ UNCHANGED <<key, taker, parent>>
    BY <1>8 DEF Announce, Goto, TypeOK
  <2>2. k \in Keys
    BY <2>1 DEF LifeOfSubagents, TypeOK
  <2>3. Expected(t) /\ ~Expected(t)' /\ \A u \in Subs \ {t} : Expected(u)' = Expected(u)
    BY <2>1 DEF Expected
  <2>4. /\ t \in OwedTo(k)
        /\ \A j \in Keys : OwedTo(j)' = IF j = k THEN OwedTo(j) \ {t} ELSE OwedTo(j)
    BY <2>1, <2>3 DEF OwedTo
  <2>5. Started' = Started /\ \A j \in Keys : DeliveredTo(j)' = DeliveredTo(j)
    BY <2>1 DEF Started, DeliveredTo
  <2>6. Delivery!Arrive(t, k)
    BY <2>1, <2>2, <2>4, <2>5 DEF Delivery!Arrive
  <2>. QED  BY <2>2, <2>6
<1>9. ASSUME NEW t \in Subs, Sweep(t) PROVE UNCHANGED Delivery!vars
  BY <1>9, NothingDelivered DEF Sweep, Expected, Started
<1>. QED
  BY <1>1, <1>2, <1>3, <1>4, <1>5, <1>6, <1>7, <1>8, <1>9, StepCases, Zenon DEF Delivery!Next

\* Each step of the manager is a step of ResultDelivery or a stutter: a result gets to
\* the session that started the subagent, once, with any number of workers.
THEOREM ImplementsResultDelivery == Spec => IsDelivery
<1>1. IInv => Structure
  BY DEF IInv
<1>2. Init => Delivery!Init
  BY InitDelivery
<1>3. Structure /\ [Next]_vars => [Delivery!Next]_(Delivery!vars)
  BY NextDelivery
<1>. QED  BY <1>1, <1>2, <1>3, Invariance, PTL DEF Spec, IsDelivery, Delivery!Spec
=============================================================================
