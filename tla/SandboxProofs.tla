--------------------------- MODULE SandboxProofs ----------------------------
(***************************************************************************)
(* Proofs about Sandbox, for any numbers of executions, warm-ups and       *)
(* containers: an execution has its container to itself, and no container  *)
(* is left behind.                                                         *)
(***************************************************************************)
EXTENDS Sandbox, SequenceTheorems, TLAPS

USE SandboxAssumption

-----------------------------------------------------------------------------
(* The inductive invariant.                                                *)

Acquired == Using \cup {"checking"}
New == {"checkingNew", "adding", "warmAdding"}
Taken == {"destroying", "dropping", "scanDestroying"}

\* Who has a container in its hands, and who does what.
Hands ==
  /\ \A p \in Procs : held[p] # NoContainer <=> pc[p] \in Acquired \cup New \cup Taken
  /\ \A p \in Procs : held[p] \in made \cup {NoContainer}
  /\ \A u \in Users : pc[u] \notin {"warmAdding", "scanDestroying", "scanning", "off"}
  /\ \A p \in Procs \ Users : pc[p] \notin Acquired
  /\ \A p \in Procs \ {Keeper} : pc[p] # "scanDestroying"

\* The idle list has an ID once.
ListedOnce == \A i, j \in 1..Len(idle) : idle[i] = idle[j] => i = j

\* A container is in one goroutine's hands, unless the background goroutine is
\* about to destroy what was acquired after it had listed it.
HeldApart ==
  \A p, q \in Procs : held[p] = held[q] /\ held[p] # NoContainer =>
    \/ p = q
    \/ pc[p] = "scanDestroying" /\ pc[q] \notin New
    \/ pc[q] = "scanDestroying" /\ pc[p] \notin New

HeldNotIdle == \A p \in Procs : held[p] \notin IdleSet

\* A new container is known to its goroutine only, and one that is about to be
\* destroyed is no longer in the pool.
NewUnknown == \A p \in Procs : pc[p] \in New => held[p] \notin entries \cup scan \cup closing
TakenOut == \A p \in Procs : pc[p] \in Taken => held[p] \notin entries

\* An acquired container without an entry is being destroyed by Close or by the
\* background goroutine, or is gone.
AcquiredKnown ==
  \A u \in Users : pc[u] \in Acquired /\ held[u] \in exists =>
    held[u] \in entries \cup closing \/ held[Keeper] = held[u]

Closing == IF closed THEN entries = {} /\ idle = <<>> ELSE closing = {}

IInv ==
  /\ TypeOK /\ Hands /\ ListedOnce /\ HeldApart /\ HeldNotIdle /\ NewUnknown /\ TakenOut
  /\ AcquiredKnown /\ Closing /\ NoOrphan

LEMMA InitHolds == Init => IInv
<1> SUFFICES ASSUME Init PROVE IInv
  OBVIOUS
<1> USE DEF Init, Acquired, New, Taken, Using, Procs
<1>0. idle = <<>> /\ Len(<<>>) = 0
  OBVIOUS
<1>1. IdleSet = {} /\ Len(idle) = 0
  BY <1>0 DEF IdleSet
<1>2. TypeOK
  BY <1>0, EmptySeq DEF TypeOK
<1>3. Hands /\ HeldApart /\ NewUnknown /\ TakenOut /\ AcquiredKnown
  BY DEF Hands, HeldApart, NewUnknown, TakenOut, AcquiredKnown
<1>4. ListedOnce /\ HeldNotIdle /\ Closing /\ NoOrphan
  BY <1>1 DEF ListedOnce, HeldNotIdle, Closing, NoOrphan
<1>. QED  BY <1>2, <1>3, <1>4 DEF IInv

-----------------------------------------------------------------------------
(* The idle list.                                                          *)

IsList(s, S) ==
  /\ s \in Seq(S) /\ S = {s[i] : i \in 1..Len(s)}
  /\ \A i, j \in 1..Len(s) : s[i] = s[j] => i = j

\* The list with an ID at its end.
LEMMA AppendList ==
  ASSUME NEW s, NEW S, IsList(s, S), NEW c, c \notin S
  PROVE  IsList(Append(s, c), S \cup {c})
<1>1. s \in Seq(S \cup {c}) /\ Len(s) \in Nat
  BY SeqMonotonic, LenProperties DEF IsList
<1> DEFINE t == Append(s, c)
<1>2. /\ t \in Seq(S \cup {c}) /\ Len(t) = Len(s) + 1
      /\ \A i \in 1..Len(t) : t[i] = IF i <= Len(s) THEN s[i] ELSE c
  BY <1>1, AppendProperties
<1>3. \A i \in 1..Len(s) : s[i] \in S
  BY DEF IsList
<1>4. {t[i] : i \in 1..Len(t)} = S \cup {c}
  <2>1. \A i \in 1..Len(t) : t[i] \in S \cup {c}
    BY <1>2, <1>3, <1>1
  <2>2. ASSUME NEW x \in S PROVE \E i \in 1..Len(t) : t[i] = x
    <3>1. PICK i \in 1..Len(s) : s[i] = x
      BY DEF IsList
    <3>. QED  BY <3>1, <1>1, <1>2
  <2>3. t[Len(t)] = c /\ Len(t) \in 1..Len(t)
    BY <1>1, <1>2
  <2>. QED  BY <2>1, <2>2, <2>3
<1>5. ASSUME NEW i \in 1..Len(t), NEW j \in 1..Len(t), t[i] = t[j] PROVE i = j
  BY <1>5, <1>1, <1>2, <1>3 DEF IsList
<1>. QED  BY <1>2, <1>4, <1>5 DEF IsList

\* The list with one place taken out.
LEMMA RemoveFromList ==
  ASSUME NEW s, NEW S, IsList(s, S), NEW i \in 1..Len(s), NEW t,
         t = [j \in 1..Len(s) - 1 |-> IF j < i THEN s[j] ELSE s[j + 1]]
  PROVE  IsList(t, S \ {s[i]})
<1> DEFINE R == S \ {s[i]}
<1>1. PICK n \in Nat : n = Len(s) /\ s \in [1..n -> S] /\ i \in 1..n
  BY LenProperties DEF IsList
<1>2. \A j, k \in 1..n : s[j] = s[k] => j = k
  BY <1>1 DEF IsList
<1>3. \A j \in 1..n : j # i => s[j] \in R
  BY <1>1, <1>2
<1>4. n - 1 \in Nat /\ t \in [1..n - 1 -> R]
  <2>1. ASSUME NEW j \in 1..n - 1 PROVE t[j] \in R
    <3>1. CASE j < i
      BY <3>1, <1>1, <1>3
    <3>2. CASE ~(j < i)
      <4>1. j + 1 \in 1..n /\ j + 1 # i
        BY <3>2, <1>1
      <4>. QED  BY <4>1, <3>2, <1>1, <1>3
    <3>. QED  BY <3>1, <3>2
  <2>. HIDE DEF R
  <2>. QED  BY <2>1, <1>1
<1>5. t \in Seq(R) /\ Len(t) = n - 1
  BY <1>4
<1>6. R = {t[j] : j \in 1..n - 1}
  <2>1. ASSUME NEW x \in R PROVE \E j \in 1..n - 1 : t[j] = x
    <3>1. PICK j \in 1..n : s[j] = x /\ j # i
      BY <1>1 DEF IsList
    <3>2. CASE j < i
      BY <3>1, <3>2, <1>1
    <3>3. CASE j > i
      <4>1. j - 1 \in 1..n - 1 /\ ~(j - 1 < i) /\ (j - 1) + 1 = j
        BY <3>1, <3>3, <1>1
      <4>. QED  BY <4>1, <3>1, <1>1
    <3>. QED  BY <3>1, <3>2, <3>3, <1>1
  <2>2. \A j \in 1..n - 1 : t[j] \in R
    BY <1>4
  <2>. HIDE DEF R
  <2>. QED  BY <2>1, <2>2
<1>7. ASSUME NEW j \in 1..n - 1, NEW k \in 1..n - 1, t[j] = t[k] PROVE j = k
  <2> DEFINE At(x) == IF x < i THEN x ELSE x + 1
  <2>1. At(j) \in 1..n /\ At(k) \in 1..n /\ t[j] = s[At(j)] /\ t[k] = s[At(k)]
    BY <1>1
  <2>2. At(j) = At(k)
    BY <2>1, <1>2, <1>7
  <2>3. j \in Int /\ k \in Int /\ i \in Int
    BY <1>1
  <2>. QED  BY <2>2, <2>3
<1>. QED  BY <1>5, <1>6, <1>7 DEF IsList

-----------------------------------------------------------------------------
(* The steps.                                                              *)

\* The list has the containers of IdleSet, which have entries.
LEMMA IdleIsList ==
  ASSUME IInv PROVE IsList(idle, IdleSet) /\ IdleSet \subseteq entries /\ entries \subseteq made
<1>1. idle \in Seq(entries)
  BY DEF IInv, TypeOK
<1>2. Len(idle) \in Nat /\ idle \in [1..Len(idle) -> entries]
  BY <1>1, LenProperties
<1>3. idle \in [1..Len(idle) -> IdleSet]
  BY <1>2 DEF IdleSet
<1>4. idle \in Seq(IdleSet)
  BY <1>2, <1>3, SeqDef
<1>. QED  BY <1>1, <1>2, <1>4 DEF IInv, TypeOK, ListedOnce, IdleSet, IsList

\* A step with which nobody takes or gives a container away, and which leaves the
\* pool alone.
LEMMA LocalKeeps ==
  ASSUME IInv, UNCHANGED <<pool, docker, held>>, TypeOK', scan' \subseteq scan \cup IdleSet,
         \A p \in Procs :
           \/ pc'[p] = pc[p]
           \/ p \in Users /\ pc[p] \in Acquired /\ pc'[p] \in Acquired
           \/ pc[p] \in New /\ pc'[p] \in {"adding", "dropping"}
           \/ /\ pc[p] \notin Acquired \cup New \cup Taken
              /\ pc'[p] \notin Acquired \cup New \cup Taken
              /\ p \in Users => pc'[p] \notin {"scanning", "off"}
  PROVE  IInv'
<1> USE DEF IInv, pool, docker, Acquired, New, Taken, Using, Procs
<1>1. IdleSet' = IdleSet /\ ListedOnce' /\ IdleSet \subseteq entries
  BY IdleIsList DEF IdleSet, ListedOnce
<1>2. Hands'
  BY DEF Hands, TypeOK
<1>3. HeldApart' /\ HeldNotIdle'
  BY <1>1 DEF HeldApart, HeldNotIdle, Hands, TypeOK
<1>4. NewUnknown' /\ TakenOut'
  BY <1>1 DEF NewUnknown, TakenOut, HeldNotIdle, TypeOK
<1>5. AcquiredKnown' /\ Closing' /\ NoOrphan'
  BY DEF AcquiredKnown, Closing, NoOrphan, TypeOK
<1>. QED  BY <1>1, <1>2, <1>3, <1>4, <1>5

LEMMA LocalSteps ==
  ASSUME IInv, UNCHANGED <<pool, docker, held>>,
         \/ \E u \in Users :
              \/ Execute(u) \/ AcquireFails(u) \/ AcquireCold(u)
              \/ \E healthy \in BOOLEAN : CheckNew(u, healthy)
              \/ ExecFails(u) \/ StartExec(u) \/ OutputEnds(u)
              \/ \E l \in {"copying", "draining"} : Inspect(u, l)
              \/ TakeOutput(u) \/ Drain(u)
         \/ \E w \in Warmers : Warmup(w)
         \/ \E w \in Warmers \cup {Keeper} : WarmupLook(w)
         \/ Tick \/ ScanDone
  PROVE  IInv'
<1> USE DEF Execute, AcquireFails, AcquireCold, CheckNew, ExecFails, StartExec, OutputEnds, Inspect,
            TakeOutput, Drain, Warmup, WarmupLook, Tick, ScanDone, Goto, pool, docker, Acquired, New,
            Taken, Using, Procs
<1>1. scan' \subseteq scan \cup IdleSet
  OBVIOUS
<1>2. TypeOK'
  <2>1. IdleSet \subseteq made
    BY IdleIsList
  <2>. QED  BY <2>1 DEF TypeOK, IInv
<1>3. \A p \in Procs :
           \/ pc'[p] = pc[p]
           \/ p \in Users /\ pc[p] \in Acquired /\ pc'[p] \in Acquired
           \/ pc[p] \in New /\ pc'[p] \in {"adding", "dropping"}
           \/ /\ pc[p] \notin Acquired \cup New \cup Taken
              /\ pc'[p] \notin Acquired \cup New \cup Taken
              /\ p \in Users => pc'[p] \notin {"scanning", "off"}
  BY DEF IInv, TypeOK
<1>. QED  BY <1>1, <1>2, <1>3, LocalKeeps

LEMMA ContainerStopsKeeps == ASSUME IInv, NEW c \in Containers, ContainerStops(c) PROVE IInv'
<1> USE DEF IInv, ContainerStops, Goto, Hold, pool, docker, Acquired, New, Taken, Using, Procs
<1>0. IdleSet \subseteq entries /\ entries \subseteq made
  BY IdleIsList
<1>1. IdleSet' = IdleSet /\ ListedOnce'
  BY DEF IdleSet, ListedOnce
<1>2. TypeOK'
  BY <1>0, <1>1 DEF TypeOK
<1>3. Hands'
  BY DEF Hands, TypeOK
<1>4. HeldApart'
  BY DEF HeldApart, HeldNotIdle, Hands, TypeOK
<1>5. HeldNotIdle'
  BY <1>0, <1>1 DEF HeldNotIdle, HeldApart, Hands, TypeOK
<1>6. NewUnknown' /\ TakenOut'
  BY <1>0, <1>1 DEF NewUnknown, TakenOut, TypeOK, Hands, Closing, HeldNotIdle, HeldApart
<1>7. AcquiredKnown' /\ NoOrphan'
  BY <1>0, <1>1 DEF AcquiredKnown, Closing, NoOrphan, TypeOK, Hands, HeldApart
<1>8. Closing'
  BY <1>1 DEF Closing, TypeOK
<1>. QED  BY <1>1, <1>2, <1>3, <1>4, <1>5, <1>6, <1>7, <1>8

LEMMA RejectContainerKeeps == ASSUME IInv, NEW u \in Users, RejectContainer(u) PROVE IInv'
<1> USE DEF IInv, RejectContainer, Remove, Goto, Hold, pool, docker, Acquired, New, Taken, Using, Procs
<1>0. IdleSet \subseteq entries /\ entries \subseteq made
  BY IdleIsList
<1>1. IdleSet' = IdleSet /\ ListedOnce'
  BY DEF IdleSet, ListedOnce
<1>2. TypeOK'
  BY <1>0, <1>1 DEF TypeOK
<1>3. Hands'
  BY DEF Hands, TypeOK
<1>4. HeldApart'
  BY DEF HeldApart, HeldNotIdle, Hands, TypeOK
<1>5. HeldNotIdle'
  BY <1>0, <1>1 DEF HeldNotIdle, HeldApart, Hands, TypeOK
<1>6. NewUnknown' /\ TakenOut'
  BY <1>0, <1>1 DEF NewUnknown, TakenOut, TypeOK, Hands, Closing, HeldNotIdle, HeldApart
<1>7. AcquiredKnown' /\ NoOrphan'
  BY <1>0, <1>1 DEF AcquiredKnown, Closing, NoOrphan, TypeOK, Hands, HeldApart
<1>8. Closing'
  BY <1>1 DEF Closing, TypeOK
<1>. QED  BY <1>1, <1>2, <1>3, <1>4, <1>5, <1>6, <1>7, <1>8

LEMMA CloseDestroyKeeps == ASSUME IInv, NEW c \in Containers, CloseDestroy(c) PROVE IInv'
<1> USE DEF IInv, CloseDestroy, Remove, Goto, Hold, pool, docker, Acquired, New, Taken, Using, Procs
<1>0. IdleSet \subseteq entries /\ entries \subseteq made
  BY IdleIsList
<1>1. IdleSet' = IdleSet /\ ListedOnce'
  BY DEF IdleSet, ListedOnce
<1>2. TypeOK'
  BY <1>0, <1>1 DEF TypeOK
<1>3. Hands'
  BY DEF Hands, TypeOK
<1>4. HeldApart'
  BY DEF HeldApart, HeldNotIdle, Hands, TypeOK
<1>5. HeldNotIdle'
  BY <1>0, <1>1 DEF HeldNotIdle, HeldApart, Hands, TypeOK
<1>6. NewUnknown' /\ TakenOut'
  BY <1>0, <1>1 DEF NewUnknown, TakenOut, TypeOK, Hands, Closing, HeldNotIdle, HeldApart
<1>7. AcquiredKnown' /\ NoOrphan'
  BY <1>0, <1>1 DEF AcquiredKnown, Closing, NoOrphan, TypeOK, Hands, HeldApart
<1>8. Closing'
  BY <1>1 DEF Closing, TypeOK
<1>. QED  BY <1>1, <1>2, <1>3, <1>4, <1>5, <1>6, <1>7, <1>8

LEMMA DestroyKeeps == ASSUME IInv, NEW p \in Procs, Destroy(p) PROVE IInv'
<1> USE DEF IInv, Destroy, Remove, Goto, Hold, pool, docker, Acquired, New, Taken, Using, Procs
<1>0. IdleSet \subseteq entries /\ entries \subseteq made
  BY IdleIsList
<1>1. IdleSet' = IdleSet /\ ListedOnce'
  BY DEF IdleSet, ListedOnce
<1>2. TypeOK'
  BY <1>0, <1>1 DEF TypeOK
<1>3. Hands'
  BY DEF Hands, TypeOK
<1>4. HeldApart'
  BY DEF HeldApart, HeldNotIdle, Hands, TypeOK
<1>5. HeldNotIdle'
  BY <1>0, <1>1 DEF HeldNotIdle, HeldApart, Hands, TypeOK
<1>6. NewUnknown' /\ TakenOut'
  BY <1>0, <1>1 DEF NewUnknown, TakenOut, TypeOK, Hands, Closing, HeldNotIdle, HeldApart
<1>7. AcquiredKnown' /\ NoOrphan'
  BY <1>0, <1>1 DEF AcquiredKnown, Closing, NoOrphan, TypeOK, Hands, HeldApart
<1>8. Closing'
  BY <1>1 DEF Closing, TypeOK
<1>. QED  BY <1>1, <1>2, <1>3, <1>4, <1>5, <1>6, <1>7, <1>8

LEMMA CreateContainerKeeps ==
  ASSUME IInv, NEW u \in Users, NEW c \in Containers, CreateContainer(u, c) PROVE IInv'
<1> USE DEF IInv, CreateContainer, Create, Goto, Hold, pool, docker, Acquired, New, Taken, Using, Procs
<1>0. IdleSet \subseteq entries /\ entries \subseteq made
  BY IdleIsList
<1>1. IdleSet' = IdleSet /\ ListedOnce'
  BY DEF IdleSet, ListedOnce
<1>2. TypeOK'
  BY <1>0, <1>1 DEF TypeOK
<1>3. Hands'
  BY DEF Hands, TypeOK
<1>4. HeldApart'
  BY DEF HeldApart, HeldNotIdle, Hands, TypeOK
<1>5. HeldNotIdle'
  BY <1>0, <1>1 DEF HeldNotIdle, HeldApart, Hands, TypeOK
<1>6. NewUnknown' /\ TakenOut'
  BY <1>0, <1>1 DEF NewUnknown, TakenOut, TypeOK, Hands, Closing, HeldNotIdle, HeldApart
<1>7. AcquiredKnown' /\ NoOrphan'
  BY <1>0, <1>1 DEF AcquiredKnown, Closing, NoOrphan, TypeOK, Hands, HeldApart
<1>8. Closing'
  BY <1>1 DEF Closing, TypeOK
<1>. QED  BY <1>1, <1>2, <1>3, <1>4, <1>5, <1>6, <1>7, <1>8

LEMMA WarmupCreateKeeps == ASSUME IInv, NEW w \in Warmers \cup {Keeper}, WarmupCreate(w) PROVE IInv'
<1> USE DEF IInv, WarmupCreate, Create, Goto, Hold, pool, docker, Acquired, New, Taken, Using, Procs
<1>0. IdleSet \subseteq entries /\ entries \subseteq made
  BY IdleIsList
<1>1. IdleSet' = IdleSet /\ ListedOnce'
  BY DEF IdleSet, ListedOnce
<1>2. TypeOK'
  BY <1>0, <1>1 DEF TypeOK
<1>3. Hands'
  BY DEF Hands, TypeOK
<1>4. HeldApart'
  BY DEF HeldApart, HeldNotIdle, Hands, TypeOK
<1>5. HeldNotIdle'
  BY <1>0, <1>1 DEF HeldNotIdle, HeldApart, Hands, TypeOK
<1>6. NewUnknown' /\ TakenOut'
  BY <1>0, <1>1 DEF NewUnknown, TakenOut, TypeOK, Hands, Closing, HeldNotIdle, HeldApart
<1>7. AcquiredKnown' /\ NoOrphan'
  BY <1>0, <1>1 DEF AcquiredKnown, Closing, NoOrphan, TypeOK, Hands, HeldApart
<1>8. Closing'
  BY <1>1 DEF Closing, TypeOK
<1>. QED  BY <1>1, <1>2, <1>3, <1>4, <1>5, <1>6, <1>7, <1>8

LEMMA AddEntryKeeps == ASSUME IInv, NEW u \in Users, AddEntry(u) PROVE IInv'
<1> USE DEF IInv, AddEntry, Goto, Hold, pool, docker, Acquired, New, Taken, Using, Procs
<1>0. IdleSet \subseteq entries /\ entries \subseteq made
  BY IdleIsList
<1>1. IdleSet' = IdleSet /\ ListedOnce' /\ idle' \in Seq(entries')
  <2>1. idle' = idle /\ entries \subseteq entries'
    OBVIOUS
  <2>. QED  BY <2>1, SeqMonotonic DEF IdleSet, ListedOnce, TypeOK
<1>2. TypeOK'
  <2>1. held[u] \in made
    BY DEF Hands
  <2>. QED  BY <1>0, <1>1, <2>1 DEF TypeOK
<1>3. Hands'
  BY DEF Hands, TypeOK
<1>4. HeldApart'
  BY DEF HeldApart, HeldNotIdle, Hands, TypeOK
<1>5. HeldNotIdle'
  BY <1>0, <1>1 DEF HeldNotIdle, HeldApart, Hands, TypeOK
<1>6. NewUnknown' /\ TakenOut'
  <2>1. \A p \in Procs : p # u /\ pc[p] \in New \cup Taken /\ held[p] = held[u] => FALSE
    BY DEF HeldApart, Hands, TypeOK
  <2>2. NewUnknown'
    BY <2>1 DEF NewUnknown, TypeOK, Closing
  <2>3. TakenOut'
    BY <2>1 DEF TakenOut, NewUnknown, TypeOK, Closing
  <2>. QED  BY <2>2, <2>3
<1>7. AcquiredKnown' /\ NoOrphan'
  BY <1>0, <1>1 DEF AcquiredKnown, Closing, NoOrphan, TypeOK, Hands, HeldApart
<1>8. Closing'
  BY <1>1 DEF Closing, TypeOK
<1>. QED  BY <1>1, <1>2, <1>3, <1>4, <1>5, <1>6, <1>7, <1>8

\* What removeEntry does to the list.
LEMMA RemoveEntryList ==
  ASSUME IInv, NEW c, RemoveEntry(c)
  PROVE  IdleSet' = IdleSet \ {c} /\ ListedOnce' /\ idle' \in Seq(entries')
<1>1. IsList(idle, IdleSet) /\ IdleSet \subseteq entries
  BY IdleIsList
<1>2. IsList(idle', IdleSet \ {c})
  <2>1. CASE c \notin IdleSet
    BY <2>1, <1>1 DEF RemoveEntry, Without
  <2>2. CASE c \in IdleSet
    <3> DEFINE i == CHOOSE i \in 1..Len(idle) : idle[i] = c
    <3>1. i \in 1..Len(idle) /\ idle[i] = c
      BY <2>2 DEF IdleSet
    <3>2. idle' = [j \in 1..Len(idle) - 1 |-> IF j < i THEN idle[j] ELSE idle[j + 1]]
      BY <2>2 DEF RemoveEntry, Without
    <3>. HIDE DEF i
    <3>. QED  BY <3>1, <3>2, <1>1, RemoveFromList
  <2>. QED  BY <2>1, <2>2
<1>3. idle' \in Seq(entries')
  <2>1. idle' \in Seq(IdleSet \ {c}) /\ IdleSet \ {c} \subseteq entries'
    BY <1>1, <1>2 DEF IsList, RemoveEntry
  <2>. QED  BY <2>1, SeqMonotonic
<1>. QED  BY <1>2, <1>3 DEF IsList, IdleSet, ListedOnce

LEMMA CheckIdleKeeps ==
  ASSUME IInv, NEW u \in Users, NEW healthy \in BOOLEAN, CheckIdle(u, healthy) PROVE IInv'
<1> USE DEF IInv, CheckIdle, RemoveEntry, Goto, Hold, pool, docker, Acquired, New, Taken, Using, Procs
<1>0. IdleSet \subseteq entries /\ entries \subseteq made
  BY IdleIsList
<1>1. CASE healthy
  <2>1. TypeOK' /\ scan' \subseteq scan
    BY <1>1 DEF TypeOK
  <2>. QED  BY <1>1, <2>1, LocalKeeps DEF TypeOK
<1>2. CASE ~healthy
  <2> USE <1>2
  <2>1. IdleSet' = IdleSet \ {held[u]} /\ ListedOnce' /\ idle' \in Seq(entries')
    BY RemoveEntryList
  <2>2. TypeOK'
    BY <1>0, <2>1 DEF TypeOK
  <2>3. Hands'
    BY DEF Hands, TypeOK
  <2>4. HeldApart'
    BY DEF HeldApart, HeldNotIdle, Hands, TypeOK
  <2>5. HeldNotIdle'
    BY <1>0, <2>1 DEF HeldNotIdle, HeldApart, Hands, TypeOK
  <2>6. NewUnknown' /\ TakenOut'
    BY <1>0, <2>1 DEF NewUnknown, TakenOut, TypeOK, Hands, Closing, HeldNotIdle, HeldApart
  <2>7. AcquiredKnown' /\ NoOrphan'
    BY <1>0, <2>1 DEF AcquiredKnown, Closing, NoOrphan, TypeOK, Hands, HeldApart
  <2>8. Closing'
    BY <2>1 DEF Closing, TypeOK
  <2>. QED  BY <2>1, <2>2, <2>3, <2>4, <2>5, <2>6, <2>7, <2>8
<1>. QED  BY <1>1, <1>2

LEMMA ScanKeeps ==
  ASSUME IInv, NEW c \in Containers, NEW healthy \in BOOLEAN, Scan(c, healthy) PROVE IInv'
<1> USE DEF IInv, Scan, RemoveEntry, Goto, Hold, pool, docker, Acquired, New, Taken, Using, Procs
<1>0. IdleSet \subseteq entries /\ entries \subseteq made
  BY IdleIsList
<1>1. CASE healthy
  <2>1. TypeOK' /\ scan' \subseteq scan
    BY <1>1 DEF TypeOK
  <2>. QED  BY <1>1, <2>1, LocalKeeps DEF TypeOK
<1>2. CASE ~healthy
  <2> USE <1>2
  <2>1. IdleSet' = IdleSet \ {c} /\ ListedOnce' /\ idle' \in Seq(entries')
    BY RemoveEntryList
  <2>2. TypeOK'
    BY <1>0, <2>1 DEF TypeOK
  <2>3. Hands'
    BY DEF Hands, TypeOK
  <2>4. HeldApart'
    <3>1. \A q \in Procs : pc'[q] \in New => held'[q] # c
      BY DEF NewUnknown, TypeOK
    <3>. QED  BY <3>1 DEF HeldApart, Hands, TypeOK
  <2>5. HeldNotIdle'
    BY <1>0, <2>1 DEF HeldNotIdle, HeldApart, Hands, TypeOK
  <2>6. NewUnknown' /\ TakenOut'
    BY <1>0, <2>1 DEF NewUnknown, TakenOut, TypeOK, Hands, Closing, HeldNotIdle, HeldApart
  <2>7. AcquiredKnown' /\ NoOrphan'
    BY <1>0, <2>1 DEF AcquiredKnown, Closing, NoOrphan, TypeOK, Hands, HeldApart
  <2>8. Closing'
    BY <2>1 DEF Closing, TypeOK
  <2>. QED  BY <2>1, <2>2, <2>3, <2>4, <2>5, <2>6, <2>7, <2>8
<1>. QED  BY <1>1, <1>2

\* The last place is taken off the list.
LEMMA AcquireIdleList ==
  ASSUME IInv, NEW u \in Users, AcquireIdle(u)
  PROVE  /\ IdleSet' = IdleSet \ {idle[Len(idle)]} /\ ListedOnce' /\ idle' \in Seq(entries')
         /\ idle[Len(idle)] \in IdleSet
<1>1. IsList(idle, IdleSet) /\ IdleSet \subseteq entries
  BY IdleIsList
<1>2. Len(idle) \in Nat \ {0} /\ idle' = SubSeq(idle, 1, Len(idle) - 1)
  BY EmptySeq DEF IInv, TypeOK, AcquireIdle
<1>3. idle' = [j \in 1..Len(idle) - 1 |-> IF j < Len(idle) THEN idle[j] ELSE idle[j + 1]]
  BY <1>2, <1>1 DEF IsList
<1>4. Len(idle) \in 1..Len(idle)
  BY <1>2
<1>5. IsList(idle', IdleSet \ {idle[Len(idle)]})
  BY <1>1, <1>3, <1>4, RemoveFromList
<1>6. idle' \in Seq(entries')
  <2>1. idle' \in Seq(IdleSet \ {idle[Len(idle)]}) /\ entries' = entries
    BY <1>5 DEF IsList, AcquireIdle
  <2>. QED  BY <2>1, <1>1, SeqMonotonic
<1>. QED  BY <1>4, <1>5, <1>6 DEF IsList, IdleSet, ListedOnce

LEMMA AcquireIdleKeeps == ASSUME IInv, NEW u \in Users, AcquireIdle(u) PROVE IInv'
<1> USE DEF IInv, AcquireIdle, Goto, Hold, pool, docker, Acquired, New, Taken, Using, Procs
<1>0. IdleSet \subseteq entries /\ entries \subseteq made
  BY IdleIsList
<1> DEFINE c == idle[Len(idle)]
<1>1. IdleSet' = IdleSet \ {c} /\ ListedOnce' /\ idle' \in Seq(entries') /\ c \in IdleSet
  BY AcquireIdleList
<1>a. /\ pc[u] = "acquiring" /\ ~closed /\ c \in IdleSet /\ c \in entries
      /\ pc' = [pc EXCEPT ![u] = "checking"] /\ held' = [held EXCEPT ![u] = c]
      /\ UNCHANGED <<closed, entries, closing, made, exists, running, scan, output>>
  BY <1>0, <1>1
<1>. HIDE DEF c, AcquireIdle
<1>2. TypeOK'
  BY <1>a, <1>0, <1>1 DEF TypeOK
<1>3. Hands'
  BY <1>a DEF Hands, TypeOK
<1>4. HeldApart'
  BY <1>a DEF HeldApart, HeldNotIdle, Hands, TypeOK
<1>5. HeldNotIdle'
  BY <1>a, <1>0, <1>1 DEF HeldNotIdle, HeldApart, Hands, TypeOK
<1>6. NewUnknown' /\ TakenOut'
  BY <1>a, <1>0, <1>1 DEF NewUnknown, TakenOut, TypeOK, Hands, Closing, HeldNotIdle, HeldApart
<1>7. AcquiredKnown' /\ NoOrphan'
  BY <1>a, <1>0, <1>1 DEF AcquiredKnown, Closing, NoOrphan, TypeOK, Hands, HeldApart
<1>8. Closing'
  BY <1>1, <1>a DEF Closing, TypeOK
<1>. QED  BY <1>1, <1>2, <1>3, <1>4, <1>5, <1>6, <1>7, <1>8

\* A container is put at the end of the list, or is not.
LEMMA ListGrows ==
  ASSUME IInv, NEW c, \/ idle' = idle /\ IdleSet \subseteq entries'
                      \/ idle' = Append(idle, c) /\ c \notin IdleSet /\ IdleSet \cup {c} \subseteq entries'
  PROVE  /\ IdleSet' \subseteq IdleSet \cup {c} /\ IdleSet' \subseteq entries'
         /\ ListedOnce' /\ idle' \in Seq(entries')
<1>1. IsList(idle, IdleSet)
  BY IdleIsList
<1>2. \E S : S \subseteq IdleSet \cup {c} /\ S \subseteq entries' /\ IsList(idle', S)
  <2>1. CASE idle' = idle /\ IdleSet \subseteq entries'
    BY <1>1, <2>1
  <2>2. CASE idle' = Append(idle, c) /\ c \notin IdleSet /\ IdleSet \cup {c} \subseteq entries'
    <3>1. IsList(idle', IdleSet \cup {c})
      BY <1>1, <2>2, AppendList
    <3>. QED  BY <2>2, <3>1
  <2>. QED  BY <2>1, <2>2
<1>3. PICK S : S \subseteq IdleSet \cup {c} /\ S \subseteq entries' /\ IsList(idle', S)
  BY <1>2
<1>4. idle' \in Seq(entries')
  BY <1>3, SeqMonotonic DEF IsList
<1>. QED  BY <1>3, <1>4 DEF IsList, IdleSet, ListedOnce

LEMMA ReleaseList ==
  ASSUME IInv, NEW u \in Users, NEW expired \in BOOLEAN, Release(u, expired)
  PROVE  /\ IdleSet' \subseteq IdleSet \cup ({held[u]} \cap entries) /\ IdleSet' \subseteq entries'
         /\ ListedOnce' /\ idle' \in Seq(entries')
<1>1. IdleSet \subseteq entries /\ held[u] \notin IdleSet
  BY IdleIsList DEF IInv, HeldNotIdle, Procs
<1>2. CASE idle' = idle
  <2>1. IdleSet \subseteq entries' /\ IdleSet' = IdleSet
    BY <1>1, <1>2 DEF Release, IdleSet
  <2>. QED  BY <1>2, <2>1, ListGrows
<1>3. CASE idle' # idle
  <2>1. idle' = Append(idle, held[u]) /\ held[u] \in entries /\ entries' = entries
    BY <1>3 DEF Release
  <2>. QED  BY <1>1, <2>1, ListGrows
<1>. QED  BY <1>2, <1>3

LEMMA ReleaseKeeps ==
  ASSUME IInv, NEW u \in Users, NEW expired \in BOOLEAN, Release(u, expired) PROVE IInv'
<1> USE DEF IInv, Release, Goto, Hold, pool, docker, Acquired, New, Taken, Using, Procs
<1>0. IdleSet \subseteq entries /\ entries \subseteq made
  BY IdleIsList
<1>1. /\ IdleSet' \subseteq IdleSet \cup ({held[u]} \cap entries) /\ IdleSet' \subseteq entries'
      /\ ListedOnce' /\ idle' \in Seq(entries')
  BY ReleaseList
<1>2. TypeOK'
  BY <1>0, <1>1 DEF TypeOK
<1>3. Hands'
  BY DEF Hands, TypeOK
<1>4. HeldApart'
  BY DEF HeldApart, HeldNotIdle, Hands, TypeOK
<1>5. HeldNotIdle'
  <2>1. held'[u] \notin IdleSet'
    <3>1. CASE held' = held
      <4>1. held[u] \notin entries'
        BY <3>1, <1>3 DEF Hands, TypeOK, Closing
      <4>. QED  BY <1>1, <3>1, <4>1
    <3>2. CASE held'[u] = NoContainer
      BY <1>0, <1>1, <3>2 DEF TypeOK
    <3>. QED  BY <3>1, <3>2 DEF TypeOK
  <2>2. ASSUME NEW p \in Procs \ {u} PROVE held[p] \notin IdleSet' /\ held'[p] = held[p]
    <3>1. held[u] \in entries /\ held[p] = held[u] => pc[p] # "scanDestroying"
      BY DEF TakenOut
    <3>2. held[u] \in entries => held[p] # held[u]
      BY <3>1, <1>0 DEF HeldApart, Hands, TypeOK
    <3>. QED  BY <1>1, <3>2 DEF HeldNotIdle, TypeOK
  <2>. QED  BY <2>1, <2>2 DEF HeldNotIdle
<1>6. NewUnknown' /\ TakenOut'
  <2>1. /\ entries' \subseteq entries /\ scan' = scan /\ closing' = closing
        /\ pc[u] \notin New \cup Taken /\ pc'[u] \notin New
        /\ \A p \in Procs \ {u} : pc'[p] = pc[p] /\ held'[p] = held[p]
    BY DEF TypeOK
  <2>2. pc'[u] \in Taken => held'[u] \notin entries'
    BY DEF TypeOK, Closing
  <2>. QED  BY <2>1, <2>2 DEF NewUnknown, TakenOut
<1>7. AcquiredKnown' /\ NoOrphan'
  BY <1>0, <1>1 DEF AcquiredKnown, Closing, NoOrphan, TypeOK, Hands, HeldApart
<1>8. Closing'
  BY <1>1 DEF Closing, TypeOK
<1>. QED  BY <1>1, <1>2, <1>3, <1>4, <1>5, <1>6, <1>7, <1>8

LEMMA WarmupAddList ==
  ASSUME IInv, NEW w \in Warmers \cup {Keeper}, WarmupAdd(w)
  PROVE  /\ IdleSet' \subseteq IdleSet \cup {held[w]} /\ IdleSet' \subseteq entries'
         /\ ListedOnce' /\ idle' \in Seq(entries')
<1>1. IdleSet \subseteq entries /\ held[w] \notin IdleSet
  BY IdleIsList DEF IInv, HeldNotIdle, Procs
<1>2. \/ idle' = idle /\ IdleSet \subseteq entries'
      \/ idle' = Append(idle, held[w]) /\ IdleSet \cup {held[w]} \subseteq entries'
  BY <1>1 DEF WarmupAdd
<1>. QED  BY <1>1, <1>2, ListGrows

LEMMA WarmupAddKeeps == ASSUME IInv, NEW w \in Warmers \cup {Keeper}, WarmupAdd(w) PROVE IInv'
<1> USE DEF IInv, WarmupAdd, Goto, Hold, pool, docker, Acquired, New, Taken, Using, Procs
<1>0. IdleSet \subseteq entries /\ entries \subseteq made
  BY IdleIsList
<1>1. /\ IdleSet' \subseteq IdleSet \cup {held[w]} /\ IdleSet' \subseteq entries'
      /\ ListedOnce' /\ idle' \in Seq(entries')
  BY WarmupAddList
<1>2. TypeOK'
  <2>1. held[w] \in made
    BY DEF Hands
  <2>. QED  BY <1>0, <1>1, <2>1 DEF TypeOK
<1>3. Hands'
  BY DEF Hands, TypeOK
<1>4. HeldApart'
  BY DEF HeldApart, HeldNotIdle, Hands, TypeOK
<1>5. HeldNotIdle'
  <2>1. CASE closed
    BY <2>1, <1>0 DEF HeldNotIdle, IdleSet, TypeOK
  <2>2. CASE ~closed
    <3>1. held'[w] \notin IdleSet'
      <4>1. held'[w] = NoContainer /\ NoContainer \notin entries'
        BY <2>2, <1>2 DEF TypeOK
      <4>. QED  BY <1>1, <4>1
    <3>2. ASSUME NEW p \in Procs \ {w} PROVE held[p] # held[w] /\ held'[p] = held[p]
      BY <2>2 DEF HeldApart, Hands, TypeOK
    <3>. QED  BY <1>1, <3>1, <3>2 DEF HeldNotIdle
  <2>. QED  BY <2>1, <2>2
<1>6. NewUnknown' /\ TakenOut'
  <2>1. \A p \in Procs : p # w /\ pc[p] \in New \cup Taken /\ held[p] = held[w] => FALSE
    BY DEF HeldApart, Hands, TypeOK
  <2>2. NewUnknown'
    BY <2>1 DEF NewUnknown, TypeOK, Closing
  <2>3. TakenOut'
    BY <2>1 DEF TakenOut, NewUnknown, TypeOK, Closing
  <2>. QED  BY <2>2, <2>3
<1>7. AcquiredKnown' /\ NoOrphan'
  BY <1>0, <1>1 DEF AcquiredKnown, Closing, NoOrphan, TypeOK, Hands, HeldApart
<1>8. Closing'
  BY <1>1 DEF Closing, TypeOK
<1>. QED  BY <1>1, <1>2, <1>3, <1>4, <1>5, <1>6, <1>7, <1>8

LEMMA CloseKeeps == ASSUME IInv, Close PROVE IInv'
<1> USE DEF IInv, Close, Goto, Hold, pool, docker, Acquired, New, Taken, Using, Procs
<1>0. IdleSet \subseteq entries /\ entries \subseteq made
  BY IdleIsList
<1>1. IdleSet' = {} /\ ListedOnce' /\ idle' \in Seq(entries')
  <2>1. idle' = <<>> /\ Len(<<>>) = 0
    OBVIOUS
  <2>. QED  BY <2>1, EmptySeq DEF IdleSet, ListedOnce
<1>2. TypeOK'
  BY <1>0, <1>1 DEF TypeOK
<1>3. Hands'
  BY DEF Hands, TypeOK
<1>4. HeldApart'
  BY DEF HeldApart, HeldNotIdle, Hands, TypeOK
<1>5. HeldNotIdle'
  BY <1>0, <1>1 DEF HeldNotIdle, HeldApart, Hands, TypeOK
<1>6. NewUnknown' /\ TakenOut'
  BY <1>0, <1>1 DEF NewUnknown, TakenOut, TypeOK, Hands, Closing, HeldNotIdle, HeldApart
<1>7. AcquiredKnown' /\ NoOrphan'
  BY <1>0, <1>1 DEF AcquiredKnown, Closing, NoOrphan, TypeOK, Hands, HeldApart
<1>8. Closing'
  BY <1>1 DEF Closing, TypeOK
<1>. QED  BY <1>1, <1>2, <1>3, <1>4, <1>5, <1>6, <1>7, <1>8

-----------------------------------------------------------------------------
(* The theorems.                                                           *)

LEMMA NextKeeps == ASSUME IInv, Next PROVE IInv'
<1>1. CASE \E u \in Users : Execute(u)
  BY <1>1, LocalSteps DEF Execute
<1>2. ASSUME NEW u \in Users, Acquire(u) PROVE IInv'
  <2>1. CASE AcquireFails(u) \/ AcquireCold(u) \/ \E healthy \in BOOLEAN : CheckNew(u, healthy)
    BY <2>1, LocalSteps DEF AcquireFails, AcquireCold, CheckNew
  <2>2. CASE AcquireIdle(u)
    BY <2>2, AcquireIdleKeeps
  <2>3. CASE \E c \in Containers : CreateContainer(u, c)
    BY <2>3, CreateContainerKeeps
  <2>4. CASE \E healthy \in BOOLEAN : CheckIdle(u, healthy)
    BY <2>4, CheckIdleKeeps
  <2>5. CASE AddEntry(u)
    BY <2>5, AddEntryKeeps
  <2>. QED  BY <1>2, <2>1, <2>2, <2>3, <2>4, <2>5 DEF Acquire
<1>3. ASSUME NEW u \in Users, RunCommand(u) \/ OutputEnds(u) PROVE IInv'
  <2>1. CASE RejectContainer(u)
    BY <2>1, RejectContainerKeeps
  <2>2. CASE ExecFails(u) \/ StartExec(u) \/ TakeOutput(u) \/ Drain(u) \/ OutputEnds(u)
    BY <2>2, LocalSteps DEF ExecFails, StartExec, TakeOutput, Drain, OutputEnds, pool, docker
  <2>3. CASE \E l \in {"copying", "draining"} : Inspect(u, l)
    BY <2>3, LocalSteps DEF Inspect
  <2>4. CASE \E expired \in BOOLEAN : Release(u, expired)
    BY <2>4, ReleaseKeeps
  <2>. QED  BY <1>3, <2>1, <2>2, <2>3, <2>4 DEF RunCommand
<1>4. CASE \E w \in Warmers : Warmup(w)
  BY <1>4, LocalSteps DEF Warmup
<1>5. ASSUME NEW w \in Warmers \cup {Keeper}, Warm(w) PROVE IInv'
  <2>1. CASE WarmupLook(w)
    BY <2>1, LocalSteps DEF WarmupLook
  <2>. QED  BY <1>5, <2>1, WarmupCreateKeeps, WarmupAddKeeps DEF Warm
<1>6. CASE Tick \/ ScanDone
  BY <1>6, LocalSteps DEF Tick, ScanDone
<1>. QED  BY <1>1, <1>2, <1>3, <1>4, <1>5, <1>6, DestroyKeeps, CloseKeeps, ContainerStopsKeeps,
             CloseDestroyKeeps, ScanKeeps DEF Next

LEMMA StutterKeeps == ASSUME IInv, UNCHANGED vars PROVE IInv'
BY DEF vars, pool, docker, IInv, TypeOK, Hands, ListedOnce, HeldApart, HeldNotIdle, NewUnknown, TakenOut,
       AcquiredKnown, Closing, NoOrphan, IdleSet

\* The invariant: who has which container, and what the pool knows of it.
THEOREM Invariance == Spec => []IInv
<1>1. IInv /\ [Next]_vars => IInv'
  BY NextKeeps, StutterKeeps
<1>. QED  BY InitHolds, <1>1, PTL DEF Spec

\* The pool, Docker and the goroutines keep their types: the idle containers have
\* entries, and what runs exists.
THEOREM TypeCorrect == Spec => []TypeOK
<1>1. IInv => TypeOK
  BY DEF IInv
<1>. QED  BY <1>1, Invariance, PTL

\* No two executions ever run in the same container, and none in one that is still
\* on the idle list, whatever the health checks, Close and the background
\* goroutine do at the time.
THEOREM ContainersExclusive == Spec => []Exclusive
<1>1. IInv => Exclusive
  <2>. SUFFICES ASSUME IInv, NEW u \in Users, pc[u] \in Using \cup {"checking"}
                PROVE  held[u] \notin IdleSet /\ \A v \in Users \ {u} : held[v] # held[u]
    BY DEF Exclusive
  <2>1. held[u] # NoContainer /\ held[u] \notin IdleSet
    BY DEF IInv, Hands, HeldNotIdle, Acquired, Procs
  <2>2. \A v \in Users : pc[v] # "scanDestroying"
    BY DEF IInv, Hands
  <2>. QED  BY <2>1, <2>2 DEF IInv, HeldApart, Procs
<1>. QED  BY <1>1, Invariance, PTL

\* Whatever step a failed check, an expiry or Close comes at, a container that
\* exists has an entry, is one Close has still to destroy, or is in the hands of a
\* goroutine that adds or destroys it.
THEOREM NoneLeftBehind == Spec => []NoOrphan
<1>1. IInv => NoOrphan
  BY DEF IInv
<1>. QED  BY <1>1, Invariance, PTL
=============================================================================
