--------------------------- MODULE SessionsProofs ---------------------------
(***************************************************************************)
(* Proofs about Sessions, for any turns, resets, workers, files, objects,  *)
(* crashes and any length of history: a session that nothing has spoiled   *)
(* keeps every message once, and the histories given to the model pair     *)
(* tool calls and results.                                                 *)
(***************************************************************************)
EXTENDS Sessions, FiniteSetTheorems, SequenceTheorems, WellFoundedInduction, TLAPS

-----------------------------------------------------------------------------
(* Least and greatest members of sets of numbers.                          *)

Less == {ss \in Nat \X Nat : ss[1] < ss[2]}

LEMMA LessWellFounded == IsWellFoundedOn(Less, Nat)
BY NatLessThanWellFounded DEF OpToRel, Less

LEMMA LeastExists ==
  ASSUME NEW S \in SUBSET Nat, S # {}
  PROVE  \E x \in S : \A y \in S : x <= y
<1>1. S \subseteq Nat
  OBVIOUS
<1>2. \E x \in S : \A y \in S : ~ (<<y, x>> \in Less)
  BY <1>1, LessWellFounded, WFMin, Zenon
<1>3. \A x, y \in Nat : <<y, x>> \notin Less => x <= y
  BY DEF Less
<1> QED BY <1>1, <1>2, <1>3

LEMMA MinIsLeast ==
  ASSUME NEW S \in SUBSET Nat, S # {}
  PROVE  Min(S) \in S /\ \A y \in S : Min(S) <= y
BY LeastExists DEF Min

LEMMA MaxIsGreatest ==
  ASSUME NEW n \in Nat, NEW S \in SUBSET (1 .. n), S # {}
  PROVE  Max(S) \in S /\ \A y \in S : y <= Max(S)
<1> DEFINE below == {n - x : x \in S}
<1>1. below \in SUBSET Nat /\ below # {}
  <2>1. \A x \in S : n - x \in Nat
    OBVIOUS
  <2> QED BY <2>1
<1>2. PICK b \in below : \A y \in below : b <= y
  BY <1>1, LeastExists
<1>3. PICK x \in S : b = n - x
  BY <1>2
<1>4. \A y \in S : x >= y
  <2> TAKE y \in S
  <2>1. b <= n - y
    BY <1>2
  <2> QED BY <2>1, <1>3
<1> QED BY <1>4 DEF Max

-----------------------------------------------------------------------------
(* The search for a safe start is a function, which recursion over the     *)
(* places defines.                                                         *)

CallBefore(s, i) == {j \in 1 .. i - 1 : IsCallOf(s[j], s[i])}
Answered(s, i) == \A n \in Calls : \E k \in i + 1 .. Len(s) : IsResultOf(s[k], s[i]) /\ s[k].n = n

\* One step of the search for a safe start, given what is known of the places before.
StartAt(s, f, i) ==
  IF i = 1 THEN 1
  ELSE IF s[i].role = "tool"
       THEN IF CallBefore(s, i) = {} THEN i + 1 ELSE f[Max(CallBefore(s, i))]
       ELSE IF s[i].role \in {"call", "unrun"} /\ ~Answered(s, i) THEN f[i - 1] ELSE i

\* The search looks at places before the one it is at only.
LEMMA StartLocal ==
  ASSUME NEW s, NEW f, NEW g, NEW i \in Nat \ {0}, \A j \in 1 .. i - 1 : f[j] = g[j]
  PROVE  StartAt(s, f, i) = StartAt(s, g, i)
<1>1. CallBefore(s, i) # {} => Max(CallBefore(s, i)) \in 1 .. i - 1
  <2>1. CallBefore(s, i) \in SUBSET (1 .. i - 1) /\ i - 1 \in Nat
    BY DEF CallBefore
  <2> QED BY <2>1, MaxIsGreatest
<1>2. i # 1 => i - 1 \in 1 .. i - 1
  OBVIOUS
<1> QED BY <1>1, <1>2 DEF StartAt

\* A step of the search stays in the history, or one behind it.
LEMMA StartType ==
  ASSUME NEW s, NEW n \in Nat, NEW i \in 1 .. n, NEW f, \A j \in 1 .. i - 1 : f[j] \in 1 .. n + 1
  PROVE  StartAt(s, f, i) \in 1 .. n + 1
<1>1. CallBefore(s, i) # {} => Max(CallBefore(s, i)) \in 1 .. i - 1
  <2>1. CallBefore(s, i) \in SUBSET (1 .. i - 1) /\ i - 1 \in Nat
    BY DEF CallBefore
  <2> QED BY <2>1, MaxIsGreatest
<1>2. i # 1 => i - 1 \in 1 .. i - 1
  OBVIOUS
<1> QED BY <1>1, <1>2 DEF StartAt

\* There is a function that obeys the steps of the search at every place.
LEMMA StartsExist ==
  ASSUME NEW s, NEW n \in Nat
  PROVE  \E f \in [1 .. n -> 1 .. n + 1] : f = [i \in 1 .. n |-> StartAt(s, f, i)]
<1> DEFINE Has(m) == \E f \in [1 .. m -> 1 .. n + 1] : \A i \in 1 .. m : f[i] = StartAt(s, f, i)
           bad == {m \in 0 .. n : ~Has(m)}
<1>1. Has(0)
  <2>1. [i \in 1 .. 0 |-> 1] \in [1 .. 0 -> 1 .. n + 1] /\ \A i \in 1 .. 0 : FALSE
    OBVIOUS
  <2> QED BY <2>1, Zenon
<1>2. ASSUME NEW m \in 1 .. n, Has(m - 1) PROVE Has(m)
  <2>1. PICK f \in [1 .. m - 1 -> 1 .. n + 1] : \A i \in 1 .. m - 1 : f[i] = StartAt(s, f, i)
    BY <1>2
  <2> DEFINE g == [i \in 1 .. m |-> IF i < m THEN f[i] ELSE StartAt(s, f, m)]
  <2>2. \A j \in 1 .. m - 1 : g[j] = f[j]
    OBVIOUS
  <2>3. StartAt(s, f, m) \in 1 .. n + 1
    BY StartType
  <2>4. g \in [1 .. m -> 1 .. n + 1]
    BY <2>3
  <2>5. ASSUME NEW i \in 1 .. m PROVE g[i] = StartAt(s, g, i)
    <3>1. \A j \in 1 .. i - 1 : g[j] = f[j]
      BY <2>2
    <3>2. StartAt(s, g, i) = StartAt(s, f, i)
      BY <3>1, StartLocal
    <3>3. g[i] = StartAt(s, f, i)
      BY <2>1
    <3> QED BY <3>2, <3>3
  <2> QED BY <2>4, <2>5
<1>3. bad = {}
  <2> SUFFICES ASSUME bad # {} PROVE FALSE
    OBVIOUS
  <2> HIDE DEF Has
  <2>1. PICK m \in bad : \A k \in bad : m <= k
    <3>1. bad \in SUBSET Nat
      OBVIOUS
    <3> QED BY <3>1, LeastExists
  <2>2. m # 0 /\ m \in 1 .. n /\ m - 1 \in 0 .. n /\ m - 1 \notin bad
    BY <1>1, <2>1
  <2> QED BY <1>2, <2>1, <2>2
<1>4. PICK f \in [1 .. n -> 1 .. n + 1] : \A i \in 1 .. n : f[i] = StartAt(s, f, i)
  <2> HIDE DEF Has
  <2>1. Has(n)
    BY <1>3
  <2> QED BY <2>1 DEF Has
<1>5. f = [i \in 1 .. n |-> StartAt(s, f, i)]
  BY <1>4
<1> QED BY <1>5

Starts(s) == CHOOSE f : f = [i \in 1 .. Len(s) |-> StartAt(s, f, i)]

LEMMA StartsDef ==
  ASSUME NEW s \in Seq(Messages)
  PROVE  Starts(s) = [i \in 1 .. Len(s) |-> StartAt(s, Starts(s), i)]
<1>1. \E f : f = [i \in 1 .. Len(s) |-> StartAt(s, f, i)]
  BY StartsExist
<1> QED BY <1>1 DEF Starts

LEMMA SafeStartIs == \A s : SafeStart(s) = Starts(s)[Len(s) - MaxHistory + 1]
BY DEF SafeStart, Starts, StartAt, CallBefore, Answered

\* So the search ends at a place of the history, or one behind it.
LEMMA StartsType ==
  ASSUME NEW s \in Seq(Messages)
  PROVE  \A i \in 1 .. Len(s) : Starts(s)[i] \in 1 .. Len(s) + 1
<1> DEFINE bad == {i \in 1 .. Len(s) : Starts(s)[i] \notin 1 .. Len(s) + 1}
<1> SUFFICES ASSUME bad # {} PROVE FALSE
  OBVIOUS
<1>1. PICK i \in bad : \A j \in bad : i <= j
  <2>1. bad \in SUBSET Nat
    OBVIOUS
  <2> QED BY <2>1, LeastExists
<1>2. \A j \in 1 .. i - 1 : Starts(s)[j] \in 1 .. Len(s) + 1
  BY <1>1
<1>3. StartAt(s, Starts(s), i) \in 1 .. Len(s) + 1
  <2>1. Len(s) \in Nat /\ i \in 1 .. Len(s)
    OBVIOUS
  <2> HIDE DEF bad
  <2> QED BY <1>2, <2>1, StartType
<1>4. Starts(s)[i] = StartAt(s, Starts(s), i)
  BY StartsDef
<1> QED BY <1>3, <1>4

-----------------------------------------------------------------------------
(* What the operators on histories return.                                 *)

LEMMA ToSetType ==
  ASSUME NEW s \in Seq(Messages)
  PROVE  ToSet(s) \subseteq Messages
BY DEF ToSet

\* What SubSeq cuts out of a history.
LEMMA CutType ==
  ASSUME NEW s \in Seq(Messages), NEW i \in Nat, NEW j \in Nat, i >= 1, j <= Len(s)
  PROVE  /\ SubSeq(s, i, j) \in Seq(Messages)
         /\ Len(SubSeq(s, i, j)) = IF i <= j THEN j - i + 1 ELSE 0
         /\ \A k \in 1 .. Len(SubSeq(s, i, j)) : SubSeq(s, i, j)[k] = s[i + k - 1]
<1>1. \A k \in i .. j : s[k] \in Messages
  OBVIOUS
<1>2. i \in Int /\ j \in Int
  OBVIOUS
<1> QED BY <1>1, <1>2, SubSeqProperties

LEMMA SafeHistoryType ==
  ASSUME NEW s \in Seq(Messages)
  PROVE  GetHistorySafe(s) \in Seq(Messages)
<1>1. CASE MaxHistory >= Len(s)
  BY <1>1 DEF GetHistorySafe
<1>2. CASE MaxHistory < Len(s)
  <2>1. Len(s) - MaxHistory + 1 \in 1 .. Len(s)
    BY <1>2, SessionsAssumption
  <2>2. SafeStart(s) \in 1 .. Len(s) + 1
    BY <2>1, SafeStartIs, StartsType
  <2>3. SubSeq(s, SafeStart(s), Len(s)) \in Seq(Messages)
    BY <2>2, CutType
  <2> QED BY <1>2, <2>3, SessionsAssumption DEF GetHistorySafe
<1> QED BY <1>1, <1>2, SessionsAssumption

LEMMA UsersType ==
  ASSUME NEW s \in Seq(Messages)
  PROVE  Users(s) \in SUBSET (1 .. Len(s)) /\ IsFiniteSet(Users(s))
<1>1. Users(s) \in SUBSET (1 .. Len(s))
  BY DEF Users
<1>2. IsFiniteSet(1 .. Len(s))
  BY FS_Interval
<1> QED BY <1>1, <1>2, FS_Subset

\* A safe boundary lies in the history, and one inside it is right before a
\* user's message or in a history that has none.
LEMMA SafeBoundaryIs ==
  ASSUME NEW s \in Seq(Messages), NEW target \in Int
  PROVE  /\ SafeBoundary(s, target) \in 0 .. Len(s)
         /\ target < Len(s) /\ Users(s) # {} /\ SafeBoundary(s, target) > 0 =>
              SafeBoundary(s, target) + 1 \in Users(s)
<1> DEFINE before == {i \in Users(s) : i - 1 <= target}
           after == Users(s) \ before
<1>1. Users(s) \in SUBSET (1 .. Len(s))
  BY UsersType
<1>2. before \in SUBSET (1 .. Len(s)) /\ after \in SUBSET (1 .. Len(s))
  BY <1>1
<1>3. before # {} => Max(before) \in before
  <2>1. Len(s) \in Nat
    OBVIOUS
  <2> HIDE DEF before
  <2> QED BY <1>2, <2>1, MaxIsGreatest
<1>4. after # {} => Min(after) \in after
  <2>1. after \in SUBSET Nat
    BY <1>2
  <2> HIDE DEF after
  <2> QED BY <2>1, MinIsLeast
<1>5. CASE target <= 0 \/ target >= Len(s) \/ Users(s) = {}
  BY <1>5 DEF SafeBoundary
<1>6. CASE target > 0 /\ target < Len(s) /\ Users(s) # {}
  <2>1. \/ SafeBoundary(s, target) = 0
        \/ before # {} /\ Max(before) > 1 /\ SafeBoundary(s, target) = Max(before) - 1
        \/ after # {} /\ SafeBoundary(s, target) = Min(after) - 1
    <3> DEFINE b == SafeBoundary(s, target)
    <3>1. b = IF before # {} /\ Max(before) > 1 THEN Max(before) - 1
              ELSE IF after # {} THEN Min(after) - 1 ELSE 0
      BY <1>6 DEF SafeBoundary
    <3> HIDE DEF b, before, after
    <3>2. CASE before # {} /\ Max(before) > 1
      BY <3>1, <3>2 DEF b
    <3>3. CASE ~(before # {} /\ Max(before) > 1) /\ after # {}
      BY <3>1, <3>3 DEF b
    <3>4. CASE ~(before # {} /\ Max(before) > 1) /\ after = {}
      BY <3>1, <3>4 DEF b
    <3> QED BY <3>2, <3>3, <3>4
  <2>2. CASE before # {} /\ Max(before) > 1 /\ SafeBoundary(s, target) = Max(before) - 1
    <3>1. Max(before) \in Users(s) /\ Max(before) \in 1 .. Len(s)
      BY <2>2, <1>1, <1>3
    <3> HIDE DEF before
    <3> QED BY <2>2, <3>1
  <2>3. CASE after # {} /\ SafeBoundary(s, target) = Min(after) - 1
    <3>1. Min(after) \in Users(s) /\ Min(after) \in 1 .. Len(s)
      BY <2>3, <1>1, <1>4
    <3> HIDE DEF after
    <3> QED BY <2>3, <3>1
  <2> QED BY <2>1, <2>2, <2>3
<1> QED BY <1>5, <1>6

\* Some user's message has half of the others before it.
LEMMA HalfWayExists ==
  ASSUME NEW s \in Seq(Messages), Cardinality(Users(s)) \div 2 > 0
  PROVE  \E u \in Users(s) :
           Cardinality({v \in Users(s) : v < u}) >= Cardinality(Users(s)) \div 2
<1> DEFINE n == Cardinality(Users(s))
           u == Max(Users(s))
<1>1. Users(s) \in SUBSET (1 .. Len(s)) /\ IsFiniteSet(Users(s)) /\ Len(s) \in Nat
  BY UsersType
<1>2. n \in Nat /\ Users(s) # {}
  <2>1. n \in Nat
    BY <1>1, FS_CardinalityType
  <2>2. n # 0
    BY <2>1
  <2> QED BY <2>1, <2>2, FS_EmptySet
<1>3. u \in Users(s) /\ \A v \in Users(s) : v <= u
  BY <1>1, <1>2, MaxIsGreatest
<1>4. {v \in Users(s) : v < u} = Users(s) \ {u}
  <2> HIDE DEF u
  <2> QED BY <1>1, <1>3
<1>5. Cardinality(Users(s) \ {u}) = n - 1
  BY <1>1, <1>3, FS_RemoveElement
<1>6. n - 1 >= n \div 2
  <2>1. n \div 2 > 0
    OBVIOUS
  <2> HIDE DEF n
  <2> QED BY <1>2, <2>1
<1> QED BY <1>3, <1>4, <1>5, <1>6

LEMMA CompressedType ==
  ASSUME NEW s \in Seq(Messages), Users(s) # {}
  PROVE  Compressed(s) \in Seq(Messages) /\ Len(Compressed(s)) > 0
<1> DEFINE half == Cardinality(Users(s)) \div 2
           late == {u \in Users(s) : Cardinality({v \in Users(s) : v < u}) >= half}
           cut == IF half > 0 THEN Min(late) - 1 ELSE SafeBoundary(s, Len(s) \div 2)
<1>1. Compressed(s) = IF cut <= 0 THEN <<s[Max(Users(s))]>> ELSE SubSeq(s, cut + 1, Len(s))
  BY DEF Compressed
<1>2. Users(s) \in SUBSET (1 .. Len(s)) /\ Len(s) \in Nat /\ Len(s) > 0
  BY UsersType
<1>3. cut \in Nat /\ (cut > 0 => cut + 1 \in Users(s))
  <2>1. CASE half > 0
    <3>1. late \in SUBSET Nat /\ late # {} /\ \A u \in late : u >= 1
      BY <1>2, <2>1, HalfWayExists
    <3>0. late \subseteq Users(s)
      OBVIOUS
    <3> HIDE DEF late, half
    <3>2. Min(late) \in late
      BY <3>1, MinIsLeast
    <3>3. Min(late) \in Nat /\ Min(late) >= 1 /\ Min(late) \in Users(s)
      BY <3>0, <3>1, <3>2
    <3> QED BY <2>1, <3>3
  <2>2. CASE ~(half > 0)
    <3>1. Len(s) \div 2 \in Int /\ Len(s) \div 2 < Len(s)
      BY <1>2
    <3>2. /\ SafeBoundary(s, Len(s) \div 2) \in Nat
          /\ SafeBoundary(s, Len(s) \div 2) > 0 => SafeBoundary(s, Len(s) \div 2) + 1 \in Users(s)
      BY <3>1, <1>2, SafeBoundaryIs
    <3> HIDE DEF half, late
    <3> QED BY <2>2, <3>2
  <2> QED BY <2>1, <2>2
<1> HIDE DEF cut
<1>4. <<s[Max(Users(s))]>> \in Seq(Messages) /\ Len(<<s[Max(Users(s))]>>) > 0
  <2>1. Max(Users(s)) \in 1 .. Len(s)
    BY <1>2, MaxIsGreatest
  <2> QED BY <2>1
<1>5. cut > 0 => SubSeq(s, cut + 1, Len(s)) \in Seq(Messages) /\ Len(SubSeq(s, cut + 1, Len(s))) > 0
  <2> HAVE cut > 0
  <2>1. cut + 1 \in Nat /\ cut + 1 >= 1 /\ cut + 1 <= Len(s) /\ Len(s) - (cut + 1) + 1 > 0
    BY <1>2, <1>3
  <2> QED BY <1>2, <2>1, CutType
<1> QED BY <1>1, <1>3, <1>4, <1>5

-----------------------------------------------------------------------------
(* The messages of a turn.                                                 *)

\* After a call and its first result comes the next result, and no result comes
\* after anything else.
Due(m) == m.role = "call" \/ (m.role = "tool" /\ m.n = 1)
Follows(m, n) ==
  /\ m.role = "call" => n = Message(m.turn, "tool", 1)
  /\ m.role = "tool" /\ m.n = 1 => n = Message(m.turn, "tool", 2)
  /\ n.role = "tool" => Due(m)
Chain(s) == \A i \in 1 .. Len(s) - 1 : Follows(s[i], s[i + 1])
Started(s) == Len(s) > 0 => s[1].role = "user"
Ended(s) == Len(s) > 0 => ~Due(s[Len(s)])
Whole(s) == Chain(s) /\ Started(s) /\ Ended(s)

\* Different messages of one turn, with all the results of the calls that are run.
Coherent(t, s) ==
  /\ s \in Seq(Messages) /\ Chain(s) /\ Ended(s) /\ (Len(s) > 0 => s[1].role # "tool")
  /\ \A i \in 1 .. Len(s) : s[i].turn = t
  /\ \A i, j \in 1 .. Len(s) : s[i] = s[j] => i = j

Ends(t) == {Reply(t), LastAnswer(t), <<>>}
Runs(t) == {Question(t) \o a \o e : a \in Rounds(t), e \in Ends(t)}

LEMMA ConcatIs ==
  ASSUME NEW s \in Seq(Messages), NEW u \in Seq(Messages)
  PROVE  /\ s \o u \in Seq(Messages) /\ Len(s \o u) = Len(s) + Len(u)
         /\ \A i \in 1 .. Len(s) : (s \o u)[i] = s[i]
         /\ \A i \in 1 .. Len(u) : (s \o u)[Len(s) + i] = u[i]
<1> DEFINE m == Len(s)
           n == Len(u)
<1>1. /\ s \o u \in Seq(Messages) /\ Len(s \o u) = m + n
      /\ \A i \in 1 .. m + n : (s \o u)[i] = IF i <= m THEN s[i] ELSE u[i - m]
  BY ConcatProperties
<1>0. m \in Nat /\ n \in Nat
  OBVIOUS
<1> HIDE DEF m, n
<1>2. ASSUME NEW i \in 1 .. n PROVE (s \o u)[m + i] = u[i]
  <2>1. m + i \in 1 .. m + n /\ ~(m + i <= m) /\ (m + i) - m = i
    BY <1>0
  <2>2. (s \o u)[m + i] = u[(m + i) - m]
    BY <1>1, <2>1
  <2> QED BY <2>1, <2>2
<1>3. ASSUME NEW i \in 1 .. m PROVE (s \o u)[i] = s[i]
  <2>1. i \in 1 .. m + n /\ i <= m
    BY <1>0
  <2> QED BY <1>1, <2>1
<1> QED BY <1>1, <1>2, <1>3 DEF m, n

\* Two parts of a turn that have no message in common are one part.
LEMMA Joined ==
  ASSUME NEW t, NEW s, NEW u, Coherent(t, s), Coherent(t, u),
         \A i \in 1 .. Len(s), j \in 1 .. Len(u) : s[i] # u[j]
  PROVE  /\ Coherent(t, s \o u) /\ Len(s \o u) = Len(s) + Len(u)
         /\ \A i \in 1 .. Len(s) : (s \o u)[i] = s[i]
         /\ \A k \in 1 .. Len(s \o u) : \/ \E i \in 1 .. Len(s) : (s \o u)[k] = s[i]
                                        \/ \E j \in 1 .. Len(u) : (s \o u)[k] = u[j]
<1> DEFINE m == Len(s)
           n == Len(u)
           c == s \o u
<1>1. s \in Seq(Messages) /\ u \in Seq(Messages) /\ m \in Nat /\ n \in Nat
  BY DEF Coherent
<1>2. /\ c \in Seq(Messages) /\ Len(c) = m + n
      /\ \A i \in 1 .. m : c[i] = s[i]
      /\ \A j \in 1 .. n : c[m + j] = u[j]
  BY <1>1, ConcatIs
<1>3. /\ \A i \in 1 .. m - 1 : Follows(s[i], s[i + 1])
      /\ \A j \in 1 .. n - 1 : Follows(u[j], u[j + 1])
      /\ m > 0 => ~Due(s[m])
      /\ n > 0 => ~Due(u[n]) /\ u[1].role # "tool"
      /\ m > 0 => s[1].role # "tool"
  BY DEF Coherent, Chain, Ended
<1>4. /\ \A i \in 1 .. m : s[i].turn = t
      /\ \A j \in 1 .. n : u[j].turn = t
      /\ \A i, j \in 1 .. m : s[i] = s[j] => i = j
      /\ \A i, j \in 1 .. n : u[i] = u[j] => i = j
      /\ \A i \in 1 .. m, j \in 1 .. n : s[i] # u[j]
  BY DEF Coherent
<1> HIDE DEF m, n, c
<1>5. \A k \in 1 .. m + n : k \in 1 .. m \/ (k - m \in 1 .. n /\ m + (k - m) = k)
  BY <1>1
<1>6. Chain(c)
  <2> SUFFICES ASSUME NEW k \in 1 .. Len(c) - 1 PROVE Follows(c[k], c[k + 1])
    BY DEF Chain
  <2>0. k \in 1 .. m + n - 1
    BY <1>1, <1>2
  <2>1. CASE k < m
    <3>1. k \in 1 .. m - 1 /\ k \in 1 .. m /\ k + 1 \in 1 .. m
      BY <1>1, <2>0, <2>1
    <3> QED BY <1>2, <1>3, <3>1
  <2>2. CASE k = m
    <3>1. m > 0 /\ n > 0 /\ m \in 1 .. m /\ 1 \in 1 .. n
      BY <1>1, <2>0, <2>2
    <3>2. c[k] = s[m] /\ c[k + 1] = u[1]
      BY <1>2, <2>2, <3>1
    <3>3. Follows(s[m], u[1])
      BY <1>3, <3>1 DEF Follows, Due
    <3> QED BY <3>2, <3>3
  <2>3. CASE k > m
    <3>1. k - m \in 1 .. n - 1 /\ k - m \in 1 .. n /\ (k - m) + 1 \in 1 .. n
          /\ m + (k - m) = k /\ m + ((k - m) + 1) = k + 1
      BY <1>1, <2>0, <2>3
    <3>2. c[m + (k - m)] = u[k - m] /\ c[m + ((k - m) + 1)] = u[(k - m) + 1]
      BY <1>2, <3>1
    <3>3. Follows(u[k - m], u[(k - m) + 1])
      BY <1>3, <3>1
    <3> QED BY <3>1, <3>2, <3>3
  <2> QED BY <1>1, <2>0, <2>1, <2>2, <2>3
<1>7. Ended(c)
  <2>1. CASE n = 0
    <3>1. m > 0 => m \in 1 .. m
      BY <1>1
    <3> QED BY <1>1, <1>2, <1>3, <2>1, <3>1 DEF Ended
  <2>2. CASE n > 0
    <3>1. n \in 1 .. n
      BY <1>1, <2>2
    <3> QED BY <1>2, <1>3, <2>2, <3>1 DEF Ended
  <2> QED BY <1>1, <2>1, <2>2
<1>8. Len(c) > 0 => c[1].role # "tool"
  <2>1. CASE m > 0
    <3>1. 1 \in 1 .. m
      BY <1>1, <2>1
    <3> QED BY <1>2, <1>3, <2>1, <3>1
  <2>2. CASE m = 0
    <3>1. n > 0 => 1 \in 1 .. n /\ m + 1 = 1
      BY <1>1, <2>2
    <3> QED BY <1>1, <1>2, <1>3, <2>2, <3>1
  <2> QED BY <1>1, <2>1, <2>2
<1>9. \A k \in 1 .. m + n : \/ k \in 1 .. m /\ c[k] = s[k]
                            \/ k - m \in 1 .. n /\ m + (k - m) = k /\ c[k] = u[k - m]
  <2> TAKE k \in 1 .. m + n
  <2>1. CASE k \in 1 .. m
    BY <1>2, <2>1
  <2>2. CASE k - m \in 1 .. n /\ m + (k - m) = k
    <3>1. c[m + (k - m)] = u[k - m]
      BY <1>2, <2>2
    <3> QED BY <2>2, <3>1
  <2> QED BY <1>5, <2>1, <2>2
<1>10. \A k \in 1 .. m + n : c[k].turn = t
  BY <1>4, <1>9
<1>11. ASSUME NEW i \in 1 .. m + n, NEW j \in 1 .. m + n, c[i] = c[j] PROVE i = j
  <2>1. CASE i \in 1 .. m /\ c[i] = s[i]
    BY <1>4, <1>9, <1>11, <2>1
  <2>2. CASE i - m \in 1 .. n /\ m + (i - m) = i /\ c[i] = u[i - m]
    <3>1. \/ j \in 1 .. m /\ c[j] = s[j]
          \/ j - m \in 1 .. n /\ m + (j - m) = j /\ c[j] = u[j - m]
      BY <1>9
    <3>2. CASE j \in 1 .. m /\ c[j] = s[j]
      BY <1>4, <1>11, <2>2, <3>2
    <3>3. CASE j - m \in 1 .. n /\ m + (j - m) = j /\ c[j] = u[j - m]
      <4>1. i - m = j - m
        BY <1>4, <1>11, <2>2, <3>3
      <4> QED BY <2>2, <3>3, <4>1
    <3> QED BY <3>1, <3>2, <3>3
  <2> QED BY <1>9, <2>1, <2>2
<1>12. Coherent(t, c)
  BY <1>2, <1>6, <1>7, <1>8, <1>10, <1>11 DEF Coherent
<1> QED BY <1>2, <1>9, <1>12 DEF m, n, c

\* The parts of a turn, and the messages in them.
LEMMA PartsAre ==
  ASSUME NEW t \in AllTurns
  PROVE  /\ Coherent(t, Question(t)) /\ Len(Question(t)) = 1 /\ Question(t)[1] = Message(t, "user", 0)
         /\ \A a \in Rounds(t) : Coherent(t, a) /\ \A i \in 1 .. Len(a) :
              a[i].role \in {"call", "tool"} \/ a[i] \in {Message(t, "unrun", 1), Message(t, "user", 1)}
         /\ \A e \in Ends(t) : Coherent(t, e) /\ \A i \in 1 .. Len(e) :
              e[i] \in {Message(t, "reply", 0), Message(t, "user", 2), Message(t, "unrun", 2)}
<1> DEFINE u == Message(t, "user", 0)
           c == Message(t, "call", 0)
           x == Message(t, "tool", 1)
           y == Message(t, "tool", 2)
           v == Message(t, "unrun", 1)
           w == Message(t, "user", 1)
           z == Message(t, "reply", 0)
           k == Message(t, "user", 2)
           l == Message(t, "unrun", 2)
<1>1. /\ {u, c, x, y, v, w, z, k, l} \subseteq Messages
      /\ \A m \in {u, c, x, y, v, w, z, k, l} : m.turn = t
      /\ u.role = "user" /\ w.role = "user" /\ k.role = "user" /\ c.role = "call" /\ z.role = "reply"
      /\ v.role = "unrun" /\ l.role = "unrun" /\ x.role = "tool" /\ y.role = "tool"
      /\ x.n = 1 /\ y.n = 2
  BY DEF Message, Messages, Assistant, Calls
<1>2. Follows(c, x) /\ Follows(x, y) /\ Follows(v, w) /\ Follows(k, l)
  <2>1. x = Message(c.turn, "tool", 1) /\ y = Message(x.turn, "tool", 2)
    BY <1>1
  <2> HIDE DEF u, c, x, y, v, w, z, k, l
  <2> QED BY <1>1, <2>1 DEF Follows, Due
<1>3. /\ Question(t) = <<u>> /\ ToolRound(t) = <<c, x, y>> /\ CutOff(t) = <<v, w>>
      /\ Reply(t) = <<z>> /\ LastAnswer(t) = <<k, l>>
  BY DEF Question, ToolRound, CutOff, Reply, LastAnswer
<1> HIDE DEF u, c, x, y, v, w, z, k, l
<1>4. /\ \A m \in {u, z} : Coherent(t, <<m>>)
      /\ Coherent(t, <<>>)
  BY <1>1 DEF Coherent, Chain, Ended, Due
<1>5. Coherent(t, <<c, x, y>>)
  <2> DEFINE s == <<c, x, y>>
  <2>1. s \in Seq(Messages) /\ Len(s) = 3 /\ s[1] = c /\ s[2] = x /\ s[3] = y
    BY <1>1
  <2>2. \A i \in 1 .. 3 : i = 1 \/ i = 2 \/ i = 3
    OBVIOUS
  <2> HIDE DEF s
  <2>3. Chain(s)
    <3>1. \A i \in 1 .. Len(s) - 1 : i = 1 \/ i = 2
      BY <2>1
    <3> QED BY <1>2, <2>1, <3>1 DEF Chain
  <2>4. Ended(s) /\ s[1].role # "tool"
    BY <1>1, <2>1 DEF Ended, Due
  <2>5. \A i \in 1 .. Len(s) : s[i].turn = t
    BY <1>1, <2>1, <2>2
  <2>6. \A i, j \in 1 .. Len(s) : s[i] = s[j] => i = j
    BY <1>1, <2>1, <2>2
  <2> QED BY <2>1, <2>3, <2>4, <2>5, <2>6 DEF Coherent, s
<1>6. Coherent(t, <<v, w>>) /\ Coherent(t, <<k, l>>)
  <2> SUFFICES ASSUME NEW m \in Messages, NEW n \in Messages, Follows(m, n), m.role # n.role,
                      m.turn = t, n.turn = t, m.role # "tool", ~Due(n)
               PROVE  Coherent(t, <<m, n>>)
    BY <1>1, <1>2 DEF Due
  <2> DEFINE s == <<m, n>>
  <2>1. s \in Seq(Messages) /\ Len(s) = 2 /\ s[1] = m /\ s[2] = n
    OBVIOUS
  <2>2. (\A i \in 1 .. 2 : i = 1 \/ i = 2) /\ \A i \in 1 .. 2 - 1 : i = 1
    OBVIOUS
  <2> HIDE DEF s
  <2>3. Chain(s) /\ Ended(s)
    BY <2>1, <2>2 DEF Chain, Ended
  <2> QED BY <2>1, <2>2, <2>3 DEF Coherent, s
<1>7. \A a \in Rounds(t) : a \in {<<>>, <<c, x, y>>, <<v, w>>}
  BY <1>3 DEF Rounds
<1>8. \A e \in Ends(t) : e \in {<<z>>, <<k, l>>, <<>>}
  BY <1>3 DEF Ends
<1>9. \A a \in Rounds(t) : \A i \in 1 .. Len(a) : a[i].role \in {"call", "tool"} \/ a[i] \in {v, w}
  <2> TAKE a \in Rounds(t)
  <2>1. CASE a = <<>>
    BY <2>1
  <2>2. CASE a = <<c, x, y>>
    BY <1>1, <2>2
  <2>3. CASE a = <<v, w>>
    BY <2>3
  <2> QED BY <1>7, <2>1, <2>2, <2>3
<1>10. \A e \in Ends(t) : \A i \in 1 .. Len(e) : e[i] \in {z, k, l}
  <2> TAKE e \in Ends(t)
  <2> QED BY <1>8
<1>11. Coherent(t, Question(t)) /\ Len(Question(t)) = 1 /\ Question(t)[1] = u
  BY <1>3, <1>4
<1>12. \A a \in Rounds(t) : Coherent(t, a)
  BY <1>4, <1>5, <1>6, <1>7
<1>13. \A e \in Ends(t) : Coherent(t, e)
  BY <1>4, <1>6, <1>8
<1> QED BY <1>9, <1>10, <1>11, <1>12, <1>13 DEF u, v, w, z, k, l

\* What a run adds is coherent and begins with the question.
LEMMA RunIs ==
  ASSUME NEW t \in AllTurns, NEW q \in Runs(t)
  PROVE  /\ Coherent(t, q) /\ q \in Seq(Messages) /\ Len(q) > 0
         /\ q[1].role = "user"
<1>1. PICK a \in Rounds(t), e \in Ends(t) : q = Question(t) \o a \o e
  BY DEF Runs
<1> DEFINE p == Question(t)
           b == p \o a
<1>2. /\ Coherent(t, p) /\ Coherent(t, a) /\ Coherent(t, e) /\ Len(p) = 1 /\ p[1] = Message(t, "user", 0)
      /\ \A i \in 1 .. Len(a) :
           a[i].role \in {"call", "tool"} \/ a[i] \in {Message(t, "unrun", 1), Message(t, "user", 1)}
      /\ \A i \in 1 .. Len(e) : e[i] \in {Message(t, "reply", 0), Message(t, "user", 2), Message(t, "unrun", 2)}
  BY PartsAre
<1>3. \A i \in 1 .. Len(p) : p[i] = Message(t, "user", 0)
  BY <1>2
<1>4. \A i \in 1 .. Len(p), j \in 1 .. Len(a) : p[i] # a[j]
  BY <1>2, <1>3 DEF Message
<1>5. \A i \in 1 .. Len(p), j \in 1 .. Len(e) : p[i] # e[j]
  BY <1>2, <1>3 DEF Message
<1>6. \A i \in 1 .. Len(a), j \in 1 .. Len(e) : a[i] # e[j]
  BY <1>2 DEF Message
<1>7. Len(a) \in Nat /\ Len(e) \in Nat
  BY <1>2 DEF Coherent
<1> HIDE DEF p
<1>8. /\ Coherent(t, b) /\ Len(b) = 1 + Len(a) /\ b[1] = Message(t, "user", 0)
      /\ \A k \in 1 .. Len(b) : \/ \E i \in 1 .. Len(p) : b[k] = p[i]
                                \/ \E j \in 1 .. Len(a) : b[k] = a[j]
  <2>1. /\ Coherent(t, p \o a) /\ Len(p \o a) = Len(p) + Len(a)
        /\ \A i \in 1 .. Len(p) : (p \o a)[i] = p[i]
        /\ \A k \in 1 .. Len(p \o a) : \/ \E i \in 1 .. Len(p) : (p \o a)[k] = p[i]
                                       \/ \E j \in 1 .. Len(a) : (p \o a)[k] = a[j]
    <3>1. Coherent(t, p) /\ Coherent(t, a)
      BY <1>2
    <3> QED BY <1>4, <3>1, Joined
  <2>2. 1 \in 1 .. Len(p)
    BY <1>2
  <2> QED BY <1>2, <2>1, <2>2
<1> HIDE DEF b
<1>9. \A i \in 1 .. Len(b), j \in 1 .. Len(e) : b[i] # e[j]
  BY <1>5, <1>6, <1>8
<1>10. /\ Coherent(t, b \o e) /\ Len(b \o e) = Len(b) + Len(e)
       /\ \A i \in 1 .. Len(b) : (b \o e)[i] = b[i]
  BY <1>2, <1>8, <1>9, Joined
<1>11. 1 \in 1 .. Len(b) /\ Len(b) + Len(e) > 0
  BY <1>7, <1>8
<1>12. q = b \o e /\ q[1] = Message(t, "user", 0)
  BY <1>1, <1>8, <1>10, <1>11 DEF b, p
<1> QED BY <1>10, <1>11, <1>12 DEF Coherent, Message

\* The messages of the saved session.
LEMMA SavedAre ==
  ASSUME NEW t \in AllTurns
  PROVE  /\ Question(t) \o ToolRound(t) \o Reply(t) \in Runs(t)
         /\ Question(t) \o Reply(t) \in Runs(t)
<1>1. Question(t) \o ToolRound(t) \o Reply(t) \in Runs(t) /\ Question(t) \o <<>> \o Reply(t) \in Runs(t)
  BY DEF Runs, Rounds, Ends
<1>2. Question(t) \in Seq(Messages)
  BY PartsAre DEF Coherent
<1>3. Question(t) \o <<>> = Question(t)
  BY <1>2, ConcatEmptySeq
<1> QED BY <1>1, <1>3

\* What a run ends with, unless the context was compressed, is what it adds
\* after the history it was given.
LEMMA AskedIs ==
  ASSUME NEW t \in AllTurns, NEW s \in Seq(Messages), NEW a \in Rounds(t)
  PROVE  /\ s \o Question(t) \o a \in Seq(Messages) /\ Users(s \o Question(t) \o a) # {}
         /\ Len(s \o Question(t) \o a) > 0
         /\ \A e \in Ends(t) : e \in Seq(Messages) /\ \E p \in Runs(t) : s \o Question(t) \o a \o e = s \o p
<1> DEFINE u == Question(t)
<1>1. u \in Seq(Messages) /\ Len(u) = 1 /\ u[1] = Message(t, "user", 0) /\ a \in Seq(Messages)
  BY PartsAre DEF Coherent
<1>2. \A e \in Ends(t) : e \in Seq(Messages)
  BY PartsAre DEF Coherent
<1> HIDE DEF u
<1>3. /\ s \o u \in Seq(Messages) /\ Len(s \o u) = Len(s) + 1 /\ (s \o u)[Len(s) + 1] = u[1] /\ Len(s) \in Nat
  <2>1. /\ s \o u \in Seq(Messages) /\ Len(s \o u) = Len(s) + Len(u)
        /\ \A i \in 1 .. Len(u) : (s \o u)[Len(s) + i] = u[i]
    BY <1>1, ConcatIs
  <2>2. 1 \in 1 .. Len(u) /\ Len(s) \in Nat
    BY <1>1
  <2> QED BY <1>1, <2>1, <2>2
<1>4. /\ (s \o u) \o a \in Seq(Messages) /\ Len((s \o u) \o a) = Len(s \o u) + Len(a) /\ Len(a) \in Nat
      /\ \A i \in 1 .. Len(s \o u) : ((s \o u) \o a)[i] = (s \o u)[i]
  <2> DEFINE p == s \o u
  <2>1. p \in Seq(Messages) /\ a \in Seq(Messages) /\ Len(a) \in Nat
    BY <1>1, <1>3
  <2> HIDE DEF p
  <2>2. /\ p \o a \in Seq(Messages) /\ Len(p \o a) = Len(p) + Len(a)
        /\ \A i \in 1 .. Len(p) : (p \o a)[i] = p[i]
    BY <2>1, ConcatIs
  <2> QED BY <2>1, <2>2 DEF p
<1>5. Len(s) + 1 \in Users((s \o u) \o a)
  <2>1. Len(s) + 1 \in 1 .. Len(s \o u) /\ Len(s) + 1 \in 1 .. Len((s \o u) \o a)
    BY <1>3, <1>4
  <2>2. ((s \o u) \o a)[Len(s) + 1].role = "user"
    BY <1>1, <1>3, <1>4, <2>1 DEF Message
  <2> QED BY <2>1, <2>2 DEF Users
<1>6. Len((s \o u) \o a) > 0
  BY <1>3, <1>4
<1>7. ASSUME NEW e \in Ends(t) PROVE \E p \in Runs(t) : ((s \o u) \o a) \o e = s \o p
  <2>1. (s \o u) \o a = s \o (u \o a) /\ u \o a \in Seq(Messages)
    BY <1>1, ConcatAssociative, ConcatProperties
  <2>2. (s \o (u \o a)) \o e = s \o ((u \o a) \o e)
    BY <1>2, <2>1, ConcatAssociative
  <2>3. (u \o a) \o e \in Runs(t)
    BY DEF Runs, u
  <2> QED BY <2>1, <2>2, <2>3
<1> QED BY <1>2, <1>4, <1>5, <1>6, <1>7 DEF u

\* A run that is not compressed adds to the history it was given.
LEMMA ResultsAre ==
  ASSUME NEW t \in AllTurns, NEW s \in Seq(Messages), NEW old \in SUBSET Messages,
         NEW r \in Results(t, s, old)
  PROVE  /\ r.final \in Seq(Messages) /\ Len(r.final) > 0
         /\ r.summary \in SUBSET Messages /\ r.squeezed \in BOOLEAN
         /\ ~r.squeezed => r.summary = old /\ \E q \in Runs(t) : r.final = s \o q
<1> DEFINE Asked(a) == s \o Question(t) \o a
<1>0. \A q, rounds : Endings(t, q, rounds) \subseteq Ends(t)
  BY DEF Endings, Ends
<1>1. \A a \in Rounds(t) :
        /\ Asked(a) \in Seq(Messages) /\ Users(Asked(a)) # {} /\ Len(Asked(a)) > 0
        /\ \A e \in Ends(t) : e \in Seq(Messages) /\ \E p \in Runs(t) : Asked(a) \o e = s \o p
  BY AskedIs
<1>2. \A q \in Seq(Messages), e \in Ends(t) :
        Len(q) > 0 => q \o e \in Seq(Messages) /\ Len(q \o e) > 0
  <2> TAKE q \in Seq(Messages), e \in Ends(t)
  <2>1. e \in Seq(Messages) /\ Len(e) \in Nat /\ Len(q) \in Nat
    BY PartsAre DEF Coherent
  <2>2. q \o e \in Seq(Messages) /\ Len(q \o e) = Len(q) + Len(e)
    BY <2>1, ConcatProperties
  <2> QED BY <2>1, <2>2
<1>3. \/ \E a \in Rounds(t), e \in Ends(t) :
           r = [final |-> Asked(a) \o e, summary |-> old, squeezed |-> FALSE]
      \/ \E a \in Rounds(t), e \in Ends(t) :
           r = [final |-> Compressed(Asked(a)) \o e, squeezed |-> TRUE,
                summary |-> old \cup ToSet(SubSeq(Asked(a), 1, Len(Asked(a)) - Len(Compressed(Asked(a)))))]
  BY <1>0 DEF Results
<1> HIDE DEF Asked
<1>4. ASSUME NEW a \in Rounds(t), NEW e \in Ends(t),
             r = [final |-> Asked(a) \o e, summary |-> old, squeezed |-> FALSE]
      PROVE  /\ r.final \in Seq(Messages) /\ Len(r.final) > 0
             /\ r.summary = old /\ r.squeezed = FALSE /\ \E p \in Runs(t) : r.final = s \o p
  <2>1. r.final = Asked(a) \o e /\ r.summary = old /\ r.squeezed = FALSE
    BY <1>4
  <2>2. Asked(a) \in Seq(Messages) /\ Len(Asked(a)) > 0 /\ \E p \in Runs(t) : Asked(a) \o e = s \o p
    BY <1>1
  <2> QED BY <1>2, <2>1, <2>2
<1>5. ASSUME NEW a \in Rounds(t), NEW e \in Ends(t),
             r = [final |-> Compressed(Asked(a)) \o e, squeezed |-> TRUE,
                  summary |-> old \cup ToSet(SubSeq(Asked(a), 1, Len(Asked(a)) - Len(Compressed(Asked(a)))))]
      PROVE  /\ r.final \in Seq(Messages) /\ Len(r.final) > 0
             /\ r.summary \in SUBSET Messages /\ r.squeezed = TRUE
  <2> DEFINE q == Asked(a)
             c == Compressed(q)
             d == ToSet(SubSeq(q, 1, Len(q) - Len(c)))
  <2>1. q \in Seq(Messages) /\ c \in Seq(Messages) /\ Len(c) > 0
    BY <1>1, CompressedType
  <2>2. SubSeq(q, 1, Len(q) - Len(c)) \in Seq(Messages)
    <3> HIDE DEF q, c
    <3>1. 1 \in Int /\ Len(q) - Len(c) \in Int /\ Len(q) - Len(c) <= Len(q)
      BY <2>1
    <3>2. \A k \in 1 .. Len(q) - Len(c) : q[k] \in Messages
      BY <2>1, <3>1
    <3> QED BY <2>1, <3>1, <3>2, SubSeqProperties
  <2>3. d \subseteq Messages
    BY <2>2, ToSetType
  <2>4. c \o e \in Seq(Messages) /\ Len(c \o e) > 0
    BY <1>2, <2>1
  <2>5. r.final = c \o e /\ r.summary = old \cup d /\ r.squeezed = TRUE
    BY <1>5
  <2> HIDE DEF q, c, d
  <2> QED BY <2>3, <2>4, <2>5
<1>6. CASE r.squeezed = FALSE
  BY <1>3, <1>4, <1>5, <1>6
<1>7. CASE r.squeezed = TRUE
  BY <1>3, <1>4, <1>5, <1>7
<1> QED BY <1>3, <1>4, <1>5, <1>6, <1>7

\* What is after the old history is new.
LEMMA NewMessagesAre ==
  ASSUME NEW final \in Seq(Messages), NEW n \in Nat
  PROVE  NewMessages(final, n) \in Seq(Messages) /\ (Len(final) > 0 => Len(NewMessages(final, n)) > 0)
BY CutType DEF NewMessages

\* Then the messages after the old history are those the run has added.
LEMMA RunIsNew ==
  ASSUME NEW s \in Seq(Messages), NEW t \in AllTurns, NEW q \in Runs(t)
  PROVE  NewMessages(s \o q, Len(s)) = q
<1>1. /\ q \in Seq(Messages) /\ Len(q) > 0 /\ Len(s) \in Nat /\ s \o q \in Seq(Messages)
      /\ Len(s \o q) = Len(s) + Len(q)
  BY RunIs, ConcatProperties
<1> DEFINE new == SubSeq(s \o q, Len(s) + 1, Len(s \o q))
<1>2. /\ new \in Seq(Messages) /\ Len(new) = Len(q)
      /\ \A k \in 1 .. Len(new) : new[k] = (s \o q)[Len(s) + 1 + k - 1]
  <2>1. Len(s) + 1 \in Nat /\ Len(s) + 1 >= 1 /\ Len(s \o q) \in Nat /\ Len(s \o q) <= Len(s \o q)
    BY <1>1
  <2> QED BY <1>1, <2>1, CutType
<1>3. \A k \in 1 .. Len(q) : (s \o q)[Len(s) + 1 + k - 1] = q[k]
  BY <1>1, ConcatProperties
<1>4. new = q
  <2> HIDE DEF new
  <2> QED BY <1>1, <1>2, <1>3, SeqEqual
<1> QED BY <1>1, <1>4 DEF NewMessages

-----------------------------------------------------------------------------
(* Types, and where each handling can be.                                  *)

Evaluating == {"none", "open", "told", "answered", "summarized", "adding"}
Compacting == {"cut", "summary", "replace"}

\* An object is held from GetOrCreate to the return, a file between two steps of
\* a Save, and what is left to add while messages are added.
PlaceOf(h) ==
  /\ h \in Turns => pc[h] \notin {"deleted", "created"}
  /\ h \in Resets => pc[h] \in Between \cup {"deleted", "created"}
  /\ obj[h] = None <=> pc[h] \in Between \cup {"deleted"}
  /\ fd[h] # None => pc[h] \in {"summarized", "added", "compacted", "created"}
  /\ h \in Turns /\ pc[h] \in {"answered", "summarized", "adding"} => added[h] < Len(adding[h])
  /\ h \in Turns /\ pc[h] \in {"none", "open", "told", "answered", "summarized"} => added[h] = 0
Places == added \in [Turns -> Nat] /\ \A h \in Handlings : PlaceOf(h)

Types == TypeOK /\ Places

LEMMA HandlingIs ==
  /\ Handlings = Turns \cup Resets /\ Turns \cap Resets = {}
  /\ None \notin Objects /\ None \notin Inodes
BY SessionsAssumption DEF Handlings

LEMMA NoMessages == <<>> \in Seq(Messages) /\ Len(<<>>) = 0 /\ ToSet(<<>>) = {}
BY DEF ToSet

\* The types hold in the initial states.
LEMMA InitTypes == Init => Types
<1> SUFFICES ASSUME Init PROVE Types
  OBVIOUS
<1> USE HandlingIs, NoMessages DEF Init
<1>1. Told \in AllTurns /\ Stored \in AllTurns
  BY DEF AllTurns
<1>2. Question(Told) \o Reply(Told) \in Seq(Messages) /\ Question(Stored) \o ToolRound(Stored) \o Reply(Stored) \in Seq(Messages)
  BY <1>1, SavedAre, RunIs
<1>3. ToSet(Question(Told) \o Reply(Told)) \subseteq Messages
  BY <1>2, ToSetType
<1>4. cached \in Objects \cup {None} /\ msgs \in [Objects -> Seq(Messages)] /\ summary \in [Objects -> SUBSET Messages]
  OBVIOUS
<1>5. /\ main \in Inodes \cup {None} /\ tmp \in Inodes \cup {None} /\ (main = None \/ main # tmp)
      /\ meta \in [Inodes -> SUBSET Messages] /\ body \in [Inodes -> Seq(Messages)]
      /\ written \in [Inodes -> SUBSET Parts]
  BY <1>2, <1>3
<1>6. LoadedMsgs \in Seq(Messages) /\ LoadedSummary \in SUBSET Messages
  BY <1>5 DEF LoadedMsgs, LoadedSummary
<1>7. said \subseteq Messages /\ reset \subseteq AllTurns
  BY <1>6, ToSetType
<1>8. Places
  BY DEF Places, PlaceOf, Between
<1>9. MaxCrashes \in Nat
  BY SessionsAssumption
<1>10. /\ pc \in [Handlings -> Phases] /\ obj \in [Handlings -> Objects \cup {None}]
       /\ save \in [Handlings -> Saving] /\ fd \in [Handlings -> Inodes \cup {None}]
       /\ \A h \in Handlings : save[h] \in {"meta", "body", "rename"} <=> fd[h] # None
  BY DEF Phases, Between, Saving
<1>11. /\ history \in [Turns -> Seq(Messages)] /\ adding \in [Turns -> Seq(Messages)]
       /\ replacing \in [Turns -> SUBSET Messages] /\ kept \in [Turns -> Seq(Messages)]
       /\ \A t \in Turns : added[t] \in 0 .. Len(adding[t])
  OBVIOUS
<1>12. crashes \in 0 .. MaxCrashes /\ spoiled = {}
  BY <1>9
<1>13. spoiled \subseteq {"reset", "compaction", "compression", "crash"}
  BY <1>12
<1>14. overlapped \in BOOLEAN
  OBVIOUS
<1> QED BY <1>4, <1>5, <1>7, <1>8, <1>10, <1>11, <1>12, <1>13, <1>14 DEF Types, TypeOK

\* The parts of TypeOK.
HandlingTypes ==
  /\ pc \in [Handlings -> Phases] /\ obj \in [Handlings -> Objects \cup {None}]
  /\ save \in [Handlings -> Saving] /\ fd \in [Handlings -> Inodes \cup {None}]
  /\ \A h \in Handlings : save[h] \in {"meta", "body", "rename"} <=> fd[h] # None
ObjectTypes ==
  /\ cached \in Objects \cup {None}
  /\ msgs \in [Objects -> Seq(Messages)] /\ summary \in [Objects -> SUBSET Messages]
FileTypes ==
  /\ main \in Inodes \cup {None} /\ tmp \in Inodes \cup {None}
  /\ main = None \/ main # tmp
  /\ meta \in [Inodes -> SUBSET Messages] /\ body \in [Inodes -> Seq(Messages)]
  /\ written \in [Inodes -> SUBSET Parts]
LocalTypes ==
  /\ history \in [Turns -> Seq(Messages)]
  /\ adding \in [Turns -> Seq(Messages)] /\ replacing \in [Turns -> SUBSET Messages]
  /\ kept \in [Turns -> Seq(Messages)] /\ added \in [Turns -> Nat]
  /\ \A t \in Turns : added[t] \in 0 .. Len(adding[t])
GhostTypes ==
  /\ crashes \in 0 .. MaxCrashes
  /\ said \subseteq Messages /\ reset \subseteq AllTurns /\ overlapped \in BOOLEAN
  /\ spoiled \subseteq {"reset", "compaction", "compression", "crash"}

LEMMA TypesAre ==
  Types <=> HandlingTypes /\ ObjectTypes /\ FileTypes /\ LocalTypes /\ GhostTypes /\ Places
BY DEF Types, TypeOK, HandlingTypes, ObjectTypes, FileTypes, LocalTypes, GhostTypes, Places

\* The same of a next state.
LEMMA TypesNext ==
  ASSUME HandlingTypes', ObjectTypes', FileTypes', LocalTypes', GhostTypes', Places'
  PROVE  Types'
BY DEF Types, TypeOK, HandlingTypes, ObjectTypes, FileTypes, LocalTypes, GhostTypes, Places

\* Collecting keeps what something refers to.
LEMMA Collects ==
  ASSUME ObjectTypes, Collect
  PROVE  /\ msgs' \in [Objects -> Seq(Messages)] /\ summary' \in [Objects -> SUBSET Messages]
         /\ cached' \in Objects => msgs'[cached'] = msgs[cached'] /\ summary'[cached'] = summary[cached']
BY NoMessages DEF ObjectTypes, Collect

\* Unlinking keeps what something refers to.
LEMMA Unlinks ==
  ASSUME FileTypes, main' \in Inodes \cup {None}, HandlingTypes', Unlink
  PROVE  /\ meta' \in [Inodes -> SUBSET Messages] /\ body' \in [Inodes -> Seq(Messages)]
         /\ written' \in [Inodes -> SUBSET Parts]
         /\ \A i \in Inodes : i \in {main', tmp'} \/ (\E h \in Handlings : fd'[h] = i) =>
              meta'[i] = meta[i] /\ body'[i] = body[i] /\ written'[i] = written[i]
BY NoMessages DEF FileTypes, HandlingTypes, Unlink, Range

\* What a handling leaves behind when it returns.
LEMMA Returns ==
  ASSUME Types, NEW h \in Handlings, Return(h)
  PROVE  /\ pc' = [pc EXCEPT ![h] = "returned"] /\ pc' \in [Handlings -> Phases]
         /\ obj' = [obj EXCEPT ![h] = None] /\ obj' \in [Handlings -> Objects \cup {None}]
         /\ LocalTypes' /\ said' \subseteq Messages
         /\ \A t \in Turns : t # h => added'[t] = added[t] /\ adding'[t] = adding[t]
         /\ \A t \in Turns : added'[t] \in {0, added[t]}
<1> USE HandlingIs, NoMessages
<1>1. HandlingTypes /\ LocalTypes /\ GhostTypes
  BY TypesAre
<1>2. CASE h \in Turns
  <2>1. said' = said \cup ToSet(adding[h]) /\ ToSet(adding[h]) \subseteq Messages
    BY <1>1, <1>2, ToSetType DEF Return, LocalTypes
  <2>0. /\ history' = [history EXCEPT ![h] = <<>>] /\ adding' = [adding EXCEPT ![h] = <<>>]
        /\ added' = [added EXCEPT ![h] = 0] /\ replacing' = [replacing EXCEPT ![h] = {}]
        /\ kept' = [kept EXCEPT ![h] = <<>>]
    BY <1>2 DEF Return
  <2>2. /\ history' \in [Turns -> Seq(Messages)] /\ adding' \in [Turns -> Seq(Messages)]
        /\ replacing' \in [Turns -> SUBSET Messages] /\ kept' \in [Turns -> Seq(Messages)]
        /\ added' \in [Turns -> Nat]
    BY <1>1, <2>0 DEF LocalTypes
  <2>3. /\ \A t \in Turns : t # h => added'[t] = added[t] /\ adding'[t] = adding[t]
        /\ added'[h] = 0 /\ adding'[h] = <<>>
    BY <1>1, <1>2, <2>0 DEF LocalTypes
  <2>4. \A t \in Turns : added'[t] \in 0 .. Len(adding'[t])
    BY <1>1, <2>3 DEF LocalTypes
  <2>5. LocalTypes' /\ \A t \in Turns : added'[t] \in {0, added[t]}
    BY <2>2, <2>3, <2>4 DEF LocalTypes
  <2> QED BY <1>1, <2>1, <2>3, <2>5 DEF Return, Goto, HandlingTypes, GhostTypes, Phases, Between
<1>3. CASE h \notin Turns
  <2>1. UNCHANGED <<said, locals>>
    BY <1>3 DEF Return
  <2> QED BY <1>1, <2>1 DEF Return, Goto, HandlingTypes, GhostTypes, LocalTypes, locals, Phases, Between
<1> QED BY <1>2, <1>3

\* The other handlings stay where they are.
OthersStay(h) ==
  /\ \A g \in Handlings \ {h} : pc'[g] = pc[g] /\ obj'[g] = obj[g] /\ fd'[g] = fd[g]
  /\ \A t \in Turns \ {h} : added'[t] = added[t] /\ adding'[t] = adding[t]
  /\ added' \in [Turns -> Nat]

\* A step of one handling keeps the places of the others.
LEMMA PlacesStep ==
  ASSUME Places, NEW h \in Handlings, PlaceOf(h)', OthersStay(h)
  PROVE  Places'
<1>1. ASSUME NEW g \in Handlings \ {h} PROVE PlaceOf(g)'
  BY <1>1 DEF Places, PlaceOf, OthersStay
<1> QED BY <1>1 DEF Places, OthersStay

\* Each action keeps the types and the places.
LEMMA OpenTypes ==
  ASSUME Types, NEW h \in Handlings, NEW to \in {"open", "created"},
         h \in Turns => pc[h] = "none" /\ to = "open",
         h \in Resets => pc[h] = "deleted" /\ to = "created",
         GetOrCreate(h, to), UNCHANGED <<files, save, fd, crashes, reset>>, overlapped' \in BOOLEAN,
         spoiled' \subseteq {"reset", "compaction", "compression", "crash"}
  PROVE  Types'
<1> USE HandlingIs
<1>0. HandlingTypes /\ ObjectTypes /\ FileTypes /\ LocalTypes /\ GhostTypes /\ Places
  BY TypesAre
<1>1. FileTypes'
  BY <1>0 DEF FileTypes, files
<1>2. to \in Phases /\ "returned" \in Phases
  BY DEF Phases, Between
<1>3. CASE cached # None
  <2>1. obj' = [obj EXCEPT ![h] = cached] /\ pc' = [pc EXCEPT ![h] = to] /\ UNCHANGED <<objects, said, locals>>
    BY <1>3 DEF GetOrCreate, Goto
  <2>2. HandlingTypes'
    BY <1>0, <1>2, <2>1 DEF HandlingTypes, ObjectTypes
  <2>3. ObjectTypes' /\ LocalTypes' /\ GhostTypes'
    BY <1>0, <2>1 DEF ObjectTypes, LocalTypes, GhostTypes, objects, locals
  <2>4. Places'
    <3>1. PlaceOf(h)'
      BY <1>0, <1>3, <2>1 DEF Places, PlaceOf, HandlingTypes, ObjectTypes, Between, locals
    <3>9. OthersStay(h)
      BY <1>0, <2>1 DEF OthersStay, HandlingTypes, Places, locals
    <3> QED BY <1>0, <3>1, <3>9, PlacesStep
  <2> QED BY <1>1, <2>2, <2>3, <2>4, TypesNext
<1>4. CASE cached = None /\ Loads
  <2>1. PICK o \in Objects :
           /\ cached' = o /\ obj' = [obj EXCEPT ![h] = o]
           /\ msgs' = [msgs EXCEPT ![o] = LoadedMsgs] /\ summary' = [summary EXCEPT ![o] = LoadedSummary]
    BY <1>4 DEF GetOrCreate
  <2>2. pc' = [pc EXCEPT ![h] = to] /\ UNCHANGED <<said, locals>>
    BY <1>4 DEF GetOrCreate, Goto
  <2>3. LoadedMsgs \in Seq(Messages) /\ LoadedSummary \in SUBSET Messages
    BY <1>0, NoMessages DEF FileTypes, LoadedMsgs, LoadedSummary
  <2>4. HandlingTypes'
    BY <1>0, <1>2, <2>1, <2>2 DEF HandlingTypes
  <2>5. ObjectTypes'
    BY <1>0, <2>1, <2>3 DEF ObjectTypes
  <2>6. LocalTypes' /\ GhostTypes'
    BY <1>0, <2>2 DEF LocalTypes, GhostTypes, locals
  <2>7. Places'
    <3>1. PlaceOf(h)'
      BY <1>0, <2>1, <2>2 DEF Places, PlaceOf, HandlingTypes, Between, locals
    <3>9. OthersStay(h)
      BY <1>0, <2>1, <2>2 DEF OthersStay, HandlingTypes, Places, locals
    <3> QED BY <1>0, <3>1, <3>9, PlacesStep
  <2> QED BY <1>1, <2>4, <2>5, <2>6, <2>7, TypesNext
<1>5. CASE cached = None /\ ~Loads
  <2>1. Return(h) /\ UNCHANGED objects
    BY <1>5 DEF GetOrCreate
  <2>2. HandlingTypes' /\ LocalTypes' /\ GhostTypes'
    BY <1>0, <2>1, Returns DEF HandlingTypes, GhostTypes
  <2>3. ObjectTypes'
    BY <1>0, <2>1 DEF ObjectTypes, objects
  <2>4. Places'
    <3>1. /\ pc' = [pc EXCEPT ![h] = "returned"] /\ obj' = [obj EXCEPT ![h] = None]
          /\ \A t \in Turns : t # h => added'[t] = added[t] /\ adding'[t] = adding[t]
          /\ added' \in [Turns -> Nat]
      BY <2>1, <2>2, Returns DEF LocalTypes
    <3>2. PlaceOf(h)'
      BY <1>0, <3>1 DEF Places, PlaceOf, HandlingTypes, Between
    <3>9. OthersStay(h)
      BY <1>0, <3>1 DEF OthersStay, HandlingTypes
    <3> QED BY <1>0, <3>2, <3>9, PlacesStep
  <2> QED BY <1>1, <2>2, <2>3, <2>4, TypesNext
<1> QED BY <1>3, <1>4, <1>5

LEMMA TurnTypes ==
  ASSUME Types, NEW t \in Turns, Turn(t)
  PROVE  Types'
<1> USE HandlingIs
<1>0. HandlingTypes /\ ObjectTypes /\ FileTypes /\ LocalTypes /\ GhostTypes /\ Places /\ t \in Handlings
  BY TypesAre
<1>a. pc[t] \notin Between \cup {"deleted"} => obj[t] \in Objects
  BY <1>0 DEF Places, PlaceOf, HandlingTypes
<1>1. CASE Open(t)
  <2>1. spoiled' \subseteq {"reset", "compaction", "compression", "crash"} /\ overlapped' \in BOOLEAN
    BY <1>0, <1>1 DEF Open, Spoil, GhostTypes
  <2>2. UNCHANGED <<files, save, fd, crashes, reset>> /\ pc[t] = "none" /\ GetOrCreate(t, "open") /\ t \notin Resets
    BY <1>1 DEF Open
  <2> QED BY <1>0, <2>1, <2>2, OpenTypes
<1>2. CASE GetSummary(t)
  <2> USE <1>2 DEF GetSummary, Goto
  <2>1. HandlingTypes'
    BY <1>0 DEF HandlingTypes, Phases
  <2>2. LocalTypes'
    BY <1>0, <1>a DEF LocalTypes, ObjectTypes, Between
  <2>3. ObjectTypes' /\ FileTypes' /\ GhostTypes'
    BY <1>0 DEF ObjectTypes, FileTypes, GhostTypes, objects, files, ghosts
  <2>4. Places'
    <3>1. PlaceOf(t)'
      BY <1>0 DEF Places, PlaceOf, HandlingTypes, Between
    <3>9. OthersStay(t)
      BY <1>0 DEF OthersStay, HandlingTypes, Places
    <3> QED BY <1>0, <3>1, <3>9, PlacesStep
  <2> QED BY <2>1, <2>2, <2>3, <2>4, TypesNext
<1>3. CASE Run(t)
  <2> DEFINE s == GetHistorySafe(msgs[obj[t]])
  <2>1. PICK r \in Results(t, s, replacing[t]) :
          /\ history' = [history EXCEPT ![t] = s]
          /\ adding' = [adding EXCEPT ![t] = NewMessages(r.final, Len(s))]
          /\ replacing' = [replacing EXCEPT ![t] = r.summary]
          /\ pc' = [pc EXCEPT ![t] = IF r.summary = {} THEN "adding" ELSE "answered"]
          /\ Spoil("compression", r.squeezed)
    BY <1>3 DEF Run, Goto
  <2>2. /\ pc[t] = "told"
        /\ UNCHANGED <<objects, files, obj, save, fd, added, kept, crashes, said, reset, overlapped>>
    BY <1>3 DEF Run
  <2>3. s \in Seq(Messages) /\ t \in AllTurns
    BY <1>0, <1>a, <2>2, SafeHistoryType DEF ObjectTypes, AllTurns, Between
  <2>4. r.final \in Seq(Messages) /\ Len(r.final) > 0 /\ r.summary \in SUBSET Messages
    <3>1. replacing[t] \in SUBSET Messages
      BY <1>0 DEF LocalTypes
    <3> HIDE DEF s
    <3> QED BY <2>1, <2>3, <3>1, ResultsAre
  <2> DEFINE new == NewMessages(r.final, Len(s))
  <2>5. new \in Seq(Messages) /\ Len(new) > 0
    <3>1. Len(s) \in Nat
      BY <2>3
    <3> HIDE DEF s
    <3> QED BY <2>4, <3>1, NewMessagesAre
  <2>6. added[t] = 0
    BY <1>0, <2>2 DEF Places, PlaceOf
  <2> HIDE DEF s, new
  <2>7. HandlingTypes'
    BY <1>0, <2>1, <2>2 DEF HandlingTypes, Phases
  <2>8. LocalTypes'
    <3>1. adding' = [adding EXCEPT ![t] = new]
      BY <2>1 DEF new
    <3> QED BY <1>0, <2>1, <2>2, <2>3, <2>4, <2>5, <2>6, <3>1 DEF LocalTypes
  <2>9. ObjectTypes' /\ FileTypes' /\ GhostTypes'
    BY <1>0, <2>1, <2>2 DEF ObjectTypes, FileTypes, GhostTypes, objects, files, Spoil
  <2>10. Places'
    <3>1. adding' = [adding EXCEPT ![t] = new] /\ adding \in [Turns -> Seq(Messages)]
      BY <1>0, <2>1 DEF new, LocalTypes
    <3>2. adding'[t] = new /\ \A u \in Turns \ {t} : adding'[u] = adding[u]
      BY <3>1
    <3>3. pc'[t] \in {"adding", "answered"}
      BY <1>0, <2>1 DEF HandlingTypes
    <3>4. PlaceOf(t)'
      BY <1>0, <2>2, <2>5, <2>6, <3>2, <3>3 DEF Places, PlaceOf, HandlingTypes, Between
    <3>9. OthersStay(t)
      BY <1>0, <2>1, <2>2, <3>2 DEF OthersStay, HandlingTypes, Places
    <3> QED BY <1>0, <3>4, <3>9, PlacesStep
  <2> QED BY <2>7, <2>8, <2>9, <2>10, TypesNext
<1>4. CASE SetSummary(t)
  <2> USE <1>4 DEF SetSummary, Goto
  <2>1. HandlingTypes'
    BY <1>0 DEF HandlingTypes, Phases
  <2>2. ObjectTypes'
    BY <1>0, <1>a DEF LocalTypes, ObjectTypes, Between
  <2>3. LocalTypes' /\ FileTypes' /\ GhostTypes'
    BY <1>0 DEF LocalTypes, FileTypes, GhostTypes, locals, files, ghosts
  <2>4. Places'
    <3>1. PlaceOf(t)'
      BY <1>0 DEF Places, PlaceOf, HandlingTypes, Between, locals
    <3>9. OthersStay(t)
      BY <1>0 DEF OthersStay, HandlingTypes, Places, locals
    <3> QED BY <1>0, <3>1, <3>9, PlacesStep
  <2> QED BY <2>1, <2>2, <2>3, <2>4, TypesNext
<1>5. CASE AddMessage(t)
  <2>1. /\ pc[t] = "adding"
        /\ msgs' = [msgs EXCEPT ![obj[t]] = Append(@, adding[t][added[t] + 1])]
        /\ added' = [added EXCEPT ![t] = @ + 1]
        /\ pc' = [pc EXCEPT ![t] = IF added'[t] = Len(adding[t]) THEN "added" ELSE "adding"]
        /\ UNCHANGED <<cached, summary, files, obj, save, fd, history, adding, replacing, kept, crashes, ghosts>>
    BY <1>5 DEF AddMessage, Goto
  <2>2. /\ added[t] < Len(adding[t]) /\ added[t] \in Nat /\ Len(adding[t]) \in Nat /\ obj[t] \in Objects
        /\ adding[t] \in Seq(Messages)
    BY <1>0, <1>a, <2>1 DEF Places, PlaceOf, LocalTypes, Between
  <2>3. adding[t][added[t] + 1] \in Messages
    BY <2>2
  <2>4. added' \in [Turns -> Nat] /\ added'[t] = added[t] + 1 /\ \A u \in Turns : u # t => added'[u] = added[u]
    BY <1>0, <2>1, <2>2 DEF LocalTypes
  <2>5. HandlingTypes'
    BY <1>0, <2>1 DEF HandlingTypes, Phases
  <2>6. ObjectTypes'
    BY <1>0, <2>1, <2>2, <2>3 DEF ObjectTypes
  <2>7. LocalTypes' /\ FileTypes' /\ GhostTypes'
    BY <1>0, <2>1, <2>2, <2>4 DEF LocalTypes, FileTypes, GhostTypes, files, ghosts
  <2>8. Places'
    <3>1. /\ pc'[t] = (IF added[t] + 1 = Len(adding[t]) THEN "added" ELSE "adding") /\ added'[t] = added[t] + 1
          /\ adding'[t] = adding[t] /\ obj'[t] = obj[t] /\ fd'[t] = fd[t] /\ fd[t] = None
      BY <1>0, <2>1, <2>4 DEF Places, PlaceOf, HandlingTypes
    <3>2. PlaceOf(t)'
      BY <1>0, <2>2, <3>1 DEF PlaceOf, Between
    <3>9. OthersStay(t)
      BY <1>0, <2>1, <2>4 DEF OthersStay, HandlingTypes, Places
    <3> QED BY <1>0, <3>2, <3>9, PlacesStep
  <2> QED BY <2>5, <2>6, <2>7, <2>8, TypesNext
<1>6. CASE CompactHistory(t)
  <2> DEFINE s == msgs[obj[t]]
             cut == SafeBoundary(s, Len(s) - MaxHistory)
  <2>0. pc[t] = "saved" /\ s \in Seq(Messages) /\ Len(s) - MaxHistory \in Int
    BY <1>0, <1>a, <1>6, SessionsAssumption DEF CompactHistory, ObjectTypes, Between
  <2>a. cut \in 0 .. Len(s)
    <3> HIDE DEF s
    <3> QED BY <2>0, SafeBoundaryIs
  <2>1. CASE Return(t) /\ UNCHANGED <<cached, files, save, fd, crashes, reset, overlapped, spoiled>> /\ Collect
    <3>1. HandlingTypes' /\ LocalTypes' /\ GhostTypes'
      BY <1>0, <2>1, Returns DEF HandlingTypes, GhostTypes
    <3>2. ObjectTypes'
      BY <1>0, <2>1, Collects DEF ObjectTypes
    <3>3. Places'
      <4>1. /\ pc' = [pc EXCEPT ![t] = "returned"] /\ obj' = [obj EXCEPT ![t] = None]
            /\ \A u \in Turns : u # t => added'[u] = added[u] /\ adding'[u] = adding[u]
            /\ added' \in [Turns -> Nat]
        BY <1>0, <2>1, <3>1, Returns DEF LocalTypes
      <4>2. PlaceOf(t)'
        BY <1>0, <2>0, <2>1, <4>1 DEF Places, PlaceOf, HandlingTypes, Between
      <4>9. OthersStay(t)
        BY <1>0, <2>1, <4>1 DEF OthersStay, HandlingTypes
      <4> QED BY <1>0, <4>2, <4>9, PlacesStep
    <3>4. FileTypes'
      <4>1. UNCHANGED files
        BY <2>1
      <4> QED BY <1>0, <4>1 DEF FileTypes, files
    <3> QED BY <3>1, <3>2, <3>3, <3>4, TypesNext
  <2>2. CASE /\ kept' = [kept EXCEPT ![t] = SubSeq(s, cut + 1, Len(s))]
             /\ replacing' = [replacing EXCEPT ![t] = ToSet(SubSeq(s, 1, cut))]
             /\ Goto(t, "cut") /\ Spoil("compaction", Busy # {t})
             /\ UNCHANGED <<objects, files, obj, save, fd, history, adding, added,
                            crashes, said, reset, overlapped>>
    <3>1. SubSeq(s, cut + 1, Len(s)) \in Seq(Messages) /\ SubSeq(s, 1, cut) \in Seq(Messages)
      <4> HIDE DEF s, cut
      <4> QED BY <2>0, <2>a, CutType
    <3>2. ToSet(SubSeq(s, 1, cut)) \subseteq Messages
      BY <3>1, ToSetType
    <3> HIDE DEF s, cut
    <3>3. HandlingTypes'
      BY <1>0, <2>2 DEF HandlingTypes, Phases, Goto
    <3>4. LocalTypes'
      BY <1>0, <2>2, <3>1, <3>2 DEF LocalTypes
    <3>5. ObjectTypes' /\ FileTypes' /\ GhostTypes'
      BY <1>0, <2>2 DEF ObjectTypes, FileTypes, GhostTypes, objects, files, Spoil
    <3>6. Places'
      <4>1. PlaceOf(t)'
        BY <1>0, <2>0, <2>2 DEF Places, PlaceOf, HandlingTypes, Between, Goto
      <4>9. OthersStay(t)
        BY <1>0, <2>2 DEF OthersStay, HandlingTypes, Places, Goto
      <4> QED BY <1>0, <4>1, <4>9, PlacesStep
    <3> QED BY <3>3, <3>4, <3>5, <3>6, TypesNext
  <2> QED BY <1>6, <2>1, <2>2 DEF CompactHistory
<1>7. CASE CompactSummary(t)
  <2> USE <1>7 DEF CompactSummary, Goto
  <2>1. HandlingTypes'
    BY <1>0 DEF HandlingTypes, Phases
  <2>2. LocalTypes'
    BY <1>0, <1>a DEF LocalTypes, ObjectTypes, Between
  <2>3. ObjectTypes' /\ FileTypes' /\ GhostTypes'
    BY <1>0 DEF ObjectTypes, FileTypes, GhostTypes, objects, files, ghosts
  <2>4. Places'
    <3>1. PlaceOf(t)'
      BY <1>0 DEF Places, PlaceOf, HandlingTypes, Between
    <3>9. OthersStay(t)
      BY <1>0 DEF OthersStay, HandlingTypes, Places
    <3> QED BY <1>0, <3>1, <3>9, PlacesStep
  <2> QED BY <2>1, <2>2, <2>3, <2>4, TypesNext
<1>8. CASE CompactSet(t)
  <2> USE <1>8 DEF CompactSet, Goto
  <2>1. HandlingTypes'
    BY <1>0 DEF HandlingTypes, Phases
  <2>2. ObjectTypes'
    BY <1>0, <1>a DEF LocalTypes, ObjectTypes, Between
  <2>3. LocalTypes' /\ FileTypes' /\ GhostTypes'
    BY <1>0 DEF LocalTypes, FileTypes, GhostTypes, locals, files, ghosts
  <2>4. Places'
    <3>1. PlaceOf(t)'
      BY <1>0 DEF Places, PlaceOf, HandlingTypes, Between, locals
    <3>9. OthersStay(t)
      BY <1>0 DEF OthersStay, HandlingTypes, Places, locals
    <3> QED BY <1>0, <3>1, <3>9, PlacesStep
  <2> QED BY <2>1, <2>2, <2>3, <2>4, TypesNext
<1>9. CASE ReplaceHistory(t)
  <2> USE <1>9 DEF ReplaceHistory, Goto
  <2>1. HandlingTypes'
    BY <1>0 DEF HandlingTypes, Phases
  <2>2. ObjectTypes'
    BY <1>0, <1>a DEF LocalTypes, ObjectTypes, Between
  <2>3. LocalTypes' /\ FileTypes' /\ GhostTypes'
    BY <1>0 DEF LocalTypes, FileTypes, GhostTypes, locals, files, ghosts
  <2>4. Places'
    <3>1. PlaceOf(t)'
      BY <1>0 DEF Places, PlaceOf, HandlingTypes, Between, locals
    <3>9. OthersStay(t)
      BY <1>0 DEF OthersStay, HandlingTypes, Places, locals
    <3> QED BY <1>0, <3>1, <3>9, PlacesStep
  <2> QED BY <2>1, <2>2, <2>3, <2>4, TypesNext
<1> QED BY <1>1, <1>2, <1>3, <1>4, <1>5, <1>6, <1>7, <1>8, <1>9 DEF Turn

LEMMA ResetTypes ==
  ASSUME Types, NEW n \in Resets, Reset(n)
  PROVE  Types'
<1> USE HandlingIs
<1>0. HandlingTypes /\ ObjectTypes /\ FileTypes /\ LocalTypes /\ GhostTypes /\ Places /\ n \in Handlings /\ n \notin Turns
  BY TypesAre
<1>1. CASE NewSession(n)
  <2>1. overlapped' \in BOOLEAN /\ spoiled' \subseteq {"reset", "compaction", "compression", "crash"}
    BY <1>0, <1>1 DEF NewSession, GhostTypes
  <2>2. pc[n] = "deleted" /\ GetOrCreate(n, "created") /\ UNCHANGED <<files, save, fd, crashes, reset>>
    BY <1>1 DEF NewSession
  <2> QED BY <1>0, <2>1, <2>2, OpenTypes
<1>2. CASE Delete(n)
  <2>1. /\ pc[n] = "none" /\ cached' = None /\ main' = None /\ pc' = [pc EXCEPT ![n] = "deleted"]
        /\ UNCHANGED <<tmp, obj, save, fd, locals, crashes>> /\ Collect /\ Unlink
    BY <1>2 DEF Delete, Goto
  <2>2. HandlingTypes'
    BY <1>0, <2>1 DEF HandlingTypes, Phases
  <2>3. ObjectTypes'
    BY <1>0, <2>1, Collects DEF ObjectTypes
  <2>4. FileTypes'
    BY <1>0, <2>1, <2>2, Unlinks DEF FileTypes
  <2>5. LocalTypes'
    BY <1>0, <2>1 DEF LocalTypes, locals
  <2>6. GhostTypes'
    <3>1. crashes' \in 0 .. MaxCrashes /\ said' \subseteq Messages
      BY <1>0, <1>2, <2>1 DEF GhostTypes, Delete
    <3>2. reset' \subseteq AllTurns /\ overlapped' \in BOOLEAN
      BY <1>0, <1>2 DEF GhostTypes, Delete
    <3>3. spoiled' \subseteq {"reset", "compaction", "compression", "crash"}
      BY <1>0, <1>2 DEF GhostTypes, Delete, Spoil
    <3> QED BY <3>1, <3>2, <3>3 DEF GhostTypes
  <2>7. Places'
    <3>1. PlaceOf(n)'
      BY <1>0, <2>1 DEF Places, PlaceOf, HandlingTypes, Between
    <3>2. OthersStay(n)
      BY <1>0, <2>1 DEF OthersStay, HandlingTypes, Places, locals
    <3> QED BY <1>0, <3>1, <3>2, PlacesStep
  <2> QED BY <2>2, <2>3, <2>4, <2>5, <2>6, <2>7, TypesNext
<1> QED BY <1>1, <1>2 DEF Reset

LEMMA SaveTypes ==
  ASSUME Types, NEW h \in Handlings, SaveCreate(h) \/ SaveMeta(h) \/ SaveBody(h) \/ SaveRename(h)
  PROVE  Types'
<1> USE HandlingIs
<1>0. HandlingTypes /\ ObjectTypes /\ FileTypes /\ LocalTypes /\ GhostTypes /\ Places
  BY TypesAre
<1>1. CASE SaveCreate(h)
  <2>1. PICK i \in Inodes :
          /\ i = tmp \/ i # main
          /\ tmp' = i /\ fd' = [fd EXCEPT ![h] = i]
          /\ meta' = [meta EXCEPT ![i] = {}] /\ body' = [body EXCEPT ![i] = <<>>]
          /\ written' = [written EXCEPT ![i] = {}]
    BY <1>0, <1>1 DEF SaveCreate, FileTypes
  <2>2. MustSave(h) /\ save' = [save EXCEPT ![h] = "meta"]
        /\ UNCHANGED <<objects, main, pc, obj, locals, crashes, ghosts>>
    BY <1>1 DEF SaveCreate
  <2>3. HandlingTypes'
    BY <1>0, <2>1, <2>2 DEF HandlingTypes, Saving
  <2>4. FileTypes'
    BY <1>0, <2>1, <2>2, NoMessages DEF FileTypes
  <2>5. ObjectTypes' /\ LocalTypes' /\ GhostTypes'
    BY <1>0, <2>2 DEF ObjectTypes, LocalTypes, GhostTypes, objects, locals, ghosts
  <2>6. Places'
    <3>1. PlaceOf(h)'
      BY <1>0, <2>1, <2>2 DEF Places, PlaceOf, HandlingTypes, MustSave, locals
    <3>2. OthersStay(h)
      BY <1>0, <2>1, <2>2 DEF OthersStay, HandlingTypes, Places, locals
    <3> QED BY <1>0, <3>1, <3>2, PlacesStep
  <2> QED BY <2>3, <2>4, <2>5, <2>6, TypesNext
<1>2. CASE SaveMeta(h) \/ SaveBody(h)
  <2>0. fd[h] \in Inodes /\ obj[h] \in Objects
    BY <1>0, <1>2 DEF SaveMeta, SaveBody, HandlingTypes, Places, PlaceOf, Between
  <2>1. HandlingTypes'
    BY <1>0, <1>2 DEF SaveMeta, SaveBody, HandlingTypes, Saving
  <2>2. FileTypes'
    <3>1. UNCHANGED <<main, tmp>>
      BY <1>2 DEF SaveMeta, SaveBody
    <3>2. CASE SaveMeta(h)
      <4>1. written' \in [Inodes -> SUBSET Parts]
        BY <1>0, <2>0, <3>2 DEF SaveMeta, FileTypes, Parts
      <4> QED BY <1>0, <2>0, <3>1, <3>2, <4>1 DEF SaveMeta, FileTypes, ObjectTypes
    <3>3. CASE SaveBody(h)
      <4>1. written' \in [Inodes -> SUBSET Parts]
        BY <1>0, <2>0, <3>3 DEF SaveBody, FileTypes, Parts
      <4> QED BY <1>0, <2>0, <3>1, <3>3, <4>1 DEF SaveBody, FileTypes, ObjectTypes
    <3> QED BY <1>2, <3>2, <3>3
  <2>3. ObjectTypes' /\ LocalTypes' /\ GhostTypes'
    BY <1>0, <1>2 DEF SaveMeta, SaveBody, ObjectTypes, LocalTypes, GhostTypes, objects, locals, ghosts
  <2>4. UNCHANGED <<pc, obj, fd, added, adding>>
    BY <1>2 DEF SaveMeta, SaveBody, locals
  <2>5. Places'
    BY <1>0, <2>4 DEF Places, PlaceOf
  <2> QED BY <2>1, <2>2, <2>3, <2>5, TypesNext
<1>3. CASE SaveRename(h)
  <2>1. /\ save[h] = "rename" /\ main' = (IF tmp = None THEN main ELSE tmp) /\ tmp' = None
        /\ save' = [save EXCEPT ![h] = "no"] /\ fd' = [fd EXCEPT ![h] = None] /\ AfterSave(h)
        /\ UNCHANGED <<cached, crashes, reset, overlapped, spoiled>> /\ Collect /\ Unlink
    BY <1>3 DEF SaveRename
  <2>2. pc[h] \in {"summarized", "added", "compacted", "created"}
    BY <1>0, <2>1 DEF HandlingTypes, Places, PlaceOf
  <2>3. save' \in [Handlings -> Saving] /\ fd' \in [Handlings -> Inodes \cup {None}]
        /\ \A g \in Handlings : save'[g] \in {"meta", "body", "rename"} <=> fd'[g] # None
    BY <1>0, <2>1 DEF HandlingTypes, Saving
  <2>4. /\ pc' \in [Handlings -> Phases] /\ obj' \in [Handlings -> Objects \cup {None}]
        /\ LocalTypes' /\ said' \subseteq Messages /\ PlaceOf(h)'
        /\ \A g \in Handlings \ {h} : pc'[g] = pc[g] /\ obj'[g] = obj[g]
        /\ \A t \in Turns \ {h} : added'[t] = added[t] /\ adding'[t] = adding[t]
    <3>1. CASE pc[h] \in {"summarized", "added"}
      <4>1. /\ pc' = [pc EXCEPT ![h] = IF pc[h] = "added" THEN "saved" ELSE "adding"]
            /\ UNCHANGED <<obj, locals, said>>
        BY <2>1, <3>1 DEF AfterSave, Goto
      <4>2. pc' \in [Handlings -> Phases] /\ obj' \in [Handlings -> Objects \cup {None}] /\ LocalTypes' /\ said' \subseteq Messages
        BY <1>0, <4>1 DEF HandlingTypes, LocalTypes, GhostTypes, Phases, locals
      <4>3. h \in Turns
        BY <1>0, <3>1 DEF Places, PlaceOf, Between
      <4>4. PlaceOf(h)'
        BY <1>0, <2>1, <3>1, <4>1, <4>3 DEF Places, PlaceOf, HandlingTypes, Between, locals
      <4> QED BY <1>0, <4>1, <4>2, <4>4 DEF HandlingTypes, locals
    <3>2. CASE ~(pc[h] \in {"summarized", "added"})
      <4>1. Return(h)
        BY <2>1, <3>2 DEF AfterSave
      <4>2. /\ pc' = [pc EXCEPT ![h] = "returned"] /\ pc' \in [Handlings -> Phases]
            /\ obj' = [obj EXCEPT ![h] = None] /\ obj' \in [Handlings -> Objects \cup {None}]
            /\ LocalTypes' /\ said' \subseteq Messages
            /\ \A t \in Turns : t # h => added'[t] = added[t] /\ adding'[t] = adding[t]
        BY <4>1, Returns
      <4>3. PlaceOf(h)'
        BY <1>0, <2>1, <4>2 DEF Places, PlaceOf, HandlingTypes, Between
      <4> QED BY <1>0, <4>2, <4>3 DEF HandlingTypes
    <3> QED BY <3>1, <3>2
  <2>5. HandlingTypes'
    BY <2>3, <2>4 DEF HandlingTypes
  <2>6. ObjectTypes'
    BY <1>0, <2>1, Collects DEF ObjectTypes
  <2>7. FileTypes'
    <3>1. main' \in Inodes \cup {None} /\ tmp' = None
      BY <1>0, <2>1 DEF FileTypes
    <3> QED BY <1>0, <2>1, <2>5, <3>1, Unlinks DEF FileTypes
  <2>8. GhostTypes'
    BY <1>0, <2>1, <2>4 DEF GhostTypes
  <2>9. OthersStay(h)
    BY <1>0, <2>1, <2>4 DEF OthersStay, HandlingTypes, LocalTypes
  <2>10. Places'
    BY <1>0, <2>4, <2>9, PlacesStep
  <2> QED BY <2>4, <2>5, <2>6, <2>7, <2>8, <2>10, TypesNext
<1> QED BY <1>1, <1>2, <1>3

LEMMA CrashTypes ==
  ASSUME Types, Crash
  PROVE  Types'
<1> USE HandlingIs
<1>0. HandlingTypes /\ ObjectTypes /\ FileTypes /\ LocalTypes /\ GhostTypes /\ Places
  BY TypesAre
<1>1. /\ crashes < MaxCrashes /\ crashes' = crashes + 1 /\ cached' = None
      /\ pc' = [h \in Handlings |-> IF h \in Busy THEN "killed" ELSE pc[h]]
      /\ obj' = [h \in Handlings |-> None]
      /\ save' = [h \in Handlings |-> "no"] /\ fd' = [h \in Handlings |-> None]
      /\ UNCHANGED <<main, tmp, said, reset, overlapped>> /\ Collect /\ Unlink
  BY DEF Crash
<1>2. HandlingTypes'
  BY <1>0, <1>1 DEF HandlingTypes, Phases, Between, Saving
<1>3. ObjectTypes'
  BY <1>0, <1>1, Collects DEF ObjectTypes
<1>4. FileTypes'
  BY <1>0, <1>1, <1>2, Unlinks DEF FileTypes
<1>5. LocalTypes' /\ \A t \in Turns : added'[t] = 0
  BY NoMessages DEF Crash, LocalTypes
<1>6. GhostTypes'
  <2>1. crashes' \in 0 .. MaxCrashes
    BY <1>0, <1>1, SessionsAssumption DEF GhostTypes
  <2>2. spoiled' \subseteq {"reset", "compaction", "compression", "crash"}
    BY <1>0 DEF GhostTypes, Crash, Spoil
  <2> QED BY <1>0, <1>1, <2>1, <2>2 DEF GhostTypes
<1>7. ASSUME NEW h \in Handlings PROVE PlaceOf(h)'
  <2>1. pc'[h] = IF h \in Busy THEN "killed" ELSE pc[h]
    BY <1>1
  <2>2. pc'[h] \in Between /\ obj'[h] = None /\ fd'[h] = None
    BY <1>1, <2>1 DEF Busy, Between
  <2>3. h \in Turns => added'[h] = 0
    BY <1>5
  <2> QED BY <2>2, <2>3 DEF PlaceOf, Between
<1>8. Places'
  BY <1>5, <1>7 DEF Places, LocalTypes
<1> QED BY <1>2, <1>3, <1>4, <1>5, <1>6, <1>8, TypesNext

LEMMA TypesStep ==
  ASSUME Types, [Next]_vars
  PROVE  Types'
<1>1. CASE UNCHANGED vars
  BY <1>1 DEF Types, TypeOK, Places, PlaceOf, vars, objects, files, locals, ghosts
<1>2. CASE Next
  BY <1>2, TurnTypes, ResetTypes, SaveTypes, CrashTypes DEF Next
<1> QED BY <1>1, <1>2

\* Whatever the handlings of a session do to it and its files, and whenever the
\* process is killed, each field and file has the contents its readers expect.
THEOREM TypeCorrect == Spec => []TypeOK
<1>1. Types => TypeOK
  BY DEF Types
<1> QED BY <1>1, InitTypes, TypesStep, PTL DEF Spec

-----------------------------------------------------------------------------
(* Histories of whole turns.                                               *)

\* A tool result is one of the results of its call.
LEMMA ToolIs ==
  ASSUME NEW m \in Messages, m.role = "tool"
  PROVE  m.n \in {1, 2}
BY DEF Messages, Assistant, Calls

\* Members and injectivity of a history, by its places.
LEMMA ToSetIs ==
  ASSUME NEW s \in Seq(Messages)
  PROVE  /\ ToSet(s) = {s[i] : i \in 1 .. Len(s)}
         /\ IsInjective(s) <=> \A i, j \in 1 .. Len(s) : s[i] = s[j] => i = j
<1>1. DOMAIN s = 1 .. Len(s)
  OBVIOUS
<1> QED BY <1>1 DEF ToSet, IsInjective

\* The end of a history of whole turns is chained and ended, too.
LEMMA ChainCut ==
  ASSUME NEW s \in Seq(Messages), Chain(s), Ended(s), NEW b \in 1 .. Len(s) + 1
  PROVE  /\ SubSeq(s, b, Len(s)) \in Seq(Messages)
         /\ Chain(SubSeq(s, b, Len(s))) /\ Ended(SubSeq(s, b, Len(s)))
         /\ Len(SubSeq(s, b, Len(s))) > 0 => b \in 1 .. Len(s) /\ SubSeq(s, b, Len(s))[1] = s[b]
<1> DEFINE c == SubSeq(s, b, Len(s))
           n == Len(s)
<1>1. n \in Nat /\ b \in 1 .. n + 1
  OBVIOUS
<1>2. c \in Seq(Messages) /\ Len(c) = n - b + 1 /\ \A k \in 1 .. Len(c) : c[k] = s[b + k - 1]
  <2>1. b \in Nat /\ n \in Nat /\ b >= 1 /\ n <= Len(s)
    BY <1>1
  <2>2. c \in Seq(Messages) /\ Len(c) = (IF b <= n THEN n - b + 1 ELSE 0) /\ \A k \in 1 .. Len(c) : c[k] = s[b + k - 1]
    BY <2>1, CutType
  <2> HIDE DEF c, n
  <2> QED BY <1>1, <2>2
<1> HIDE DEF c
<1>3. Chain(c)
  <2> SUFFICES ASSUME NEW i \in 1 .. Len(c) - 1 PROVE Follows(c[i], c[i + 1])
    BY DEF Chain
  <2>1. c[i] = s[b + i - 1] /\ c[i + 1] = s[(b + i - 1) + 1] /\ b + i - 1 \in 1 .. n - 1
    <3> HIDE DEF n
    <3>1. i \in 1 .. Len(c) /\ i + 1 \in 1 .. Len(c) /\ b + (i + 1) - 1 = (b + i - 1) + 1 /\ b + i - 1 \in 1 .. n - 1
      BY <1>1, <1>2
    <3> QED BY <1>2, <3>1
  <2> QED BY <2>1 DEF Chain
<1>4. Len(c) > 0 => c[Len(c)] = s[n] /\ n > 0 /\ b \in 1 .. n /\ c[1] = s[b]
  <2> HIDE DEF n
  <2> SUFFICES ASSUME Len(c) > 0 PROVE c[Len(c)] = s[n] /\ n > 0 /\ b \in 1 .. n /\ c[1] = s[b]
    OBVIOUS
  <2>1. Len(c) \in 1 .. Len(c) /\ 1 \in 1 .. Len(c) /\ b + Len(c) - 1 = n /\ b + 1 - 1 = b /\ n > 0 /\ b \in 1 .. n
    BY <1>1, <1>2
  <2> QED BY <1>2, <2>1
<1>5. Ended(c)
  BY <1>4 DEF Ended
<1> QED BY <1>2, <1>3, <1>4, <1>5 DEF c

\* In a chain that neither begins with a result nor ends where one is due, the
\* results of a call that is run are right behind it.
LEMMA ChainPaired ==
  ASSUME NEW s \in Seq(Messages), Chain(s), Ended(s), Len(s) > 0 => s[1].role # "tool"
  PROVE  Paired(s)
<1> DEFINE n == Len(s)
<1>0. n \in Nat /\ \A i \in 1 .. n : s[i] \in Messages
  OBVIOUS
<1> HIDE DEF n
<1>1. \A i \in 1 .. n : i > 1 => i - 1 \in 1 .. n /\ Follows(s[i - 1], s[i])
  <2> SUFFICES ASSUME NEW i \in 1 .. n, i > 1 PROVE i - 1 \in 1 .. n /\ Follows(s[i - 1], s[i])
    OBVIOUS
  <2>1. i - 1 \in 1 .. n - 1 /\ i - 1 \in 1 .. n /\ (i - 1) + 1 = i
    BY <1>0
  <2> QED BY <2>1 DEF Chain, n
<1>2. ASSUME NEW i \in 1 .. n, s[i].role = "tool" PROVE \E j \in 1 .. i - 1 : IsCallOf(s[j], s[i])
  <2>1. i > 1
    BY <1>0, <1>2 DEF n
  <2>2. i - 1 \in 1 .. n /\ Follows(s[i - 1], s[i])
    BY <1>1, <2>1
  <2>3. CASE s[i - 1].role = "call"
    <3>1. s[i].turn = s[i - 1].turn
      BY <2>2, <2>3 DEF Follows, Message
    <3> QED BY <2>1, <2>3, <3>1 DEF IsCallOf
  <2>4. CASE s[i - 1].role = "tool" /\ s[i - 1].n = 1
    <3>1. s[i].turn = s[i - 1].turn
      BY <2>2, <2>4 DEF Follows, Message
    <3>2. i - 1 > 1
      BY <1>0, <2>1, <2>2, <2>4 DEF n
    <3>3. (i - 1) - 1 \in 1 .. n /\ Follows(s[(i - 1) - 1], s[i - 1])
      BY <1>1, <2>2, <3>2
    <3>4. s[(i - 1) - 1].role = "call"
      <4>1. s[(i - 1) - 1].role = "tool" /\ s[(i - 1) - 1].n = 1 => s[i - 1] = Message(s[(i - 1) - 1].turn, "tool", 2)
        BY <3>3 DEF Follows
      <4>2. Due(s[(i - 1) - 1])
        BY <2>4, <3>3 DEF Follows
      <4> QED BY <2>4, <4>1, <4>2 DEF Due, Message
    <3>6. s[i - 1].turn = s[(i - 1) - 1].turn
      BY <3>3, <3>4 DEF Follows, Message
    <3>5. (i - 1) - 1 \in 1 .. i - 1
      BY <1>0, <3>3
    <3> QED BY <3>1, <3>4, <3>5, <3>6 DEF IsCallOf
  <2>5. s[i - 1].role = "call" \/ (s[i - 1].role = "tool" /\ s[i - 1].n = 1)
    BY <1>2, <2>2 DEF Follows, Due
  <2> QED BY <2>3, <2>4, <2>5
<1>3. ASSUME NEW i \in 1 .. n, s[i].role = "call", NEW k \in Calls
      PROVE  \E j \in i + 1 .. n : IsResultOf(s[j], s[i]) /\ s[j].n = k
  <2>1. i < n
    BY <1>0, <1>3 DEF Ended, Due, n
  <2>2. s[i + 1] = Message(s[i].turn, "tool", 1)
    <3>1. i + 1 \in 1 .. n /\ i + 1 > 1 /\ (i + 1) - 1 = i
      BY <1>0, <2>1
    <3>2. Follows(s[i], s[i + 1])
      BY <1>1, <3>1
    <3> QED BY <1>3, <3>2 DEF Follows
  <2>3. s[i + 1].role = "tool" /\ s[i + 1].turn = s[i].turn /\ s[i + 1].n = 1
    BY <2>2 DEF Message
  <2>4. i + 1 < n
    BY <1>0, <2>1, <2>3 DEF Ended, Due, n
  <2>5. s[i + 2] = Message(s[i].turn, "tool", 2)
    <3>1. i + 2 \in 1 .. n /\ i + 2 > 1 /\ (i + 2) - 1 = i + 1
      BY <1>0, <2>4
    <3>2. Follows(s[i + 1], s[i + 2])
      BY <1>1, <3>1
    <3> QED BY <2>3, <3>2 DEF Follows
  <2>6. s[i + 2].role = "tool" /\ s[i + 2].turn = s[i].turn /\ s[i + 2].n = 2
    BY <2>5 DEF Message
  <2>7. i + 1 \in i + 1 .. n /\ i + 2 \in i + 1 .. n
    BY <1>0, <2>4
  <2>8. k = 1 \/ k = 2
    BY DEF Calls
  <2> QED BY <1>3, <2>3, <2>6, <2>7, <2>8 DEF IsResultOf, IsCallOf
<1> QED BY <1>2, <1>3 DEF Paired, n

\* A safe start is not a tool result: such a start is moved to the call, and from
\* a call without results to places before.
LEMMA SafeStartPaired ==
  ASSUME NEW s \in Seq(Messages), Whole(s), MaxHistory < Len(s)
  PROVE  SafeStart(s) \in 1 .. Len(s) /\ s[SafeStart(s)].role # "tool"
<1> DEFINE i == Len(s) - MaxHistory + 1
           f == Starts(s)
<1>0. i \in 1 .. Len(s) /\ Len(s) \in Nat /\ SafeStart(s) = f[i]
  BY SessionsAssumption, SafeStartIs
<1>1. \A j \in 1 .. Len(s) : f[j] = StartAt(s, f, j)
  BY StartsDef
<1>2. Len(s) > 0 => s[1].role # "tool"
  BY DEF Whole, Started
<1>3. Paired(s)
  BY <1>2, ChainPaired DEF Whole
<1> HIDE DEF i, f
<1>4. \A j \in 1 .. Len(s) : f[j] \in 1 .. Len(s) /\ s[f[j]].role # "tool"
  <2> DEFINE bad == {j \in 1 .. Len(s) : ~(f[j] \in 1 .. Len(s) /\ s[f[j]].role # "tool")}
  <2> SUFFICES ASSUME bad # {} PROVE FALSE
    OBVIOUS
  <2>1. PICK j \in bad : \A k \in bad : j <= k
    <3>1. bad \in SUBSET Nat
      OBVIOUS
    <3> QED BY <3>1, LeastExists
  <2>2. \A k \in 1 .. j - 1 : f[k] \in 1 .. Len(s) /\ s[f[k]].role # "tool"
    BY <2>1
  <2>3. j \in 1 .. Len(s) /\ f[j] = StartAt(s, f, j)
    BY <1>1
  <2>4. ~(f[j] \in 1 .. Len(s) /\ s[f[j]].role # "tool")
    OBVIOUS
  <2> HIDE DEF bad
  <2>5. CASE j = 1
    BY <1>0, <1>2, <2>3, <2>4, <2>5 DEF StartAt
  <2>6. CASE j # 1 /\ s[j].role = "tool"
    <3>1. CallBefore(s, j) # {}
      BY <1>3, <2>3, <2>6 DEF Paired, CallBefore
    <3>2. Max(CallBefore(s, j)) \in 1 .. j - 1
      <4>1. CallBefore(s, j) \in SUBSET (1 .. j - 1) /\ j - 1 \in Nat
        BY <2>3 DEF CallBefore
      <4> QED BY <3>1, <4>1, MaxIsGreatest
    <3>3. f[j] = f[Max(CallBefore(s, j))]
      BY <2>3, <2>6, <3>1 DEF StartAt
    <3> QED BY <2>2, <2>4, <3>2, <3>3
  <2>7. CASE j # 1 /\ s[j].role # "tool"
    <3>1. f[j] \in {f[j - 1], j} /\ j - 1 \in 1 .. j - 1
      BY <2>3, <2>7 DEF StartAt
    <3> QED BY <2>2, <2>3, <2>4, <2>7, <3>1
  <2> QED BY <2>5, <2>6, <2>7
<1> QED BY <1>0, <1>4

\* What GetHistorySafe returns of whole turns is paired.
LEMMA SafeHistoryPaired ==
  ASSUME NEW s \in Seq(Messages), Whole(s)
  PROVE  Paired(GetHistorySafe(s))
<1>1. CASE MaxHistory >= Len(s)
  BY <1>1, ChainPaired DEF GetHistorySafe, Whole, Started
<1>2. CASE ~(MaxHistory >= Len(s))
  <2> DEFINE b == SafeStart(s)
             c == SubSeq(s, b, Len(s))
  <2>1. b \in 1 .. Len(s) /\ s[b].role # "tool"
    BY <1>2, SessionsAssumption, SafeStartPaired
  <2>2. b \in 1 .. Len(s) + 1
    BY <2>1
  <2> HIDE DEF b
  <2>3. c \in Seq(Messages) /\ Chain(c) /\ Ended(c) /\ (Len(c) > 0 => c[1] = s[b])
    BY <2>2, ChainCut DEF Whole
  <2> HIDE DEF c
  <2>4. Paired(c)
    BY <2>1, <2>3, ChainPaired
  <2> QED BY <1>2, <2>4 DEF GetHistorySafe, b, c
<1> QED BY <1>1, <1>2

\* A compaction keeps whole turns.
LEMMA CutWhole ==
  ASSUME NEW s \in Seq(Messages), Whole(s), NEW target \in Int, target < Len(s),
         NEW cut \in Nat, cut = SafeBoundary(s, target), cut > 0
  PROVE  Whole(SubSeq(s, cut + 1, Len(s)))
<1>1. Users(s) # {}
  <2>1. Len(s) > 0
    BY SafeBoundaryIs
  <2>2. 1 \in Users(s)
    BY <2>1 DEF Users, Whole, Started
  <2> QED BY <2>2
<1>2. cut + 1 \in Users(s)
  BY <1>1, SafeBoundaryIs
<1>3. cut + 1 \in 1 .. Len(s) + 1 /\ s[cut + 1].role = "user"
  BY <1>2 DEF Users
<1> DEFINE c == SubSeq(s, cut + 1, Len(s))
<1>4. Chain(c) /\ Ended(c) /\ (Len(c) > 0 => c[1] = s[cut + 1])
  BY <1>3, ChainCut DEF Whole
<1> QED BY <1>3, <1>4 DEF Whole, Started

\* A history and its two parts.
LEMMA Divided ==
  ASSUME NEW s \in Seq(Messages), NEW cut \in 0 .. Len(s)
  PROVE  /\ SubSeq(s, cut + 1, Len(s)) \in Seq(Messages) /\ SubSeq(s, 1, cut) \in Seq(Messages)
         /\ ToSet(SubSeq(s, cut + 1, Len(s))) \cup ToSet(SubSeq(s, 1, cut)) = ToSet(s)
         /\ IsInjective(s) => IsInjective(SubSeq(s, cut + 1, Len(s)))
<1> DEFINE n == Len(s)
           a == SubSeq(s, 1, cut)
           c == SubSeq(s, cut + 1, n)
<1>1. n \in Nat /\ cut \in Nat /\ cut <= n
  OBVIOUS
<1>2. a \in Seq(Messages) /\ Len(a) = cut /\ \A k \in 1 .. Len(a) : a[k] = s[1 + k - 1]
  <2>1. 1 \in Nat /\ 1 >= 1 /\ cut <= Len(s)
    BY <1>1
  <2>2. Len(a) = IF 1 <= cut THEN cut - 1 + 1 ELSE 0
    BY <1>1, <2>1, CutType
  <2>3. a \in Seq(Messages) /\ \A k \in 1 .. Len(a) : a[k] = s[1 + k - 1]
    BY <1>1, <2>1, CutType
  <2> HIDE DEF a
  <2> QED BY <1>1, <2>2, <2>3
<1>3. c \in Seq(Messages) /\ Len(c) = n - cut /\ \A k \in 1 .. Len(c) : c[k] = s[cut + 1 + k - 1]
  <2>1. cut + 1 \in Nat /\ cut + 1 >= 1 /\ n <= Len(s)
    BY <1>1
  <2>2. Len(c) = IF cut + 1 <= n THEN n - (cut + 1) + 1 ELSE 0
    BY <1>1, <2>1, CutType
  <2>3. c \in Seq(Messages) /\ \A k \in 1 .. Len(c) : c[k] = s[cut + 1 + k - 1]
    BY <1>1, <2>1, CutType
  <2> HIDE DEF c, n
  <2> QED BY <1>1, <2>2, <2>3
<1>4. \A k \in 1 .. cut : a[k] = s[k]
  <2> HIDE DEF a, n
  <2> TAKE k \in 1 .. cut
  <2>1. 1 + k - 1 = k
    BY <1>1
  <2> QED BY <1>2, <2>1
<1>5. \A k \in 1 .. n - cut : c[k] = s[cut + k] /\ cut + k \in 1 .. n
  <2> HIDE DEF c, n
  <2> TAKE k \in 1 .. n - cut
  <2>1. cut + 1 + k - 1 = cut + k /\ cut + k \in 1 .. n
    BY <1>1
  <2> QED BY <1>3, <2>1
<1>6. ToSet(a) = {a[k] : k \in 1 .. cut} /\ ToSet(c) = {c[k] : k \in 1 .. n - cut} /\ ToSet(s) = {s[k] : k \in 1 .. n}
  BY <1>2, <1>3, ToSetIs
<1> HIDE DEF a, c, n
<1>7. ToSet(c) \cup ToSet(a) = ToSet(s)
  <2>1. \A k \in 1 .. n : k \in 1 .. cut \/ (k - cut \in 1 .. n - cut /\ cut + (k - cut) = k)
    BY <1>1
  <2>2. \A x \in ToSet(s) : x \in ToSet(a) \/ x \in ToSet(c)
    BY <1>4, <1>5, <1>6, <2>1
  <2>3. \A k \in 1 .. cut : k \in 1 .. n
    BY <1>1
  <2> QED BY <1>4, <1>5, <1>6, <2>2, <2>3
<1>8. ASSUME IsInjective(s) PROVE IsInjective(c)
  <2>1. \A i, j \in 1 .. n : s[i] = s[j] => i = j
    BY <1>8, ToSetIs DEF n
  <2>2. \A i, j \in 1 .. n - cut : cut + i = cut + j => i = j
    BY <1>1
  <2>3. \A i, j \in 1 .. Len(c) : c[i] = c[j] => i = j
    BY <1>3, <1>5, <2>1, <2>2
  <2> QED BY <1>3, <2>3, ToSetIs
<1> QED BY <1>2, <1>3, <1>7, <1>8 DEF a, c, n

\* What a message at the end of a history changes.
LEMMA Appended ==
  ASSUME NEW s \in Seq(Messages), NEW m \in Messages
  PROVE  /\ Append(s, m) \in Seq(Messages)
         /\ ToSet(Append(s, m)) = ToSet(s) \cup {m}
         /\ IsInjective(s) /\ m \notin ToSet(s) => IsInjective(Append(s, m))
         /\ Chain(s) /\ (Len(s) = 0 \/ Follows(s[Len(s)], m)) => Chain(Append(s, m))
         /\ Started(s) /\ (Len(s) = 0 => m.role = "user") => Started(Append(s, m))
         /\ Len(Append(s, m)) > 0 /\ Append(s, m)[Len(Append(s, m))] = m
<1> DEFINE n == Len(s)
           a == Append(s, m)
<1>1. /\ n \in Nat /\ a \in Seq(Messages) /\ Len(a) = n + 1 /\ a[n + 1] = m
      /\ \A i \in 1 .. n : a[i] = s[i]
  BY AppendProperties
<1>2. ToSet(a) = {a[i] : i \in 1 .. n + 1} /\ ToSet(s) = {s[i] : i \in 1 .. n}
  BY <1>1, ToSetIs
<1> HIDE DEF a
<1>3. ToSet(a) = ToSet(s) \cup {m}
  <2> HIDE DEF n
  <2>1. \A i \in 1 .. n + 1 : i \in 1 .. n \/ i = n + 1
    BY <1>1
  <2>2. n + 1 \in 1 .. n + 1 /\ \A i \in 1 .. n : i \in 1 .. n + 1
    BY <1>1
  <2> QED BY <1>1, <1>2, <2>1, <2>2
<1>4. ASSUME IsInjective(s), m \notin ToSet(s) PROVE IsInjective(a)
  <2>1. \A i, j \in 1 .. n : s[i] = s[j] => i = j
    BY <1>4, ToSetIs
  <2>2. \A i \in 1 .. n : s[i] # m
    BY <1>2, <1>4
  <2>3. \A i, j \in 1 .. n + 1 : a[i] = a[j] => i = j
    <3> HIDE DEF n
    <3>1. \A i \in 1 .. n + 1 : i \in 1 .. n \/ i = n + 1
      BY <1>1
    <3> QED BY <1>1, <2>1, <2>2, <3>1
  <2> QED BY <1>1, <2>3, ToSetIs
<1>5. ASSUME Chain(s), n = 0 \/ Follows(s[n], m) PROVE Chain(a)
  <2> SUFFICES ASSUME NEW i \in 1 .. n PROVE Follows(a[i], a[i + 1])
    BY <1>1 DEF Chain
  <2>1. CASE i = n
    BY <1>1, <1>5, <2>1
  <2>2. CASE i # n
    <3>1. i \in 1 .. n - 1 /\ i + 1 \in 1 .. n
      BY <1>1, <2>2
    <3> QED BY <1>1, <1>5, <3>1 DEF Chain
  <2> QED BY <2>1, <2>2
<1>6. ASSUME Started(s), n = 0 => m.role = "user" PROVE Started(a)
  <2>1. CASE n = 0
    BY <1>1, <1>6, <2>1 DEF Started
  <2>2. CASE n # 0
    <3>1. 1 \in 1 .. n /\ n > 0
      BY <1>1, <2>2
    <3> QED BY <1>1, <1>6, <3>1 DEF Started
  <2> QED BY <2>1, <2>2
<1> QED BY <1>1, <1>3, <1>4, <1>5, <1>6 DEF a

-----------------------------------------------------------------------------
(* The inductive invariant of a session that nothing has spoiled.          *)

Content(s, u) == ToSet(s) \cup u
AddedBy(t) == {adding[t][k] : k \in 1 .. added[t]}
OnDisk(t) == pc[t] \in Compacting \cup {"saved", "compacted"}

\* A message is from after the last /new, and its turn has added it.
Known(m) ==
  /\ m.turn \notin reset
  /\ \A t \in Turns : m.turn = t /\ pc[t] \in Evaluating => m \in AddedBy(t)
Sound(s, u) ==
  /\ IsInjective(s) /\ said \subseteq Content(s, u)
  /\ \A m \in Content(s, u) : Known(m)

\* The handlings that hold an object hold the one in the cache.
OneObject == \A h \in Handlings : obj[h] \in {None, cached}

\* What a turn adds is its run, of which it has added all when it saves; what it
\* sets as the summary is the one of the session, or it compacts, alone, and all
\* that is in the session is in what it keeps or tells of.
HandledOf(t) ==
  /\ t \in reset => pc[t] \in {"returned", "killed"}
  /\ pc[t] \in {"none", "open", "told", "returned", "killed"} => adding[t] = <<>>
  /\ pc[t] \notin {"none", "open", "told", "returned", "killed"} =>
       adding[t] \in Runs(t) /\ (pc[t] \notin Evaluating => added[t] = Len(adding[t]))
  /\ pc[t] \in {"told", "answered"} => replacing[t] = summary[cached]
  /\ pc[t] \in Compacting =>
       /\ Busy = {t}
       /\ IsInjective(kept[t]) /\ ToSet(kept[t]) \subseteq ToSet(msgs[cached])
       /\ ToSet(msgs[cached]) \subseteq ToSet(kept[t]) \cup replacing[t]
       /\ replacing[t] \subseteq Content(msgs[cached], summary[cached])
  /\ pc[t] = "summary" => summary[cached] \subseteq replacing[t]
  /\ pc[t] = "replace" => summary[cached] = replacing[t]
Handled == \A t \in Turns : HandledOf(t)

\* The session in memory has what the turns that returned and the others added.
Memory ==
  cached # None =>
    /\ Sound(msgs[cached], summary[cached])
    /\ \A t \in Turns : AddedBy(t) \subseteq Content(msgs[cached], summary[cached])

\* So has the file, of those that saved, if it is complete; and it is when the
\* session is not in memory.
Complete(i) == written[i] = Parts
Disk ==
  /\ main = None => said = {} /\ \A t \in Turns : ~OnDisk(t)
  /\ main # None /\ Complete(main) =>
       /\ Sound(body[main], meta[main])
       /\ \A t \in Turns : OnDisk(t) => AddedBy(t) \subseteq Content(body[main], meta[main])
  /\ cached = None => main = None \/ Complete(main)

\* What Saves have written is what is in memory, for it does not change meanwhile.
Current(i) ==
  /\ "meta" \in written[i] => meta[i] = summary[cached]
  /\ "body" \in written[i] => body[i] = msgs[cached]
Saves ==
  \A h \in Handlings : fd[h] # None =>
    /\ Current(fd[h])
    /\ tmp = None => main # None /\ Current(main)
    /\ tmp # None => Current(tmp)

\* As long as turns are handled one at a time, histories consist of whole turns,
\* but for the one that is added.
Midway(t) == pc[t] = "adding" /\ added[t] > 0
FileWhole == main # None => Complete(main) /\ Whole(body[main])
SaveAlone ==
  \A h \in Handlings : fd[h] # None =>
    /\ tmp = fd[h]
    /\ save[h] \in {"body", "rename"} => "meta" \in written[fd[h]]
    /\ save[h] = "rename" => "body" \in written[fd[h]]
MemoryWhole ==
  cached # None =>
    /\ Chain(msgs[cached]) /\ Started(msgs[cached])
    /\ (\A t \in Turns : ~Midway(t)) => Ended(msgs[cached])
    /\ \A t \in Turns : Midway(t) =>
         Len(msgs[cached]) > 0 /\ msgs[cached][Len(msgs[cached])] = adding[t][added[t]]
TurnWhole(t) == Paired(history[t]) /\ (pc[t] \in Compacting => Whole(kept[t]))
OneByOne ==
  ~overlapped => FileWhole /\ SaveAlone /\ MemoryWhole /\ \A t \in Turns : TurnWhole(t)

Clean == OneObject /\ Handled /\ Memory /\ Disk /\ Saves /\ OneByOne

\* Whatever has spoiled the session, handlings that have not overlapped were
\* alone, and then only a compression has.
Alone == ~overlapped => \A h, g \in Busy : h = g
OnlyCompression == ~overlapped => spoiled \subseteq {"compression"}

IInv == Types /\ Alone /\ OnlyCompression /\ (spoiled = {} => Clean)

-----------------------------------------------------------------------------
(* What a step leaves alone.                                               *)

\* A handling under way works on the object in the cache.
LEMMA Held ==
  ASSUME Types, OneObject, NEW h \in Handlings, pc[h] \notin Between \cup {"deleted"}
  PROVE  cached \in Objects /\ cached # None /\ obj[h] = cached
BY HandlingIs DEF Types, TypeOK, Places, PlaceOf, OneObject

\* When nothing is cached, nobody is at work.
LEMMA Free ==
  ASSUME Types, OneObject, cached = None
  PROVE  /\ \A h \in Handlings : pc[h] \in Between \cup {"deleted"} /\ obj[h] = None /\ fd[h] = None
         /\ \A t \in Turns : pc[t] \in Between
<1>1. ASSUME NEW h \in Handlings PROVE pc[h] \in Between \cup {"deleted"} /\ obj[h] = None /\ fd[h] = None
  BY Held DEF Types, Places, PlaceOf, Between, OneObject
<1>2. \A t \in Turns : pc[t] # "deleted" /\ t \in Handlings
  BY HandlingIs DEF Types, Places, PlaceOf
<1> QED BY <1>1, <1>2

\* Whoever changes the session meets no Save of it.
LEMMA NoSaves ==
  ASSUME Types, OneObject, Unlocked(cached)
  PROVE  \A h \in Handlings : fd[h] = None
<1> SUFFICES ASSUME NEW h \in Handlings, fd[h] # None PROVE FALSE
  OBVIOUS
<1>1. pc[h] \notin Between \cup {"deleted"}
  BY DEF Types, Places, PlaceOf, Between
<1>2. obj[h] = cached
  BY <1>1, Held
<1> QED BY <1>2 DEF Unlocked

\* A handling under way meets no compaction but its own.
LEMMA BusyAlone ==
  ASSUME Handled, NEW h \in Busy
  PROVE  \A t \in Turns \ {h} : pc[t] \notin Compacting
BY DEF Handled, HandledOf

\* Only h moves.
Others(h) ==
  /\ \A g \in Handlings \ {h} : pc'[g] = pc[g] /\ obj'[g] = obj[g]
  /\ \A t \in Turns \ {h} :
       /\ adding'[t] = adding[t] /\ added'[t] = added[t] /\ replacing'[t] = replacing[t]
       /\ kept'[t] = kept[t] /\ history'[t] = history[t]
  /\ reset' = reset

MemoryStays ==
  /\ cached' = cached
  /\ cached # None => msgs'[cached] = msgs[cached] /\ summary'[cached] = summary[cached]

\* A step of one handling leaves the others as they were.
LEMMA HandledStep ==
  ASSUME Handled, NEW h \in Handlings, Others(h), \A t \in Turns \ {h} : pc[t] \notin Compacting,
         \A t \in Turns \ {h} : pc[t] \in {"told", "answered"} => summary'[cached'] = summary[cached],
         h \in Turns => HandledOf(h)'
  PROVE  Handled'
<1>1. ASSUME NEW t \in Turns \ {h} PROVE HandledOf(t)'
  <2>1. /\ pc'[t] = pc[t] /\ adding'[t] = adding[t] /\ added'[t] = added[t]
        /\ replacing'[t] = replacing[t] /\ reset' = reset
    BY HandlingIs DEF Others
  <2>2. HandledOf(t) /\ pc[t] \notin Compacting
    BY DEF Handled
  <2> QED BY <2>1, <2>2 DEF HandledOf, Compacting
<1> QED BY <1>1 DEF Handled

\* A message that is known stays known.
Stable ==
  /\ reset' = reset
  /\ \A t \in Turns : pc'[t] \in Evaluating => pc[t] \in Evaluating /\ AddedBy(t) \subseteq AddedBy(t)'

LEMMA KnownStays ==
  ASSUME Stable
  PROVE  \A m : Known(m) => Known(m)'
BY DEF Stable, Known

\* Every step but a reset and a kill is stable if its own turn is.
LEMMA StableStep ==
  ASSUME NEW h \in Handlings, Others(h),
         h \in Turns /\ pc'[h] \in Evaluating => pc[h] \in Evaluating /\ AddedBy(h) \subseteq AddedBy(h)'
  PROVE  Stable
BY HandlingIs DEF Others, Stable, AddedBy

\* What turns have told their callers is what was told before and what one of
\* them has added.
Tells ==
  \/ said' = said
  \/ \E t \in Turns : OnDisk(t) /\ said' = said \cup AddedBy(t)

\* A step that does not touch the session in memory.
LEMMA MemoryFrame ==
  ASSUME Memory, Stable, MemoryStays, Tells, \A t \in Turns : AddedBy(t)' \subseteq AddedBy(t)
  PROVE  Memory'
<1> SUFFICES ASSUME cached # None PROVE Memory'
  BY DEF Memory, MemoryStays
<1> DEFINE s == msgs[cached]
           u == summary[cached]
<1>1. Sound(s, u) /\ \A t \in Turns : AddedBy(t) \subseteq Content(s, u)
  BY DEF Memory
<1>2. said' \subseteq Content(s, u)
  BY <1>1 DEF Sound, Tells
<1>3. msgs'[cached'] = s /\ summary'[cached'] = u
  BY DEF MemoryStays
<1> HIDE DEF s, u
<1>4. IsInjective(s) /\ \A m \in Content(s, u) : Known(m)'
  BY <1>1, KnownStays DEF Sound
<1>5. \A t \in Turns : AddedBy(t)' \subseteq Content(s, u)
  BY <1>1
<1> QED BY <1>2, <1>3, <1>4, <1>5 DEF Memory, Sound, Content

\* A step that does not touch the file.
LEMMA DiskFrame ==
  ASSUME Disk, Stable, Tells, main' = main,
         main # None => body'[main] = body[main] /\ meta'[main] = meta[main] /\ written'[main] = written[main],
         \A t \in Turns : OnDisk(t)' => OnDisk(t) /\ AddedBy(t)' \subseteq AddedBy(t),
         cached' = None => main = None \/ Complete(main)
  PROVE  Disk'
<1>1. main = None => said' = {} /\ \A t \in Turns : ~OnDisk(t)'
  BY DEF Disk, Tells
<1>2. ASSUME main # None, Complete(main)
      PROVE  /\ Sound(body[main], meta[main])
             /\ \A t \in Turns : OnDisk(t) => AddedBy(t) \subseteq Content(body[main], meta[main])
  BY <1>2 DEF Disk
<1>3. ASSUME main # None, Complete(main)'
      PROVE  /\ Sound(body[main], meta[main])'
             /\ \A t \in Turns : OnDisk(t)' => AddedBy(t)' \subseteq Content(body[main], meta[main])'
  <2> DEFINE s == body[main]
             u == meta[main]
  <2>1. Complete(main) /\ body'[main'] = s /\ meta'[main'] = u
    BY <1>3 DEF Complete
  <2>2. Sound(s, u) /\ \A t \in Turns : OnDisk(t) => AddedBy(t) \subseteq Content(s, u)
    BY <1>2, <1>3, <2>1
  <2> HIDE DEF s, u
  <2>3. said' \subseteq Content(s, u)
    BY <2>2 DEF Sound, Tells
  <2>4. IsInjective(s) /\ \A m \in Content(s, u) : Known(m)'
    BY <2>2, KnownStays DEF Sound
  <2>5. \A t \in Turns : OnDisk(t)' => AddedBy(t)' \subseteq Content(s, u)
    BY <2>2
  <2> QED BY <2>1, <2>3, <2>4, <2>5 DEF Sound, Content
<1>4. cached' = None => main = None \/ Complete(main)'
  BY DEF Complete
<1> QED BY <1>1, <1>3, <1>4 DEF Disk

\* A file with what is in memory is as good as the memory.
LEMMA DiskFromMemory ==
  ASSUME Memory', cached' # None, main' # None, Complete(main)' => Current(main)'
  PROVE  Disk'
<1>1. ASSUME Complete(main)' PROVE body'[main'] = msgs'[cached'] /\ meta'[main'] = summary'[cached']
  BY <1>1 DEF Complete, Current, Parts
<1> QED BY <1>1 DEF Disk, Memory

\* A step that touches neither the session nor its files.
LEMMA QuietStep ==
  ASSUME Types, Clean, NEW h \in Handlings, Others(h), MemoryStays, UNCHANGED <<files, save, fd>>, Tells,
         ~overlapped' => ~overlapped, obj'[h] \in {None, cached},
         \A t \in Turns \ {h} : pc[t] \notin Compacting,
         h \in Turns =>
           /\ HandledOf(h)' /\ AddedBy(h)' \subseteq AddedBy(h)
           /\ pc'[h] \in Evaluating => pc[h] \in Evaluating /\ AddedBy(h) = {}
           /\ OnDisk(h)' => OnDisk(h)
           /\ ~Midway(h) /\ ~Midway(h)'
           /\ ~overlapped' => TurnWhole(h)'
  PROVE  Clean'
<1> USE HandlingIs
<1>0. OneObject /\ Handled /\ Memory /\ Disk /\ Saves /\ OneByOne
  BY DEF Clean
<1>1. OneObject'
  BY <1>0 DEF OneObject, Others, MemoryStays
<1>2. Stable
  BY StableStep
<1>3. Handled'
  <2>1. ASSUME NEW t \in Turns, pc[t] \in {"told", "answered"} PROVE summary'[cached'] = summary[cached]
    <3>1. cached # None
      BY <1>0, <2>1, Held DEF Between
    <3> QED BY <3>1 DEF MemoryStays
  <2> QED BY <1>0, <2>1, HandledStep
<1>4. \A t \in Turns : AddedBy(t)' \subseteq AddedBy(t)
  BY DEF Others, AddedBy
<1>5. Memory'
  BY <1>0, <1>2, <1>4, MemoryFrame
<1>6. main' = main /\ tmp' = tmp /\ body' = body /\ meta' = meta /\ written' = written /\ fd' = fd /\ save' = save
  BY DEF files
<1>7. Disk'
  <2>1. \A t \in Turns : OnDisk(t)' => OnDisk(t)
    BY DEF Others, OnDisk
  <2>2. cached' = None => main = None \/ Complete(main)
    BY <1>0 DEF MemoryStays, Disk
  <2> QED BY <1>0, <1>2, <1>4, <1>6, <2>1, <2>2, DiskFrame
<1>8. Saves'
  <2> SUFFICES ASSUME NEW g \in Handlings, fd[g] # None
               PROVE  /\ Current(fd[g])'
                      /\ tmp = None => main # None /\ Current(main)'
                      /\ tmp # None => Current(tmp)'
    BY <1>6 DEF Saves
  <2>1. cached # None
    <3>1. pc[g] \notin Between \cup {"deleted"}
      BY DEF Types, Places, PlaceOf, Between
    <3> QED BY <1>0, <3>1, Held
  <2>2. msgs'[cached'] = msgs[cached] /\ summary'[cached'] = summary[cached]
    BY <2>1 DEF MemoryStays
  <2> QED BY <1>0, <1>6, <2>2 DEF Saves, Current
<1>9. OneByOne'
  <2> SUFFICES ASSUME ~overlapped' PROVE FileWhole' /\ SaveAlone' /\ MemoryWhole' /\ \A t \in Turns : TurnWhole(t)'
    BY DEF OneByOne
  <2>1. FileWhole /\ SaveAlone /\ MemoryWhole /\ \A t \in Turns : TurnWhole(t)
    BY <1>0 DEF OneByOne
  <2>2. FileWhole' /\ SaveAlone'
    BY <1>6, <2>1 DEF FileWhole, SaveAlone, Complete
  <2>3. MemoryWhole'
    <3>1. \A t \in Turns : Midway(t)' <=> Midway(t)
      BY DEF Others, Midway
    <3>2. \A t \in Turns : Midway(t) => adding'[t][added'[t]] = adding[t][added[t]]
      BY DEF Others
    <3> QED BY <2>1, <3>1, <3>2 DEF MemoryWhole, MemoryStays
  <2>4. ASSUME NEW t \in Turns \ {h} PROVE TurnWhole(t)'
    BY <2>1 DEF Others, TurnWhole
  <2> QED BY <2>2, <2>3, <2>4
<1> QED BY <1>1, <1>3, <1>5, <1>7, <1>8, <1>9 DEF Clean

-----------------------------------------------------------------------------
(* The initial states, and who is under way.                               *)

\* Without messages there is nothing to pair.
LEMMA EmptyHistory ==
  /\ Whole(<<>>) /\ Paired(<<>>) /\ IsInjective(<<>>)
BY DEF Whole, Chain, Started, Ended, Paired, IsInjective

\* The initial states are clean.
LEMMA InitClean ==
  ASSUME Init
  PROVE  IInv
<1> USE HandlingIs
<1>0. Types
  BY InitTypes
<1>1. /\ cached = None /\ tmp = None /\ reset = {} /\ overlapped = FALSE /\ spoiled = {}
      /\ \A h \in Handlings : pc[h] = "none" /\ obj[h] = None /\ fd[h] = None
      /\ \A t \in Turns : adding[t] = <<>> /\ added[t] = 0 /\ history[t] = <<>>
  BY DEF Init
<1>2. Busy = {}
  BY <1>1 DEF Busy, Between
<1>3. OneObject /\ Memory /\ Saves
  BY <1>1 DEF OneObject, Memory, Saves
<1>4. Handled
  BY <1>1 DEF Handled, HandledOf, Compacting
<1>5. ASSUME main # None
      PROVE  /\ Complete(main) /\ body[main] \in Runs(Stored)
             /\ \E q \in Runs(Told) : meta[main] = ToSet(q)
  <2>1. main \in Inodes
    BY <1>5 DEF Init
  <2>2. /\ meta[main] = ToSet(Question(Told) \o Reply(Told)) /\ written[main] = Parts
        /\ body[main] = Question(Stored) \o ToolRound(Stored) \o Reply(Stored)
    BY <2>1 DEF Init
  <2> QED BY <2>2, SavedAre DEF Complete, AllTurns
<1>6. Told \in AllTurns \ Turns /\ Stored \in AllTurns \ Turns
  BY SessionsAssumption DEF AllTurns
<1>7. \A q \in Runs(Stored) \cup Runs(Told) : \A m \in ToSet(q) : m.turn \notin Turns
  <2> TAKE q \in Runs(Stored) \cup Runs(Told)
  <2>1. q \in Seq(Messages)
    BY <1>6, RunIs
  <2>2. \A i \in 1 .. Len(q) : q[i].turn \in {Told, Stored}
    BY <1>6, RunIs DEF Coherent
  <2> QED BY <1>6, <2>1, <2>2, ToSetIs
<1>8. Disk
  <2>1. main = None => said = {}
    BY NoMessages DEF Init, LoadedMsgs, LoadedSummary
  <2>2. ASSUME main # None PROVE Sound(body[main], meta[main])
    <3>1. PICK q \in Runs(Told) : meta[main] = ToSet(q)
      BY <1>5, <2>2
    <3>2. said = Content(body[main], meta[main])
      BY <2>2 DEF Init, LoadedMsgs, LoadedSummary, Content
    <3>3. IsInjective(body[main])
      <4>1. body[main] \in Runs(Stored)
        BY <1>5, <2>2
      <4>2. body[main] \in Seq(Messages)
        BY <1>6, <4>1, RunIs
      <4>3. \A i, j \in 1 .. Len(body[main]) : body[main][i] = body[main][j] => i = j
        BY <1>6, <4>1, RunIs DEF Coherent
      <4> QED BY <4>2, <4>3, ToSetIs
    <3>4. \A m \in Content(body[main], meta[main]) : m.turn \notin Turns
      BY <1>5, <1>7, <2>2, <3>1 DEF Content
    <3>5. \A m \in Content(body[main], meta[main]) : Known(m)
      BY <1>1, <3>4 DEF Known
    <3> QED BY <3>2, <3>3, <3>5 DEF Sound
  <2>3. \A t \in Turns : ~OnDisk(t)
    BY <1>1 DEF OnDisk, Compacting
  <2> QED BY <1>5, <2>1, <2>2, <2>3 DEF Disk
<1>9. OneByOne
  <2>1. FileWhole
    <3>1. ASSUME main # None PROVE Whole(body[main])
      BY <1>5, <1>6, <3>1, RunIs DEF Whole, Started, Coherent
    <3> QED BY <1>5, <3>1 DEF FileWhole
  <2>2. SaveAlone /\ MemoryWhole
    BY <1>1 DEF SaveAlone, MemoryWhole
  <2>3. \A t \in Turns : TurnWhole(t)
    BY <1>1, EmptyHistory DEF TurnWhole, Compacting
  <2> QED BY <2>1, <2>2, <2>3 DEF OneByOne
<1> QED BY <1>0, <1>1, <1>2, <1>3, <1>4, <1>8, <1>9 DEF IInv, Clean, Alone, OnlyCompression

\* Only Open and Delete begin a handling, and then they note whether it is alone.
LEMMA BusySteps ==
  ASSUME Types, [Next]_vars
  PROVE  \/ Busy' \subseteq Busy /\ overlapped' = overlapped
         \/ \E h \in Handlings : Busy' \subseteq Busy \cup {h} /\ overlapped' = (overlapped \/ Busy # {})
<1> USE HandlingIs
<1>0. pc \in [Handlings -> Phases]
  BY DEF Types, TypeOK
<1>1. CASE UNCHANGED vars
  BY <1>1 DEF vars, ghosts, Busy
<1>2. ASSUME NEW h \in Handlings, NEW to, pc' = [pc EXCEPT ![h] = to] PROVE Busy' \subseteq Busy \cup {h}
  BY <1>0, <1>2 DEF Busy
<1>3. ASSUME NEW h \in Handlings, Return(h) PROVE Busy' \subseteq Busy
  BY <1>0, <1>3 DEF Return, Goto, Busy, Between
<1>4. ASSUME NEW t \in Turns, Turn(t), ~Open(t) PROVE Busy' \subseteq Busy /\ overlapped' = overlapped
  <2>1. overlapped' = overlapped /\ t \in Busy
    BY <1>4 DEF Turn, GetSummary, Run, SetSummary, AddMessage, CompactHistory, CompactSummary, CompactSet,
                ReplaceHistory, ghosts, Busy, Between
  <2>2. Return(t) \/ \E to : pc' = [pc EXCEPT ![t] = to]
    BY <1>4 DEF Turn, GetSummary, Run, SetSummary, AddMessage, CompactHistory, CompactSummary, CompactSet,
                ReplaceHistory, Goto
  <2> QED BY <1>2, <1>3, <2>1, <2>2
<1>5. ASSUME NEW h \in Handlings, SaveCreate(h) \/ SaveMeta(h) \/ SaveBody(h) \/ SaveRename(h)
      PROVE  Busy' \subseteq Busy /\ overlapped' = overlapped
  <2>1. CASE ~SaveRename(h)
    BY <1>5, <2>1 DEF SaveCreate, SaveMeta, SaveBody, ghosts, Busy
  <2>2. CASE SaveRename(h)
    <3>1. Return(h) \/ (pc[h] \in {"summarized", "added"} /\ \E to : pc' = [pc EXCEPT ![h] = to])
      BY <2>2 DEF SaveRename, AfterSave, Goto
    <3>2. pc[h] \in {"summarized", "added"} => h \in Busy
      BY DEF Busy, Between
    <3> QED BY <1>2, <1>3, <2>2, <3>1, <3>2 DEF SaveRename
  <2> QED BY <2>1, <2>2
<1>6. ASSUME NEW h \in Handlings, NEW to, GetOrCreate(h, to) PROVE Busy' \subseteq Busy \cup {h}
  BY <1>2, <1>3, <1>6 DEF GetOrCreate, Goto
<1>7. ASSUME NEW t \in Turns, Open(t) PROVE Busy' \subseteq Busy \cup {t} /\ overlapped' = (overlapped \/ Busy # {})
  BY <1>6, <1>7 DEF Open
<1>8. ASSUME NEW n \in Resets, NewSession(n) PROVE Busy' \subseteq Busy /\ overlapped' = overlapped
  <2>1. n \in Busy
    BY <1>8 DEF NewSession, Busy, Between
  <2> QED BY <1>6, <1>8, <2>1 DEF NewSession
<1>9. ASSUME NEW n \in Resets, Delete(n) PROVE Busy' \subseteq Busy \cup {n} /\ overlapped' = (overlapped \/ Busy # {})
  BY <1>2, <1>9 DEF Delete, Goto
<1>10. CASE Crash
  BY <1>10 DEF Crash, Busy, Between
<1> QED BY <1>1, <1>4, <1>5, <1>7, <1>8, <1>9, <1>10 DEF Next, Reset

\* Handlings that have not overlapped are alone.
LEMMA AloneStep ==
  ASSUME Types, Alone, [Next]_vars
  PROVE  Alone'
BY BusySteps DEF Alone

\* A handling that is alone spoils the session by a compression only.
LEMMA OnlyCompressionStep ==
  ASSUME Types, Alone, OnlyCompression, [Next]_vars
  PROVE  OnlyCompression'
<1> USE HandlingIs
<1> SUFFICES ASSUME ~overlapped' PROVE spoiled' \subseteq {"compression"}
  BY DEF OnlyCompression
<1>0. ~overlapped
  BY BusySteps
<1>1. spoiled \subseteq {"compression"}
  BY <1>0 DEF OnlyCompression
<1>2. CASE UNCHANGED spoiled
  BY <1>1, <1>2
<1>3. ASSUME NEW t \in Turns, Open(t) PROVE UNCHANGED spoiled
  <2>1. Busy = {}
    BY <1>0, <1>3 DEF Open
  <2>2. ~ \E u \in Turns : pc[u] \in {"cut", "summary", "replace"}
    BY <2>1 DEF Busy, Between
  <2> QED BY <1>3, <2>2 DEF Open, Spoil
<1>4. ASSUME NEW t \in Turns, Run(t) PROVE spoiled' \subseteq {"compression"}
  BY <1>1, <1>4 DEF Run, Spoil
<1>5. ASSUME NEW t \in Turns, CompactHistory(t) PROVE UNCHANGED spoiled
  <2>1. t \in Busy
    BY <1>5 DEF CompactHistory, Busy, Between
  <2>2. Busy = {t}
    BY <1>0, <2>1 DEF Alone
  <2> QED BY <1>5, <2>2 DEF CompactHistory, Spoil
<1>6. ASSUME NEW n \in Resets, Delete(n) PROVE UNCHANGED spoiled
  BY <1>6 DEF Delete, Spoil
<1>7. CASE Crash
  BY <1>0, <1>1, <1>7 DEF Crash, Spoil
<1>8. ASSUME NEW t \in Turns, Turn(t) PROVE spoiled' \subseteq {"compression"}
  BY <1>2, <1>3, <1>4, <1>5, <1>8 DEF Turn, GetSummary, SetSummary, AddMessage, CompactSummary, CompactSet,
     ReplaceHistory, ghosts
<1>9. ASSUME NEW n \in Resets, Reset(n) PROVE spoiled' \subseteq {"compression"}
  BY <1>2, <1>6, <1>9 DEF Reset, NewSession
<1>10. ASSUME NEW h \in Handlings, SaveCreate(h) \/ SaveMeta(h) \/ SaveBody(h) \/ SaveRename(h)
       PROVE  UNCHANGED spoiled
  BY <1>10 DEF SaveCreate, SaveMeta, SaveBody, SaveRename, ghosts
<1>11. CASE UNCHANGED vars
  BY <1>2, <1>11 DEF vars, ghosts
<1> QED BY <1>1, <1>2, <1>7, <1>8, <1>9, <1>10, <1>11 DEF Next

-----------------------------------------------------------------------------
(* Each action, in a session that nothing spoils.                          *)

\* What a return does to the handling.
LEMMA LocalsMove ==
  ASSUME Types, NEW h \in Handlings, Return(h), UNCHANGED reset
  PROVE  /\ Others(h) /\ pc'[h] = "returned" /\ obj'[h] = None
         /\ h \in Turns => adding'[h] = <<>> /\ added'[h] = 0 /\ history'[h] = <<>>
         /\ h \in Turns => said' = said \cup ToSet(adding[h])
         /\ h \notin Turns => said' = said
<1> USE HandlingIs
<1>0. /\ pc \in [Handlings -> Phases] /\ obj \in [Handlings -> Objects \cup {None}]
      /\ history \in [Turns -> Seq(Messages)] /\ adding \in [Turns -> Seq(Messages)]
      /\ added \in [Turns -> Nat] /\ replacing \in [Turns -> SUBSET Messages] /\ kept \in [Turns -> Seq(Messages)]
  BY DEF Types, TypeOK, Places
<1>1. pc' = [pc EXCEPT ![h] = "returned"] /\ obj' = [obj EXCEPT ![h] = None]
  BY DEF Return, Goto
<1>2. CASE h \in Turns
  <2>1. /\ said' = said \cup ToSet(adding[h])
        /\ history' = [history EXCEPT ![h] = <<>>] /\ adding' = [adding EXCEPT ![h] = <<>>]
        /\ added' = [added EXCEPT ![h] = 0] /\ replacing' = [replacing EXCEPT ![h] = {}]
        /\ kept' = [kept EXCEPT ![h] = <<>>]
    BY <1>2 DEF Return
  <2> QED BY <1>0, <1>1, <1>2, <2>1 DEF Others
<1>3. CASE h \notin Turns
  <2>1. UNCHANGED <<said, locals>>
    BY <1>3 DEF Return
  <2> QED BY <1>0, <1>1, <1>3, <2>1 DEF Others, locals
<1> QED BY <1>2, <1>3

\* A turn that has not begun to add, or is over, has added nothing.
LEMMA NothingAdded ==
  ASSUME Types, Handled, NEW t \in Turns, pc[t] \in {"none", "open", "told", "returned", "killed"}
  PROVE  adding[t] = <<>> /\ added[t] = 0 /\ AddedBy(t) = {}
<1>1. adding[t] = <<>>
  BY DEF Handled, HandledOf
<1>2. added[t] \in 0 .. Len(adding[t])
  BY DEF Types, TypeOK
<1>3. added[t] = 0
  BY <1>1, <1>2, NoMessages
<1> QED BY <1>1, <1>3 DEF AddedBy

\* A turn that saves its messages has added them all.
LEMMA AllAdded ==
  ASSUME Types, Handled, NEW t \in Turns,
         pc[t] \in {"added", "saved", "compacted"} \cup Compacting
  PROVE  ToSet(adding[t]) = AddedBy(t)
<1>1. added[t] = Len(adding[t])
  BY DEF Handled, HandledOf, Evaluating, Compacting
<1>2. adding[t] \in Seq(Messages)
  BY DEF Types, TypeOK
<1> QED BY <1>1, <1>2, ToSetIs DEF AddedBy

\* GetOrCreate takes the object in the cache, or reads the file, which then has
\* what the turns that returned have added.
LEMMA LoadClean ==
  ASSUME Types, Types', Clean, NEW h \in Handlings, NEW to \in {"open", "created"},
         h \in Turns => pc[h] = "none" /\ to = "open",
         h \in Resets => pc[h] = "deleted" /\ to = "created",
         GetOrCreate(h, to), UNCHANGED <<files, save, fd, reset>>, ~overlapped' => ~overlapped,
         \A t \in Turns \ {h} : pc[t] \notin Compacting
  PROVE  Clean'
<1> USE HandlingIs
<1>0. OneObject /\ Handled /\ Memory /\ Disk /\ Saves /\ OneByOne
  BY DEF Clean
<1>t. /\ pc \in [Handlings -> Phases] /\ obj \in [Handlings -> Objects \cup {None}]
      /\ cached \in Objects \cup {None} /\ msgs \in [Objects -> Seq(Messages)]
      /\ summary \in [Objects -> SUBSET Messages]
  BY DEF Types, TypeOK
<1>n. h \in Turns => adding[h] = <<>> /\ added[h] = 0 /\ AddedBy(h) = {} /\ h \notin reset
  <2>1. h \in Turns /\ h \in reset => pc[h] \in {"returned", "killed"}
    BY <1>0 DEF Handled, HandledOf
  <2> QED BY <1>0, <2>1, NothingAdded
<1>w. h \in Turns /\ ~overlapped => Paired(history[h])
  BY <1>0 DEF OneByOne, TurnWhole
<1>1. CASE cached # None \/ ~Loads
  <2>1. CASE cached # None
    <3>1. /\ obj' = [obj EXCEPT ![h] = cached] /\ pc' = [pc EXCEPT ![h] = to]
          /\ UNCHANGED <<objects, said, locals>>
      BY <2>1 DEF GetOrCreate, Goto
    <3>2. Others(h) /\ pc'[h] = to /\ obj'[h] = cached
      BY <1>t, <3>1 DEF Others, locals
    <3>3. MemoryStays /\ Tells
      BY <3>1 DEF MemoryStays, Tells, objects
    <3>4. h \in Turns =>
            /\ HandledOf(h)' /\ AddedBy(h)' \subseteq AddedBy(h)
            /\ pc[h] \in Evaluating /\ AddedBy(h) = {}
            /\ ~OnDisk(h)' /\ ~Midway(h) /\ ~Midway(h)'
      BY <1>n, <3>1, <3>2 DEF HandledOf, AddedBy, OnDisk, Midway, Compacting, Evaluating, locals
    <3>5. h \in Turns /\ ~overlapped' => TurnWhole(h)'
      BY <1>w, <3>1, <3>2 DEF TurnWhole, Compacting, locals
    <3> QED BY <3>2, <3>3, <3>4, <3>5, QuietStep
  <2>2. CASE cached = None /\ ~Loads
    <3>1. Return(h) /\ UNCHANGED objects
      BY <2>2 DEF GetOrCreate
    <3>2. /\ Others(h) /\ pc'[h] = "returned" /\ obj'[h] = None
          /\ h \in Turns => adding'[h] = <<>> /\ added'[h] = 0 /\ history'[h] = <<>>
          /\ said' = said
      BY <1>n, <3>1, LocalsMove, NoMessages
    <3>3. MemoryStays /\ Tells
      BY <3>1, <3>2 DEF MemoryStays, Tells, objects
    <3>4. h \in Turns =>
            /\ HandledOf(h)' /\ AddedBy(h)' \subseteq AddedBy(h)
            /\ pc'[h] \notin Evaluating
            /\ ~OnDisk(h)' /\ ~Midway(h) /\ ~Midway(h)' /\ TurnWhole(h)'
      BY <1>n, <3>2, EmptyHistory DEF HandledOf, AddedBy, OnDisk, Midway, Compacting, Evaluating, TurnWhole
    <3> QED BY <3>2, <3>3, <3>4, QuietStep
  <2> QED BY <1>1, <2>1, <2>2
<1>2. CASE cached = None /\ Loads
  <2>1. PICK o \in Objects :
          /\ cached' = o /\ obj' = [obj EXCEPT ![h] = o]
          /\ msgs' = [msgs EXCEPT ![o] = LoadedMsgs] /\ summary' = [summary EXCEPT ![o] = LoadedSummary]
    BY <1>2 DEF GetOrCreate
  <2>2. pc' = [pc EXCEPT ![h] = to] /\ UNCHANGED <<said, locals>>
    BY <1>2 DEF GetOrCreate, Goto
  <2>3. /\ \A g \in Handlings : pc[g] \in Between \cup {"deleted"} /\ obj[g] = None /\ fd[g] = None
        /\ \A t \in Turns : pc[t] \in Between
    BY <1>0, <1>2, Free
  <2>4. Others(h) /\ pc'[h] = to /\ obj'[h] = o
    BY <1>t, <2>1, <2>2 DEF Others, locals
  <2>5. msgs'[cached'] = LoadedMsgs /\ summary'[cached'] = LoadedSummary /\ cached' # None
    BY <1>t, <2>1
  <2>6. OneObject'
    BY <2>1, <2>3, <2>4 DEF OneObject, Others
  <2>7. Handled'
    <3>1. h \in Turns => HandledOf(h)'
      BY <1>n, <2>2, <2>4 DEF HandledOf, Compacting, Evaluating, locals
    <3>2. \A t \in Turns : pc[t] \notin {"told", "answered"}
      BY <2>3 DEF Between
    <3> QED BY <1>0, <2>4, <3>1, <3>2, HandledStep
  <2>8. Stable
    <3>1. h \in Turns => pc[h] \in Evaluating /\ AddedBy(h) = {}
      BY <1>n DEF Evaluating
    <3> QED BY <2>4, <3>1, StableStep
  <2>9. \A t \in Turns : AddedBy(t)' = {}
    <3>1. \A t \in Turns : AddedBy(t) = {}
      BY <1>0, <2>3, NothingAdded DEF Between
    <3> QED BY <2>2, <3>1 DEF AddedBy, locals
  <2>10. Memory'
    <3>1. Sound(LoadedMsgs, LoadedSummary)
      <4>1. CASE main = None
        BY <1>0, <4>1, NoMessages, EmptyHistory DEF Disk, Sound, Content, LoadedMsgs, LoadedSummary
      <4>2. CASE main # None
        BY <1>0, <1>2, <4>2 DEF Disk, LoadedMsgs, LoadedSummary
      <4> QED BY <4>1, <4>2
    <3> DEFINE s == LoadedMsgs
               u == LoadedSummary
    <3>2. msgs'[cached'] = s /\ summary'[cached'] = u /\ Sound(s, u)
      BY <2>5, <3>1
    <3> HIDE DEF s, u
    <3>3. IsInjective(s) /\ said' \subseteq Content(s, u) /\ \A m \in Content(s, u) : Known(m)'
      BY <2>2, <2>8, <3>2, KnownStays DEF Sound
    <3> QED BY <2>9, <3>2, <3>3 DEF Memory, Sound, Content
  <2>11. Disk'
    <3>1. Tells /\ main' = main /\ body' = body /\ meta' = meta /\ written' = written
      BY <2>2 DEF Tells, files
    <3>2. \A t \in Turns : ~OnDisk(t)'
      BY <2>2, <2>3, <2>4 DEF OnDisk, Others, Compacting, Between
    <3> QED BY <1>0, <2>5, <2>8, <3>1, <3>2, DiskFrame
  <2>12. Saves'
    BY <2>3 DEF Saves
  <2>13. OneByOne'
    <3> SUFFICES ASSUME ~overlapped' PROVE FileWhole' /\ SaveAlone' /\ MemoryWhole' /\ \A t \in Turns : TurnWhole(t)'
      BY DEF OneByOne
    <3>1. FileWhole /\ \A t \in Turns : TurnWhole(t)
      BY <1>0 DEF OneByOne
    <3>2. FileWhole' /\ SaveAlone'
      BY <2>3, <3>1 DEF FileWhole, SaveAlone, Complete, files
    <3>3. Whole(LoadedMsgs)
      BY <3>1, EmptyHistory DEF FileWhole, LoadedMsgs
    <3>4. \A t \in Turns : ~Midway(t)'
      BY <2>3, <2>4 DEF Midway, Others, Between
    <3>5. MemoryWhole'
      <4> DEFINE s == LoadedMsgs
      <4>1. msgs'[cached'] = s /\ Whole(s)
        BY <2>5, <3>3
      <4> HIDE DEF s
      <4> QED BY <3>4, <4>1 DEF MemoryWhole, Whole, Chain, Started, Ended
    <3>6. \A t \in Turns : TurnWhole(t)'
      BY <2>2, <2>3, <2>4, <3>1 DEF TurnWhole, Compacting, Others, Between, locals
    <3> QED BY <3>2, <3>5, <3>6
  <2> QED BY <2>6, <2>7, <2>10, <2>11, <2>12, <2>13 DEF Clean
<1> QED BY <1>1, <1>2

LEMMA OpenClean ==
  ASSUME Types, Types', Clean, spoiled = {}, spoiled' = {}, NEW t \in Turns, Open(t)
  PROVE  Clean'
<1>1. \A u \in Turns : pc[u] \notin Compacting
  BY DEF Open, Spoil, Compacting
<1>2. /\ pc[t] = "none" /\ GetOrCreate(t, "open") /\ UNCHANGED <<files, save, fd, reset>>
      /\ (~overlapped' => ~overlapped)
  BY DEF Open
<1>3. t \in Handlings /\ t \notin Resets
  BY HandlingIs
<1> QED BY <1>1, <1>2, <1>3, LoadClean

LEMMA NewSessionClean ==
  ASSUME Types, Types', Clean, NEW n \in Resets, NewSession(n)
  PROVE  Clean'
<1>1. n \in Handlings /\ n \notin Turns
  BY HandlingIs
<1>2. /\ pc[n] = "deleted" /\ GetOrCreate(n, "created") /\ UNCHANGED <<files, save, fd, reset>>
      /\ (~overlapped' => ~overlapped)
  BY DEF NewSession
<1>3. n \in Busy
  BY <1>1, <1>2 DEF Busy, Between
<1>4. \A t \in Turns \ {n} : pc[t] \notin Compacting
  BY <1>3, BusyAlone DEF Clean
<1> QED BY <1>1, <1>2, <1>4, LoadClean

\* A turn under way.
LEMMA InTurn ==
  ASSUME Types, Handled, NEW t \in Turns, pc[t] \notin Between
  PROVE  /\ t \in Handlings /\ t \in Busy /\ t \notin reset
         /\ \A u \in Turns \ {t} : pc[u] \notin Compacting
<1>1. t \in Handlings
  BY HandlingIs
<1>2. t \in Busy
  BY <1>1 DEF Busy
<1>3. t \notin reset
  BY DEF Handled, HandledOf, Between
<1> QED BY <1>1, <1>2, <1>3, BusyAlone

\* The turn is told the summary of the session.
LEMMA GetSummaryClean ==
  ASSUME Types, Types', Clean, NEW t \in Turns, GetSummary(t)
  PROVE  Clean'
<1>0. OneObject /\ Handled /\ OneByOne
  BY DEF Clean
<1>1. /\ pc[t] = "open" /\ pc' = [pc EXCEPT ![t] = "told"]
      /\ replacing' = [replacing EXCEPT ![t] = summary[obj[t]]]
      /\ UNCHANGED <<cached, msgs, summary, obj, adding, added, kept, history, reset, said, overlapped>>
      /\ UNCHANGED <<files, save, fd>>
  BY DEF GetSummary, Goto, objects, ghosts
<1>2. pc \in [Handlings -> Phases] /\ replacing \in [Turns -> SUBSET Messages]
  BY DEF Types, TypeOK
<1>3. t \in Handlings /\ t \notin reset /\ \A u \in Turns \ {t} : pc[u] \notin Compacting
  BY <1>0, <1>1, InTurn DEF Between
<1>4. obj[t] = cached /\ cached # None
  BY <1>0, <1>1, <1>3, Held DEF Between
<1>5. Others(t) /\ pc'[t] = "told" /\ replacing'[t] = summary[cached] /\ obj'[t] = cached
  BY <1>1, <1>2, <1>3, <1>4 DEF Others
<1>6. MemoryStays /\ Tells
  BY <1>1 DEF MemoryStays, Tells
<1>7. adding[t] = <<>> /\ added[t] = 0 /\ AddedBy(t) = {}
  BY <1>0, <1>1, NothingAdded
<1>8. /\ HandledOf(t)' /\ AddedBy(t)' \subseteq AddedBy(t) /\ pc[t] \in Evaluating
      /\ ~OnDisk(t)' /\ ~Midway(t) /\ ~Midway(t)'
  BY <1>1, <1>3, <1>5, <1>7 DEF HandledOf, AddedBy, Evaluating, OnDisk, Midway, Compacting
<1>9. ~overlapped' => TurnWhole(t)'
  BY <1>0, <1>1, <1>5 DEF OneByOne, TurnWhole, Compacting
<1> QED BY <1>1, <1>3, <1>5, <1>6, <1>7, <1>8, <1>9, QuietStep

\* The compaction takes in the summary of the session.
LEMMA CompactSummaryClean ==
  ASSUME Types, Types', Clean, NEW t \in Turns, CompactSummary(t)
  PROVE  Clean'
<1>0. OneObject /\ Handled /\ OneByOne
  BY DEF Clean
<1>1. /\ pc[t] = "cut" /\ pc' = [pc EXCEPT ![t] = "summary"]
      /\ replacing' = [replacing EXCEPT ![t] = @ \cup summary[obj[t]]]
      /\ UNCHANGED <<cached, msgs, summary, obj, adding, added, kept, history, reset, said, overlapped>>
      /\ UNCHANGED <<files, save, fd>>
  BY DEF CompactSummary, Goto, objects, ghosts
<1>2. pc \in [Handlings -> Phases] /\ replacing \in [Turns -> SUBSET Messages]
  BY DEF Types, TypeOK
<1>3. t \in Handlings /\ t \notin reset /\ \A u \in Turns \ {t} : pc[u] \notin Compacting
  BY <1>0, <1>1, InTurn DEF Between
<1>4. obj[t] = cached /\ cached # None
  BY <1>0, <1>1, <1>3, Held DEF Between
<1>5. /\ Others(t) /\ pc'[t] = "summary" /\ obj'[t] = cached
      /\ replacing'[t] = replacing[t] \cup summary[cached]
  BY <1>1, <1>2, <1>3, <1>4 DEF Others
<1>6. MemoryStays /\ Tells
  BY <1>1 DEF MemoryStays, Tells
<1>7. Busy' = Busy
  BY <1>1, <1>2, <1>3 DEF Busy, Between
<1>8. HandledOf(t)'
  <2>1. HandledOf(t)
    BY <1>0 DEF Handled
  <2>2. /\ adding[t] \in Runs(t) /\ added[t] = Len(adding[t]) /\ Busy = {t}
        /\ IsInjective(kept[t]) /\ ToSet(kept[t]) \subseteq ToSet(msgs[cached])
        /\ ToSet(msgs[cached]) \subseteq ToSet(kept[t]) \cup replacing[t]
        /\ replacing[t] \subseteq Content(msgs[cached], summary[cached])
    BY <1>1, <2>1 DEF HandledOf, Compacting, Evaluating
  <2>3. /\ ToSet(msgs[cached]) \subseteq ToSet(kept[t]) \cup replacing'[t]
        /\ replacing'[t] \subseteq Content(msgs[cached], summary[cached])
        /\ summary[cached] \subseteq replacing'[t]
    BY <1>5, <2>2 DEF Content
  <2> QED BY <1>1, <1>3, <1>5, <1>7, <2>2, <2>3 DEF HandledOf, Compacting, Evaluating, Content
<1>9. /\ AddedBy(t)' \subseteq AddedBy(t) /\ pc'[t] \notin Evaluating
      /\ OnDisk(t) /\ ~Midway(t) /\ ~Midway(t)'
  BY <1>1, <1>5 DEF AddedBy, Evaluating, OnDisk, Midway, Compacting
<1>10. ~overlapped' => TurnWhole(t)'
  BY <1>0, <1>1, <1>5 DEF OneByOne, TurnWhole, Compacting
<1> QED BY <1>1, <1>3, <1>5, <1>6, <1>8, <1>9, <1>10, QuietStep

\* The run of a turn that is alone is given a history of whole turns.
LEMMA RunClean ==
  ASSUME Types, Types', Clean, Alone, spoiled = {}, spoiled' = {}, NEW t \in Turns, Run(t)
  PROVE  Clean'
<1> DEFINE s == GetHistorySafe(msgs[obj[t]])
<1>0. OneObject /\ Handled /\ OneByOne
  BY DEF Clean
<1>1. PICK r \in Results(t, s, replacing[t]) :
        /\ history' = [history EXCEPT ![t] = s]
        /\ adding' = [adding EXCEPT ![t] = NewMessages(r.final, Len(s))]
        /\ replacing' = [replacing EXCEPT ![t] = r.summary]
        /\ pc' = [pc EXCEPT ![t] = IF r.summary = {} THEN "adding" ELSE "answered"]
        /\ Spoil("compression", r.squeezed)
  BY DEF Run, Goto
<1>2. /\ pc[t] = "told" /\ UNCHANGED <<files, save, fd>>
      /\ UNCHANGED <<cached, msgs, summary, obj, added, kept, reset, said, overlapped>>
  BY DEF Run, objects
<1>t. /\ pc \in [Handlings -> Phases] /\ replacing \in [Turns -> SUBSET Messages]
      /\ adding \in [Turns -> Seq(Messages)] /\ history \in [Turns -> Seq(Messages)]
      /\ msgs \in [Objects -> Seq(Messages)] /\ cached \in Objects \cup {None}
  BY DEF Types, TypeOK
<1>3. t \in Handlings /\ t \in Busy /\ t \notin reset /\ \A u \in Turns \ {t} : pc[u] \notin Compacting
  BY <1>0, <1>2, InTurn DEF Between
<1>4. obj[t] = cached /\ cached # None /\ cached \in Objects
  BY <1>0, <1>2, <1>3, Held DEF Between
<1>5. s \in Seq(Messages) /\ t \in AllTurns /\ Len(s) \in Nat
  <2>1. s \in Seq(Messages)
    BY <1>t, <1>4, SafeHistoryType
  <2> HIDE DEF s
  <2> QED BY <2>1 DEF AllTurns
<1>6. replacing[t] = summary[cached]
  BY <1>0, <1>2 DEF Handled, HandledOf
<1>7. ~r.squeezed /\ r.summary = replacing[t] /\ \E q \in Runs(t) : r.final = s \o q
  <2>1. replacing[t] \in SUBSET Messages
    BY <1>t
  <2>2. spoiled' = IF r.squeezed THEN spoiled \cup {"compression"} ELSE spoiled
    BY <1>1 DEF Spoil
  <2>3. ~r.squeezed
    BY <2>2
  <2> HIDE DEF s
  <2>4. r \in Results(t, s, replacing[t])
    BY <1>1
  <2>5. ~r.squeezed => r.summary = replacing[t] /\ \E q \in Runs(t) : r.final = s \o q
    BY <1>5, <2>1, <2>4, ResultsAre
  <2> QED BY <2>3, <2>5
<1>8. NewMessages(r.final, Len(s)) \in Runs(t)
  <2> HIDE DEF s
  <2>1. PICK q \in Runs(t) : r.final = s \o q
    BY <1>7
  <2> QED BY <1>5, <2>1, RunIsNew
<1> HIDE DEF s
<1>9. /\ Others(t) /\ pc'[t] \in {"adding", "answered"} /\ obj'[t] = cached
      /\ adding'[t] \in Runs(t) /\ replacing'[t] = summary[cached] /\ history'[t] = s
  BY <1>1, <1>2, <1>t, <1>3, <1>4, <1>6, <1>7, <1>8 DEF Others
<1>10. MemoryStays /\ Tells
  BY <1>2 DEF MemoryStays, Tells
<1>11. added[t] = 0 /\ AddedBy(t) = {}
  BY <1>0, <1>2, NothingAdded
<1>12. /\ HandledOf(t)' /\ AddedBy(t)' \subseteq AddedBy(t) /\ pc[t] \in Evaluating
       /\ ~OnDisk(t)' /\ ~Midway(t) /\ ~Midway(t)'
  BY <1>2, <1>3, <1>9, <1>11 DEF HandledOf, AddedBy, Evaluating, OnDisk, Midway, Compacting
<1>13. ~overlapped' => TurnWhole(t)'
  <2> SUFFICES ASSUME ~overlapped PROVE TurnWhole(t)'
    BY <1>2
  <2>1. \A u \in Turns : ~Midway(u)
    <3>1. \A u \in Turns : u \in Busy => u = t
      BY <1>3 DEF Alone
    <3>2. \A u \in Turns : Midway(u) => u \in Busy
      BY HandlingIs DEF Midway, Busy, Between
    <3> QED BY <1>2, <3>1, <3>2 DEF Midway
  <2>2. Whole(msgs[cached])
    BY <1>0, <1>4, <2>1 DEF OneByOne, MemoryWhole, Whole
  <2>3. Paired(s)
    BY <1>t, <1>4, <2>2, SafeHistoryPaired DEF s
  <2> QED BY <1>9, <2>3 DEF TurnWhole, Compacting
<1> QED BY <1>2, <1>3, <1>9, <1>10, <1>11, <1>12, <1>13, QuietStep

\* A compaction that is alone divides the history, or there is none and the turn ends.
LEMMA CompactHistoryClean ==
  ASSUME Types, Types', Clean, spoiled = {}, spoiled' = {}, NEW t \in Turns, CompactHistory(t)
  PROVE  Clean'
<1> DEFINE s == msgs[obj[t]]
           cut == SafeBoundary(s, Len(s) - MaxHistory)
<1>0. OneObject /\ Handled /\ Memory /\ OneByOne
  BY DEF Clean
<1>2. pc[t] = "saved" /\ UNCHANGED <<files, save, fd, reset, overlapped>>
  BY DEF CompactHistory
<1>t. /\ pc \in [Handlings -> Phases] /\ replacing \in [Turns -> SUBSET Messages]
      /\ kept \in [Turns -> Seq(Messages)] /\ ObjectTypes
      /\ msgs \in [Objects -> Seq(Messages)] /\ cached \in Objects \cup {None}
  BY DEF Types, TypeOK, ObjectTypes
<1>3. t \in Handlings /\ t \in Busy /\ t \notin reset /\ \A u \in Turns \ {t} : pc[u] \notin Compacting
  BY <1>0, <1>2, InTurn DEF Between
<1>4. obj[t] = cached /\ cached # None /\ cached \in Objects
  BY <1>0, <1>2, <1>3, Held DEF Between
<1>5. OnDisk(t) /\ ToSet(adding[t]) = AddedBy(t)
  BY <1>0, <1>2, AllAdded DEF OnDisk
<1>6. CASE Return(t) /\ Collect /\ UNCHANGED cached
  <2>1. /\ Others(t) /\ pc'[t] = "returned" /\ obj'[t] = None /\ adding'[t] = <<>> /\ added'[t] = 0
        /\ history'[t] = <<>> /\ said' = said \cup ToSet(adding[t])
    BY <1>2, <1>3, <1>6, LocalsMove
  <2>2. MemoryStays
    BY <1>t, <1>4, <1>6, Collects DEF MemoryStays
  <2>3. Tells
    BY <1>5, <2>1 DEF Tells
  <2>4. /\ HandledOf(t)' /\ AddedBy(t)' \subseteq AddedBy(t) /\ pc'[t] \notin Evaluating
        /\ ~OnDisk(t)' /\ ~Midway(t) /\ ~Midway(t)' /\ TurnWhole(t)'
    BY <1>2, <2>1, EmptyHistory DEF HandledOf, AddedBy, Evaluating, OnDisk, Midway, Compacting, TurnWhole
  <2> QED BY <1>2, <1>3, <2>1, <2>2, <2>3, <2>4, QuietStep
<1>7. CASE /\ cut > 0
           /\ kept' = [kept EXCEPT ![t] = SubSeq(s, cut + 1, Len(s))]
           /\ replacing' = [replacing EXCEPT ![t] = ToSet(SubSeq(s, 1, cut))]
           /\ Goto(t, "cut") /\ Spoil("compaction", Busy # {t})
           /\ UNCHANGED <<objects, files, obj, save, fd, history, adding, added,
                          crashes, said, reset, overlapped>>
  <2>1. s \in Seq(Messages) /\ s = msgs[cached]
    BY <1>t, <1>4
  <2>2. Len(s) \in Nat /\ Len(s) - MaxHistory \in Int /\ Len(s) - MaxHistory < Len(s)
    <3> HIDE DEF s
    <3> QED BY <2>1, SessionsAssumption
  <2>3. cut \in 0 .. Len(s) /\ cut \in Nat /\ cut > 0
    <3>1. cut \in 0 .. Len(s)
      <4> HIDE DEF s
      <4> QED BY <2>1, <2>2, SafeBoundaryIs
    <3> HIDE DEF s, cut
    <3> QED BY <1>7, <2>2, <3>1
  <2> DEFINE k == SubSeq(s, cut + 1, Len(s))
             d == SubSeq(s, 1, cut)
  <2>4. /\ k \in Seq(Messages) /\ ToSet(k) \cup ToSet(d) = ToSet(s) /\ (IsInjective(s) => IsInjective(k))
    <3> HIDE DEF s, cut
    <3> QED BY <2>1, <2>3, Divided
  <2>5. /\ kept' = [kept EXCEPT ![t] = k] /\ replacing' = [replacing EXCEPT ![t] = ToSet(d)]
        /\ pc' = [pc EXCEPT ![t] = "cut"] /\ Busy = {t}
        /\ UNCHANGED <<cached, msgs, summary, obj, adding, added, history, reset, said, overlapped>>
        /\ UNCHANGED <<files, save, fd>>
    BY <1>7 DEF Goto, Spoil, objects
  <2>w. Whole(s) /\ ~overlapped => Whole(k)
    <3> HIDE DEF s
    <3> QED BY <2>1, <2>2, <2>3, CutWhole
  <2> HIDE DEF s, cut, k, d
  <2>6. Others(t) /\ pc'[t] = "cut" /\ obj'[t] = cached /\ kept'[t] = k /\ replacing'[t] = ToSet(d)
    BY <1>t, <1>3, <1>4, <2>5 DEF Others
  <2>7. MemoryStays /\ Tells
    BY <2>5 DEF MemoryStays, Tells
  <2>8. Busy' = {t}
    BY <1>t, <1>3, <2>5 DEF Busy, Between
  <2>9. IsInjective(s)
    BY <1>0, <1>4, <2>1 DEF Memory, Sound
  <2>10. HandledOf(t)'
    <3>1. adding[t] \in Runs(t) /\ added[t] = Len(adding[t])
      BY <1>0, <1>2 DEF Handled, HandledOf, Evaluating
    <3>2. /\ IsInjective(kept'[t]) /\ ToSet(kept'[t]) \subseteq ToSet(msgs[cached])
          /\ ToSet(msgs[cached]) \subseteq ToSet(kept'[t]) \cup replacing'[t]
          /\ replacing'[t] \subseteq Content(msgs[cached], summary[cached])
      BY <2>1, <2>4, <2>6, <2>9 DEF Content
    <3> QED BY <1>3, <2>5, <2>6, <2>8, <3>1, <3>2 DEF HandledOf, Compacting, Evaluating, Content
  <2>11. /\ AddedBy(t)' \subseteq AddedBy(t) /\ pc'[t] \notin Evaluating /\ ~Midway(t) /\ ~Midway(t)'
    BY <1>2, <2>5, <2>6 DEF AddedBy, Evaluating, Midway
  <2>12. ~overlapped' => TurnWhole(t)'
    <3> SUFFICES ASSUME ~overlapped PROVE TurnWhole(t)'
      BY <2>5
    <3>1. \A u \in Turns : ~Midway(u)
      <4>1. \A u \in Turns : Midway(u) => u \in Busy
        BY HandlingIs DEF Midway, Busy, Between
      <4> QED BY <1>2, <2>5, <4>1 DEF Midway
    <3>2. Whole(k)
      BY <1>0, <1>4, <2>1, <2>w, <3>1 DEF OneByOne, MemoryWhole, Whole
    <3> QED BY <1>0, <2>5, <2>6, <3>2 DEF OneByOne, TurnWhole
  <2> QED BY <1>3, <1>5, <2>5, <2>6, <2>7, <2>10, <2>11, <2>12, QuietStep
<1> QED BY <1>6, <1>7 DEF CompactHistory

\* A summary that was not compressed is the one the session has.
LEMMA SetSummaryClean ==
  ASSUME Types, Types', Clean, NEW t \in Turns, SetSummary(t)
  PROVE  Clean'
<1>0. OneObject /\ Handled /\ OneByOne
  BY DEF Clean
<1>1. /\ pc[t] = "answered" /\ pc' = [pc EXCEPT ![t] = "summarized"]
      /\ summary' = [summary EXCEPT ![obj[t]] = replacing[t]]
      /\ UNCHANGED <<cached, msgs, obj, adding, added, replacing, kept, history, reset, said, overlapped>>
      /\ UNCHANGED <<files, save, fd>>
  BY DEF SetSummary, Goto, locals, ghosts
<1>2. pc \in [Handlings -> Phases] /\ summary \in [Objects -> SUBSET Messages]
  BY DEF Types, TypeOK
<1>3. t \in Handlings /\ t \notin reset /\ \A u \in Turns \ {t} : pc[u] \notin Compacting
  BY <1>0, <1>1, InTurn DEF Between
<1>4. obj[t] = cached /\ cached # None /\ cached \in Objects
  BY <1>0, <1>1, <1>3, Held DEF Between
<1>5. Others(t) /\ pc'[t] = "summarized" /\ obj'[t] = cached
  BY <1>1, <1>2, <1>3, <1>4 DEF Others
<1>6. HandledOf(t) /\ replacing[t] = summary[cached]
  BY <1>0, <1>1 DEF Handled, HandledOf
<1>7. MemoryStays /\ Tells
  BY <1>1, <1>2, <1>4, <1>6 DEF MemoryStays, Tells
<1>8. added[t] = 0 /\ AddedBy(t) = {}
  <2>1. added[t] = 0
    BY <1>1, <1>3 DEF Types, Places, PlaceOf
  <2> QED BY <2>1 DEF AddedBy
<1>9. /\ HandledOf(t)' /\ AddedBy(t)' \subseteq AddedBy(t) /\ pc[t] \in Evaluating
      /\ ~OnDisk(t)' /\ ~Midway(t) /\ ~Midway(t)'
  BY <1>1, <1>3, <1>5, <1>6, <1>8 DEF HandledOf, AddedBy, Evaluating, OnDisk, Midway, Compacting
<1>10. ~overlapped' => TurnWhole(t)'
  BY <1>0, <1>1, <1>5 DEF OneByOne, TurnWhole, Compacting
<1> QED BY <1>1, <1>3, <1>5, <1>7, <1>8, <1>9, <1>10, QuietStep

\* The session is changed while there is no Save.
LEMMA WriteStep ==
  ASSUME Types, Clean, NEW t \in Turns, Others(t), Unlocked(cached),
         UNCHANGED <<cached, said, overlapped, files, save, fd>>, cached # None, obj'[t] = cached,
         \A u \in Turns \ {t} : pc[u] \notin Compacting,
         \A u \in Turns \ {t} : pc[u] \in {"told", "answered"} => summary'[cached] = summary[cached],
         HandledOf(t)', Stable, OnDisk(t)' => OnDisk(t) /\ AddedBy(t)' \subseteq AddedBy(t),
         Memory', ~overlapped => MemoryWhole' /\ TurnWhole(t)'
  PROVE  Clean'
<1>0. OneObject /\ Handled /\ Disk /\ OneByOne
  BY DEF Clean
<1>1. OneObject'
  BY <1>0 DEF OneObject, Others
<1>2. Handled'
  BY <1>0, HandlingIs, HandledStep
<1>3. main' = main /\ tmp' = tmp /\ body' = body /\ meta' = meta /\ written' = written /\ fd' = fd /\ save' = save
  BY DEF files
<1>4. Disk'
  <2>1. Tells
    BY DEF Tells
  <2>2. \A u \in Turns : OnDisk(u)' => OnDisk(u) /\ AddedBy(u)' \subseteq AddedBy(u)
    BY HandlingIs DEF Others, OnDisk, AddedBy
  <2> QED BY <1>0, <1>3, <2>1, <2>2, DiskFrame
<1>5. Saves'
  <2>1. \A h \in Handlings : fd'[h] = None
    BY <1>0, <1>3, NoSaves
  <2> QED BY <2>1 DEF Saves
<1>6. OneByOne'
  <2> SUFFICES ASSUME ~overlapped PROVE FileWhole' /\ SaveAlone' /\ MemoryWhole' /\ \A u \in Turns : TurnWhole(u)'
    BY DEF OneByOne
  <2>1. FileWhole /\ SaveAlone /\ \A u \in Turns : TurnWhole(u)
    BY <1>0 DEF OneByOne
  <2>2. FileWhole' /\ SaveAlone'
    BY <1>3, <2>1 DEF FileWhole, SaveAlone, Complete
  <2>3. ASSUME NEW u \in Turns \ {t} PROVE TurnWhole(u)'
    BY <2>1, HandlingIs DEF Others, TurnWhole
  <2> QED BY <2>2, <2>3
<1> QED BY <1>1, <1>2, <1>4, <1>5, <1>6 DEF Clean

\* A compaction does not change what the session has together with its summary.
LEMMA SameContent ==
  ASSUME Memory, cached # None, UNCHANGED <<cached, said>>, Stable,
         \A t \in Turns : AddedBy(t)' \subseteq AddedBy(t), IsInjective(msgs'[cached]),
         Content(msgs'[cached], summary'[cached]) = Content(msgs[cached], summary[cached])
  PROVE  Memory'
<1> DEFINE s == msgs[cached]
           u == summary[cached]
           w == msgs'[cached]
           v == summary'[cached]
<1>1. Sound(s, u) /\ (\A t \in Turns : AddedBy(t) \subseteq Content(s, u)) /\ Content(w, v) = Content(s, u)
  BY DEF Memory
<1>2. cached' # None /\ msgs'[cached'] = w /\ summary'[cached'] = v /\ IsInjective(w)
  OBVIOUS
<1> HIDE DEF s, u, w, v
<1>3. \A m \in Content(s, u) : Known(m)'
  BY <1>1, KnownStays DEF Sound
<1>4. said' \subseteq Content(w, v) /\ (\A m \in Content(w, v) : Known(m)')
      /\ \A t \in Turns : AddedBy(t)' \subseteq Content(w, v)
  BY <1>1, <1>3 DEF Sound
<1> QED BY <1>2, <1>4 DEF Memory, Sound, Content

\* The new summary tells of the old one, and of what is cut off.
LEMMA CompactSetClean ==
  ASSUME Types, Types', Clean, NEW t \in Turns, CompactSet(t)
  PROVE  Clean'
<1>0. OneObject /\ Handled /\ Memory /\ OneByOne
  BY DEF Clean
<1>1. /\ pc[t] = "summary" /\ pc' = [pc EXCEPT ![t] = "replace"]
      /\ summary' = [summary EXCEPT ![obj[t]] = replacing[t]]
      /\ UNCHANGED <<cached, msgs, obj, adding, added, replacing, kept, history, reset, said, overlapped>>
      /\ UNCHANGED <<files, save, fd>> /\ Unlocked(obj[t])
  BY DEF CompactSet, Goto, locals, ghosts
<1>2. pc \in [Handlings -> Phases] /\ summary \in [Objects -> SUBSET Messages]
  BY DEF Types, TypeOK
<1>3. t \in Handlings /\ t \in Busy /\ t \notin reset /\ \A u \in Turns \ {t} : pc[u] \notin Compacting
  BY <1>0, <1>1, InTurn DEF Between
<1>4. obj[t] = cached /\ cached # None /\ cached \in Objects
  BY <1>0, <1>1, <1>3, Held DEF Between
<1>5. Others(t) /\ pc'[t] = "replace" /\ obj'[t] = cached /\ summary'[cached] = replacing[t]
  BY <1>1, <1>2, <1>3, <1>4 DEF Others
<1>6. /\ adding[t] \in Runs(t) /\ added[t] = Len(adding[t]) /\ Busy = {t}
      /\ IsInjective(kept[t]) /\ ToSet(kept[t]) \subseteq ToSet(msgs[cached])
      /\ ToSet(msgs[cached]) \subseteq ToSet(kept[t]) \cup replacing[t]
      /\ replacing[t] \subseteq Content(msgs[cached], summary[cached])
      /\ summary[cached] \subseteq replacing[t]
  BY <1>0, <1>1 DEF Handled, HandledOf, Compacting, Evaluating
<1>7. \A u \in Turns \ {t} : pc[u] \notin {"told", "answered"}
  BY <1>6, HandlingIs DEF Busy, Between
<1>8. Busy' = Busy
  BY <1>1, <1>2, <1>3 DEF Busy, Between
<1>9. HandledOf(t)'
  BY <1>1, <1>3, <1>5, <1>6, <1>8 DEF HandledOf, Compacting, Evaluating, Content
<1>10. Stable /\ (\A u \in Turns : AddedBy(u)' \subseteq AddedBy(u)) /\ OnDisk(t)
  <2>1. \A u \in Turns : AddedBy(u)' = AddedBy(u)
    BY <1>1 DEF AddedBy
  <2> QED BY <1>1, <1>3, <1>5, <2>1, StableStep DEF OnDisk, Compacting, Evaluating
<1>11. Memory'
  <2>1. IsInjective(msgs'[cached])
    BY <1>0, <1>1, <1>4 DEF Memory, Sound
  <2>2. Content(msgs'[cached], summary'[cached]) = Content(msgs[cached], summary[cached])
    BY <1>1, <1>5, <1>6 DEF Content
  <2> QED BY <1>0, <1>1, <1>4, <1>10, <2>1, <2>2, SameContent
<1>12. ~overlapped => MemoryWhole' /\ TurnWhole(t)'
  <2> SUFFICES ASSUME ~overlapped PROVE MemoryWhole' /\ TurnWhole(t)'
    OBVIOUS
  <2>1. MemoryWhole /\ TurnWhole(t)
    BY <1>0 DEF OneByOne
  <2>2. \A u \in Turns : Midway(u)' <=> Midway(u)
    BY <1>1, <1>5 DEF Midway, Others
  <2> QED BY <1>1, <1>5, <2>1, <2>2 DEF MemoryWhole, TurnWhole, Compacting
<1> QED BY <1>1, <1>3, <1>4, <1>5, <1>7, <1>9, <1>10, <1>11, <1>12, WriteStep

\* What is cut off is told of by then.
LEMMA ReplaceHistoryClean ==
  ASSUME Types, Types', Clean, NEW t \in Turns, ReplaceHistory(t)
  PROVE  Clean'
<1>0. OneObject /\ Handled /\ Memory /\ OneByOne
  BY DEF Clean
<1>1. /\ pc[t] = "replace" /\ pc' = [pc EXCEPT ![t] = "compacted"]
      /\ msgs' = [msgs EXCEPT ![obj[t]] = kept[t]]
      /\ UNCHANGED <<cached, summary, obj, adding, added, replacing, kept, history, reset, said, overlapped>>
      /\ UNCHANGED <<files, save, fd>> /\ Unlocked(obj[t])
  BY DEF ReplaceHistory, Goto, locals, ghosts
<1>2. pc \in [Handlings -> Phases] /\ msgs \in [Objects -> Seq(Messages)]
  BY DEF Types, TypeOK
<1>3. t \in Handlings /\ t \in Busy /\ t \notin reset /\ \A u \in Turns \ {t} : pc[u] \notin Compacting
  BY <1>0, <1>1, InTurn DEF Between
<1>4. obj[t] = cached /\ cached # None /\ cached \in Objects
  BY <1>0, <1>1, <1>3, Held DEF Between
<1>5. Others(t) /\ pc'[t] = "compacted" /\ obj'[t] = cached /\ msgs'[cached] = kept[t]
  BY <1>1, <1>2, <1>3, <1>4 DEF Others
<1>6. /\ adding[t] \in Runs(t) /\ added[t] = Len(adding[t]) /\ Busy = {t}
      /\ IsInjective(kept[t]) /\ ToSet(kept[t]) \subseteq ToSet(msgs[cached])
      /\ ToSet(msgs[cached]) \subseteq ToSet(kept[t]) \cup replacing[t]
      /\ summary[cached] = replacing[t]
  BY <1>0, <1>1 DEF Handled, HandledOf, Compacting, Evaluating
<1>7. HandledOf(t)'
  BY <1>1, <1>3, <1>5, <1>6 DEF HandledOf, Compacting, Evaluating
<1>8. Stable /\ (\A u \in Turns : AddedBy(u)' \subseteq AddedBy(u)) /\ OnDisk(t)
  <2>1. \A u \in Turns : AddedBy(u)' = AddedBy(u)
    BY <1>1 DEF AddedBy
  <2> QED BY <1>1, <1>3, <1>5, <2>1, StableStep DEF OnDisk, Compacting, Evaluating
<1>9. Memory'
  <2>1. Content(msgs'[cached], summary'[cached]) = Content(msgs[cached], summary[cached])
    BY <1>1, <1>5, <1>6 DEF Content
  <2> QED BY <1>0, <1>1, <1>4, <1>5, <1>6, <1>8, <2>1, SameContent
<1>10. ~overlapped => MemoryWhole' /\ TurnWhole(t)'
  <2> SUFFICES ASSUME ~overlapped PROVE MemoryWhole' /\ TurnWhole(t)'
    OBVIOUS
  <2>1. TurnWhole(t) /\ Whole(kept[t])
    BY <1>0, <1>1 DEF OneByOne, TurnWhole, Compacting
  <2>2. \A u \in Turns : ~Midway(u)'
    <3>1. \A u \in Turns \ {t} : pc[u] # "adding"
      BY <1>6, HandlingIs DEF Busy, Between
    <3> QED BY <1>5, <3>1, HandlingIs DEF Midway, Others
  <2>3. MemoryWhole'
    <3> DEFINE k == kept[t]
    <3>1. msgs'[cached'] = k /\ Whole(k)
      BY <1>1, <1>5, <2>1
    <3> HIDE DEF k
    <3> QED BY <2>2, <3>1 DEF MemoryWhole, Whole, Chain, Started, Ended
  <2> QED BY <1>1, <1>5, <2>1, <2>3 DEF TurnWhole, Compacting
<1> QED BY <1>1, <1>3, <1>4, <1>5, <1>7, <1>8, <1>9, <1>10, WriteStep

\* The message that is next is not yet in the session, and follows its last one.
LEMMA AddMessageClean ==
  ASSUME Types, Types', Clean, Alone, NEW t \in Turns, AddMessage(t)
  PROVE  Clean'
<1> DEFINE q == adding[t]
           n == added[t]
           m == q[n + 1]
           s == msgs[cached]
           u == summary[cached]
<1>0. OneObject /\ Handled /\ Memory /\ OneByOne
  BY DEF Clean
<1>1. /\ pc[t] = "adding" /\ added' = [added EXCEPT ![t] = @ + 1]
      /\ pc' = [pc EXCEPT ![t] = IF added'[t] = Len(q) THEN "added" ELSE "adding"]
      /\ msgs' = [msgs EXCEPT ![obj[t]] = Append(@, m)]
      /\ UNCHANGED <<cached, summary, obj, adding, replacing, kept, history, reset, said, overlapped>>
      /\ UNCHANGED <<files, save, fd>> /\ Unlocked(obj[t])
  BY DEF AddMessage, Goto, ghosts
<1>2. /\ pc \in [Handlings -> Phases] /\ msgs \in [Objects -> Seq(Messages)] /\ q \in Seq(Messages)
      /\ added \in [Turns -> Nat] /\ n \in Nat
  BY DEF Types, TypeOK, Places
<1>3. t \in Handlings /\ t \in Busy /\ t \notin reset /\ \A v \in Turns \ {t} : pc[v] \notin Compacting
  BY <1>0, <1>1, InTurn DEF Between
<1>4. obj[t] = cached /\ cached # None /\ cached \in Objects /\ s \in Seq(Messages)
  BY <1>0, <1>1, <1>2, <1>3, Held DEF Between
<1>5. n < Len(q) /\ t \in AllTurns
  BY <1>1, <1>3 DEF Types, Places, PlaceOf, AllTurns
<1>6. q \in Runs(t)
  BY <1>0, <1>1 DEF Handled, HandledOf
<1>7. n + 1 \in 1 .. Len(q) /\ Len(q) \in Nat /\ m \in Messages
  <2> HIDE DEF q, n
  <2> QED BY <1>2, <1>5 DEF m
<1>8. m.turn = t
  <2> HIDE DEF q, n
  <2> QED BY <1>5, <1>6, <1>7, RunIs DEF m, Coherent
<1>9. AddedBy(t) = {q[k] : k \in 1 .. n}
  BY DEF AddedBy
<1>10. m \notin Content(s, u)
  <2> SUFFICES ASSUME m \in Content(s, u) PROVE FALSE
    OBVIOUS
  <2>1. Known(m)
    BY <1>0, <1>4 DEF Memory, Sound
  <2>2. m \in AddedBy(t)
    <3> HIDE DEF m
    <3> QED BY <1>1, <1>8, <2>1 DEF Known, Evaluating
  <2> HIDE DEF q, n
  <2>3. PICK k \in 1 .. n : m = q[k]
    BY <1>9, <2>2
  <2>4. k \in 1 .. Len(q)
    BY <1>2, <1>5, <1>7
  <2>5. k = n + 1
    BY <1>5, <1>6, <1>7, <2>3, <2>4, RunIs DEF m, Coherent
  <2> QED BY <1>2, <2>3, <2>5
<1>11. /\ Others(t) /\ pc'[t] = (IF n + 1 = Len(q) THEN "added" ELSE "adding") /\ obj'[t] = cached
       /\ adding'[t] = q /\ added'[t] = n + 1 /\ msgs'[cached] = Append(s, m) /\ summary'[cached] = u
  BY <1>1, <1>2, <1>3, <1>4 DEF Others
<1> DEFINE a == Append(s, m)
<1>12. /\ a \in Seq(Messages) /\ ToSet(a) = ToSet(s) \cup {m}
       /\ IsInjective(s) /\ m \notin ToSet(s) => IsInjective(a)
       /\ Chain(s) /\ (Len(s) = 0 \/ Follows(s[Len(s)], m)) => Chain(a)
       /\ Started(s) /\ (Len(s) = 0 => m.role = "user") => Started(a)
       /\ Len(a) > 0 /\ a[Len(a)] = m
  <2> HIDE DEF s, m
  <2> QED BY <1>4, <1>7, Appended
<1>13. AddedBy(t)' = AddedBy(t) \cup {m}
  <2>1. AddedBy(t)' = {q[k] : k \in 1 .. n + 1}
    BY <1>11 DEF AddedBy
  <2> HIDE DEF q, n
  <2>2. 1 .. n + 1 = (1 .. n) \cup {n + 1}
    BY <1>2
  <2> QED BY <1>9, <2>1, <2>2 DEF m
<1>14. Stable
  BY <1>1, <1>3, <1>11, <1>13, StableStep DEF Evaluating
<1> HIDE DEF a
<1>15. HandledOf(t)'
  BY <1>1, <1>3, <1>6, <1>11 DEF HandledOf, Compacting, Evaluating
<1>16. Memory'
  <2>1. Sound(s, u) /\ \A v \in Turns : AddedBy(v) \subseteq Content(s, u)
    BY <1>0, <1>4 DEF Memory
  <2>2. cached' # None /\ msgs'[cached'] = a /\ summary'[cached'] = u /\ said' = said
    BY <1>1, <1>4, <1>11 DEF a
  <2>3. \A x : x = m => Known(x)'
    <3> TAKE x
    <3> HAVE x = m
    <3>1. reset' = reset
      BY <1>1
    <3>2. x.turn = t /\ x \in AddedBy(t)'
      BY <1>8, <1>13
    <3> HIDE DEF m, q, n
    <3> QED BY <1>3, <3>1, <3>2 DEF Known
  <2>4. \A v \in Turns \ {t} : AddedBy(v)' = AddedBy(v)
    BY <1>11 DEF Others, AddedBy
  <2> HIDE DEF m, s, u, q, n
  <2>5. Content(a, u) = Content(s, u) \cup {m}
    BY <1>12 DEF Content
  <2>6. IsInjective(a)
    BY <1>10, <1>12, <2>1 DEF Sound, Content
  <2>7. \A x \in Content(a, u) : Known(x)'
    BY <1>14, <2>1, <2>3, <2>5, KnownStays DEF Sound
  <2>8. said' \subseteq Content(a, u) /\ \A v \in Turns : AddedBy(v)' \subseteq Content(a, u)
    BY <1>13, <2>1, <2>2, <2>4, <2>5 DEF Sound
  <2> QED BY <2>2, <2>6, <2>7, <2>8 DEF Memory, Sound, Content
<1>17. ~overlapped => MemoryWhole' /\ TurnWhole(t)'
  <2> SUFFICES ASSUME ~overlapped PROVE MemoryWhole' /\ TurnWhole(t)'
    OBVIOUS
  <2>1. /\ Chain(s) /\ Started(s) /\ ((\A v \in Turns : ~Midway(v)) => Ended(s))
        /\ Midway(t) => Len(s) > 0 /\ s[Len(s)] = q[n]
        /\ TurnWhole(t)
    BY <1>0, <1>4 DEF OneByOne, MemoryWhole
  <2>2. \A v \in Turns \ {t} : pc[v] # "adding"
    <3>1. \A v \in Turns : v \in Busy => v = t
      BY <1>3 DEF Alone
    <3> QED BY <3>1, HandlingIs DEF Busy, Between
  <2>3. /\ Len(q) > 0 /\ q[1].role = "user" /\ ~Due(q[Len(q)]) /\ Chain(q)
    <3> HIDE DEF q
    <3> QED BY <1>5, <1>6, RunIs DEF Coherent, Ended
  <2>4. (Len(s) = 0 \/ Follows(s[Len(s)], m)) /\ (Len(s) = 0 => m.role = "user")
    <3>1. CASE n = 0
      <4>1. Ended(s)
        BY <2>1, <2>2, <3>1 DEF Midway
      <4>2. m.role = "user"
        BY <2>3, <3>1
      <4>3. Len(s) \in Nat
        <5> HIDE DEF s
        <5> QED BY <1>4
      <4> HIDE DEF m, s
      <4> QED BY <4>1, <4>2, <4>3 DEF Ended, Follows, Due
    <3>2. CASE n > 0
      <4>1. Len(s) > 0 /\ s[Len(s)] = q[n]
        BY <1>1, <2>1, <3>2 DEF Midway
      <4>2. n \in 1 .. Len(q) - 1
        <5> HIDE DEF q, n
        <5> QED BY <1>2, <1>7, <3>2, <1>5
      <4>3. Follows(q[n], q[n + 1])
        <5> HIDE DEF q, n
        <5> QED BY <2>3, <4>2 DEF Chain
      <4> QED BY <4>1, <4>3
    <3> HIDE DEF n
    <3> QED BY <1>2, <3>1, <3>2
  <2>5. Chain(a) /\ Started(a)
    BY <1>12, <2>1, <2>4
  <2>6. \A v \in Turns \ {t} : ~Midway(v)'
    BY <1>11, <2>2, HandlingIs DEF Midway, Others
  <2>7. CASE n + 1 = Len(q)
    <3>1. ~Midway(t)'
      BY <1>11, <2>7 DEF Midway
    <3>2. ~Due(m)
      BY <2>3, <2>7
    <3>3. Ended(a)
      BY <1>12, <3>2 DEF Ended
    <3>4. msgs'[cached'] = a
      BY <1>1, <1>11 DEF a
    <3>5. MemoryWhole'
      BY <2>5, <2>6, <3>1, <3>3, <3>4 DEF MemoryWhole, Chain, Started, Ended
    <3>6. pc'[t] = "added"
      BY <1>11, <2>7
    <3> QED BY <1>1, <2>1, <3>5, <3>6 DEF TurnWhole, Compacting
  <2>8. CASE n + 1 # Len(q)
    <3>1. pc'[t] = "adding" /\ added'[t] > 0
      BY <1>2, <1>11, <2>8
    <3>2. Midway(t)'
      BY <3>1 DEF Midway
    <3>3. msgs'[cached'] = a /\ a[Len(a)] = adding'[t][added'[t]] /\ Len(a) > 0
      BY <1>1, <1>11, <1>12 DEF a
    <3>4. MemoryWhole'
      BY <2>5, <2>6, <3>2, <3>3 DEF MemoryWhole, Chain, Started, Ended
    <3> QED BY <1>1, <2>1, <3>1, <3>4 DEF TurnWhole, Compacting
  <2> QED BY <2>7, <2>8
<1>18. ~OnDisk(t)'
  BY <1>11 DEF OnDisk, Compacting
<1> QED BY <1>1, <1>3, <1>4, <1>11, <1>14, <1>15, <1>16, <1>17, <1>18, WriteStep

\* A Save that is under way is of a handling that is, and of the session in memory.
LEMMA InSave ==
  ASSUME Types, OneObject, NEW h \in Handlings, fd[h] # None
  PROVE  /\ fd[h] \in Inodes /\ obj[h] = cached /\ cached # None /\ h \in Busy
         /\ pc[h] \in {"summarized", "added", "compacted", "created"}
<1>1. fd[h] \in Inodes /\ pc[h] \in {"summarized", "added", "compacted", "created"}
  BY DEF Types, TypeOK, Places, PlaceOf
<1> QED BY <1>1, Held DEF Busy, Between

\* A step of a Save touches files only.
LEMMA FileStep ==
  ASSUME Clean, UNCHANGED <<objects, pc, obj, locals, ghosts>>,
         Disk', Saves', ~overlapped => FileWhole' /\ SaveAlone'
  PROVE  Clean'
<1>0. OneObject /\ Handled /\ Memory /\ OneByOne
  BY DEF Clean
<1>1. OneObject'
  BY <1>0 DEF OneObject, objects
<1>2. Handled'
  <2>1. ASSUME NEW t \in Turns PROVE HandledOf(t)'
    <3>1. HandledOf(t)
      BY <1>0 DEF Handled
    <3> QED BY <3>1 DEF HandledOf, Content, Busy, objects, locals, ghosts
  <2> QED BY <2>1 DEF Handled
<1>3. Memory'
  BY <1>0 DEF Memory, Sound, Known, Content, AddedBy, objects, locals, ghosts
<1>4. OneByOne'
  BY <1>0 DEF OneByOne, MemoryWhole, Midway, TurnWhole, objects, locals, ghosts
<1> QED BY <1>1, <1>2, <1>3, <1>4 DEF Clean

\* The file that is truncated is not the one in place.
LEMMA SaveCreateClean ==
  ASSUME Types, Types', Clean, Alone, NEW h \in Handlings, SaveCreate(h)
  PROVE  Clean'
<1>0. OneObject /\ Disk /\ Saves /\ OneByOne
  BY DEF Clean
<1>1. PICK i \in IF tmp # None THEN {tmp} ELSE Inodes \ ({main} \cup Range(fd)) :
        /\ tmp' = i /\ fd' = [fd EXCEPT ![h] = i]
        /\ meta' = [meta EXCEPT ![i] = {}] /\ body' = [body EXCEPT ![i] = <<>>]
        /\ written' = [written EXCEPT ![i] = {}]
  BY DEF SaveCreate
<1>2. /\ save' = [save EXCEPT ![h] = "meta"] /\ MustSave(h)
      /\ UNCHANGED <<objects, main, pc, obj, locals, crashes, ghosts>>
  BY DEF SaveCreate
<1>t. /\ fd \in [Handlings -> Inodes \cup {None}] /\ save \in [Handlings -> Saving]
      /\ main \in Inodes \cup {None} /\ tmp \in Inodes \cup {None} /\ (main = None \/ main # tmp)
      /\ meta \in [Inodes -> SUBSET Messages] /\ body \in [Inodes -> Seq(Messages)]
      /\ written \in [Inodes -> SUBSET Parts]
  BY DEF Types, TypeOK
<1>3. i \in Inodes /\ i # main /\ i # None
  BY <1>1, <1>t, HandlingIs
<1>4. \A j \in Inodes \ {i} : meta'[j] = meta[j] /\ body'[j] = body[j] /\ written'[j] = written[j]
  BY <1>1, <1>t
<1>5. written'[i] = {} /\ fd'[h] = i /\ \A g \in Handlings \ {h} : fd'[g] = fd[g] /\ save'[g] = save[g]
  BY <1>1, <1>2, <1>3, <1>t
<1>6. main # None => body'[main] = body[main] /\ meta'[main] = meta[main] /\ written'[main] = written[main]
  BY <1>3, <1>4, <1>t
<1>7. Disk'
  <2>1. Stable /\ Tells
    BY <1>2 DEF Stable, Tells, AddedBy, locals, ghosts
  <2>2. \A t \in Turns : OnDisk(t)' => OnDisk(t) /\ AddedBy(t)' \subseteq AddedBy(t)
    BY <1>2 DEF OnDisk, AddedBy, locals
  <2>3. cached' = None => main = None \/ Complete(main)
    BY <1>0, <1>2 DEF Disk, objects
  <2> QED BY <1>0, <1>2, <1>6, <2>1, <2>2, <2>3, DiskFrame
<1>8. \A j \in Inodes : Current(j) => Current(j)'
  BY <1>2, <1>4, <1>5 DEF Current, objects
<1>9. Saves'
  <2> SUFFICES ASSUME NEW g \in Handlings, fd'[g] # None PROVE Current(fd[g])' /\ Current(tmp)'
    BY <1>1, <1>3 DEF Saves
  <2>1. Current(tmp)'
    BY <1>1, <1>5 DEF Current
  <2>2. CASE g = h
    BY <1>1, <1>5, <2>1, <2>2 DEF Current
  <2>3. CASE g # h
    <3>1. fd'[g] = fd[g] /\ fd[g] \in Inodes /\ Current(fd[g])
      BY <1>0, <1>5, <1>t, <2>3 DEF Saves
    <3> QED BY <1>8, <2>1, <3>1 DEF Current
  <2> QED BY <2>2, <2>3
<1>10. ~overlapped => FileWhole' /\ SaveAlone'
  <2> SUFFICES ASSUME ~overlapped PROVE FileWhole' /\ SaveAlone'
    OBVIOUS
  <2>1. h \in Busy
    BY <1>2 DEF MustSave, Busy, Between
  <2>2. \A g \in Handlings \ {h} : fd'[g] = None
    <3>1. \A g \in Handlings : fd[g] # None => g = h
      BY <1>0, <2>1, InSave DEF Alone
    <3> QED BY <1>5, <3>1
  <2>3. SaveAlone'
    <3>1. save'[h] = "meta"
      BY <1>2, <1>t
    <3> QED BY <1>1, <1>5, <2>2, <3>1 DEF SaveAlone
  <2> QED BY <1>0, <1>2, <1>6, <2>3 DEF OneByOne, FileWhole, Complete
<1> QED BY <1>2, <1>7, <1>9, <1>10, FileStep

\* A part of the session is written to a file.
LEMMA WriteFile ==
  ASSUME Types, Types', Clean, Alone, NEW h \in Handlings, fd[h] # None,
         UNCHANGED <<objects, main, tmp, pc, obj, fd, locals, ghosts>>,
         \A j \in Inodes \ {fd[h]} : meta'[j] = meta[j] /\ body'[j] = body[j] /\ written'[j] = written[j],
         Current(fd[h])', \A g \in Handlings \ {h} : save'[g] = save[g],
         ~overlapped => /\ save'[h] \in {"body", "rename"} => "meta" \in written'[fd[h]]
                        /\ save'[h] = "rename" => "body" \in written'[fd[h]]
  PROVE  Clean'
<1>0. OneObject /\ Memory /\ Disk /\ Saves /\ OneByOne
  BY DEF Clean
<1>1. fd[h] \in Inodes /\ cached # None /\ h \in Busy
  BY <1>0, InSave
<1>2. main \in Inodes \cup {None} /\ tmp \in Inodes \cup {None} /\ (main = None \/ main # tmp)
      /\ fd \in [Handlings -> Inodes \cup {None}]
  BY DEF Types, TypeOK
<1>3. \A j \in Inodes : Current(j) => Current(j)'
  <2> TAKE j \in Inodes
  <2>1. CASE j = fd[h]
    BY <2>1 DEF Current
  <2>2. CASE j # fd[h]
    BY <2>2 DEF Current, objects
  <2> QED BY <2>1, <2>2
<1>4. Disk'
  <2>1. CASE main # fd[h]
    <3>1. Stable /\ Tells
      BY DEF Stable, Tells, AddedBy, locals, ghosts
    <3>2. \A t \in Turns : OnDisk(t)' => OnDisk(t) /\ AddedBy(t)' \subseteq AddedBy(t)
      BY DEF OnDisk, AddedBy, locals
    <3>3. cached' # None
      BY <1>1 DEF objects
    <3> QED BY <1>0, <1>2, <2>1, <3>1, <3>2, <3>3, DiskFrame
  <2>2. CASE main = fd[h]
    <3>1. Memory' /\ cached' # None /\ main' # None
      BY <1>0, <1>1, <2>2 DEF Memory, Sound, Known, Content, AddedBy, objects, locals, ghosts
    <3>2. Current(main)'
      BY <2>2 DEF Current
    <3> QED BY <3>1, <3>2, DiskFromMemory
  <2> QED BY <2>1, <2>2
<1>5. Saves'
  <2> SUFFICES ASSUME NEW g \in Handlings, fd[g] # None
               PROVE  /\ Current(fd[g])'
                      /\ tmp = None => main # None /\ Current(main)'
                      /\ tmp # None => Current(tmp)'
    BY DEF Saves
  <2>1. /\ fd[g] \in Inodes /\ Current(fd[g])
        /\ tmp = None => main # None /\ Current(main)
        /\ tmp # None => Current(tmp)
    BY <1>0, <1>2 DEF Saves
  <2>2. Current(fd[g])'
    BY <1>3, <2>1 DEF Current
  <2>3. tmp = None => Current(main)'
    BY <1>2, <1>3, <2>1 DEF Current
  <2>4. tmp # None => Current(tmp)'
    BY <1>2, <1>3, <2>1 DEF Current
  <2> QED BY <2>1, <2>2, <2>3, <2>4
<1>6. ~overlapped => FileWhole' /\ SaveAlone'
  <2> SUFFICES ASSUME ~overlapped PROVE FileWhole' /\ SaveAlone'
    OBVIOUS
  <2>1. FileWhole /\ SaveAlone
    BY <1>0 DEF OneByOne
  <2>2. \A g \in Handlings : fd[g] # None => g = h
    BY <1>0, <1>1, InSave DEF Alone
  <2>3. tmp = fd[h] /\ main # fd[h]
    BY <1>2, <2>1 DEF SaveAlone
  <2>4. SaveAlone'
    BY <2>2, <2>3 DEF SaveAlone
  <2>5. FileWhole'
    BY <1>2, <2>1, <2>3 DEF FileWhole, Complete
  <2> QED BY <2>4, <2>5
<1> QED BY <1>4, <1>5, <1>6, FileStep

LEMMA SaveMetaClean ==
  ASSUME Types, Types', Clean, Alone, NEW h \in Handlings, SaveMeta(h)
  PROVE  Clean'
<1>1. /\ save[h] = "meta" /\ save' = [save EXCEPT ![h] = "body"]
      /\ meta' = [meta EXCEPT ![fd[h]] = summary[obj[h]]]
      /\ written' = [written EXCEPT ![fd[h]] = @ \cup {"meta"}]
      /\ UNCHANGED <<objects, main, tmp, body, pc, obj, fd, locals, ghosts>>
  BY DEF SaveMeta
<1>2. /\ fd \in [Handlings -> Inodes \cup {None}] /\ save \in [Handlings -> Saving]
      /\ meta \in [Inodes -> SUBSET Messages] /\ written \in [Inodes -> SUBSET Parts]
      /\ fd[h] # None
  BY <1>1 DEF Types, TypeOK
<1>3. fd[h] \in Inodes /\ obj[h] = cached /\ Current(fd[h])
  BY <1>2, InSave DEF Clean, Saves
<1>4. \A j \in Inodes \ {fd[h]} : meta'[j] = meta[j] /\ body'[j] = body[j] /\ written'[j] = written[j]
  BY <1>1, <1>2
<1>5. meta'[fd[h]] = summary[cached] /\ written'[fd[h]] = written[fd[h]] \cup {"meta"}
  BY <1>1, <1>2, <1>3
<1>6. Current(fd[h])'
  BY <1>1, <1>3, <1>5 DEF Current, objects
<1>7. save'[h] = "body" /\ \A g \in Handlings \ {h} : save'[g] = save[g]
  BY <1>1, <1>2
<1> QED BY <1>1, <1>2, <1>4, <1>5, <1>6, <1>7, WriteFile

LEMMA SaveBodyClean ==
  ASSUME Types, Types', Clean, Alone, NEW h \in Handlings, SaveBody(h)
  PROVE  Clean'
<1>1. /\ save[h] = "body" /\ save' = [save EXCEPT ![h] = "rename"]
      /\ body' = [body EXCEPT ![fd[h]] = msgs[obj[h]]]
      /\ written' = [written EXCEPT ![fd[h]] = @ \cup {"body"}]
      /\ UNCHANGED <<objects, main, tmp, meta, pc, obj, fd, locals, ghosts>>
  BY DEF SaveBody
<1>2. /\ fd \in [Handlings -> Inodes \cup {None}] /\ save \in [Handlings -> Saving]
      /\ body \in [Inodes -> Seq(Messages)] /\ written \in [Inodes -> SUBSET Parts]
      /\ fd[h] # None
  BY <1>1 DEF Types, TypeOK
<1>3. fd[h] \in Inodes /\ obj[h] = cached /\ Current(fd[h])
  BY <1>2, InSave DEF Clean, Saves
<1>4. \A j \in Inodes \ {fd[h]} : meta'[j] = meta[j] /\ body'[j] = body[j] /\ written'[j] = written[j]
  BY <1>1, <1>2
<1>5. body'[fd[h]] = msgs[cached] /\ written'[fd[h]] = written[fd[h]] \cup {"body"}
  BY <1>1, <1>2, <1>3
<1>6. Current(fd[h])'
  BY <1>1, <1>3, <1>5 DEF Current, objects
<1>7. save'[h] = "rename" /\ \A g \in Handlings \ {h} : save'[g] = save[g]
  BY <1>1, <1>2
<1>8. ~overlapped => "meta" \in written[fd[h]]
  BY <1>1, <1>2 DEF Clean, OneByOne, SaveAlone
<1> QED BY <1>1, <1>2, <1>4, <1>5, <1>6, <1>7, <1>8, WriteFile

\* The rename puts in place what the Saves have written, which is the session.
LEMMA SaveRenameClean ==
  ASSUME Types, Types', Clean, Alone, NEW h \in Handlings, SaveRename(h)
  PROVE  Clean'
<1> USE HandlingIs
<1>0. OneObject /\ Handled /\ Memory /\ Disk /\ Saves /\ OneByOne
  BY DEF Clean
<1>1. /\ save[h] = "rename" /\ main' = (IF tmp = None THEN main ELSE tmp) /\ tmp' = None
      /\ fd' = [fd EXCEPT ![h] = None] /\ save' = [save EXCEPT ![h] = "no"]
      /\ AfterSave(h) /\ UNCHANGED <<cached, reset, overlapped>> /\ Collect /\ Unlink
  BY DEF SaveRename
<1>t. /\ fd \in [Handlings -> Inodes \cup {None}] /\ save \in [Handlings -> Saving]
      /\ pc \in [Handlings -> Phases] /\ obj \in [Handlings -> Objects \cup {None}]
      /\ main \in Inodes \cup {None} /\ tmp \in Inodes \cup {None}
      /\ cached \in Objects \cup {None}
      /\ ObjectTypes /\ FileTypes /\ HandlingTypes'
  BY TypesAre DEF Types, TypeOK, ObjectTypes, FileTypes, HandlingTypes
<1>2. /\ fd[h] # None /\ fd[h] \in Inodes /\ obj[h] = cached /\ cached # None /\ h \in Busy
      /\ pc[h] \in {"summarized", "added", "compacted", "created"}
  <2>1. fd[h] # None
    BY <1>1 DEF Types, TypeOK
  <2> QED BY <1>0, <2>1, InSave
<1>3. \A t \in Turns \ {h} : pc[t] \notin Compacting
  BY <1>0, <1>2, BusyAlone
<1>4. main' # None /\ main' \in Inodes /\ Current(main')
  <2>1. /\ tmp = None => main # None /\ Current(main)
        /\ tmp # None => Current(tmp)
    BY <1>0, <1>2 DEF Saves
  <2> QED BY <1>1, <1>t, <2>1
<1>5. \A i \in Inodes : i = main' \/ (\E g \in Handlings : fd'[g] = i) =>
        meta'[i] = meta[i] /\ body'[i] = body[i] /\ written'[i] = written[i]
  BY <1>1, <1>4, <1>t, Unlinks
<1>6. MemoryStays
  <2>1. cached' \in Objects => msgs'[cached'] = msgs[cached'] /\ summary'[cached'] = summary[cached']
    BY <1>1, <1>t, Collects
  <2> QED BY <1>1, <1>2, <1>t, <2>1 DEF MemoryStays
<1>7. /\ Others(h) /\ obj'[h] \in {None, cached} /\ pc'[h] \in {"saved", "adding", "returned"}
      /\ pc[h] = "summarized" => pc'[h] = "adding"
      /\ pc[h] = "added" => pc'[h] = "saved"
      /\ pc[h] \in {"compacted", "created"} => pc'[h] = "returned"
      /\ h \in Turns /\ pc'[h] # "returned" => UNCHANGED <<adding, added, replacing, kept, history>>
      /\ h \in Turns /\ pc'[h] = "returned" => adding'[h] = <<>> /\ added'[h] = 0 /\ history'[h] = <<>>
      /\ Tells
  <2>1. CASE pc[h] \in {"summarized", "added"}
    <3>1. pc' = [pc EXCEPT ![h] = IF pc[h] = "added" THEN "saved" ELSE "adding"] /\ UNCHANGED <<obj, locals, said>>
      BY <1>1, <2>1 DEF AfterSave, Goto
    <3>2. pc'[h] = (IF pc[h] = "added" THEN "saved" ELSE "adding") /\ \A g \in Handlings \ {h} : pc'[g] = pc[g]
      BY <1>t, <3>1
    <3> QED BY <1>1, <1>2, <2>1, <3>1, <3>2 DEF Others, Tells, locals
  <2>2. CASE pc[h] \in {"compacted", "created"}
    <3>1. Return(h)
      BY <1>1, <2>2 DEF AfterSave
    <3>2. /\ Others(h) /\ pc'[h] = "returned" /\ obj'[h] = None
          /\ h \in Turns => adding'[h] = <<>> /\ added'[h] = 0 /\ history'[h] = <<>>
          /\ h \in Turns => said' = said \cup ToSet(adding[h])
          /\ h \notin Turns => said' = said
      BY <1>1, <3>1, LocalsMove
    <3>3. h \in Turns => pc[h] = "compacted"
      BY <2>2 DEF Types, Places, PlaceOf
    <3>4. h \in Turns => OnDisk(h) /\ ToSet(adding[h]) = AddedBy(h)
      BY <1>0, <3>3, AllAdded DEF OnDisk
    <3>5. Tells
      BY <3>2, <3>4 DEF Tells
    <3> QED BY <2>2, <3>2, <3>5
  <2> QED BY <1>2, <2>1, <2>2
<1>8. h \in Turns => AddedBy(h)' \subseteq AddedBy(h) /\ (pc'[h] # "returned" => AddedBy(h)' = AddedBy(h))
  BY <1>7 DEF AddedBy
<1>9. OneObject'
  BY <1>0, <1>1, <1>7 DEF OneObject, Others
<1>10. Handled'
  <2>1. ASSUME h \in Turns PROVE HandledOf(h)'
    <3>1. HandledOf(h)
      BY <1>0, <2>1 DEF Handled
    <3> QED BY <1>1, <1>2, <1>7, <2>1, <3>1 DEF HandledOf, Evaluating, Compacting
  <2>2. summary'[cached'] = summary[cached]
    BY <1>2, <1>6 DEF MemoryStays
  <2> QED BY <1>0, <1>3, <1>7, <2>1, <2>2, HandledStep
<1>11. Stable
  BY <1>2, <1>7, <1>8, StableStep DEF Evaluating
<1>12. Memory'
  <2>1. \A t \in Turns : AddedBy(t)' \subseteq AddedBy(t)
    BY <1>7, <1>8 DEF Others, AddedBy
  <2> QED BY <1>0, <1>6, <1>7, <1>11, <2>1, MemoryFrame
<1>13. \A i \in Inodes : Current(i) /\ (i = main' \/ \E g \in Handlings : fd'[g] = i) => Current(i)'
  BY <1>2, <1>5, <1>6 DEF Current, MemoryStays
<1>14. Current(main)'
  BY <1>4, <1>13 DEF Current
<1>15. Disk'
  BY <1>1, <1>2, <1>4, <1>12, <1>14, DiskFromMemory
<1>16. Saves'
  <2> SUFFICES ASSUME NEW g \in Handlings, fd'[g] # None PROVE Current(fd[g])'
    BY <1>1, <1>4, <1>14 DEF Saves
  <2>1. fd'[g] = fd[g] /\ fd[g] \in Inodes
    BY <1>1, <1>t
  <2>2. Current(fd[g])
    BY <1>0, <2>1 DEF Saves
  <2> QED BY <1>13, <2>1, <2>2 DEF Current
<1>17. OneByOne'
  <2> SUFFICES ASSUME ~overlapped PROVE FileWhole' /\ SaveAlone' /\ MemoryWhole' /\ \A t \in Turns : TurnWhole(t)'
    BY <1>1 DEF OneByOne
  <2>1. FileWhole /\ SaveAlone /\ MemoryWhole /\ \A t \in Turns : TurnWhole(t)
    BY <1>0 DEF OneByOne
  <2>2. \A g \in Handlings : g \in Busy => g = h
    BY <1>2 DEF Alone
  <2>3. SaveAlone'
    <3>1. \A g \in Handlings : fd'[g] = None
      BY <1>0, <1>1, <1>t, <2>2, InSave
    <3> QED BY <3>1 DEF SaveAlone
  <2>4. \A t \in Turns : ~Midway(t) /\ ~Midway(t)'
    <3>1. \A t \in Turns \ {h} : pc[t] # "adding"
      BY <2>2 DEF Busy, Between
    <3>2. ASSUME h \in Turns, pc'[h] = "adding" PROVE added'[h] = 0
      <4>1. pc[h] = "summarized"
        BY <1>2, <1>7, <3>2
      <4>2. added[h] = 0
        BY <3>2, <4>1 DEF Types, Places, PlaceOf
      <4> QED BY <1>7, <3>2, <4>2
    <3> QED BY <1>2, <1>7, <3>1, <3>2 DEF Midway, Others
  <2>5. Whole(msgs[cached])
    BY <1>2, <2>1, <2>4 DEF MemoryWhole, Whole
  <2>6. FileWhole'
    <3>1. tmp = fd[h] /\ "meta" \in written[tmp] /\ "body" \in written[tmp]
      BY <1>1, <1>2, <2>1 DEF SaveAlone
    <3>2. main' = tmp
      BY <1>1, <1>2, <3>1
    <3>3. body[tmp] = msgs[cached] /\ written[tmp] = Parts
      BY <1>4, <1>t, <1>2, <3>1, <3>2 DEF Current, Parts, FileTypes
    <3>4. body'[main'] = body[tmp] /\ written'[main'] = written[tmp]
      BY <1>4, <1>5, <3>2
    <3> DEFINE b == body[tmp]
    <3>5. Whole(b) /\ body'[main'] = b
      BY <2>5, <3>3, <3>4
    <3> HIDE DEF b
    <3> QED BY <3>3, <3>4, <3>5 DEF FileWhole, Complete, Whole, Chain, Started, Ended
  <2>7. MemoryWhole'
    <3> DEFINE s == msgs[cached]
    <3>1. msgs'[cached'] = s /\ Whole(s)
      BY <1>2, <1>6, <2>5 DEF MemoryStays
    <3> HIDE DEF s
    <3> QED BY <2>4, <3>1 DEF MemoryWhole, Whole, Chain, Started, Ended
  <2>8. \A t \in Turns \ {h} : TurnWhole(t)'
    BY <1>7, <2>1 DEF Others, TurnWhole
  <2>9. h \in Turns => TurnWhole(h)'
    <3>1. pc'[h] \notin Compacting
      BY <1>7 DEF Compacting
    <3>2. h \in Turns /\ pc'[h] = "returned" => Paired(history[h])'
      <4>1. \A x : x = <<>> => Paired(x)
        BY EmptyHistory
      <4> QED BY <1>7, <4>1 DEF Paired
    <3>3. h \in Turns /\ pc'[h] # "returned" => Paired(history[h])'
      BY <1>7, <2>1 DEF TurnWhole, Paired
    <3> QED BY <3>1, <3>2, <3>3 DEF TurnWhole
  <2> QED BY <2>3, <2>6, <2>7, <2>8, <2>9
<1> QED BY <1>9, <1>10, <1>12, <1>15, <1>16, <1>17 DEF Clean

\* /new, when nobody is at work.
LEMMA DeleteClean ==
  ASSUME Types, Types', Clean, spoiled = {}, spoiled' = {}, NEW n \in Resets, Delete(n)
  PROVE  Clean'
<1> USE HandlingIs
<1>0. OneObject /\ Handled /\ OneByOne
  BY DEF Clean
<1>1. /\ cached' = None /\ main' = None /\ pc' = [pc EXCEPT ![n] = "deleted"] /\ said' = {}
      /\ reset' = AllTurns \ {t \in Turns : pc[t] \notin {"returned", "killed"}}
      /\ overlapped' = (overlapped \/ Busy # {}) /\ UNCHANGED <<tmp, obj, save, fd>>
      /\ UNCHANGED <<history, adding, added, replacing, kept>>
  BY DEF Delete, Goto, locals
<1>2. \A h \in Handlings : pc[h] \in Between
  <2>1. Busy = {}
    BY DEF Delete, Spoil
  <2> QED BY <2>1 DEF Busy
<1>3. /\ n \in Handlings /\ n \notin Turns
      /\ \A h \in Handlings : obj[h] = None /\ fd[h] = None
      /\ pc \in [Handlings -> Phases]
  BY <1>2 DEF Types, TypeOK, Places, PlaceOf, Between
<1>4. \A t \in Turns : pc'[t] = pc[t] /\ pc[t] \in Between
  BY <1>1, <1>2, <1>3
<1>5. OneObject' /\ Memory' /\ Saves'
  BY <1>1, <1>3 DEF OneObject, Memory, Saves
<1>6. Handled'
  <2>1. ASSUME NEW t \in Turns PROVE HandledOf(t)'
    <3>1. t \in reset' => pc[t] \in {"returned", "killed"}
      BY <1>1
    <3>2. adding[t] = <<>>
      BY <1>0, <1>4 DEF Handled, HandledOf, Between
    <3> QED BY <1>1, <1>4, <3>1, <3>2 DEF HandledOf, Between, Compacting
  <2> QED BY <2>1 DEF Handled
<1>7. Disk'
  <2>1. \A t \in Turns : ~OnDisk(t)'
    BY <1>4 DEF OnDisk, Between, Compacting
  <2> QED BY <1>1, <2>1 DEF Disk
<1>8. OneByOne'
  <2>1. FileWhole' /\ SaveAlone' /\ MemoryWhole'
    BY <1>1, <1>3 DEF FileWhole, SaveAlone, MemoryWhole
  <2>2. ASSUME ~overlapped' PROVE \A t \in Turns : TurnWhole(t)'
    BY <1>0, <1>1, <1>4, <2>2 DEF OneByOne, TurnWhole
  <2> QED BY <2>1, <2>2 DEF OneByOne
<1> QED BY <1>5, <1>6, <1>7, <1>8 DEF Clean

\* What is on the disk is complete when the process is killed, or a Save was
\* writing to the file another one has renamed.
LEMMA CrashClean ==
  ASSUME Types, Types', Clean, spoiled = {}, spoiled' = {}, Crash
  PROVE  Clean'
<1> USE HandlingIs
<1>0. OneObject /\ Handled /\ Disk /\ OneByOne
  BY DEF Clean
<1>1. /\ cached' = None /\ pc' = [h \in Handlings |-> IF h \in Busy THEN "killed" ELSE pc[h]]
      /\ obj' = [h \in Handlings |-> None] /\ fd' = [h \in Handlings |-> None]
      /\ history' = [t \in Turns |-> <<>>] /\ adding' = [t \in Turns |-> <<>>]
      /\ added' = [t \in Turns |-> 0]
      /\ UNCHANGED <<main, tmp, said, reset, overlapped>> /\ Unlink
      /\ ~(overlapped /\ main # None /\ written[main] # Parts)
  BY DEF Crash, Spoil
<1>2. main # None => Complete(main)
  BY <1>0, <1>1 DEF OneByOne, FileWhole, Complete
<1>3. main \in Inodes \cup {None} /\ FileTypes /\ HandlingTypes'
  BY TypesAre DEF Types, TypeOK, HandlingTypes
<1>4. main # None => body'[main] = body[main] /\ meta'[main] = meta[main] /\ written'[main] = written[main]
  <2>1. main' \in Inodes \cup {None}
    BY <1>1, <1>3
  <2> QED BY <1>1, <1>3, <2>1, Unlinks
<1>5. \A t \in Turns : /\ pc'[t] = (IF pc[t] \in Between THEN pc[t] ELSE "killed")
                       /\ history'[t] = <<>> /\ adding'[t] = <<>> /\ added'[t] = 0
  BY <1>1 DEF Busy
<1>6. OneObject' /\ Memory' /\ Saves'
  BY <1>1 DEF OneObject, Memory, Saves
<1>7. Handled'
  <2>1. ASSUME NEW t \in Turns PROVE HandledOf(t)'
    <3>1. t \in reset => pc[t] \in {"returned", "killed"}
      BY <1>0 DEF Handled, HandledOf
    <3> QED BY <1>1, <1>5, <3>1 DEF HandledOf, Between, Compacting
  <2> QED BY <2>1 DEF Handled
<1>8. Disk'
  <2>1. Stable
    <3>1. ASSUME NEW t \in Turns, pc'[t] \in Evaluating PROVE pc[t] = "none" /\ AddedBy(t) = {}
      <4>1. pc[t] = "none"
        BY <1>5, <3>1 DEF Evaluating, Between
      <4> QED BY <1>0, <4>1, NothingAdded
    <3> QED BY <1>1, <3>1 DEF Stable, Evaluating
  <2>2. Tells
    BY <1>1 DEF Tells
  <2>3. \A t \in Turns : ~OnDisk(t)'
    BY <1>5 DEF OnDisk, Between, Compacting
  <2> QED BY <1>0, <1>1, <1>2, <1>4, <2>1, <2>2, <2>3, DiskFrame
<1>9. OneByOne'
  <2>1. SaveAlone' /\ MemoryWhole'
    BY <1>1 DEF SaveAlone, MemoryWhole
  <2>2. \A t \in Turns : TurnWhole(t)'
    <3>1. \A x : x = <<>> => Paired(x)
      BY EmptyHistory
    <3>2. \A t \in Turns : pc'[t] \notin Compacting
      BY <1>5 DEF Between, Compacting
    <3> QED BY <1>5, <3>1, <3>2 DEF TurnWhole, Paired
  <2>3. ASSUME ~overlapped PROVE FileWhole'
    <3>1. FileWhole
      BY <1>0, <2>3 DEF OneByOne
    <3> DEFINE b == body[main]
    <3>2. main # None => Complete(main)' /\ body'[main'] = b /\ Whole(b)
      BY <1>1, <1>4, <3>1 DEF FileWhole, Complete
    <3> HIDE DEF b
    <3> QED BY <1>1, <3>2 DEF FileWhole, Complete, Whole, Chain, Started, Ended
  <2> QED BY <1>1, <2>1, <2>2, <2>3 DEF OneByOne
<1> QED BY <1>6, <1>7, <1>8, <1>9 DEF Clean

LEMMA StutterClean ==
  ASSUME Clean, UNCHANGED vars
  PROVE  Clean'
<1>0. Disk /\ Saves /\ OneByOne
  BY DEF Clean
<1>1. /\ UNCHANGED <<objects, pc, obj, locals, ghosts>>
      /\ UNCHANGED <<cached, msgs, summary, main, tmp, meta, body, written, save, fd, adding, added, said, reset>>
  BY DEF vars, objects, files, locals, ghosts
<1>2. Disk'
  BY <1>0, <1>1 DEF Disk, Sound, Known, Content, AddedBy, OnDisk, Complete
<1>3. Saves'
  BY <1>0, <1>1 DEF Saves, Current
<1>4. ~overlapped => FileWhole' /\ SaveAlone'
  BY <1>0, <1>1 DEF OneByOne, FileWhole, SaveAlone, Complete
<1> QED BY <1>1, <1>2, <1>3, <1>4, FileStep

-----------------------------------------------------------------------------
(* The theorems.                                                           *)

\* What has spoiled the session stays.
LEMMA SpoiledStays ==
  ASSUME [Next]_vars
  PROVE  spoiled \subseteq spoiled'
<1>1. ASSUME NEW t \in Turns, Turn(t) PROVE spoiled \subseteq spoiled'
  BY <1>1 DEF Turn, Open, GetSummary, Run, SetSummary, AddMessage, CompactHistory, CompactSummary,
     CompactSet, ReplaceHistory, Spoil, ghosts
<1>2. ASSUME NEW n \in Resets, Reset(n) PROVE spoiled \subseteq spoiled'
  BY <1>2 DEF Reset, Delete, NewSession, Spoil
<1>3. ASSUME NEW h \in Handlings, SaveCreate(h) \/ SaveMeta(h) \/ SaveBody(h) \/ SaveRename(h)
      PROVE  spoiled \subseteq spoiled'
  BY <1>3 DEF SaveCreate, SaveMeta, SaveBody, SaveRename, ghosts
<1>4. CASE Crash
  BY <1>4 DEF Crash, Spoil
<1>5. CASE UNCHANGED vars
  BY <1>5 DEF vars, ghosts
<1> QED BY <1>1, <1>2, <1>3, <1>4, <1>5 DEF Next

\* A step that spoils nothing keeps the session clean.
LEMMA CleanStep ==
  ASSUME Types, Types', Alone, Clean, spoiled = {}, spoiled' = {}, [Next]_vars
  PROVE  Clean'
<1>1. ASSUME NEW t \in Turns, Turn(t) PROVE Clean'
  <2>1. CASE Open(t)
    BY <2>1, OpenClean
  <2>2. CASE GetSummary(t)
    BY <2>2, GetSummaryClean
  <2>3. CASE Run(t)
    BY <2>3, RunClean
  <2>4. CASE SetSummary(t)
    BY <2>4, SetSummaryClean
  <2>5. CASE AddMessage(t)
    BY <2>5, AddMessageClean
  <2>6. CASE CompactHistory(t)
    BY <2>6, CompactHistoryClean
  <2>7. CASE CompactSummary(t)
    BY <2>7, CompactSummaryClean
  <2>8. CASE CompactSet(t)
    BY <2>8, CompactSetClean
  <2>9. CASE ReplaceHistory(t)
    BY <2>9, ReplaceHistoryClean
  <2> QED BY <1>1, <2>1, <2>2, <2>3, <2>4, <2>5, <2>6, <2>7, <2>8, <2>9 DEF Turn
<1>2. ASSUME NEW n \in Resets, Reset(n) PROVE Clean'
  BY <1>2, DeleteClean, NewSessionClean DEF Reset
<1>3. ASSUME NEW h \in Handlings, SaveCreate(h) \/ SaveMeta(h) \/ SaveBody(h) \/ SaveRename(h) PROVE Clean'
  BY <1>3, SaveCreateClean, SaveMetaClean, SaveBodyClean, SaveRenameClean
<1>4. CASE Crash
  BY <1>4, CrashClean
<1>5. CASE UNCHANGED vars
  BY <1>5, StutterClean
<1> QED BY <1>1, <1>2, <1>3, <1>4, <1>5 DEF Next

\* The inductive invariant.
THEOREM Invariance == Spec => []IInv
<1>1. Init => IInv
  BY InitClean
<1>2. IInv /\ [Next]_vars => IInv'
  <2> SUFFICES ASSUME IInv, [Next]_vars PROVE IInv'
    OBVIOUS
  <2>1. Types /\ Alone /\ OnlyCompression /\ (spoiled = {} => Clean)
    BY DEF IInv
  <2>2. Types'
    BY <2>1, TypesStep
  <2>3. Alone' /\ OnlyCompression'
    BY <2>1, AloneStep, OnlyCompressionStep
  <2>4. spoiled' = {} => Clean'
    BY <2>1, <2>2, SpoiledStays, CleanStep
  <2> QED BY <2>2, <2>3, <2>4 DEF IInv
<1> QED BY <1>1, <1>2, PTL DEF Spec

\* A session that nothing has spoiled has, in its messages or its summary, what
\* the turns that returned have added since the last /new, each message once,
\* and nothing from before it: in memory while it is cached, otherwise in the file.
THEOREM MessagesKeptOnce == Spec => []KeptOnce
<1>1. IInv => KeptOnce
  <2> SUFFICES ASSUME IInv, spoiled = {}
               PROVE  /\ said \subseteq ToSet(Live.msgs) \cup Live.summary
                      /\ IsInjective(Live.msgs)
                      /\ \A m \in ToSet(Live.msgs) \cup Live.summary : m.turn \notin reset
    BY DEF KeptOnce
  <2>1. Memory /\ Disk
    BY DEF IInv, Clean
  <2>2. CASE cached # None
    <3>1. Live.msgs = msgs[cached] /\ Live.summary = summary[cached]
      BY <2>2 DEF Live
    <3> QED BY <2>1, <2>2, <3>1 DEF Memory, Sound, Known, Content
  <2>3. CASE cached = None /\ main # None
    <3>1. Live.msgs = body[main] /\ Live.summary = meta[main]
      BY <2>3 DEF Live, LoadedMsgs, LoadedSummary
    <3> QED BY <2>1, <2>3, <3>1 DEF Disk, Sound, Known, Content
  <2>4. CASE cached = None /\ main = None
    <3>1. Live.msgs = <<>> /\ Live.summary = {}
      BY <2>4 DEF Live, LoadedMsgs, LoadedSummary
    <3>2. said = {}
      BY <2>1, <2>4 DEF Disk
    <3> QED BY <3>1, <3>2, EmptyHistory, NoMessages
  <2> QED BY <2>2, <2>3, <2>4
<1> QED BY <1>1, Invariance, PTL

\* The history a model is given pairs tool calls and results while turns are
\* handled one at a time and no context is compressed.
THEOREM HistoriesPaired == Spec => []HistoryPaired
<1>1. IInv => HistoryPaired
  <2> SUFFICES ASSUME IInv, ~overlapped, "compression" \notin spoiled PROVE \A t \in Turns : Paired(history[t])
    BY DEF HistoryPaired
  <2>1. spoiled = {}
    BY DEF IInv, OnlyCompression
  <2> QED BY <2>1 DEF IInv, Clean, OneByOne, TurnWhole
<1> QED BY <1>1, Invariance, PTL
=============================================================================
