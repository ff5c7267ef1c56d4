--------------------------- MODULE AceMemoryProofs ---------------------------
(***************************************************************************)
(* Theorems about AceMemory, for every set of traces, replies and workers, *)
(* every likeness of texts and every size of the memory: the types, that   *)
(* what is remembered or about to be replayed was once done and holds no   *)
(* secret, that what was forgotten stays forgotten, when a run that found  *)
(* fragments can still enter the loop, and that a refinement leaves some   *)
(* of every type (of the last, for every size but four).                   *)
(***************************************************************************)
EXTENDS AceMemory, FiniteSetTheorems, SequenceTheorems, WellFoundedInduction, TLAPS

-----------------------------------------------------------------------------
(* Sequences and orders. *)

\* A function on the first numbers is a sequence.
LEMMA FromFunction ==
  ASSUME NEW S, NEW n \in Nat, NEW f \in [1 .. n -> S]
  PROVE  f \in Seq(S) /\ Len(f) = n /\ DOMAIN f = 1 .. n
  OBVIOUS

\* What comes before x in the order of two keys.
Before(S, key, tie, x) == {y \in S : key[y] < key[x] \/ (key[y] = key[x] /\ tie[y] < tie[x])}

\* In an order by two keys, each element has as many before it as its place says.
LEMMA Ranks ==
  ASSUME NEW S, IsFiniteSet(S), NEW key \in [S -> Int], NEW tie \in [S -> Int],
         \A x, y \in S : tie[x] = tie[y] => x = y
  PROVE  /\ Cardinality(S) \in Nat
         /\ \A x \in S : Cardinality(Before(S, key, tie, x)) \in 0 .. Cardinality(S) - 1
         /\ \A x, y \in S :
              Cardinality(Before(S, key, tie, x)) = Cardinality(Before(S, key, tie, y)) => x = y
         /\ \A i \in 0 .. Cardinality(S) - 1 :
              \E x \in S : Cardinality(Before(S, key, tie, x)) = i
<1> DEFINE before(x) == Before(S, key, tie, x)
<1>1. Cardinality(S) \in Nat
  BY FS_CardinalityType
<1>2. ASSUME NEW x \in S
      PROVE  /\ IsFiniteSet(before(x)) /\ Cardinality(before(x)) \in 0 .. Cardinality(S) - 1
  <2>1. before(x) \in SUBSET S /\ x \notin before(x)
    BY DEF Before
  <2> HIDE DEF before
  <2>2. IsFiniteSet(before(x)) /\ Cardinality(before(x)) <= Cardinality(S)
        /\ Cardinality(before(x)) # Cardinality(S)
    BY <2>1, FS_Subset
  <2>3. Cardinality(before(x)) \in Nat
    BY <2>2, FS_CardinalityType
  <2> QED
    BY <1>1, <2>2, <2>3
<1>3. ASSUME NEW x \in S, NEW y \in S, x \in before(y)
      PROVE  Cardinality(before(x)) # Cardinality(before(y))
  <2>1. before(x) \in SUBSET before(y)
    <3> SUFFICES ASSUME NEW z \in before(x) PROVE z \in before(y)
      OBVIOUS
    <3>1. z \in S
      BY DEF Before
    <3>2. /\ key[x] \in Int /\ key[y] \in Int /\ key[z] \in Int
          /\ tie[x] \in Int /\ tie[y] \in Int /\ tie[z] \in Int
      BY <3>1
    <3>3. key[z] < key[x] \/ (key[z] = key[x] /\ tie[z] < tie[x])
      BY DEF Before
    <3>4. key[x] < key[y] \/ (key[x] = key[y] /\ tie[x] < tie[y])
      BY <1>3 DEF Before
    <3>5. key[z] < key[y] \/ (key[z] = key[y] /\ tie[z] < tie[y])
      BY <3>2, <3>3, <3>4
    <3> QED
      BY <3>1, <3>5 DEF Before
  <2>2. x \notin before(x)
    BY DEF Before
  <2>3. IsFiniteSet(before(y))
    BY <1>2
  <2> HIDE DEF before
  <2> QED
    BY <1>3, <2>1, <2>2, <2>3, FS_Subset
<1>4. ASSUME NEW x \in S, NEW y \in S, x # y PROVE x \in before(y) \/ y \in before(x)
  <2>1. tie[x] # tie[y] /\ tie[x] \in Int /\ tie[y] \in Int /\ key[x] \in Int /\ key[y] \in Int
    BY <1>4
  <2> QED
    BY <2>1 DEF Before
<1>5. \A x, y \in S : Cardinality(before(x)) = Cardinality(before(y)) => x = y
  BY <1>3, <1>4
<1>6. \A i \in 0 .. Cardinality(S) - 1 : \E x \in S : Cardinality(before(x)) = i
  <2> HIDE DEF before
  <2> DEFINE T == 0 .. Cardinality(S) - 1
             f == [x \in S |-> Cardinality(before(x))]
  <2>1. f \in Injection(S, T)
    BY <1>2, <1>5 DEF Injection, IsInjective
  <2>2. IsFiniteSet(T) /\ Cardinality(T) = Cardinality(S)
    <3>1. PICK c \in Nat : c = Cardinality(S)
      BY <1>1
    <3>2. IsFiniteSet(0 .. c - 1) /\ Cardinality(0 .. c - 1) = c
      <4>1. c - 1 \in Int
        OBVIOUS
      <4> QED
        BY <4>1, FS_Interval
    <3> QED
      BY <3>1, <3>2
  <2> HIDE DEF f, T
  <2>3. f \in Surjection(S, T)
    BY <2>1, <2>2, FS_Injection
  <2>4. \A i \in T : \E x \in S : f[x] = i
    BY <2>3 DEF Surjection
  <2> QED
    BY <2>4 DEF f, T
<1> QED
  BY <1>1, <1>2, <1>5, <1>6

\* Every element of S is somewhere in s.
Covers(s, S) == \A x \in S : \E i \in 1 .. Len(s) : s[i] = x

\* A sorted set is a sequence of its elements, of all of them.
LEMMA Sorted ==
  ASSUME NEW S, IsFiniteSet(S), NEW key \in [S -> Int], NEW tie \in [S -> Int],
         \A x, y \in S : tie[x] = tie[y] => x = y
  PROVE  /\ sorted(S, key, tie) \in Seq(S) /\ Len(sorted(S, key, tie)) = Cardinality(S)
         /\ Covers(sorted(S, key, tie), S)
<1> DEFINE before(x) == Before(S, key, tie, x)
           n == Cardinality(S)
           s == [i \in 1 .. n |-> CHOOSE x \in S : Cardinality(before(x)) = i - 1]
<1>1. /\ n \in Nat
      /\ \A x \in S : Cardinality(before(x)) \in 0 .. n - 1
      /\ \A x, y \in S : Cardinality(before(x)) = Cardinality(before(y)) => x = y
      /\ \A i \in 0 .. n - 1 : \E x \in S : Cardinality(before(x)) = i
  BY Ranks
<1>2. sorted(S, key, tie) = s
  BY DEF sorted, Before
<1> HIDE DEF before, n
<1>3. ASSUME NEW i \in 1 .. n PROVE s[i] \in S /\ Cardinality(before(s[i])) = i - 1
  <2>1. i - 1 \in 0 .. n - 1
    BY <1>1
  <2>2. \E x \in S : Cardinality(before(x)) = i - 1
    BY <1>1, <2>1
  <2> QED
    BY <2>2
<1>4. s \in [1 .. n -> S]
  BY <1>3
<1>5. \A x \in S : \E i \in 1 .. n : s[i] = x
  <2> SUFFICES ASSUME NEW x \in S PROVE \E i \in 1 .. n : s[i] = x
    OBVIOUS
  <2> DEFINE i == Cardinality(before(x)) + 1
  <2>1. i \in 1 .. n /\ i - 1 = Cardinality(before(x))
    BY <1>1
  <2> HIDE DEF i, s
  <2>2. s[i] \in S /\ Cardinality(before(s[i])) = Cardinality(before(x))
    BY <1>3, <2>1
  <2> QED
    BY <1>1, <2>1, <2>2
<1> HIDE DEF s
<1>6. s \in Seq(S) /\ Len(s) = n
  BY <1>1, <1>4, FromFunction
<1> QED
  BY <1>2, <1>5, <1>6 DEF n, Covers

\* What is selected from a sequence is a sequence of what was selected, of all of it.
LEMMA Those ==
  ASSUME NEW S, NEW s \in Seq(S), NEW kept \in SUBSET (DOMAIN s)
  PROVE  /\ those(s, kept) \in Seq(S)
         /\ \A n \in 1 .. Len(those(s, kept)) : \E i \in kept : those(s, kept)[n] = s[i]
         /\ \A i \in kept : \E n \in 1 .. Len(those(s, kept)) : those(s, kept)[n] = s[i]
<1> DEFINE id == [i \in kept |-> i]
           before(x) == Before(kept, id, id, x)
           upto(x) == {j \in kept : j <= x}
           c == Cardinality(kept)
           nth(n) == CHOOSE i \in kept : Cardinality(upto(i)) = n
           t == [n \in 1 .. c |-> s[nth(n)]]
<1>1. Len(s) \in Nat /\ DOMAIN s = 1 .. Len(s)
  BY LenProperties
<1>2. IsFiniteSet(kept) /\ kept \in SUBSET Int
  <2>1. IsFiniteSet(1 .. Len(s))
    BY <1>1, FS_Interval
  <2> QED
    BY <1>1, <2>1, FS_Subset
<1>3. id \in [kept -> Int] /\ \A x, y \in kept : id[x] = id[y] => x = y
  BY <1>2
<1>4. /\ c \in Nat
      /\ \A x \in kept : Cardinality(before(x)) \in 0 .. c - 1
      /\ \A x, y \in kept : Cardinality(before(x)) = Cardinality(before(y)) => x = y
      /\ \A i \in 0 .. c - 1 : \E x \in kept : Cardinality(before(x)) = i
  <2> HIDE DEF id
  <2> QED
    BY <1>2, <1>3, Ranks
<1>5. ASSUME NEW x \in kept PROVE Cardinality(upto(x)) = Cardinality(before(x)) + 1
  <2>1. upto(x) = before(x) \cup {x} /\ x \notin before(x) /\ before(x) \in SUBSET kept
    BY <1>2 DEF Before
  <2> HIDE DEF before, upto
  <2>2. IsFiniteSet(before(x))
    BY <1>2, <2>1, FS_Subset
  <2> QED
    BY <2>1, <2>2, FS_AddElement
<1>6. those(s, kept) = t
  BY DEF those
<1> HIDE DEF before, upto, c, id
<1>7. ASSUME NEW n \in 1 .. c PROVE nth(n) \in kept /\ Cardinality(before(nth(n))) = n - 1
  <2>1. n - 1 \in 0 .. c - 1
    BY <1>4
  <2>2. PICK x \in kept : Cardinality(before(x)) = n - 1
    BY <1>4, <2>1
  <2>3. Cardinality(upto(x)) = n
    BY <1>4, <1>5, <2>2
  <2>4. nth(n) \in kept /\ Cardinality(upto(nth(n))) = n
    BY <2>3
  <2> HIDE DEF nth
  <2>5. Cardinality(before(nth(n))) \in 0 .. c - 1
    BY <1>4, <2>4
  <2> QED
    BY <1>4, <1>5, <2>4, <2>5
<1> HIDE DEF nth
<1>8. t \in [1 .. c -> S]
  BY <1>1, <1>7, ElementOfSeq
<1>9. \A i \in kept : \E n \in 1 .. c : t[n] = s[i]
  <2> SUFFICES ASSUME NEW i \in kept PROVE \E n \in 1 .. c : t[n] = s[i]
    OBVIOUS
  <2> DEFINE n == Cardinality(before(i)) + 1
  <2>1. n \in 1 .. c /\ n - 1 = Cardinality(before(i))
    BY <1>4
  <2> HIDE DEF n
  <2>2. nth(n) = i
    BY <1>4, <1>7, <2>1
  <2> QED
    BY <2>1, <2>2
<1>10. \A n \in 1 .. c : \E i \in kept : t[n] = s[i]
  BY <1>7
<1> HIDE DEF t
<1>11. t \in Seq(S) /\ Len(t) = c
  BY <1>4, <1>8, FromFunction
<1> QED
  BY <1>6, <1>9, <1>10, <1>11

\* Every nonempty set of numbers has a least one.
LEMMA LeastNumber ==
  ASSUME NEW T \in SUBSET Nat, T # {}
  PROVE  Min(T) \in T /\ \A m \in T : Min(T) <= m
<1>1. IsWellFoundedOn(OpToRel(<, Nat), Nat)
  BY NatLessThanWellFounded
<1>2. \E n \in T : \A m \in T : ~(<<m, n>> \in OpToRel(<, Nat))
  BY <1>1, WFMin
<1>3. \A m, n \in Nat : m < n => <<m, n>> \in OpToRel(<, Nat)
  BY DEF OpToRel
<1>4. PICK n \in T : \A m \in T : ~(<<m, n>> \in OpToRel(<, Nat))
  BY <1>2
<1>5. \A m \in T : ~(m < n)
  BY <1>3, <1>4
<1>6. n \in T /\ \A m \in T : n <= m
  BY <1>5
<1> QED
  BY <1>6 DEF Min

\* Every nonempty bounded set of numbers has a greatest one.
LEMMA GreatestNumber ==
  ASSUME NEW b \in Nat, NEW T \in SUBSET (0 .. b), T # {}
  PROVE  Max(T) \in T /\ \A m \in T : Max(T) >= m
<1> DEFINE U == {u \in Nat : \A m \in T : u >= m}
           u == Min(U)
<1>1. b \in U
  OBVIOUS
<1> HIDE DEF U, u
<1>2. u \in U /\ \A v \in U : u <= v
  BY <1>1, LeastNumber DEF U, u
<1>3. u \in T
  <2> SUFFICES ASSUME u \notin T PROVE FALSE
    OBVIOUS
  <2>1. u \in Nat /\ \A m \in T : u >= m /\ u # m
    BY <1>2 DEF U
  <2>2. PICK m \in T : TRUE
    OBVIOUS
  <2>3. u - 1 \in U
    BY <2>1, <2>2 DEF U
  <2> QED
    BY <1>2, <2>1, <2>3
<1> QED
  BY <1>2, <1>3 DEF U, Max

-----------------------------------------------------------------------------
(* What is well formed. *)

Fields == {"content", "type", "high", "site", "credential", "topic", "helpful", "strength", "access"}

\* A bullet; what it says of a step is among what was said.
BulletOk(b, said) ==
  /\ DOMAIN b = Fields
  /\ b.content \in Contents /\ b.type \in MemoryTypes
  /\ b.helpful \in Nat /\ b.strength \in 2 .. 10 /\ b.access \in 0 .. 2
  /\ b.content.kind = "step" => b.type = "procedural" /\ b.content \in said

\* Bullets with ids below the next.
MemoryOk(db, next, said) ==
  DOMAIN db \subseteq 1 .. next - 1 /\ \A id \in DOMAIN db : BulletOk(db[id], said)

PatchOk(p) ==
  /\ DOMAIN p \subseteq {"helpful", "strength", "access"}
  /\ "helpful" \in DOMAIN p => p.helpful \in Nat
  /\ "strength" \in DOMAIN p => p.strength \in 2 .. 10
  /\ "access" \in DOMAIN p => p.access \in 0 .. 2

LessonOk(l, said) ==
  /\ l.content \in Contents /\ l.type \in MemoryTypes
  /\ l.content.kind = "step" => l.type = "procedural" /\ l.content \in said

LessonsOk(lessons, said) ==
  lessons \in Seq(ToSet(lessons)) /\ \A i \in 1 .. Len(lessons) : LessonOk(lessons[i], said)

\* What a run that succeeded hands to its reflection.
StateOk(s, said) ==
  /\ s.history \in Seq(ToSet(s.history))
  /\ \A i \in 1 .. Len(s.history) : stepContent(s.history[i]) \in Contents
  /\ summaryContent(s) \in Contents /\ affinityContent(s) \in Contents
  /\ \A step \in ToSet(successfulSteps(s.history)) : stepContent(step) \in said

Tasks == {t.task : t \in Traces}

\* A sequence over any set is one over its own elements.
LEMMA OwnElements ==
  ASSUME NEW S, NEW s \in Seq(S)
  PROVE  /\ s \in Seq(ToSet(s)) /\ Len(s) \in Nat /\ DOMAIN s = 1 .. Len(s)
         /\ \A i \in 1 .. Len(s) : s[i] \in ToSet(s) /\ s[i] \in S
         /\ \A x \in ToSet(s) : \E i \in 1 .. Len(s) : x = s[i]
<1>1. Len(s) \in Nat /\ DOMAIN s = 1 .. Len(s) /\ s \in [1 .. Len(s) -> S]
  BY LenProperties
<1>2. s \in [1 .. Len(s) -> ToSet(s)]
  BY <1>1 DEF ToSet
<1>3. s \in Seq(ToSet(s))
  BY <1>1, <1>2, FromFunction
<1> QED
  BY <1>1, <1>3 DEF ToSet

\* What is selected of lessons are lessons.
LEMMA SomeLessons ==
  ASSUME NEW said, NEW lessons, LessonsOk(lessons, said), NEW kept \in SUBSET (DOMAIN lessons)
  PROVE  LessonsOk(those(lessons, kept), said)
<1> DEFINE t == those(lessons, kept)
<1>1. lessons \in Seq(ToSet(lessons)) /\ DOMAIN lessons = 1 .. Len(lessons)
  <2>1. lessons \in Seq(ToSet(lessons))
    BY DEF LessonsOk
  <2> QED
    BY <2>1, OwnElements
<1>2. t \in Seq(ToSet(lessons)) /\ \A n \in 1 .. Len(t) : \E i \in kept : t[n] = lessons[i]
  BY <1>1, Those
<1> HIDE DEF t
<1>3. t \in Seq(ToSet(t))
  BY <1>2, OwnElements
<1>4. \A n \in 1 .. Len(t) : LessonOk(t[n], said)
  BY <1>1, <1>2 DEF LessonsOk
<1> QED
  BY <1>3, <1>4 DEF LessonsOk, t

\* Lessons one after the other are lessons.
LEMMA MoreLessons ==
  ASSUME NEW said, NEW s, LessonsOk(s, said), NEW t, LessonsOk(t, said)
  PROVE  LessonsOk(s \o t, said)
<1> DEFINE S == ToSet(s) \cup ToSet(t)
<1>1. s \in Seq(ToSet(s)) /\ t \in Seq(ToSet(t))
  BY DEF LessonsOk
<1>2. s \in Seq(S) /\ t \in Seq(S)
  BY <1>1, SeqMonotonic
<1>3. Len(s) \in Nat /\ Len(t) \in Nat
  BY <1>1, LenProperties
<1> HIDE DEF S
<1>4. /\ s \o t \in Seq(S) /\ Len(s \o t) = Len(s) + Len(t)
      /\ \A i \in 1 .. Len(s) + Len(t) :
           (s \o t)[i] = IF i <= Len(s) THEN s[i] ELSE t[i - Len(s)]
  BY <1>2, ConcatProperties
<1>5. s \o t \in Seq(ToSet(s \o t))
  BY <1>4, OwnElements
<1>6. ASSUME NEW i \in 1 .. Len(s \o t) PROVE LessonOk((s \o t)[i], said)
  <2>1. CASE i <= Len(s)
    <3>1. (s \o t)[i] = s[i] /\ i \in 1 .. Len(s)
      BY <1>3, <1>4, <2>1
    <3> QED
      BY <3>1 DEF LessonsOk
  <2>2. CASE i > Len(s)
    <3>1. (s \o t)[i] = t[i - Len(s)] /\ i - Len(s) \in 1 .. Len(t)
      BY <1>3, <1>4, <2>2
    <3> QED
      BY <3>1 DEF LessonsOk
  <2> QED
    BY <1>3, <1>4, <2>1, <2>2
<1> QED
  BY <1>5, <1>6 DEF LessonsOk

\* No lesson, and one.
LEMMA FewLessons ==
  ASSUME NEW said
  PROVE  LessonsOk(<<>>, said) /\ \A l : LessonOk(l, said) => LessonsOk(<<l>>, said)
<1>1. LessonsOk(<<>>, said)
  <2>1. <<>> \in Seq(ToSet(<<>>)) /\ Len(<<>>) = 0
    BY EmptySeq
  <2> QED
    BY <2>1 DEF LessonsOk
<1>2. ASSUME NEW l, LessonOk(l, said) PROVE LessonsOk(<<l>>, said)
  <2> DEFINE s == <<l>>
  <2>1. s \in Seq({l}) /\ Len(s) = 1 /\ s[1] = l
    OBVIOUS
  <2> HIDE DEF s
  <2>2. s \in Seq(ToSet(s))
    BY <2>1, OwnElements
  <2>3. \A i \in 1 .. Len(s) : LessonOk(s[i], said)
    BY <1>2, <2>1
  <2> QED
    BY <2>2, <2>3 DEF LessonsOk, s
<1> QED
  BY <1>1, <1>2

-----------------------------------------------------------------------------
(* What a reflection teaches. *)

\* Steps that were verified say what was said.
LEMMA DoneSteps ==
  ASSUME NEW said, NEW s, StateOk(s, said)
  PROVE  LET passed == successfulSteps(s.history)
         IN  /\ passed \in Seq(ToSet(passed)) /\ Len(passed) \in Nat /\ DOMAIN passed = 1 .. Len(passed)
             /\ \A i \in 1 .. Len(passed) : stepContent(passed[i]) \in Contents \cap said
<1> DEFINE h == s.history
           kept == {i \in DOMAIN h : h[i].ok /\ h[i].act # "none"}
           passed == those(h, kept)
<1>1. h \in Seq(ToSet(h)) /\ Len(h) \in Nat /\ DOMAIN h = 1 .. Len(h)
  <2>1. h \in Seq(ToSet(h))
    BY DEF StateOk
  <2> HIDE DEF h
  <2> QED
    BY <2>1, OwnElements
<1>2. kept \in SUBSET (DOMAIN h)
  OBVIOUS
<1>3. successfulSteps(s.history) = passed
  BY DEF successfulSteps
<1>4. \A i \in 1 .. Len(h) : stepContent(h[i]) \in Contents
  BY DEF StateOk
<1>5. \A step \in ToSet(passed) : stepContent(step) \in said
  BY <1>3 DEF StateOk
<1> HIDE DEF h, kept
<1>6. passed \in Seq(ToSet(h)) /\ \A n \in 1 .. Len(passed) : \E i \in kept : passed[n] = h[i]
  BY <1>1, <1>2, Those
<1> HIDE DEF passed
<1>7. /\ passed \in Seq(ToSet(passed)) /\ Len(passed) \in Nat /\ DOMAIN passed = 1 .. Len(passed)
      /\ \A i \in 1 .. Len(passed) : passed[i] \in ToSet(passed)
  BY <1>6, OwnElements
<1>8. \A i \in 1 .. Len(passed) : stepContent(passed[i]) \in Contents
  BY <1>1, <1>2, <1>4, <1>6
<1>9. \A i \in 1 .. Len(passed) : stepContent(passed[i]) \in said
  BY <1>5, <1>7
<1> QED
  BY <1>3, <1>7, <1>8, <1>9

\* A function on the first numbers that gives lessons is a sequence of lessons.
LEMMA LessonsFrom ==
  ASSUME NEW said, NEW n \in Nat, NEW f, f = [i \in 1 .. n |-> f[i]],
         \A i \in 1 .. n : LessonOk(f[i], said)
  PROVE  LessonsOk(f, said) /\ DOMAIN f = 1 .. n
<1> DEFINE S == {f[i] : i \in 1 .. n}
<1>1. f \in [1 .. n -> S]
  OBVIOUS
<1> HIDE DEF S
<1>2. f \in Seq(S) /\ Len(f) = n /\ DOMAIN f = 1 .. n
  BY <1>1, FromFunction
<1>3. f \in Seq(ToSet(f))
  BY <1>2, OwnElements
<1> QED
  BY <1>2, <1>3 DEF LessonsOk

\* The heuristic reflector.
LEMMA HeuristicLessons ==
  ASSUME NEW said, NEW s, StateOk(s, said)
  PROVE  LessonsOk(heuristicReflect(s), said)
<1> DEFINE passed == successfulSteps(s.history)
           kept == {i \in DOMAIN passed : passed[i].act # "finish"}
           done == those(passed, kept)
           steps == [i \in DOMAIN done |-> stepLesson(s, done[i])]
           summary == IF s.complete /\ ~hasAccountMarker(s.task)
                      THEN <<[content |-> summaryContent(s), type |-> "episodic", conf |-> 85,
                              tags |-> {"topic", "outcome"}, topic |-> s.task,
                              site |-> ""]>>
                      ELSE <<>>
           affinity == IF s.site # ""
                       THEN <<[content |-> affinityContent(s), type |-> "semantic", conf |-> 75,
                               tags |-> {"domain"}, topic |-> s.task, site |-> s.site]>>
                       ELSE <<>>
           lessons == steps \o summary \o affinity
<1>1. /\ passed \in Seq(ToSet(passed)) /\ DOMAIN passed = 1 .. Len(passed)
      /\ \A i \in 1 .. Len(passed) : stepContent(passed[i]) \in Contents \cap said
  BY DoneSteps
<1>2. kept \in SUBSET (DOMAIN passed)
  OBVIOUS
<1>3. LessonsOk(summary, said)
  <2>1. CASE s.complete /\ ~hasAccountMarker(s.task)
    <3> DEFINE l == [content |-> summaryContent(s), type |-> "episodic", conf |-> 85,
                     tags |-> {"topic", "outcome"}, topic |-> s.task, site |-> ""]
    <3>1. LessonOk(l, said)
      BY DEF LessonOk, StateOk, MemoryTypes, summaryContent
    <3>2. summary = <<l>>
      BY <2>1
    <3> HIDE DEF l, summary
    <3> QED
      BY <3>1, <3>2, FewLessons
  <2>2. CASE ~(s.complete /\ ~hasAccountMarker(s.task))
    BY <2>2, FewLessons
  <2> QED
    BY <2>1, <2>2
<1>4. LessonsOk(affinity, said)
  <2>1. CASE s.site # ""
    <3> DEFINE l == [content |-> affinityContent(s), type |-> "semantic", conf |-> 75,
                     tags |-> {"domain"}, topic |-> s.task, site |-> s.site]
    <3>1. LessonOk(l, said)
      BY DEF LessonOk, StateOk, MemoryTypes, affinityContent
    <3>2. affinity = <<l>>
      BY <2>1
    <3> HIDE DEF l, affinity
    <3> QED
      BY <3>1, <3>2, FewLessons
  <2>2. CASE s.site = ""
    BY <2>2, FewLessons
  <2> QED
    BY <2>1, <2>2
<1>5. heuristicReflect(s) = IF s.history = <<>> THEN <<>>
                            ELSE those(lessons, {i \in DOMAIN lessons : lessons[i].conf >= 70})
  BY DEF heuristicReflect
<1> HIDE DEF passed, kept, summary, affinity
<1>6. done \in Seq(ToSet(passed)) /\ \A n \in 1 .. Len(done) : \E i \in kept : done[n] = passed[i]
  BY <1>1, <1>2, Those
<1> HIDE DEF done
<1>7. Len(done) \in Nat /\ DOMAIN done = 1 .. Len(done)
  BY <1>6, LenProperties
<1>8. \A i \in 1 .. Len(done) : stepContent(done[i]) \in Contents \cap said
  BY <1>1, <1>2, <1>6
<1>9. \A i \in 1 .. Len(done) : LessonOk(steps[i], said)
  BY <1>7, <1>8 DEF LessonOk, stepLesson, MemoryTypes
<1>10. steps = [i \in 1 .. Len(done) |-> steps[i]]
  BY <1>7
<1> HIDE DEF steps
<1>11. LessonsOk(steps, said)
  BY <1>7, <1>9, <1>10, LessonsFrom
<1>12. LessonsOk(lessons, said)
  BY <1>3, <1>4, <1>11, MoreLessons
<1> DEFINE firm == {i \in DOMAIN lessons : lessons[i].conf >= 70}
<1>13. firm \in SUBSET (DOMAIN lessons)
  OBVIOUS
<1> HIDE DEF lessons
<1>14. heuristicReflect(s) = IF s.history = <<>> THEN <<>> ELSE those(lessons, firm)
  BY <1>5
<1> HIDE DEF firm
<1>15. LessonsOk(those(lessons, firm), said)
  BY <1>12, <1>13, SomeLessons
<1> QED
  BY <1>14, <1>15, FewLessons

\* The lessons that a model writes.
LEMMA ParsedLessons ==
  ASSUME NEW said, NEW s, NEW reply \in Replies \cup {<<>>}
  PROVE  LessonsOk(parseLessons(reply, s), said)
<1> DEFINE fit == {i \in DOMAIN reply : ~isGenericLesson(reply[i]) /\ reply[i].conf >= 60}
           kept == those(reply, fit)
           lessons == [i \in DOMAIN kept |->
              [content |-> [kind |-> "text", say |-> kept[i].say, words |-> kept[i].words],
               type |-> IF kept[i].type \in MemoryTypes THEN kept[i].type ELSE "semantic",
               conf |-> kept[i].conf,
               tags |-> kept[i].tags \cup {"topic"} \cup domainTag(s),
               topic |-> s.task, site |-> s.site]]
<1>1. parseLessons(reply, s) = lessons
  BY DEF parseLessons
<1>2. reply \in Seq(ToSet(reply))
  <2>1. CASE reply \in Replies
    BY <2>1, TextAssumption DEF TextAssumption
  <2>2. CASE reply = <<>>
    BY <2>2, EmptySeq
  <2> QED
    BY <2>1, <2>2
<1>3. DOMAIN reply = 1 .. Len(reply) /\ \A i \in 1 .. Len(reply) : reply[i] \in ToSet(reply)
  BY <1>2, OwnElements
<1>4. fit \in SUBSET (DOMAIN reply)
  OBVIOUS
<1> HIDE DEF fit
<1>5. kept \in Seq(ToSet(reply)) /\ \A n \in 1 .. Len(kept) : \E i \in fit : kept[n] = reply[i]
  BY <1>2, <1>4, Those
<1> HIDE DEF kept
<1>6. Len(kept) \in Nat /\ DOMAIN kept = 1 .. Len(kept)
  BY <1>5, LenProperties
<1>7. ASSUME NEW i \in 1 .. Len(kept) PROVE LessonOk(lessons[i], said)
  <2> DEFINE c == [kind |-> "text", say |-> kept[i].say, words |-> kept[i].words]
  <2>1. PICK j \in 1 .. Len(reply) : kept[i] = reply[j]
    BY <1>3, <1>4, <1>5
  <2>2. reply \in Replies
    <3>1. reply # <<>>
      BY <2>1, EmptySeq
    <3> QED
      BY <3>1
  <2>3. kept[i] \in UNION {ToSet(r) : r \in Replies}
    BY <1>3, <2>1, <2>2
  <2>4. c \in Contents /\ c.kind = "text"
    <3> DEFINE Raws == UNION {ToSet(r) : r \in Replies}
    <3>1. kept[i] \in Raws
      BY <2>3
    <3> HIDE DEF Raws
    <3>2. c \in {[kind |-> "text", say |-> raw.say, words |-> raw.words] : raw \in Raws}
      BY <3>1
    <3> HIDE DEF c
    <3>3. c \in Contents
      BY <3>2 DEF Contents, Raws
    <3> QED
      BY <3>3 DEF c
  <2>5. lessons[i].content = c /\ lessons[i].type \in MemoryTypes
    BY <1>6 DEF MemoryTypes
  <2> HIDE DEF c, lessons
  <2> QED
    BY <2>4, <2>5 DEF LessonOk
<1>8. lessons = [i \in 1 .. Len(kept) |-> lessons[i]]
  BY <1>6
<1> HIDE DEF lessons
<1> QED
  BY <1>1, <1>6, <1>7, <1>8, LessonsFrom

\* Whatever a reflection comes to, through the gate, are lessons.
LEMMA Taught ==
  ASSUME NEW said, NEW s, StateOk(s, said), NEW lessons \in reflections(s)
  PROVE  LessonsOk(lessons, said) /\ LessonsOk(qualityGate(lessons, s), said)
<1>1. LessonsOk(heuristicReflect(s), said)
  BY HeuristicLessons
<1>2. \A reply \in Replies \cup {<<>>} : LessonsOk(parseLessons(reply, s), said)
  BY ParsedLessons
<1>3. lessons = heuristicReflect(s)
      \/ \E reply \in Replies \cup {<<>>} : lessons = parseLessons(reply, s)
  BY DEF reflections, llmReflections, localReplies
<1>4. LessonsOk(lessons, said)
  BY <1>1, <1>2, <1>3
<1> QED
  BY <1>4, FewLessons DEF qualityGate

-----------------------------------------------------------------------------
(* What the curator does to the memory. *)

\* More ids and more said keep a memory well formed.
LEMMA MemoryGrows ==
  ASSUME NEW db, NEW n \in Nat, NEW m \in Nat, n <= m, NEW said, NEW more, said \subseteq more,
         MemoryOk(db, n, said)
  PROVE  MemoryOk(db, m, more)
<1>1. 1 .. n - 1 \subseteq 1 .. m - 1
  OBVIOUS
<1> QED
  BY <1>1 DEF MemoryOk, BulletOk

\* A bullet stays one under a patch.
LEMMA PatchedBullet ==
  ASSUME NEW said, NEW b, BulletOk(b, said), NEW p, PatchOk(p)
  PROVE  BulletOk(patched(b, p), said) /\ patched(b, p).type = b.type
<1> DEFINE q == patched(b, p)
<1>1. q = [x \in DOMAIN b |-> IF x \in DOMAIN p THEN p[x] ELSE b[x]]
  BY DEF patched
<1>2. DOMAIN b = Fields /\ DOMAIN p \subseteq {"helpful", "strength", "access"}
  BY DEF BulletOk, PatchOk
<1>3. DOMAIN q = Fields /\ \A x \in Fields : q[x] = IF x \in DOMAIN p THEN p[x] ELSE b[x]
  BY <1>1, <1>2 DEF Fields
<1> HIDE DEF q
<1>4. q.content = b.content /\ q.type = b.type
  BY <1>2, <1>3 DEF Fields
<1>5. q.helpful \in Nat /\ q.strength \in 2 .. 10 /\ q.access \in 0 .. 2
  BY <1>2, <1>3 DEF Fields, BulletOk, PatchOk
<1> QED
  BY <1>3, <1>4, <1>5 DEF BulletOk, q

\* Nothing is added or deleted, and every bullet keeps its type.
SameTypes(a, b) == DOMAIN a = DOMAIN b /\ \A id \in DOMAIN a : a[id].type = b[id].type

\* Updating bullets.
LEMMA UpdatedMemory ==
  ASSUME NEW said, NEW next \in Nat, NEW db, MemoryOk(db, next, said),
         NEW patches, \A id \in DOMAIN patches : PatchOk(patches[id])
  PROVE  MemoryOk(updated(db, patches), next, said) /\ SameTypes(updated(db, patches), db)
<1>1. DOMAIN updated(db, patches) = DOMAIN db
  BY DEF updated
<1>2. ASSUME NEW id \in DOMAIN db
      PROVE  BulletOk(updated(db, patches)[id], said) /\ updated(db, patches)[id].type = db[id].type
  <2>1. BulletOk(db[id], said)
    BY DEF MemoryOk
  <2>2. CASE id \in DOMAIN patches
    <3>1. BulletOk(patched(db[id], patches[id]), said) /\ patched(db[id], patches[id]).type = db[id].type
      BY <2>1, <2>2, PatchedBullet
    <3> QED
      BY <2>2, <3>1 DEF updated
  <2>3. CASE id \notin DOMAIN patches
    BY <2>1, <2>3 DEF updated
  <2> QED
    BY <2>2, <2>3
<1> QED
  BY <1>1, <1>2 DEF MemoryOk, SameTypes

\* A lesson becomes a bullet.
LEMMA NewBullets ==
  ASSUME NEW said, NEW l, LessonOk(l, said)
  PROVE  BulletOk(newBullet(l), said)
  BY DEF LessonOk, BulletOk, newBullet, Fields

\* What a delta leaves, by type.
TypesFrom(after, db, lessons) ==
  \A id \in DOMAIN after :
    /\ id < nextId => id \in DOMAIN db /\ after[id].type = db[id].type
    /\ ~(id < nextId) => after[id].type = lessons[id - nextId + 1].type

\* Applying a delta.
LEMMA AppliedMemory ==
  ASSUME NEW said, nextId \in Nat \ {0}, NEW db, MemoryOk(db, nextId, said),
         NEW lessons, LessonsOk(lessons, said),
         NEW patches, \A id \in DOMAIN patches : PatchOk(patches[id])
  PROVE  /\ MemoryOk(applied(db, lessons, patches), nextId + Len(lessons), said)
         /\ DOMAIN applied(db, lessons, patches)
              \subseteq DOMAIN db \cup (nextId .. nextId + Len(lessons) - 1)
         /\ TypesFrom(applied(db, lessons, patches), db, lessons)
<1> DEFINE next == nextId + Len(lessons)
           up == upserted(db, nextId, lessons)
<1>1. Len(lessons) \in Nat /\ \A i \in 1 .. Len(lessons) : LessonOk(lessons[i], said)
  <2>1. lessons \in Seq(ToSet(lessons)) /\ \A i \in 1 .. Len(lessons) : LessonOk(lessons[i], said)
    BY DEF LessonsOk
  <2> QED
    BY <2>1, LenProperties
<1>2. PICK n \in Nat : n = nextId /\ n > 0
  OBVIOUS
<1>3. PICK k \in Nat : k = Len(lessons)
  BY <1>1
<1>4. /\ DOMAIN up = DOMAIN db \cup (n .. n + k - 1)
      /\ \A id \in DOMAIN up : up[id] = IF id < n THEN db[id] ELSE newBullet(lessons[id - n + 1])
  BY <1>2, <1>3 DEF upserted
<1>5. DOMAIN db \subseteq 1 .. n - 1 /\ \A id \in DOMAIN db : BulletOk(db[id], said)
  BY <1>2 DEF MemoryOk
<1> HIDE DEF up
<1>6. ASSUME NEW id \in DOMAIN up PROVE BulletOk(up[id], said)
  <2>1. CASE id \in DOMAIN db
    <3>1. id \in 1 .. n - 1
      BY <1>5, <2>1
    <3>2. id < n
      BY <3>1
    <3> QED
      BY <1>4, <1>5, <2>1, <3>2
  <2>2. CASE id \in n .. n + k - 1
    <3>1. id - n + 1 \in 1 .. k /\ ~(id < n)
      BY <2>2
    <3>2. BulletOk(newBullet(lessons[id - n + 1]), said)
      BY <1>1, <1>3, <3>1, NewBullets
    <3> QED
      BY <1>4, <3>1, <3>2
  <2> QED
    BY <1>4, <2>1, <2>2
<1>7. DOMAIN up \subseteq 1 .. n + k - 1
  <2>1. 1 .. n - 1 \subseteq 1 .. n + k - 1 /\ n .. n + k - 1 \subseteq 1 .. n + k - 1
    BY <1>2
  <2> QED
    BY <1>4, <1>5, <2>1
<1>8. MemoryOk(up, n + k, said)
  BY <1>6, <1>7 DEF MemoryOk
<1>9. applied(db, lessons, patches) = updated(up, patches)
  BY DEF applied, up
<1>10. MemoryOk(updated(up, patches), n + k, said) /\ SameTypes(updated(up, patches), up)
  BY <1>8, UpdatedMemory
<1>11. TypesFrom(updated(up, patches), db, lessons)
  <2>1. \A id \in DOMAIN up : id < n => id \in DOMAIN db /\ up[id].type = db[id].type
    BY <1>4
  <2>2. \A id \in DOMAIN up : ~(id < n) => up[id].type = lessons[id - n + 1].type
    <3>1. \A l : newBullet(l).type = l.type
      BY DEF newBullet
    <3> QED
      BY <1>4, <3>1
  <2> QED
    BY <1>2, <1>10, <2>1, <2>2 DEF TypesFrom, SameTypes
<1> QED
  BY <1>2, <1>3, <1>4, <1>9, <1>10, <1>11 DEF SameTypes

\* What a lesson repeats is in the memory.
LEMMA DuplicatesKnown ==
  ASSUME NEW said, NEW next \in Nat, NEW db, MemoryOk(db, next, said), NEW l
  PROVE  duplicates(l, db) \subseteq DOMAIN db
<1> DEFINE same == {id \in DOMAIN db : db[id].content = l.content}
           alike == {id \in DOMAIN db : Similarity(l.content, db[id].content) >= 90}
<1>1. duplicates(l, db) = IF same # {} THEN {Max(same)} ELSE IF alike # {} THEN {Min(alike)} ELSE {}
  BY DEF duplicates
<1>2. same \in SUBSET (0 .. next) /\ alike \in SUBSET Nat
  BY DEF MemoryOk
<1>3. same \subseteq DOMAIN db /\ alike \subseteq DOMAIN db
  OBVIOUS
<1> HIDE DEF same, alike
<1>4. same # {} => Max(same) \in same
  BY <1>2, GreatestNumber
<1>5. alike # {} => Min(alike) \in alike
  BY <1>2, LeastNumber
<1> QED
  BY <1>1, <1>3, <1>4, <1>5

\* A delta is made of lessons and of patches of what is known.
LEMMA Curated ==
  ASSUME NEW said, NEW next \in Nat, NEW db, MemoryOk(db, next, said),
         NEW lessons, LessonsOk(lessons, said)
  PROVE  LET delta == curate(lessons, db)
         IN  /\ LessonsOk(delta.fresh, said)
             /\ DOMAIN delta.patch \subseteq DOMAIN db
             /\ \A id \in DOMAIN delta.patch : PatchOk(delta.patch[id])
<1> DEFINE known == UNION {duplicates(lessons[i], db) : i \in DOMAIN lessons}
           kept == {i \in DOMAIN lessons : duplicates(lessons[i], db) = {}}
<1>1. /\ curate(lessons, db).fresh = those(lessons, kept)
      /\ curate(lessons, db).patch = [id \in known |-> patchOf(id, lessons, db)]
  BY DEF curate
<1>2. known \subseteq DOMAIN db
  BY DuplicatesKnown
<1>3. kept \in SUBSET (DOMAIN lessons)
  OBVIOUS
<1> HIDE DEF known, kept
<1>4. LessonsOk(those(lessons, kept), said)
  BY <1>3, SomeLessons
<1>5. ASSUME NEW id \in known PROVE PatchOk(patchOf(id, lessons, db))
  <2> DEFINE again == {i \in DOMAIN lessons : duplicates(lessons[i], db) = {id}}
             n == Cardinality(again)
             s == Least(db[id].strength + 1, 10)
  <2>1. IsFiniteSet(again)
    <3>1. lessons \in Seq(ToSet(lessons))
      BY DEF LessonsOk
    <3>2. DOMAIN lessons = 1 .. Len(lessons) /\ Len(lessons) \in Nat
      BY <3>1, LenProperties
    <3>3. IsFiniteSet(DOMAIN lessons)
      BY <3>2, FS_Interval
    <3> QED
      BY <3>3, FS_Subset
  <2>2. n \in Nat
    <3> HIDE DEF again
    <3> QED
      BY <2>1, FS_CardinalityType
  <2>3. s \in 2 .. 10
    <3>1. db[id].strength \in 2 .. 10
      BY <1>2 DEF MemoryOk, BulletOk
    <3> QED
      BY <3>1 DEF Least
  <2>4. \/ patchOf(id, lessons, db) = [helpful |-> n, strength |-> s]
        \/ patchOf(id, lessons, db) = [helpful |-> n]
    BY DEF patchOf
  <2> HIDE DEF n, s
  <2> QED
    BY <2>2, <2>3, <2>4 DEF PatchOk
<1> QED
  BY <1>1, <1>2, <1>4, <1>5

\* The first lessons are lessons.
LEMMA FirstLessons ==
  ASSUME NEW said, NEW lessons, LessonsOk(lessons, said), NEW m \in 0 .. Len(lessons)
  PROVE  LessonsOk(SubSeq(lessons, 1, m), said) /\ Len(SubSeq(lessons, 1, m)) = m
<1> DEFINE S == ToSet(lessons)
           t == SubSeq(lessons, 1, m)
<1>1. lessons \in Seq(S)
  BY DEF LessonsOk
<1> HIDE DEF S
<1>2. Len(lessons) \in Nat
  BY <1>1, LenProperties
<1>3. \A i \in 1 .. m : lessons[i] \in S
  BY <1>1, <1>2, ElementOfSeq
<1>4. /\ t \in Seq(S) /\ Len(t) = (IF 1 <= m THEN m - 1 + 1 ELSE 0)
      /\ \A i \in 1 .. m - 1 + 1 : t[i] = lessons[1 + i - 1]
  BY <1>2, <1>3, SubSeqProperties
<1> HIDE DEF t
<1>5. Len(t) = m /\ \A i \in 1 .. m : t[i] = lessons[i]
  BY <1>2, <1>4
<1>6. t \in Seq(ToSet(t))
  BY <1>4, OwnElements
<1>7. \A i \in 1 .. m : LessonOk(t[i], said)
  BY <1>2, <1>5 DEF LessonsOk
<1> QED
  BY <1>5, <1>6, <1>7 DEF LessonsOk, t

-----------------------------------------------------------------------------
(* What is retrieved, and the plans. *)

\* The contents that bullets have tell what kind they are.
LEMMA ContentKinds ==
  /\ \A c \in Contents : c.kind = "step" => c \in StepContents
  /\ \A c \in StepContents : c.kind = "step" /\ c.index \in Nat
<1>1. \A c \in StepContents : c.kind = "step" /\ c.index \in Nat
  <2>1. \A step \in Steps : step.index \in Nat
    BY TraceAssumption DEF TraceAssumption, Steps
  <2>2. SUFFICES ASSUME NEW c \in StepContents PROVE c.kind = "step" /\ c.index \in Nat
    OBVIOUS
  <2>3. c.kind = "step" /\ c.index \in {step.index : step \in Steps}
    BY DEF StepContents
  <2> QED
    BY <2>1, <2>3
<1>2. ASSUME NEW c \in Contents, c.kind = "step" PROVE c \in StepContents
  <2>1. \A t \in Traces : summaryContent(t).kind = "summary" /\ affinityContent(t).kind = "affinity"
    BY DEF summaryContent, affinityContent
  <2> QED
    BY <1>2, <2>1 DEF Contents
<1> QED
  BY <1>1, <1>2

\* What is left of a strength is a number.
LEMMA StrengthType ==
  ASSUME NEW said, NEW b, BulletOk(b, said), NEW clock \in 0 .. 2
  PROVE  totalDecayedStrength(b, clock) \in Nat
<1>1. decay(b, clock) \in Nat
  <2> DEFINE delta == Most(0, clock - b.access)
  <2>1. delta \in 0 .. 2
    BY DEF BulletOk, Most
  <2>2. CASE delta = 0
    BY <2>2 DEF decay
  <2>3. CASE delta # 0
    <3>1. Least(2, delta) \in 1 .. 2
      BY <2>1, <2>3 DEF Least
    <3>2. \A i \in 1 .. 2 : decayRate(b.type)[i] \in Nat
      BY DEF decayRate, BulletOk, MemoryTypes
    <3>3. decay(b, clock) = decayRate(b.type)[Least(2, delta)]
      BY <2>3 DEF decay
    <3> HIDE DEF delta
    <3> QED
      BY <3>1, <3>2, <3>3
  <2> QED
    BY <2>2, <2>3
<1>2. b.strength \in Nat
  BY DEF BulletOk
<1> QED
  BY <1>1, <1>2 DEF totalDecayedStrength

\* The score of a bullet is a number.
LEMMA ScoreType ==
  ASSUME NEW said, NEW b, BulletOk(b, said), NEW task \in Tasks, NEW clock \in 1 .. 2
  PROVE  scoreBullet(b, task, clock) \in Int
<1>1. Similarity(Query(task), b.content) \in Nat
  BY TextAssumption DEF TextAssumption, Tasks, BulletOk
<1>2. TypePriority(b.type) \in Nat
  BY DEF BulletOk, MemoryTypes, TypePriority
<1>3. totalDecayedStrength(b, clock) \in Nat
  BY StrengthType
<1> QED
  BY <1>1, <1>2, <1>3 DEF scoreBullet

\* A ranking of the memory has all of it.
LEMMA Ranking ==
  ASSUME NEW said, NEW next \in Nat, NEW db, MemoryOk(db, next, said), NEW rank \in [DOMAIN db -> Int]
  PROVE  /\ IsFiniteSet(DOMAIN db) /\ Cardinality(DOMAIN db) \in Nat
         /\ ranked(db, rank) \in Seq(DOMAIN db) /\ Len(ranked(db, rank)) = Cardinality(DOMAIN db)
         /\ Covers(ranked(db, rank), DOMAIN db)
<1> DEFINE S == DOMAIN db
           key == [id \in S |-> -rank[id]]
           tie == [id \in S |-> id]
<1>1. S \in SUBSET (1 .. next - 1) /\ IsFiniteSet(S)
  <2>1. S \in SUBSET (1 .. next - 1)
    BY DEF MemoryOk
  <2>2. IsFiniteSet(1 .. next - 1)
    BY FS_Interval
  <2> HIDE DEF S
  <2> QED
    BY <2>1, <2>2, FS_Subset
<1>2. key \in [S -> Int]
  OBVIOUS
<1>3. tie \in [S -> Int] /\ \A x, y \in S : tie[x] = tie[y] => x = y
  BY <1>1
<1>4. ranked(db, rank) = sorted(S, key, tie)
  BY DEF ranked
<1> HIDE DEF S, key, tie
<1>5. Cardinality(S) \in Nat
  BY <1>1, FS_CardinalityType
<1>6. /\ sorted(S, key, tie) \in Seq(S) /\ Len(sorted(S, key, tie)) = Cardinality(S)
      /\ Covers(sorted(S, key, tie), S)
  BY <1>1, <1>2, <1>3, Sorted
<1> QED
  BY <1>1, <1>4, <1>5, <1>6 DEF S

\* What is retrieved is in the memory.
LEMMA Retrieved ==
  ASSUME NEW said, NEW next \in Nat, NEW db, MemoryOk(db, next, said),
         NEW task \in Tasks, NEW clock \in 1 .. 2
  PROVE  retrieved(db, task, clock) \in Seq(DOMAIN db)
<1> DEFINE rank == [id \in DOMAIN db |-> scoreBullet(db[id], task, clock)]
           order == ranked(db, rank)
           open == {i \in DOMAIN order : ~db[order[i]].credential}
           found == those(order, open)
           n == Least(TopK, Len(found))
<1>1. rank \in [DOMAIN db -> Int]
  <2>1. \A id \in DOMAIN db : scoreBullet(db[id], task, clock) \in Int
    BY ScoreType DEF MemoryOk
  <2> QED
    BY <2>1
<1>2. retrieved(db, task, clock) = SubSeq(found, 1, n)
  BY DEF retrieved
<1>3. open \in SUBSET (DOMAIN order)
  OBVIOUS
<1> HIDE DEF rank
<1>4. order \in Seq(DOMAIN db)
  BY <1>1, Ranking
<1> HIDE DEF order, open
<1>5. found \in Seq(DOMAIN db)
  BY <1>3, <1>4, Those
<1> HIDE DEF found
<1>6. Len(found) \in Nat
  BY <1>5, LenProperties
<1>7. n \in Nat /\ n <= Len(found)
  BY <1>6, MemoryAssumption DEF MemoryAssumption, Least
<1> HIDE DEF n
<1>8. \A i \in 1 .. n : found[i] \in DOMAIN db
  BY <1>5, <1>6, <1>7, ElementOfSeq
<1>9. SubSeq(found, 1, n) \in Seq(DOMAIN db)
  BY <1>7, <1>8, SubSeqProperties
<1> QED
  BY <1>2, <1>9

\* The procedural ones of an order, all of them.
LEMMA Procedural ==
  ASSUME NEW db, NEW order \in Seq(DOMAIN db)
  PROVE  /\ procedural(order, db) \in Seq(DOMAIN db)
         /\ \A n \in 1 .. Len(procedural(order, db)) : db[procedural(order, db)[n]].type = "procedural"
         /\ \A n \in 1 .. Len(procedural(order, db)) :
              \E i \in 1 .. Len(order) : procedural(order, db)[n] = order[i]
         /\ \A i \in 1 .. Len(order) : db[order[i]].type = "procedural" =>
              \E n \in 1 .. Len(procedural(order, db)) : procedural(order, db)[n] = order[i]
<1> DEFINE kept == {i \in DOMAIN order : db[order[i]].type = "procedural"}
           t == those(order, kept)
<1>1. procedural(order, db) = t
  BY DEF procedural
<1>2. kept \in SUBSET (DOMAIN order)
  OBVIOUS
<1>3. DOMAIN order = 1 .. Len(order)
  BY LenProperties
<1> HIDE DEF kept
<1>4. /\ t \in Seq(DOMAIN db)
      /\ \A n \in 1 .. Len(t) : \E i \in kept : t[n] = order[i]
      /\ \A i \in kept : \E n \in 1 .. Len(t) : t[n] = order[i]
  BY <1>2, Those
<1> HIDE DEF t
<1> QED
  BY <1>1, <1>3, <1>4 DEF kept

\* The bullets of one topic of an order, all of them.
LEMMA OfTopic ==
  ASSUME NEW db, NEW order \in Seq(DOMAIN db), NEW topic
  PROVE  /\ ofTopic(topic, order, db) \in Seq(DOMAIN db)
         /\ \A n \in 1 .. Len(ofTopic(topic, order, db)) :
              \E i \in 1 .. Len(order) : ofTopic(topic, order, db)[n] = order[i]
         /\ \A i \in 1 .. Len(order) : db[order[i]].topic = topic =>
              \E n \in 1 .. Len(ofTopic(topic, order, db)) : ofTopic(topic, order, db)[n] = order[i]
<1> DEFINE kept == {i \in DOMAIN order : db[order[i]].topic = topic}
           t == those(order, kept)
<1>1. ofTopic(topic, order, db) = t
  BY DEF ofTopic
<1>2. kept \in SUBSET (DOMAIN order)
  OBVIOUS
<1>3. DOMAIN order = 1 .. Len(order)
  BY LenProperties
<1> HIDE DEF kept
<1>4. /\ t \in Seq(DOMAIN db)
      /\ \A n \in 1 .. Len(t) : \E i \in kept : t[n] = order[i]
      /\ \A i \in kept : \E n \in 1 .. Len(t) : t[n] = order[i]
  BY <1>2, Those
<1> HIDE DEF t
<1> QED
  BY <1>1, <1>3, <1>4 DEF kept

\* Every element of s is one of t.
Within(s, t) == \A j \in 1 .. Len(s) : \E i \in 1 .. Len(t) : s[j] = t[i]

\* The places in an order of steps are those of the order, all of them.
LEMMA StepOrder ==
  ASSUME NEW said, NEW next \in Nat, NEW db, MemoryOk(db, next, said), NEW order \in Seq(DOMAIN db)
  PROVE  LET steps == inStepOrder(order, db)
         IN  steps \in Seq(DOMAIN db) /\ Within(steps, order) /\ Within(order, steps)
<1> DEFINE S == {order[i] : i \in DOMAIN order}
           key == [id \in S |-> stepIndex(db[id])]
           tie == [id \in S |-> CHOOSE i \in DOMAIN order : order[i] = id]
           steps == sorted(S, key, tie)
<1>1. inStepOrder(order, db) = steps
  BY DEF inStepOrder
<1>2. Len(order) \in Nat /\ DOMAIN order = 1 .. Len(order) /\ order \in [1 .. Len(order) -> DOMAIN db]
  BY LenProperties
<1>3. S \in SUBSET (DOMAIN db)
  BY <1>2
<1>4. IsFiniteSet(S)
  <2>1. DOMAIN db \in SUBSET (1 .. next - 1) /\ IsFiniteSet(1 .. next - 1)
    BY FS_Interval DEF MemoryOk
  <2>2. S \in SUBSET (1 .. next - 1)
    BY <1>3, <2>1
  <2> HIDE DEF S
  <2> QED
    BY <2>1, <2>2, FS_Subset
<1>5. key \in [S -> Int]
  <2>1. ASSUME NEW id \in DOMAIN db PROVE stepIndex(db[id]) \in Int
    <3>1. db[id].content \in Contents
      BY DEF MemoryOk, BulletOk
    <3> QED
      BY <3>1, ContentKinds DEF stepIndex, isStep
  <2> QED
    BY <1>3, <2>1
<1>6. \A id \in S : tie[id] \in DOMAIN order /\ order[tie[id]] = id
  OBVIOUS
<1>7. tie \in [S -> Int] /\ \A x, y \in S : tie[x] = tie[y] => x = y
  <2>1. \A id \in S : tie[id] \in Int
    BY <1>2, <1>6
  <2>2. tie = [id \in S |-> tie[id]]
    OBVIOUS
  <2> HIDE DEF tie
  <2> QED
    BY <1>6, <2>1, <2>2
<1>8. (\A i \in 1 .. Len(order) : order[i] \in S) /\ \A x \in S : \E i \in 1 .. Len(order) : x = order[i]
  BY <1>2
<1> HIDE DEF S, key, tie
<1>9. steps \in Seq(S) /\ \A x \in S : \E i \in 1 .. Len(steps) : steps[i] = x
  <2>1. \A x, y \in S : tie[x] = tie[y] => x = y
    BY <1>7
  <2>2. tie \in [S -> Int]
    BY <1>7
  <2>3. sorted(S, key, tie) \in Seq(S)
    BY <1>4, <1>5, <2>1, <2>2, Sorted
  <2>4. Covers(sorted(S, key, tie), S)
    BY <1>4, <1>5, <2>1, <2>2, Sorted
  <2> QED
    BY <2>3, <2>4 DEF Covers
<1> HIDE DEF steps
<1>10. steps \in Seq(DOMAIN db)
  BY <1>3, <1>9, SeqMonotonic
<1>11. \A n \in 1 .. Len(steps) : steps[n] \in S
  BY <1>9, ElementOfSeq
<1>12. Within(steps, order)
  BY <1>8, <1>11 DEF Within
<1>13. Within(order, steps)
  BY <1>8, <1>9 DEF Within
<1> QED
  BY <1>1, <1>10, <1>12, <1>13

\* A fragment is the action of a step the memory holds, and is like the task.
LEMMA Fragments ==
  ASSUME NEW said, NEW next \in Nat, NEW db, MemoryOk(db, next, said),
         NEW order \in Seq(DOMAIN db), NEW task \in Tasks, NEW site
  PROVE  \A f \in fragmentPlan(order, db, task, site) : \E id \in DOMAIN db :
           /\ f = actionOf(db[id]) /\ isStep(db[id])
           /\ Similarity(Query(task), db[id].content) >= 86
<1> DEFINE own == procedural(order, db)
           steps == inStepOrder(own, db)
<1>1. own \in Seq(DOMAIN db)
  BY Procedural
<1> HIDE DEF own
<1>2. steps \in Seq(DOMAIN db)
  BY <1>1, StepOrder
<1> HIDE DEF steps
<1>3. DOMAIN steps = 1 .. Len(steps)
  BY <1>2, LenProperties
<1>4. ASSUME NEW f \in fragmentPlan(order, db, task, site)
      PROVE  \E i \in DOMAIN steps : f = actionOf(db[steps[i]]) /\ isStep(db[steps[i]])
                                     /\ clearsThreshold(db[steps[i]], task, site)
  BY DEF fragmentPlan, steps, own
<1>5. ASSUME NEW id \in DOMAIN db, clearsThreshold(db[id], task, site)
      PROVE  Similarity(Query(task), db[id].content) >= 86
  <2>1. db[id].content \in Contents
    BY DEF MemoryOk, BulletOk
  <2>2. PICK n \in Nat : n = Similarity(Query(task), db[id].content)
    BY <2>1, TextAssumption DEF TextAssumption, Tasks
  <2> DEFINE s == IF site # "" /\ db[id].site = site THEN 1000 ELSE 0
             h == IF db[id].high THEN 1500 ELSE 0
  <2>3. s \in 0 .. 1000 /\ h \in 0 .. 1500
    OBVIOUS
  <2>4. 70 * Similarity(Query(task), db[id].content) + s + 1000 - h > 8000
    <3>1. clearsThreshold(db[id], task, site) <=>
            70 * Similarity(Query(task), db[id].content) + s + 1000 - h > 8000
      BY DEF clearsThreshold
    <3> HIDE DEF s, h
    <3> QED
      BY <1>5, <3>1
  <2> HIDE DEF s, h
  <2>5. 70 * n + s + 1000 - h > 8000
    BY <2>2, <2>4
  <2>6. 70 * n > 6000
    <3>1. PICK x \in 0 .. 1000 : x = s
      BY <2>3
    <3>2. PICK y \in 0 .. 1500 : y = h
      BY <2>3
    <3>3. 70 * n + x + 1000 - y > 8000
      BY <2>5, <3>1, <3>2
    <3> QED
      BY <3>3
  <2>7. n >= 86
    BY <2>6
  <2> QED
    BY <2>2, <2>7
<1> QED
  BY <1>2, <1>3, <1>4, <1>5, ElementOfSeq

\* A plan is made of steps the memory holds.
LEMMA PlanFromMemory ==
  ASSUME NEW said, NEW next \in Nat, NEW db, MemoryOk(db, next, said),
         NEW order \in Seq(DOMAIN db), NEW task \in Tasks
  PROVE  \A i \in DOMAIN replayPlan(order, db, task) : \E id \in DOMAIN db :
           replayPlan(order, db, task)[i] = actionOf(db[id]) /\ isStep(db[id])
<1> DEFINE steps == procedural(order, db)
           topic(i) == db[steps[i]].topic
           score == [t \in {topic(i) : i \in DOMAIN steps} |-> topicScore(t, steps, db, task)]
           leads(i) == \A t \in DOMAIN score : score[t] <= score[topic(i)]
           best == topic(Min({i \in DOMAIN steps : leads(i)}))
           own == ofTopic(best, steps, db)
           chosen == inStepOrder(own, db)
           n == Least(MaxActions, Len(chosen))
           top == SubSeq(chosen, 1, n)
           kept == {i \in DOMAIN top : isStep(db[top[i]])}
           cut == those(top, kept)
<1>1. replayPlan(order, db, task) = IF steps = <<>> \/ score[best] < 85 THEN <<>>
                                    ELSE [i \in DOMAIN cut |-> actionOf(db[cut[i]])]
  BY DEF replayPlan
<1>2. steps \in Seq(DOMAIN db)
  BY Procedural
<1> HIDE DEF steps, best, score
<1>3. own \in Seq(DOMAIN db)
  BY <1>2, OfTopic
<1> HIDE DEF own
<1>4. chosen \in Seq(DOMAIN db)
  BY <1>3, StepOrder
<1> HIDE DEF chosen
<1>5. Len(chosen) \in Nat
  BY <1>4, LenProperties
<1>6. n \in Nat /\ n <= Len(chosen)
  BY <1>5, MemoryAssumption DEF MemoryAssumption, Least
<1> HIDE DEF n
<1>7. \A i \in 1 .. n : chosen[i] \in DOMAIN db
  BY <1>4, <1>5, <1>6, ElementOfSeq
<1>8. top \in Seq(DOMAIN db)
  BY <1>6, <1>7, SubSeqProperties
<1>9. kept \in SUBSET (DOMAIN top) /\ \A i \in kept : isStep(db[top[i]])
  OBVIOUS
<1> HIDE DEF top, kept
<1>10. cut \in Seq(DOMAIN db) /\ \A m \in 1 .. Len(cut) : \E i \in kept : cut[m] = top[i]
  BY <1>8, <1>9, Those
<1> HIDE DEF cut
<1>11. DOMAIN cut = 1 .. Len(cut) /\ \A m \in 1 .. Len(cut) : cut[m] \in DOMAIN db
  BY <1>10, LenProperties, ElementOfSeq
<1>12. DOMAIN (<<>>) = {}
  OBVIOUS
<1> QED
  BY <1>1, <1>9, <1>10, <1>11, <1>12

\* A fragment repeats a step that was said.
FragmentOk(f, task, said) ==
  /\ f.from \in StepContents \cap said /\ f.act = f.from.act
  /\ Similarity(Query(task), f.from) >= 86

\* What a step says of itself.
LEMMA StepSays ==
  ASSUME NEW i \in {step.index : step \in Steps}, NEW a \in {step.act : step \in Steps},
         NEW v \in {step.value : step \in Steps} \cup {"", "marker"}
  PROVE  [kind |-> "step", index |-> i, act |-> a, value |-> v] \in StepContents
  BY DEF StepContents

\* No content of a step is a secret.
LEMMA NoSecret ==
  ASSUME NEW step
  PROVE  stepContent(step).value # "secret"
<1>1. stepContent(step).value = IF isCredential(step) /\ step.value # "" THEN "marker" ELSE step.value
  BY DEF stepContent, safeValue
<1>2. step.value = "secret" => isCredential(step)
  BY DEF isCredential
<1>3. CASE isCredential(step) /\ step.value # ""
  BY <1>1, <1>3
<1>4. CASE ~(isCredential(step) /\ step.value # "")
  <2>1. step.value # "secret"
    BY <1>2, <1>4
  <2> QED
    BY <1>1, <1>4, <2>1
<1> QED
  BY <1>3, <1>4

\* A run that the memory's fragments took part in can be reflected on.
LEMMA ExecutedState ==
  ASSUME NEW said, NEW more, NEW task, NEW t \in Traces,
         \A f \in run.fragments : FragmentOk(f, task, said),
         \A step \in ToSet(successfulSteps(executed(t).history)) : stepContent(step) \in more
  PROVE  StateOk(executed(t), more)
<1> DEFINE stands(i) == {f \in run.fragments : i > 1 /\ f.index = t.history[i].index /\ ~f.model}
           new(i) == [t.history[i] EXCEPT !.act = (CHOOSE f \in stands(i) : TRUE).act, !.value = ""]
           h == [i \in DOMAIN t.history |-> IF stands(i) = {} THEN t.history[i] ELSE new(i)]
           n == Len(t.history)
<1>1. executed(t) = [t EXCEPT !.history = h]
  BY DEF executed
<1>2. /\ DOMAIN t = {"task", "site", "history", "complete", "cost"}
      /\ t.history \in Seq(ToSet(t.history))
      /\ \A step \in ToSet(t.history) : DOMAIN step = {"index", "act", "value", "ok", "high", "conf"}
  BY TraceAssumption DEF TraceAssumption
<1>3. n \in Nat /\ DOMAIN t.history = 1 .. n /\ \A i \in 1 .. n : t.history[i] \in ToSet(t.history)
  <2> DEFINE g == t.history
  <2>1. g \in Seq(ToSet(g))
    BY <1>2
  <2> HIDE DEF g
  <2>2. Len(g) \in Nat /\ DOMAIN g = 1 .. Len(g) /\ \A i \in 1 .. Len(g) : g[i] \in ToSet(g)
    BY <2>1, OwnElements
  <2> QED
    BY <2>2 DEF g
<1>4. ToSet(t.history) \subseteq Steps
  BY DEF Steps
<1>5. ASSUME NEW i \in 1 .. n PROVE stepContent(h[i]) \in StepContents
  <2> DEFINE s == t.history[i]
  <2>1. s \in Steps /\ DOMAIN s = {"index", "act", "value", "ok", "high", "conf"}
    BY <1>2, <1>3, <1>4
  <2>2. CASE stands(i) = {}
    <3>1. h[i] = s
      BY <1>3, <2>2
    <3>2. safeValue(s) \in {step.value : step \in Steps} \cup {"", "marker"}
      BY <2>1 DEF safeValue
    <3>3. s.index \in {step.index : step \in Steps} /\ s.act \in {step.act : step \in Steps}
      BY <2>1
    <3> HIDE DEF s, h
    <3>4. stepContent(s) \in StepContents
      BY <3>2, <3>3, StepSays DEF stepContent
    <3> QED
      BY <3>1, <3>4
  <2>3. CASE stands(i) # {}
    <3> DEFINE f == CHOOSE f \in stands(i) : TRUE
               a == f.act
               u == [s EXCEPT !.act = a, !.value = ""]
    <3>1. h[i] = u
      BY <1>3, <2>3
    <3>2. f \in run.fragments
      BY <2>3
    <3>3. a \in {step.act : step \in Steps}
      <4> HIDE DEF f
      <4>1. f.from \in StepContents /\ a = f.from.act
        BY <3>2 DEF FragmentOk
      <4>2. f.from.act \in {step.act : step \in Steps}
        BY <4>1 DEF StepContents
      <4> QED
        BY <4>1, <4>2
    <3> HIDE DEF a, f
    <3>4. u.index = s.index /\ u.act = a /\ u.value = ""
      BY <2>1
    <3>5. s.index \in {step.index : step \in Steps}
      BY <2>1
    <3> HIDE DEF s, h, u
    <3>6. safeValue(u) = ""
      BY <3>4 DEF safeValue
    <3>7. stepContent(u) = [kind |-> "step", index |-> s.index, act |-> a, value |-> ""]
      BY <3>4, <3>6 DEF stepContent
    <3>8. stepContent(u) \in StepContents
      BY <3>3, <3>5, <3>7, StepSays
    <3> QED
      BY <3>1, <3>8
  <2> QED
    BY <2>2, <2>3
<1>6. h = [i \in 1 .. n |-> h[i]]
  BY <1>3
<1> HIDE DEF h
<1> DEFINE e == executed(t)
<1>7. /\ e.history = h /\ e.task = t.task /\ e.site = t.site /\ e.cost = t.cost
  BY <1>1, <1>2
<1>8. h \in Seq(ToSet(h)) /\ Len(h) = n
  <2> DEFINE S == {h[i] : i \in 1 .. n}
  <2>1. h \in [1 .. n -> S]
    BY <1>6
  <2> HIDE DEF S, n
  <2>2. h \in Seq(S) /\ Len(h) = n
    BY <1>3, <2>1, FromFunction
  <2> QED
    BY <2>2, OwnElements
<1>9. summaryContent(e) = summaryContent(t) /\ affinityContent(e) = affinityContent(t)
  BY <1>7, <1>8 DEF summaryContent, affinityContent
<1>10. summaryContent(e) \in Contents /\ affinityContent(e) \in Contents
  BY <1>9 DEF Contents
<1>11. StepContents \subseteq Contents
  BY DEF Contents
<1> HIDE DEF e
<1>12. \A step \in ToSet(successfulSteps(e.history)) : stepContent(step) \in more
  BY DEF e
<1> QED
  BY <1>5, <1>7, <1>8, <1>10, <1>11, <1>12 DEF StateOk, e

-----------------------------------------------------------------------------
(* The invariant. *)

\* The live run: what it loaded, and its plans.
RunOk(r, next, said) ==
  /\ DOMAIN r = {"phase", "task", "site", "memory", "fragments", "plan"}
  /\ r.phase \in {"idle", "fragments", "replay", "replaying", "loop"}
  /\ r.phase # "idle" => r.task \in Tasks
  /\ MemoryOk(r.memory, next, said)
  /\ \A f \in r.fragments : FragmentOk(f, r.task, said)
  /\ \A i \in DOMAIN r.plan : r.plan[i].from \in said

\* A reflection: what it loaded, and what it is about.
WorkerOk(x, next, said) ==
  /\ DOMAIN x = {"phase", "state", "memory"}
  /\ x.phase \in {"free", "load", "reflect", "refine"}
  /\ MemoryOk(x.memory, next, said)
  /\ x.phase \in {"load", "reflect"} => StateOk(x.state, said)

\* The database: no id is given twice, so what was removed is not written again.
StoreInv ==
  /\ nextId \in Nat \ {0} /\ MemoryOk(stored, nextId, taught)
  /\ removed \subseteq 1 .. nextId - 1 /\ removed \cap DOMAIN stored = {}
  /\ \A c \in taught : c.value # "secret"

CountInv == runs \in 0 .. MaxRuns /\ failures \in 0 .. MaxFailures

WorkersInv ==
  worker = [w \in Workers |-> worker[w]] /\ \A w \in Workers : WorkerOk(worker[w], nextId, taught)

\* Two memories that know a bullet agree on its type.
Agree(a, b) == \A id \in DOMAIN a \cap DOMAIN b : a[id].type = b[id].type

AgreeInv == \A w \in Workers : Agree(worker[w].memory, stored)

\* The inductive invariant.
Inv == StoreInv /\ CountInv /\ RunOk(run, nextId, taught) /\ WorkersInv /\ AgreeInv

\* Nothing is in no memory.
LEMMA NothingHeld ==
  ASSUME NEW next \in Nat, NEW said
  PROVE  /\ MemoryOk(NoMemory, next, said) /\ RunOk(Idle, next, said) /\ WorkerOk(Free, next, said)
         /\ \A db : Agree(NoMemory, db) /\ Agree(Free.memory, db)
<1>1. DOMAIN NoMemory = {}
  BY DEF NoMemory
<1>2. MemoryOk(NoMemory, next, said)
  BY <1>1 DEF MemoryOk
<1>3. RunOk(Idle, next, said)
  <2>1. DOMAIN (<<>>) = {}
    OBVIOUS
  <2> QED
    BY <1>2, <2>1 DEF Idle, RunOk
<1>4. WorkerOk(Free, next, said)
  BY <1>2 DEF Free, WorkerOk
<1>5. \A db : Agree(NoMemory, db) /\ Agree(Free.memory, db)
  BY <1>1 DEF Agree, Free
<1> QED
  BY <1>2, <1>3, <1>4, <1>5

\* What was well formed stays so when ids are given and more is said.
LEMMA Grows ==
  ASSUME NEW n \in Nat, NEW m \in Nat, n <= m, NEW said, NEW more, said \subseteq more
  PROVE  /\ \A r : RunOk(r, n, said) => RunOk(r, m, more)
         /\ \A x : WorkerOk(x, n, said) => WorkerOk(x, m, more)
<1>1. \A db : MemoryOk(db, n, said) => MemoryOk(db, m, more)
  BY MemoryGrows
<1>2. ASSUME NEW r, RunOk(r, n, said) PROVE RunOk(r, m, more)
  BY <1>1, <1>2 DEF RunOk, FragmentOk
<1>3. ASSUME NEW x, WorkerOk(x, n, said) PROVE WorkerOk(x, m, more)
  <2>1. \A s : StateOk(s, said) => StateOk(s, more)
    BY DEF StateOk
  <2> QED
    BY <1>1, <1>3, <2>1 DEF WorkerOk
<1> QED
  BY <1>2, <1>3

\* A step that gives ids and says more leaves the others' memories well formed.
LEMMA OthersStay ==
  ASSUME Inv, nextId' \in Nat, nextId <= nextId', taught \subseteq taught'
  PROVE  /\ RunOk(run, nextId', taught')
         /\ \A w \in Workers : WorkerOk(worker[w], nextId', taught')
<1>1. PICK n \in Nat : n = nextId
  BY DEF Inv, StoreInv
<1>2. PICK m \in Nat : m = nextId'
  OBVIOUS
<1>3. n <= m /\ RunOk(run, n, taught) /\ \A w \in Workers : WorkerOk(worker[w], n, taught)
  BY <1>1, <1>2 DEF Inv, WorkersInv
<1>4. /\ \A r : RunOk(r, n, taught) => RunOk(r, m, taught')
      /\ \A x : WorkerOk(x, n, taught) => WorkerOk(x, m, taught')
  BY <1>3, Grows
<1> QED
  BY <1>2, <1>3, <1>4

\* A step of one reflection.
LEMMA OneWorker ==
  ASSUME WorkersInv, NEW w \in Workers, NEW x, worker' = [worker EXCEPT ![w] = x],
         WorkerOk(x, nextId', taught'), Agree(x.memory, stored'),
         \A v \in Workers : WorkerOk(worker[v], nextId', taught') /\ Agree(worker[v].memory, stored')
  PROVE  WorkersInv' /\ AgreeInv'
<1>1. DOMAIN worker = Workers
  BY DEF WorkersInv
<1>2. worker' = [v \in Workers |-> IF v = w THEN x ELSE worker[v]]
  BY <1>1
<1>3. \A v \in Workers : worker'[v] = IF v = w THEN x ELSE worker[v]
  BY <1>2
<1>4. worker' = [v \in Workers |-> worker'[v]]
  BY <1>2, <1>3
<1>5. \A v \in Workers : WorkerOk(worker'[v], nextId', taught')
  BY <1>3
<1>6. \A v \in Workers : Agree(worker'[v].memory, stored')
  BY <1>3
<1> QED
  BY <1>4, <1>5, <1>6 DEF WorkersInv, AgreeInv

\* Touching what was retrieved leaves a memory well formed.
LEMMA TouchedMemory ==
  ASSUME Inv, NEW order \in Seq(DOMAIN run.memory), NEW n \in Nat, n <= Len(order), NEW clock \in 1 .. 2,
         NEW db, MemoryOk(db, nextId, taught)
  PROVE  LET after == updated(db, touches(order, n, clock))
         IN  MemoryOk(after, nextId, taught) /\ SameTypes(after, db)
<1> DEFINE p == touches(order, n, clock)
<1>1. Len(order) \in Nat /\ \A i \in 1 .. n : order[i] \in DOMAIN run.memory
  <2>1. Len(order) \in Nat
    BY LenProperties
  <2>2. \A i \in 1 .. n : i \in 1 .. Len(order)
    BY <2>1
  <2> QED
    BY <2>1, <2>2, ElementOfSeq
<1>2. \A id \in DOMAIN run.memory : run.memory[id].helpful \in Nat
  BY DEF Inv, RunOk, MemoryOk, BulletOk
<1>3. ASSUME NEW id \in DOMAIN p PROVE PatchOk(p[id])
  <2>1. p[id] = touched(run.memory[id], clock) /\ id \in DOMAIN run.memory
    BY <1>1 DEF touches
  <2>2. PICK k \in Nat : k = run.memory[id].helpful
    BY <1>2, <2>1
  <2>3. p[id] = [helpful |-> k + 1, access |-> clock]
    BY <2>1, <2>2 DEF touched
  <2> HIDE DEF p
  <2> QED
    BY <2>3 DEF PatchOk
<1> HIDE DEF p
<1>4. nextId \in Nat
  BY DEF Inv, StoreInv
<1>5. MemoryOk(updated(db, p), nextId, taught) /\ SameTypes(updated(db, p), db)
  BY <1>3, <1>4, UpdatedMemory
<1> QED
  BY <1>5 DEF p

-----------------------------------------------------------------------------
(* The steps. *)

\* A query that fails is counted, up to the bound.
LEMMA Counted ==
  ASSUME CountInv, runs' = runs, Fail \/ failures' = failures
  PROVE  CountInv'
<1>1. MaxFailures \in Nat
  BY TraceAssumption DEF TraceAssumption
<1>2. PICK f \in 0 .. MaxFailures : f = failures
  BY DEF CountInv
<1>3. failures' \in 0 .. MaxFailures
  BY <1>1, <1>2 DEF Fail
<1> QED
  BY <1>3 DEF CountInv

\* A step of the run gives no id, and deletes nothing.
LEMMA RunStep ==
  ASSUME Inv, CountInv', UNCHANGED <<nextId, worker, taught, removed>>,
         MemoryOk(stored', nextId, taught), SameTypes(stored', stored),
         RunOk(run', nextId, taught)
  PROVE  Inv'
<1>1. StoreInv'
  BY DEF Inv, StoreInv, SameTypes
<1>2. WorkersInv'
  BY DEF Inv, WorkersInv
<1>3. AgreeInv'
  BY DEF Inv, AgreeInv, Agree, SameTypes
<1> QED
  BY <1>1, <1>2, <1>3 DEF Inv

\* No bullet, no id given, nothing under way.
LEMMA InitialState == Init => Inv
<1> SUFFICES ASSUME Init PROVE Inv
  OBVIOUS
<1>1. /\ MemoryOk(NoMemory, 1, {}) /\ RunOk(Idle, 1, {}) /\ WorkerOk(Free, 1, {})
      /\ \A db : Agree(Free.memory, db)
  BY NothingHeld
<1>2. StoreInv
  BY <1>1 DEF Init, StoreInv
<1>3. CountInv
  BY TraceAssumption DEF Init, CountInv, TraceAssumption
<1>4. RunOk(run, nextId, taught) /\ WorkersInv /\ AgreeInv
  BY <1>1 DEF Init, WorkersInv, AgreeInv
<1> QED
  BY <1>2, <1>3, <1>4 DEF Inv

\* A run begins with a copy of the database and no plan.
LEMMA BeginStep == Inv /\ Begin => Inv'
<1> SUFFICES ASSUME Inv, Begin PROVE Inv'
  OBVIOUS
<1>1. CountInv'
  <2>1. PICK m \in Nat : m = MaxRuns
    BY TraceAssumption DEF TraceAssumption
  <2>2. PICK r \in 0 .. m : r = runs
    BY <2>1 DEF Inv, CountInv
  <2>3. runs' \in 0 .. MaxRuns
    BY <2>1, <2>2 DEF Begin
  <2> QED
    BY <2>3 DEF Begin, Inv, CountInv
<1>2. MemoryOk(stored, nextId, taught) /\ SameTypes(stored, stored)
  BY DEF Inv, StoreInv, SameTypes
<1>3. RunOk(run', nextId, taught)
  <2>1. PICK t \in Traces :
          run' = [Idle EXCEPT !.phase = "fragments", !.task = t.task, !.site = t.site, !.memory = stored]
    BY DEF Begin
  <2>2. run' = [phase |-> "fragments", task |-> t.task, site |-> t.site, memory |-> stored,
                fragments |-> {}, plan |-> <<>>]
    BY <2>1 DEF Idle
  <2>3. t.task \in Tasks
    BY DEF Tasks
  <2>4. DOMAIN (<<>>) = {}
    OBVIOUS
  <2> QED
    BY <1>2, <2>2, <2>3, <2>4 DEF RunOk
<1> QED
  BY <1>1, <1>2, <1>3, RunStep DEF Begin

\* The first retrieval of a run: what it touches, and the fragments it finds.
LEMMA FindFragmentsStep == Inv /\ FindFragments => Inv'
<1> SUFFICES ASSUME Inv, FindFragments PROVE Inv'
  OBVIOUS
<1> DEFINE order == retrieved(run.memory, run.task, 1)
<1>1. run.task \in Tasks /\ MemoryOk(run.memory, nextId, taught)
  BY DEF Inv, RunOk, FindFragments
<1>2. nextId \in Nat /\ MemoryOk(stored, nextId, taught)
  BY DEF Inv, StoreInv
<1>3. order \in Seq(DOMAIN run.memory)
  BY <1>1, <1>2, Retrieved
<1>4. /\ DOMAIN run = {"phase", "task", "site", "memory", "fragments", "plan"}
      /\ \A f \in run.fragments : FragmentOk(f, run.task, taught)
      /\ \A i \in DOMAIN run.plan : run.plan[i].from \in taught
  BY DEF Inv, RunOk
<1>5. \A f \in fragmentPlan(order, run.memory, run.task, run.site) : FragmentOk(f, run.task, taught)
  <2>1. ASSUME NEW id \in DOMAIN run.memory, isStep(run.memory[id]),
               Similarity(Query(run.task), run.memory[id].content) >= 86
        PROVE  FragmentOk(actionOf(run.memory[id]), run.task, taught)
    <3>1. run.memory[id].content \in StepContents \cap taught
      BY <1>1, <2>1, ContentKinds DEF MemoryOk, BulletOk, isStep
    <3> QED
      BY <2>1, <3>1 DEF FragmentOk, actionOf
  <2>2. \A f \in fragmentPlan(order, run.memory, run.task, run.site) : \E id \in DOMAIN run.memory :
           /\ f = actionOf(run.memory[id]) /\ isStep(run.memory[id])
           /\ Similarity(Query(run.task), run.memory[id].content) >= 86
    <3> HIDE DEF order
    <3> QED
      BY <1>1, <1>2, <1>3, Fragments
  <2> QED
    BY <2>1, <2>2
<1> DEFINE found == fragmentPlan(order, run.memory, run.task, run.site)
<1>6. Len(order) \in Nat
  BY <1>3, LenProperties
<1>7. \A n \in 0 .. Len(order) :
        /\ MemoryOk(memoryTouched(order, n, 1), nextId, taught)
        /\ MemoryOk(storedTouched(order, n, 1), nextId, taught)
        /\ SameTypes(storedTouched(order, n, 1), stored)
  <2> HIDE DEF order
  <2> SUFFICES ASSUME NEW n \in 0 .. Len(order)
               PROVE  /\ MemoryOk(memoryTouched(order, n, 1), nextId, taught)
                      /\ MemoryOk(storedTouched(order, n, 1), nextId, taught)
                      /\ SameTypes(storedTouched(order, n, 1), stored)
    OBVIOUS
  <2>1. n \in Nat /\ n <= Len(order) /\ 1 \in 1 .. 2
    BY <1>6
  <2>2. MemoryOk(updated(run.memory, touches(order, n, 1)), nextId, taught)
    BY <1>1, <1>3, <2>1, TouchedMemory
  <2>3. /\ MemoryOk(updated(stored, touches(order, n, 1)), nextId, taught)
        /\ SameTypes(updated(stored, touches(order, n, 1)), stored)
    BY <1>2, <1>3, <2>1, TouchedMemory
  <2> QED
    BY <2>2, <2>3 DEF memoryTouched, storedTouched
<1>8. CountInv'
  BY Counted DEF Inv, FindFragments
<1>9. \/ /\ stored' = storedTouched(order, Len(order), 1)
         /\ run' = [run EXCEPT !.phase = "replay", !.memory = memoryTouched(order, Len(order), 1),
                               !.fragments = found]
      \/ \E n \in 1 .. Len(order) : \E k \in {n - 1, n} :
           /\ stored' = storedTouched(order, k, 1)
           /\ run' = [run EXCEPT !.phase = "replay", !.memory = memoryTouched(order, n, 1)]
  BY DEF FindFragments
<1>10. UNCHANGED <<nextId, worker, taught, removed>>
  BY DEF FindFragments
<1> HIDE DEF order, found
<1>11. ASSUME NEW m, MemoryOk(m, nextId, taught), NEW fs, \A f \in fs : FragmentOk(f, run.task, taught),
              run' = [run EXCEPT !.phase = "replay", !.memory = m, !.fragments = fs]
       PROVE  RunOk(run', nextId, taught)
  <2>1. /\ DOMAIN run' = {"phase", "task", "site", "memory", "fragments", "plan"}
        /\ run'.phase = "replay" /\ run'.memory = m /\ run'.fragments = fs
        /\ run'.task = run.task /\ run'.plan = run.plan
    BY <1>4, <1>11
  <2> QED
    BY <1>1, <1>4, <1>11, <2>1 DEF RunOk
<1>12. CASE /\ stored' = storedTouched(order, Len(order), 1)
            /\ run' = [run EXCEPT !.phase = "replay", !.memory = memoryTouched(order, Len(order), 1),
                                  !.fragments = found]
  <2>1. Len(order) \in 0 .. Len(order)
    BY <1>6
  <2>2. RunOk(run', nextId, taught)
    BY <1>5, <1>7, <1>11, <1>12, <2>1 DEF found
  <2>3. MemoryOk(stored', nextId, taught) /\ SameTypes(stored', stored)
    BY <1>7, <1>12, <2>1
  <2> QED
    BY <1>8, <1>10, <2>2, <2>3, RunStep
<1>13. ASSUME NEW n \in 1 .. Len(order), NEW k \in {n - 1, n}, stored' = storedTouched(order, k, 1),
              run' = [run EXCEPT !.phase = "replay", !.memory = memoryTouched(order, n, 1)]
       PROVE  Inv'
  <2>1. n \in 0 .. Len(order) /\ k \in 0 .. Len(order)
    BY <1>6
  <2>2. run' = [run EXCEPT !.phase = "replay", !.memory = memoryTouched(order, n, 1),
                           !.fragments = run.fragments]
    BY <1>4, <1>13
  <2>3. RunOk(run', nextId, taught)
    BY <1>4, <1>7, <1>11, <2>1, <2>2
  <2>4. MemoryOk(stored', nextId, taught) /\ SameTypes(stored', stored)
    BY <1>7, <1>13, <2>1
  <2> QED
    BY <1>8, <1>10, <2>3, <2>4, RunStep
<1> QED
  BY <1>9, <1>12, <1>13

\* The second retrieval: what it touches, and the plan it finds.
LEMMA FindReplayStep == Inv /\ FindReplay => Inv'
<1> SUFFICES ASSUME Inv, FindReplay PROVE Inv'
  OBVIOUS
<1> DEFINE order == retrieved(run.memory, run.task, 2)
           plan == replayPlan(order, run.memory, run.task)
<1>1. run.task \in Tasks /\ MemoryOk(run.memory, nextId, taught)
  BY DEF Inv, RunOk, FindReplay
<1>2. nextId \in Nat /\ MemoryOk(stored, nextId, taught)
  BY DEF Inv, StoreInv
<1>3. order \in Seq(DOMAIN run.memory)
  <2>1. 2 \in 1 .. 2
    OBVIOUS
  <2> QED
    BY <1>1, <1>2, <2>1, Retrieved
<1>4. /\ DOMAIN run = {"phase", "task", "site", "memory", "fragments", "plan"}
      /\ \A f \in run.fragments : FragmentOk(f, run.task, taught)
  BY DEF Inv, RunOk
<1>5. \A i \in DOMAIN plan : plan[i].from \in taught
  <2>1. ASSUME NEW id \in DOMAIN run.memory, isStep(run.memory[id])
        PROVE  actionOf(run.memory[id]).from \in taught
    BY <1>1, <2>1 DEF MemoryOk, BulletOk, isStep, actionOf
  <2>2. \A i \in DOMAIN plan : \E id \in DOMAIN run.memory :
           plan[i] = actionOf(run.memory[id]) /\ isStep(run.memory[id])
    <3> HIDE DEF order
    <3> QED
      BY <1>1, <1>2, <1>3, PlanFromMemory
  <2> HIDE DEF plan
  <2> QED
    BY <2>1, <2>2
<1>6. Len(order) \in Nat
  BY <1>3, LenProperties
<1>7. \A n \in 0 .. Len(order) :
        /\ MemoryOk(storedTouched(order, n, 2), nextId, taught)
        /\ SameTypes(storedTouched(order, n, 2), stored)
  <2> HIDE DEF order
  <2> SUFFICES ASSUME NEW n \in 0 .. Len(order)
               PROVE  /\ MemoryOk(storedTouched(order, n, 2), nextId, taught)
                      /\ SameTypes(storedTouched(order, n, 2), stored)
    OBVIOUS
  <2>1. n \in Nat /\ n <= Len(order) /\ 2 \in 1 .. 2
    BY <1>6
  <2>2. /\ MemoryOk(updated(stored, touches(order, n, 2)), nextId, taught)
        /\ SameTypes(updated(stored, touches(order, n, 2)), stored)
    BY <1>2, <1>3, <2>1, TouchedMemory
  <2> QED
    BY <2>2 DEF storedTouched
<1>8. CountInv'
  BY Counted DEF Inv, FindReplay
<1>9. \/ /\ stored' = storedTouched(order, Len(order), 2)
         /\ run' = [run EXCEPT !.phase = IF plan = <<>> THEN "loop" ELSE "replaying", !.plan = plan,
                               !.memory = NoMemory]
      \/ \E k \in 0 .. Len(order) : stored' = storedTouched(order, k, 2) /\ run' = Idle
  BY DEF FindReplay
<1>10. UNCHANGED <<nextId, worker, taught, removed>>
  BY DEF FindReplay
<1>11. MemoryOk(NoMemory, nextId, taught) /\ RunOk(Idle, nextId, taught)
  BY <1>2, NothingHeld
<1> HIDE DEF order, plan
<1>12. CASE /\ stored' = storedTouched(order, Len(order), 2)
            /\ run' = [run EXCEPT !.phase = IF plan = <<>> THEN "loop" ELSE "replaying", !.plan = plan,
                                  !.memory = NoMemory]
  <2>1. /\ DOMAIN run' = {"phase", "task", "site", "memory", "fragments", "plan"}
        /\ run'.phase \in {"loop", "replaying"} /\ run'.memory = NoMemory /\ run'.plan = plan
        /\ run'.task = run.task /\ run'.fragments = run.fragments
    BY <1>4, <1>12
  <2>2. RunOk(run', nextId, taught)
    BY <1>1, <1>4, <1>5, <1>11, <2>1 DEF RunOk
  <2>3. Len(order) \in 0 .. Len(order)
    BY <1>6
  <2>4. MemoryOk(stored', nextId, taught) /\ SameTypes(stored', stored)
    BY <1>7, <1>12, <2>3
  <2> QED
    BY <1>8, <1>10, <2>2, <2>4, RunStep
<1>13. ASSUME NEW k \in 0 .. Len(order), stored' = storedTouched(order, k, 2), run' = Idle
       PROVE  Inv'
  <2>1. MemoryOk(stored', nextId, taught) /\ SameTypes(stored', stored)
    BY <1>7, <1>13
  <2> QED
    BY <1>8, <1>10, <1>11, <1>13, <2>1, RunStep
<1> QED
  BY <1>9, <1>12, <1>13

\* A run that is over holds nothing; what it typed is not part of the memory.
LEMMA RunEnds ==
  ASSUME Inv, run' = Idle, UNCHANGED <<stored, nextId, worker, runs, failures, taught, removed>>
  PROVE  Inv'
<1>1. CountInv'
  BY DEF Inv, CountInv
<1>2. nextId \in Nat /\ MemoryOk(stored, nextId, taught) /\ SameTypes(stored, stored)
  BY DEF Inv, StoreInv, SameTypes
<1>3. RunOk(Idle, nextId, taught)
  BY <1>2, NothingHeld
<1> QED
  BY <1>1, <1>2, <1>3, RunStep

\* The loop that succeeds says what its verified steps say, and starts a reflection.
LEMMA RunLoopStep == Inv /\ RunLoop => Inv'
<1> SUFFICES ASSUME Inv, RunLoop PROVE Inv'
  OBVIOUS
<1>1. run' = Idle /\ UNCHANGED <<stored, nextId, runs, failures, removed>>
  BY DEF RunLoop
<1>2. CASE UNCHANGED <<worker, taught>>
  BY <1>1, <1>2, RunEnds
<1>3. ASSUME NEW t \in Traces, NEW w \in Workers,
             worker' = [worker EXCEPT ![w] = [Free EXCEPT !.phase = "load", !.state = executed(t)]],
             taught' = taught \cup {stepContent(s) : s \in ToSet(successfulSteps(executed(t).history))}
      PROVE  Inv'
  <2> DEFINE x == [Free EXCEPT !.phase = "load", !.state = executed(t)]
  <2>1. \A f \in run.fragments : FragmentOk(f, run.task, taught)
    BY DEF Inv, RunOk
  <2>2. \A step \in ToSet(successfulSteps(executed(t).history)) : stepContent(step) \in taught'
    BY <1>3
  <2>3. StateOk(executed(t), taught')
    BY <2>1, <2>2, ExecutedState
  <2>4. nextId \in Nat /\ MemoryOk(stored, nextId, taught)
    BY DEF Inv, StoreInv
  <2>5. MemoryOk(NoMemory, nextId, taught') /\ RunOk(Idle, nextId, taught') /\ Agree(NoMemory, stored)
    BY <2>4, NothingHeld
  <2>6. WorkerOk(x, nextId, taught') /\ Agree(x.memory, stored)
    <3>1. /\ DOMAIN x = {"phase", "state", "memory"} /\ x.phase = "load" /\ x.memory = NoMemory
          /\ x.state = executed(t)
      BY DEF Free
    <3> HIDE DEF x
    <3> QED
      BY <2>3, <2>5, <3>1 DEF WorkerOk
  <2>7. worker' = [worker EXCEPT ![w] = x]
    BY <1>3
  <2> HIDE DEF x
  <2>8. taught \subseteq taught'
    BY <1>3
  <2>9. nextId' \in Nat /\ nextId <= nextId'
    BY <1>1, <2>4
  <2>10. \A v \in Workers : WorkerOk(worker[v], nextId', taught') /\ Agree(worker[v].memory, stored)
    BY <2>8, <2>9, OthersStay DEF Inv, AgreeInv
  <2>11. WorkersInv' /\ AgreeInv'
    BY <1>1, <2>6, <2>7, <2>10, OneWorker DEF Inv
  <2>12. MemoryOk(stored, nextId, taught')
    BY <2>4, <2>8, MemoryGrows
  <2>13. \A c \in taught' : c.value # "secret"
    BY <1>3, NoSecret DEF Inv, StoreInv
  <2>14. StoreInv'
    BY <1>1, <2>12, <2>13 DEF Inv, StoreInv
  <2>15. CountInv'
    BY <1>1 DEF Inv, CountInv
  <2> QED
    BY <1>1, <2>5, <2>11, <2>14, <2>15 DEF Inv
<1> QED
  BY <1>2, <1>3 DEF RunLoop

-----------------------------------------------------------------------------
(* The steps of a reflection. *)

\* A reflection that goes on, or ends, with a memory that is well formed.
LEMMA Remembered ==
  ASSUME Inv, NEW w \in Workers, NEW phase \in {"free", "refine"}, NEW memory,
         Remember(w, phase, memory),
         nextId' \in Nat, nextId <= nextId', taught' = taught, MemoryOk(memory, nextId', taught),
         Agree(memory, stored'), \A v \in Workers : Agree(worker[v].memory, stored')
  PROVE  WorkersInv' /\ AgreeInv'
<1> DEFINE x == IF phase = "free" THEN Free ELSE [worker[w] EXCEPT !.phase = phase, !.memory = memory]
<1>1. WorkersInv /\ DOMAIN worker = Workers
  BY DEF Inv, WorkersInv
<1>2. worker' = [worker EXCEPT ![w] = x]
  BY <1>1 DEF Remember
<1>3. WorkerOk(x, nextId', taught') /\ Agree(x.memory, stored')
  <2>1. CASE phase = "free"
    BY <2>1, NothingHeld
  <2>2. CASE phase = "refine"
    <3>1. DOMAIN worker[w] = {"phase", "state", "memory"}
      BY <1>1 DEF WorkersInv, WorkerOk
    <3>2. x = [worker[w] EXCEPT !.phase = "refine", !.memory = memory]
      BY <2>2
    <3> HIDE DEF x
    <3>3. DOMAIN x = {"phase", "state", "memory"} /\ x.phase = "refine" /\ x.memory = memory
      BY <3>1, <3>2
    <3> QED
      BY <3>3 DEF WorkerOk
  <2> QED
    BY <2>1, <2>2
<1>4. \A v \in Workers : WorkerOk(worker[v], nextId', taught')
  BY OthersStay
<1> HIDE DEF x
<1> QED
  BY <1>1, <1>2, <1>3, <1>4, OneWorker

\* A reflection loads what the database holds now.
LEMMA LoadStep == \A w \in Workers : Inv /\ Load(w) => Inv'
<1> SUFFICES ASSUME NEW w \in Workers, Inv, Load(w) PROVE Inv'
  OBVIOUS
<1> DEFINE x == [worker[w] EXCEPT !.phase = "reflect", !.memory = stored]
<1>1. WorkersInv /\ DOMAIN worker = Workers /\ WorkerOk(worker[w], nextId, taught)
  BY DEF Inv, WorkersInv
<1>2. worker' = [worker EXCEPT ![w] = x]
  BY <1>1 DEF Load, WorkerOk
<1>3. nextId \in Nat /\ MemoryOk(stored, nextId, taught)
  BY DEF Inv, StoreInv
<1>4. WorkerOk(x, nextId, taught) /\ Agree(x.memory, stored)
  <2>1. /\ DOMAIN x = {"phase", "state", "memory"} /\ x.phase = "reflect" /\ x.memory = stored
        /\ x.state = worker[w].state
    BY <1>1 DEF WorkerOk
  <2>2. StateOk(worker[w].state, taught)
    BY <1>1 DEF Load, WorkerOk
  <2>3. Agree(stored, stored)
    BY DEF Agree
  <2> HIDE DEF x
  <2> QED
    BY <1>3, <2>1, <2>2, <2>3 DEF WorkerOk
<1>5. UNCHANGED <<stored, nextId, run, runs, failures, taught, removed>>
  BY DEF Load
<1> HIDE DEF x
<1>6. WorkersInv' /\ AgreeInv'
  BY <1>1, <1>2, <1>4, <1>5, OneWorker DEF Inv, WorkersInv, AgreeInv
<1> QED
  BY <1>5, <1>6 DEF Inv, StoreInv, CountInv

\* A reflection that gives up leaves its memory behind.
LEMMA AbandonStep == \A w \in Workers : Inv /\ Abandon(w) => Inv'
<1> SUFFICES ASSUME NEW w \in Workers, Inv, Abandon(w) PROVE Inv'
  OBVIOUS
<1>1. /\ UNCHANGED <<stored, nextId, run, runs, taught, removed>>
      /\ Fail /\ Remember(w, "free", NoMemory)
  BY DEF Abandon
<1>2. nextId \in Nat
  BY DEF Inv, StoreInv
<1>3. WorkersInv' /\ AgreeInv'
  BY <1>1, <1>2, NothingHeld, Remembered DEF Inv, AgreeInv
<1>4. CountInv'
  BY <1>1, Counted DEF Inv
<1> QED
  BY <1>1, <1>3, <1>4 DEF Inv, StoreInv

\* The new bullets get ids that nothing had, so what was removed stays removed.
LEMMA Written ==
  ASSUME Inv, NEW lessons, LessonsOk(lessons, taught),
         NEW patches, \A id \in DOMAIN patches : PatchOk(patches[id]),
         stored' = applied(stored, lessons, patches), nextId' = nextId + Len(lessons),
         UNCHANGED <<taught, removed>>
  PROVE  /\ StoreInv' /\ nextId' \in Nat /\ nextId <= nextId'
         /\ TypesFrom(stored', stored, lessons)
         /\ \A w \in Workers : Agree(worker[w].memory, stored')
<1>1. PICK n \in Nat \ {0} : n = nextId
  BY DEF Inv, StoreInv
<1>2. PICK k \in Nat : k = Len(lessons)
  BY LenProperties DEF LessonsOk
<1>3. MemoryOk(stored, nextId, taught)
  BY DEF Inv, StoreInv
<1>4. /\ MemoryOk(stored', n + k, taught)
      /\ DOMAIN stored' \subseteq DOMAIN stored \cup (n .. n + k - 1)
      /\ TypesFrom(stored', stored, lessons)
  BY <1>1, <1>2, <1>3, AppliedMemory
<1>5. nextId' = n + k
  BY <1>1, <1>2
<1>6. /\ removed \subseteq 1 .. n - 1 /\ removed \cap DOMAIN stored = {}
      /\ \A c \in taught : c.value # "secret"
  BY <1>1 DEF Inv, StoreInv
<1>7. /\ removed \cap DOMAIN stored' = {} /\ removed \subseteq 1 .. n + k - 1
      /\ n + k \in Nat \ {0} /\ n <= n + k
  BY <1>4, <1>6
<1>8. ASSUME NEW w \in Workers, NEW id \in DOMAIN worker[w].memory \cap DOMAIN stored'
      PROVE  worker[w].memory[id].type = stored'[id].type
  <2>1. id \in 1 .. n - 1
    BY <1>1 DEF Inv, WorkersInv, WorkerOk, MemoryOk
  <2>2. id \in DOMAIN stored /\ stored'[id].type = stored[id].type
    BY <1>1, <1>4, <2>1 DEF TypesFrom
  <2> QED
    BY <2>2 DEF Inv, AgreeInv, Agree
<1> QED
  BY <1>1, <1>4, <1>5, <1>6, <1>7, <1>8 DEF StoreInv, Agree

\* A reflection writes what the verified steps of its run say, all or some of it.
LEMMA ReflectStep == \A w \in Workers : Inv /\ Reflect(w) => Inv'
<1> SUFFICES ASSUME NEW w \in Workers, Inv, Reflect(w) PROVE Inv'
  OBVIOUS
<1> DEFINE memory == worker[w].memory
           state == worker[w].state
<1>1. MemoryOk(memory, nextId, taught) /\ StateOk(state, taught)
  BY DEF Inv, WorkersInv, WorkerOk, Reflect
<1>2. nextId \in Nat \ {0} /\ nextId \in Nat /\ MemoryOk(stored, nextId, taught)
  BY DEF Inv, StoreInv
<1>3. UNCHANGED <<run, runs, taught, removed>>
  BY DEF Reflect
<1>4. CountInv'
  BY <1>3, Counted DEF Inv, Reflect
<1>5. PICK lessons \in reflections(state) :
        LET passed == qualityGate(lessons, state)
            delta == curate(passed, memory)
            n == Len(delta.fresh)
            known == DOMAIN delta.patch
        IN  \/ /\ Remember(w, "free", NoMemory)
               /\ UNCHANGED <<stored, nextId>>
            \/ /\ stored' = applied(stored, delta.fresh, delta.patch)
               /\ nextId' = nextId + n
               /\ Remember(w, "refine", applied(memory, delta.fresh, delta.patch))
            \/ /\ \E m \in 0 .. n, ids \in SUBSET known :
                    /\ stored' = applied(stored, SubSeq(delta.fresh, 1, m), Restrict(delta.patch, ids))
                    /\ nextId' = nextId + m
               /\ Remember(w, "free", NoMemory)
  BY DEF Reflect
<1> DEFINE passed == qualityGate(lessons, state)
           delta == curate(passed, memory)
           n == Len(delta.fresh)
           known == DOMAIN delta.patch
<1>6. LessonsOk(passed, taught)
  <2> HIDE DEF memory, state
  <2> QED
    BY <1>1, Taught
<1>7. /\ LessonsOk(delta.fresh, taught)
      /\ \A id \in known : PatchOk(delta.patch[id])
  <2> HIDE DEF memory, passed
  <2> QED
    BY <1>1, <1>2, <1>6, Curated
<1>8. \/ /\ Remember(w, "free", NoMemory)
         /\ UNCHANGED <<stored, nextId>>
      \/ /\ stored' = applied(stored, delta.fresh, delta.patch)
         /\ nextId' = nextId + n
         /\ Remember(w, "refine", applied(memory, delta.fresh, delta.patch))
      \/ /\ \E m \in 0 .. n, ids \in SUBSET known :
              /\ stored' = applied(stored, SubSeq(delta.fresh, 1, m), Restrict(delta.patch, ids))
              /\ nextId' = nextId + m
         /\ Remember(w, "free", NoMemory)
  BY <1>5
<1>9. RunOk(run, nextId, taught)
  BY DEF Inv
<1>10. ASSUME nextId' \in Nat, nextId <= nextId', StoreInv', WorkersInv', AgreeInv' PROVE Inv'
  <2>1. RunOk(run, nextId', taught')
    BY <1>3, <1>10, OthersStay
  <2> QED
    BY <1>3, <1>4, <1>10, <2>1 DEF Inv
<1> HIDE DEF memory, state, delta
<1>11. CASE /\ Remember(w, "free", NoMemory)
            /\ UNCHANGED <<stored, nextId>>
  <2>1. /\ MemoryOk(NoMemory, nextId, taught) /\ nextId' \in Nat /\ nextId <= nextId'
        /\ Agree(NoMemory, stored') /\ \A v \in Workers : Agree(worker[v].memory, stored')
    BY <1>2, <1>11, NothingHeld DEF Inv, AgreeInv
  <2>2. WorkersInv' /\ AgreeInv'
    BY <1>3, <1>11, <2>1, Remembered
  <2>3. StoreInv'
    BY <1>3, <1>11 DEF Inv, StoreInv
  <2> QED
    BY <1>10, <2>1, <2>2, <2>3
<1>12. CASE /\ stored' = applied(stored, delta.fresh, delta.patch)
            /\ nextId' = nextId + n
            /\ Remember(w, "refine", applied(memory, delta.fresh, delta.patch))
  <2>1. /\ StoreInv' /\ nextId' \in Nat /\ nextId <= nextId'
        /\ TypesFrom(stored', stored, delta.fresh)
        /\ \A v \in Workers : Agree(worker[v].memory, stored')
    BY <1>3, <1>7, <1>12, Written
  <2> DEFINE after == applied(memory, delta.fresh, delta.patch)
  <2>2. MemoryOk(after, nextId', taught) /\ TypesFrom(after, memory, delta.fresh)
    BY <1>1, <1>2, <1>7, <1>12, AppliedMemory
  <2> HIDE DEF after
  <2>3. Agree(after, stored')
    <3>1. Agree(memory, stored)
      BY DEF Inv, AgreeInv, memory
    <3> QED
      BY <2>1, <2>2, <3>1 DEF TypesFrom, Agree
  <2>4. WorkersInv' /\ AgreeInv'
    BY <1>3, <1>12, <2>1, <2>2, <2>3, Remembered DEF after
  <2> QED
    BY <1>10, <2>1, <2>4
<1>13. ASSUME NEW m \in 0 .. n, NEW ids \in SUBSET known,
              stored' = applied(stored, SubSeq(delta.fresh, 1, m), Restrict(delta.patch, ids)),
              nextId' = nextId + m, Remember(w, "free", NoMemory)
       PROVE  Inv'
  <2> DEFINE some == SubSeq(delta.fresh, 1, m)
             patches == Restrict(delta.patch, ids)
  <2>1. LessonsOk(some, taught) /\ Len(some) = m
    BY <1>7, FirstLessons
  <2>2. \A id \in DOMAIN patches : PatchOk(patches[id])
    BY <1>7 DEF Restrict
  <2>3. stored' = applied(stored, some, patches) /\ nextId' = nextId + Len(some)
    BY <1>13, <2>1
  <2> HIDE DEF some, patches
  <2>4. /\ StoreInv' /\ nextId' \in Nat /\ nextId <= nextId'
        /\ \A v \in Workers : Agree(worker[v].memory, stored')
    BY <1>3, <2>1, <2>2, <2>3, Written
  <2>5. MemoryOk(NoMemory, nextId', taught) /\ Agree(NoMemory, stored')
    BY <2>4, NothingHeld
  <2>6. WorkersInv' /\ AgreeInv'
    BY <1>3, <1>13, <2>4, <2>5, Remembered
  <2> QED
    BY <1>10, <2>4, <2>6
<1> QED
  BY <1>8, <1>11, <1>12, <1>13

\* A refinement deletes, and what it deletes is not written again.
LEMMA RefineStep == \A w \in Workers : Inv /\ Refine(w) => Inv'
<1> SUFFICES ASSUME NEW w \in Workers, Inv, Refine(w) PROVE Inv'
  OBVIOUS
<1>1. UNCHANGED <<nextId, run, runs, taught>> /\ Remember(w, "free", NoMemory)
  BY DEF Refine
<1>2. CountInv'
  BY <1>1, Counted DEF Inv, Refine
<1>3. nextId \in Nat /\ MemoryOk(stored, nextId, taught) /\ removed \cap DOMAIN stored = {}
      /\ removed \subseteq 1 .. nextId - 1
  BY DEF Inv, StoreInv
<1>4. PICK ids : stored' = without(stored, ids) /\ removed' = removed \cup (ids \cap DOMAIN stored)
  BY DEF Refine
<1>5. DOMAIN stored' = DOMAIN stored \ ids /\ \A id \in DOMAIN stored' : stored'[id] = stored[id]
  BY <1>4 DEF without
<1>6. \A v \in Workers : Agree(worker[v].memory, stored')
  BY <1>5 DEF Inv, AgreeInv, Agree
<1>7. WorkersInv' /\ AgreeInv'
  BY <1>1, <1>3, <1>6, NothingHeld, Remembered
<1>8. MemoryOk(stored', nextId, taught)
  BY <1>3, <1>5 DEF MemoryOk
<1>9. removed' \subseteq 1 .. nextId - 1 /\ removed' \cap DOMAIN stored' = {}
  BY <1>3, <1>4, <1>5 DEF MemoryOk
<1>10. StoreInv'
  BY <1>1, <1>8, <1>9 DEF Inv, StoreInv
<1> QED
  BY <1>1, <1>2, <1>7, <1>10 DEF Inv

\* The invariant is inductive.
LEMMA Invariant == Spec => []Inv
<1>1. Inv /\ [Next]_vars => Inv'
  <2> SUFFICES ASSUME Inv, [Next]_vars PROVE Inv'
    OBVIOUS
  <2>1. CASE UNCHANGED vars
    BY <2>1 DEF vars, Inv, StoreInv, CountInv, WorkersInv, AgreeInv
  <2>2. CASE Begin
    BY <2>2, BeginStep
  <2>3. CASE FindFragments
    BY <2>3, FindFragmentsStep
  <2>4. CASE Cancel
    BY <2>4, RunEnds DEF Cancel
  <2>5. CASE FindReplay
    BY <2>5, FindReplayStep
  <2>6. CASE ExecuteReplay
    BY <2>6, RunEnds DEF ExecuteReplay
  <2>7. CASE RunLoop
    BY <2>7, RunLoopStep
  <2>8. ASSUME NEW w \in Workers, Load(w) \/ Reflect(w) \/ Refine(w) \/ Abandon(w) PROVE Inv'
    BY <2>8, LoadStep, ReflectStep, RefineStep, AbandonStep
  <2> QED
    BY <2>1, <2>2, <2>3, <2>4, <2>5, <2>6, <2>7, <2>8 DEF Next
<1> QED
  BY InitialState, <1>1, PTL DEF Spec

-----------------------------------------------------------------------------
(* The topic that is most like the task. *)

\* Finitely many numbers have a bound.
LEMMA Bounded ==
  ASSUME NEW n \in Nat, NEW f \in [1 .. n -> Nat]
  PROVE  \E b \in Nat : \A i \in 1 .. n : f[i] <= b
<1> DEFINE below == [i \in 1 .. n |-> 1 .. f[i]]
           T == {below[i] : i \in 1 .. n}
<1>1. below \in Surjection(1 .. n, T)
  BY DEF Surjection
<1>2. IsFiniteSet(1 .. n)
  BY FS_Interval
<1>3. IsFiniteSet(T)
  <2> HIDE DEF T, below
  <2> QED
    BY <1>1, <1>2, FS_Surjection
<1>4. \A U \in T : IsFiniteSet(U)
  <2>1. \A i \in 1 .. n : IsFiniteSet(1 .. f[i])
    BY FS_Interval
  <2> QED
    BY <2>1
<1>5. \A i \in 1 .. n : 1 .. f[i] \subseteq UNION T
  OBVIOUS
<1> HIDE DEF T
<1>6. IsFiniteSet(UNION T)
  BY <1>3, <1>4, FS_UNION
<1>7. Cardinality(UNION T) \in Nat
  BY <1>6, FS_CardinalityType
<1>8. ASSUME NEW i \in 1 .. n PROVE f[i] <= Cardinality(UNION T)
  <2>1. PICK k \in Nat : k = f[i]
    OBVIOUS
  <2>2. Cardinality(1 .. k) = k
    BY FS_Interval
  <2>3. Cardinality(1 .. k) <= Cardinality(UNION T)
    BY <1>5, <1>6, <2>1, FS_Subset
  <2> QED
    BY <2>1, <2>2, <2>3
<1> QED
  BY <1>7, <1>8

\* The likeness of a topic is at least that of each of its bullets.
LEMMA AllPercents ==
  ASSUME NEW said, NEW next \in Nat, NEW db, MemoryOk(db, next, said),
         NEW order \in Seq(DOMAIN db), NEW task \in Tasks
  PROVE  /\ Cardinality(percents(order, db, task)) \in Nat
         /\ \A i \in 1 .. Len(order) :
              Similarity(Query(task), db[order[i]].content) <= Cardinality(percents(order, db, task))
<1> DEFINE like(i) == Similarity(Query(task), db[order[i]].content)
           n == Len(order)
           P == percents(order, db, task)
<1>1. n \in Nat /\ DOMAIN order = 1 .. n
  BY LenProperties
<1>2. \A i \in 1 .. n : like(i) \in Nat
  <2>1. \A i \in 1 .. n : order[i] \in DOMAIN db
    BY <1>1, ElementOfSeq
  <2> QED
    BY <2>1, TextAssumption DEF TextAssumption, Tasks, MemoryOk, BulletOk
<1>3. P = UNION {{i} \X (1 .. like(i)) : i \in 1 .. n}
  BY <1>1 DEF percents
<1> HIDE DEF like, P, n
<1>4. PICK b \in Nat : \A i \in 1 .. n : like(i) <= b
  <2> DEFINE f == [i \in 1 .. n |-> like(i)]
  <2>1. f \in [1 .. n -> Nat]
    BY <1>2
  <2> HIDE DEF f
  <2>2. \E c \in Nat : \A i \in 1 .. n : f[i] <= c
    BY <1>1, <2>1, Bounded
  <2> QED
    BY <2>2 DEF f
<1>5. P \subseteq (1 .. n) \X (1 .. b)
  BY <1>1, <1>2, <1>3, <1>4
<1>6. IsFiniteSet((1 .. n) \X (1 .. b))
  <2>1. IsFiniteSet(1 .. n) /\ IsFiniteSet(1 .. b)
    BY <1>1, FS_Interval
  <2> QED
    BY <2>1, FS_Product
<1>7. IsFiniteSet(P)
  BY <1>5, <1>6, FS_Subset
<1>8. Cardinality(P) \in Nat
  BY <1>7, FS_CardinalityType
<1>9. ASSUME NEW i \in 1 .. n PROVE like(i) <= Cardinality(P)
  <2>1. PICK k \in Nat : k = like(i)
    BY <1>2
  <2>2. {i} \X (1 .. k) \subseteq P
    BY <1>3, <2>1
  <2>3. IsFiniteSet({i}) /\ Cardinality({i}) = 1
    BY FS_Singleton
  <2>4. IsFiniteSet(1 .. k) /\ Cardinality(1 .. k) = k
    BY FS_Interval
  <2>5. Cardinality({i} \X (1 .. k)) = Cardinality({i}) * Cardinality(1 .. k)
    BY <2>3, <2>4, FS_Product
  <2>6. Cardinality({i} \X (1 .. k)) <= Cardinality(P)
    BY <1>7, <2>2, FS_Subset
  <2> QED
    BY <2>1, <2>3, <2>4, <2>5, <2>6
<1> QED
  BY <1>8, <1>9 DEF like, P, n

\* Among finitely many scores, one is reached first that no other exceeds.
LEMMA Leader ==
  ASSUME NEW n \in Nat \ {0}, NEW f \in [1 .. n -> Nat],
         NEW m, m = Min({i \in 1 .. n : \A j \in 1 .. n : f[j] <= f[i]})
  PROVE  m \in 1 .. n /\ \A j \in 1 .. n : f[j] <= f[m]
<1> DEFINE F == {f[i] : i \in 1 .. n}
           L == {i \in 1 .. n : \A j \in 1 .. n : f[j] <= f[i]}
<1>1. PICK b \in Nat : \A i \in 1 .. n : f[i] <= b
  BY Bounded
<1>2. F \in SUBSET (0 .. b)
  BY <1>1
<1>3. F # {}
  <2>1. 1 \in 1 .. n
    OBVIOUS
  <2> QED
    BY <2>1
<1>4. Max(F) \in F /\ \A x \in F : Max(F) >= x
  <2> HIDE DEF F
  <2> QED
    BY <1>2, <1>3, GreatestNumber
<1>5. PICK i \in 1 .. n : \A j \in 1 .. n : f[i] >= f[j]
  <2>1. PICK i \in 1 .. n : f[i] = Max(F)
    BY <1>4
  <2>2. \A j \in 1 .. n : f[j] \in F
    OBVIOUS
  <2> HIDE DEF F
  <2> QED
    BY <1>4, <2>1, <2>2
<1>6. i \in L
  BY <1>5
<1>7. L \in SUBSET Nat /\ L # {}
  BY <1>6
<1>8. m = Min(L)
  OBVIOUS
<1> HIDE DEF L
<1>9. m \in L
  BY <1>7, <1>8, LeastNumber
<1> QED
  BY <1>9 DEF L

\* The bullets of the topic of a step are some of the steps, in order.
LEMMA Chosen ==
  ASSUME NEW said, NEW next \in Nat, NEW db, MemoryOk(db, next, said),
         NEW steps \in Seq(DOMAIN db), NEW topic,
         NEW m \in 1 .. Len(steps), db[steps[m]].topic = topic
  PROVE  LET chosen == inStepOrder(ofTopic(topic, steps, db), db)
         IN  chosen \in Seq(DOMAIN db) /\ chosen # <<>> /\ Within(chosen, steps)
<1> DEFINE own == ofTopic(topic, steps, db)
           chosen == inStepOrder(own, db)
<1>1. own \in Seq(DOMAIN db)
  BY OfTopic
<1>2. Within(own, steps)
  BY OfTopic DEF Within
<1>3. \E j \in 1 .. Len(own) : own[j] = steps[m]
  BY OfTopic
<1> HIDE DEF own
<1>4. chosen \in Seq(DOMAIN db) /\ Within(chosen, own) /\ Within(own, chosen)
  BY <1>1, StepOrder
<1> HIDE DEF chosen
<1>5. Within(chosen, steps)
  BY <1>2, <1>4 DEF Within
<1>6. chosen # <<>>
  <2>1. \E i \in 1 .. Len(chosen) : TRUE
    BY <1>3, <1>4 DEF Within
  <2> QED
    BY <2>1
<1> QED
  BY <1>4, <1>5, <1>6 DEF chosen, own

\* A step that is like the task is enough for a plan, when no advice takes its place.
LEMMA PlanExists ==
  ASSUME NEW said, NEW next \in Nat, NEW db, MemoryOk(db, next, said),
         NEW order \in Seq(DOMAIN db), NEW task \in Tasks,
         NEW k \in 1 .. Len(order), db[order[k]].type = "procedural",
         Similarity(Query(task), db[order[k]].content) >= 85,
         \A i \in 1 .. Len(order) : db[order[i]].type = "procedural" => isStep(db[order[i]])
  PROVE  replayPlan(order, db, task) # <<>>
<1> DEFINE steps == procedural(order, db)
           n == Len(steps)
           topic(i) == db[steps[i]].topic
           score == [t \in {topic(i) : i \in DOMAIN steps} |-> topicScore(t, steps, db, task)]
           leads(i) == \A t \in DOMAIN score : score[t] <= score[topic(i)]
           m == Min({i \in DOMAIN steps : leads(i)})
           best == topic(m)
           own == ofTopic(best, steps, db)
           chosen == inStepOrder(own, db)
           last == Least(MaxActions, Len(chosen))
           top == SubSeq(chosen, 1, last)
           kept == {i \in DOMAIN top : isStep(db[top[i]])}
           cut == those(top, kept)
<1>1. replayPlan(order, db, task) = IF steps = <<>> \/ score[best] < 85 THEN <<>>
                                    ELSE [i \in DOMAIN cut |-> actionOf(db[cut[i]])]
  BY DEF replayPlan
<1>2. /\ steps \in Seq(DOMAIN db)
      /\ \A j \in 1 .. Len(steps) : \E i \in 1 .. Len(order) : steps[j] = order[i]
      /\ \A j \in 1 .. Len(steps) : db[steps[j]].type = "procedural"
      /\ \E j \in 1 .. Len(steps) : steps[j] = order[k]
  BY Procedural
<1> HIDE DEF steps
<1>3. n \in Nat /\ DOMAIN steps = 1 .. n
  BY <1>2, LenProperties
<1>4. PICK q \in 1 .. n : steps[q] = order[k]
  BY <1>2
<1>5. n \in Nat \ {0} /\ steps # <<>>
  <2>1. n # 0
    BY <1>3, <1>4
  <2> QED
    BY <1>3, <2>1
<1>6. \A j \in 1 .. n : isStep(db[steps[j]])
  BY <1>2
<1> HIDE DEF n
<1> DEFINE value(t) == topicScore(t, steps, db, task)
           f == [i \in 1 .. n |-> value(topic(i))]
<1>7. ASSUME NEW j \in 1 .. n
      PROVE  value(topic(j)) \in Nat /\ Similarity(Query(task), db[steps[j]].content) <= value(topic(j))
  <2> DEFINE mine == ofTopic(topic(j), steps, db)
  <2>1. mine \in Seq(DOMAIN db) /\ \E i \in 1 .. Len(mine) : mine[i] = steps[j]
    BY <1>2, OfTopic DEF n
  <2>2. value(topic(j)) = Cardinality(percents(mine, db, task))
    BY DEF topicScore
  <2> HIDE DEF mine, value
  <2>3. /\ Cardinality(percents(mine, db, task)) \in Nat
        /\ \A i \in 1 .. Len(mine) :
             Similarity(Query(task), db[mine[i]].content) <= Cardinality(percents(mine, db, task))
    BY <2>1, AllPercents
  <2> QED
    BY <2>1, <2>2, <2>3
<1>8. \A i \in 1 .. n : leads(i) <=> \A j \in 1 .. n : f[j] <= f[i]
  <2> HIDE DEF value
  <2>1. DOMAIN score = {topic(j) : j \in 1 .. n} /\ \A j \in 1 .. n : score[topic(j)] = value(topic(j))
    BY <1>3 DEF value
  <2>2. \A j \in 1 .. n : f[j] = value(topic(j))
    OBVIOUS
  <2> HIDE DEF score, f, topic
  <2> QED
    BY <2>1, <2>2
<1>9. m \in 1 .. n /\ \A j \in 1 .. n : f[j] <= f[m]
  <2>1. m = Min({i \in 1 .. n : \A j \in 1 .. n : f[j] <= f[i]})
    <3>1. {i \in DOMAIN steps : leads(i)} = {i \in 1 .. n : \A j \in 1 .. n : f[j] <= f[i]}
      <4> HIDE DEF leads, f
      <4> QED
        BY <1>3, <1>8
    <3> HIDE DEF leads, f
    <3> QED
      BY <3>1
  <2>2. f \in [1 .. n -> Nat]
    <3> HIDE DEF value, topic
    <3> QED
      BY <1>7
  <2> HIDE DEF m, f
  <2> QED
    BY <1>5, <2>1, <2>2, Leader
<1> HIDE DEF m
<1>10. score[best] \in Nat /\ score[best] >= 85
  <2>1. score[best] = value(topic(m))
    BY <1>3, <1>9
  <2>2. f[q] = value(topic(q)) /\ f[m] = value(topic(m))
    BY <1>4, <1>9
  <2>3. value(topic(q)) \in Nat /\ value(topic(m)) \in Nat
        /\ Similarity(Query(task), db[steps[q]].content) <= value(topic(q))
    BY <1>4, <1>7, <1>9
  <2>4. f[q] <= f[m]
    BY <1>4, <1>9
  <2>5. Similarity(Query(task), db[steps[q]].content) \in Nat
    <3>1. steps[q] \in DOMAIN db
      BY <1>2, <1>4, ElementOfSeq DEF n
    <3> QED
      BY <3>1, TextAssumption DEF TextAssumption, Tasks, MemoryOk, BulletOk
  <2>6. Similarity(Query(task), db[steps[q]].content) >= 85
    BY <1>4
  <2> HIDE DEF score, value, f, best
  <2> QED
    BY <2>1, <2>2, <2>3, <2>4, <2>5, <2>6
<1>11. chosen \in Seq(DOMAIN db) /\ chosen # <<>> /\ Within(chosen, steps)
  <2> HIDE DEF score, value, f
  <2>1. m \in 1 .. Len(steps) /\ db[steps[m]].topic = best
    BY <1>9 DEF n
  <2> HIDE DEF best
  <2> QED
    BY <1>2, <2>1, Chosen
<1> HIDE DEF own, score, value, f, best, chosen
<1>12. Len(chosen) \in Nat /\ Len(chosen) >= 1
  <2>1. Len(chosen) \in Nat /\ Len(chosen) # 0
    BY <1>11, LenProperties, EmptySeq
  <2> QED
    BY <2>1
<1>13. last \in Nat /\ 1 <= last /\ last <= Len(chosen)
  BY <1>12, MemoryAssumption DEF MemoryAssumption, Least
<1> HIDE DEF last
<1>14. \A i \in 1 .. last : chosen[i] \in DOMAIN db
  BY <1>11, <1>12, <1>13, ElementOfSeq
<1>15. top \in Seq(DOMAIN db) /\ Len(top) = last /\ \A i \in 1 .. last : top[i] = chosen[i]
  BY <1>13, <1>14, SubSeqProperties
<1>16. isStep(db[top[1]])
  <2>1. 1 \in 1 .. last /\ 1 \in 1 .. Len(chosen)
    BY <1>12, <1>13
  <2>2. top[1] = chosen[1]
    BY <1>15, <2>1
  <2>3. PICK i \in 1 .. n : chosen[1] = steps[i]
    BY <1>11, <2>1 DEF Within, n
  <2> QED
    BY <1>6, <2>2, <2>3
<1>17. 1 \in kept
  <2>1. DOMAIN top = 1 .. last
    BY <1>15, LenProperties
  <2> HIDE DEF top
  <2>2. 1 \in DOMAIN top
    BY <1>13, <2>1
  <2> QED
    BY <1>16, <2>2
<1>18. kept \in SUBSET (DOMAIN top)
  OBVIOUS
<1> HIDE DEF top, kept
<1>19. cut \in Seq(DOMAIN db) /\ \E i \in 1 .. Len(cut) : cut[i] = top[1]
  BY <1>15, <1>17, <1>18, Those
<1> HIDE DEF cut
<1>20. DOMAIN cut # {}
  BY <1>19, LenProperties
<1>21. replayPlan(order, db, task) = [i \in DOMAIN cut |-> actionOf(db[cut[i]])]
  <2>1. ~(score[best] < 85)
    BY <1>10
  <2> QED
    BY <1>1, <1>5, <2>1
<1> QED
  BY <1>20, <1>21

-----------------------------------------------------------------------------
(* What a refinement keeps. *)

\* A refinement goes through its order one by one.
LEMMA Greedy ==
  ASSUME NEW memory, NEW order, Cardinality(DOMAIN memory) \in Nat
  PROVE  \A n \in 0 .. Cardinality(DOMAIN memory) :
           greedy(memory, order)[n] =
             IF n = 0 THEN {} ELSE extended(greedy(memory, order)[n - 1], memory, order[n])
<1> DEFINE N == Cardinality(DOMAIN memory)
           Goes(f, k) ==
             f = [n \in 0 .. k |-> IF n = 0 THEN {} ELSE extended(f[n - 1], memory, order[n])]
           Bad == {k \in 0 .. N : ~ \E f : Goes(f, k)}
<1>1. Bad = {}
  <2> SUFFICES ASSUME Bad # {} PROVE FALSE
    OBVIOUS
  <2> DEFINE m == Min(Bad)
  <2>1. m \in Bad /\ \A k \in Bad : m <= k
    <3>1. Bad \in SUBSET Nat
      OBVIOUS
    <3> HIDE DEF Bad
    <3> QED
      BY <3>1, LeastNumber
  <2>2. m \in 0 .. N /\ ~ \E f : Goes(f, m)
    BY <2>1
  <2> HIDE DEF m
  <2>3. m # 0
    <3>1. Goes([n \in 0 .. 0 |-> {}], 0)
      OBVIOUS
    <3> QED
      BY <2>2, <3>1
  <2>4. m - 1 \in 0 .. N /\ m - 1 \notin Bad
    <3> HIDE DEF Bad
    <3>1. m - 1 \in 0 .. N /\ ~(m <= m - 1)
      BY <2>2, <2>3
    <3> QED
      BY <2>1, <3>1
  <2>5. PICK g : Goes(g, m - 1)
    <3> HIDE DEF Goes
    <3> QED
      BY <2>4
  <2> DEFINE h == [n \in 0 .. m |-> IF n = m THEN extended(g[m - 1], memory, order[m]) ELSE g[n]]
  <2>6. \A n \in 0 .. m - 1 : h[n] = g[n]
    BY <2>2, <2>3
  <2>7. \A n \in 0 .. m - 1 : g[n] = IF n = 0 THEN {} ELSE extended(g[n - 1], memory, order[n])
    BY <2>5
  <2>8. \A n \in 0 .. m : h[n] = IF n = 0 THEN {} ELSE extended(h[n - 1], memory, order[n])
    <3>1. ASSUME NEW n \in 0 .. m, n # m
          PROVE  h[n] = IF n = 0 THEN {} ELSE extended(h[n - 1], memory, order[n])
      <4>1. n \in 0 .. m - 1 /\ (n # 0 => n - 1 \in 0 .. m - 1)
        BY <2>2, <3>1
      <4> HIDE DEF h
      <4> QED
        BY <2>6, <2>7, <4>1
    <3>2. h[m] = extended(h[m - 1], memory, order[m])
      <4>1. m \in 0 .. m /\ m - 1 \in 0 .. m - 1
        BY <2>2, <2>3
      <4> QED
        BY <2>6, <4>1
    <3> HIDE DEF h
    <3> QED
      BY <2>3, <3>1, <3>2
  <2>9. h = [n \in 0 .. m |-> h[n]]
    OBVIOUS
  <2> HIDE DEF h
  <2>10. Goes(h, m)
    BY <2>8, <2>9
  <2> QED
    BY <2>2, <2>10
<1>2. \E f : Goes(f, N)
  <2>1. N \in 0 .. N
    OBVIOUS
  <2> QED
    BY <1>1, <2>1
<1>3. greedy(memory, order) = CHOOSE f : Goes(f, N)
  BY DEF greedy
<1>4. Goes(greedy(memory, order), N)
  <2> HIDE DEF Goes
  <2> QED
    BY <1>2, <1>3
<1> QED
  BY <1>4

\* The sizes at which two types never have the quotas of the whole memory: at the other
\* four, rounding gives two types all of it.
SizeOk == MaxBullets \notin {1, 2, 3, 6}

\* Every type has a quota; but for those four sizes, two of them leave room.
LEMMA Quotas ==
  /\ \A t \in MemoryTypes : quota(t) \in Nat /\ quota(t) >= 1
  /\ SizeOk => \A s, t \in MemoryTypes : s # t => quota(s) + quota(t) < MaxBullets
<1>1. PICK m \in Nat \ {0} : m = MaxBullets
  BY MemoryAssumption DEF MemoryAssumption
<1>2. ASSUME NEW x \in Nat
      PROVE  LET q == Most(1, IF x % 100 = 50 THEN 2 * ((x \div 100 + 1) \div 2) ELSE (x + 50) \div 100)
             IN  q \in Nat /\ q >= 1 /\ (q = 1 \/ 100 * q <= x + 50)
  <2> DEFINE r == IF x % 100 = 50 THEN 2 * ((x \div 100 + 1) \div 2) ELSE (x + 50) \div 100
  <2>1. r \in Nat /\ 100 * r <= x + 50
    <3>1. PICK d \in Nat, e \in 0 .. 99 : x = 100 * d + e /\ d = x \div 100 /\ e = x % 100
      OBVIOUS
    <3>2. CASE e = 50
      <4>1. PICK h \in Nat : h = (d + 1) \div 2 /\ 2 * h <= d + 1
        OBVIOUS
      <4>2. r = 2 * h
        BY <3>1, <3>2, <4>1
      <4> HIDE DEF r
      <4> QED
        BY <3>1, <3>2, <4>1, <4>2
    <3>3. CASE e # 50
      <4>1. PICK h \in Nat : h = (x + 50) \div 100 /\ 100 * h <= x + 50
        OBVIOUS
      <4>2. r = h
        BY <3>1, <3>3, <4>1
      <4> HIDE DEF r
      <4> QED
        BY <4>1, <4>2
    <3> QED
      BY <3>2, <3>3
  <2> HIDE DEF r
  <2>2. Most(1, r) \in Nat /\ Most(1, r) >= 1 /\ (Most(1, r) = 1 \/ 100 * Most(1, r) <= x + 50)
    BY <2>1 DEF Most
  <2> QED
    BY <2>2 DEF r
<1>3. ASSUME NEW s \in {15, 25, 60}, NEW t \in MemoryTypes,
             s = CASE t = "procedural" -> 60 [] t = "episodic" -> 25 [] t = "semantic" -> 15
      PROVE  quota(t) \in Nat /\ quota(t) >= 1 /\ (quota(t) = 1 \/ 100 * quota(t) <= s * m + 50)
  <2>1. PICK x \in Nat : x = s * m
    OBVIOUS
  <2>2. quota(t) = Most(1, IF x % 100 = 50 THEN 2 * ((x \div 100 + 1) \div 2) ELSE (x + 50) \div 100)
    BY <1>1, <1>3, <2>1 DEF quota
  <2> QED
    BY <1>2, <2>1, <2>2
<1> DEFINE p == quota("procedural")
           e == quota("episodic")
           c == quota("semantic")
<1>4. /\ p \in Nat /\ p >= 1 /\ (p = 1 \/ 100 * p <= 60 * m + 50)
      /\ e \in Nat /\ e >= 1 /\ (e = 1 \/ 100 * e <= 25 * m + 50)
      /\ c \in Nat /\ c >= 1 /\ (c = 1 \/ 100 * c <= 15 * m + 50)
  BY <1>3 DEF MemoryTypes
<1>5. MemoryTypes = {"procedural", "episodic", "semantic"}
  BY DEF MemoryTypes
<1> HIDE DEF p, e, c
<1>6. m \notin {1, 2, 3, 6} => p + e < m /\ p + c < m /\ e + c < m
  <2> SUFFICES ASSUME m \notin {1, 2, 3, 6} PROVE p + e < m /\ p + c < m /\ e + c < m
    OBVIOUS
  <2>1. CASE m \in {4, 5}
    BY <1>4, <2>1
  <2>2. CASE m >= 7
    BY <1>4, <2>2
  <2> QED
    BY <2>1, <2>2
<1> QED
  BY <1>1, <1>4, <1>5, <1>6 DEF SizeOk, p, e, c

\* What is kept after n turns: within the memory and the quotas, and something of every
\* type that had a turn.
KeptOk(kept, db, order, n) ==
  /\ kept \in SUBSET (DOMAIN db) /\ IsFiniteSet(kept) /\ Cardinality(kept) <= MaxBullets
  /\ \A t \in MemoryTypes : Cardinality(ofType(kept, db, t)) <= quota(t)
  /\ \A i \in 1 .. n : ofType(kept, db, db[order[i]].type) # {}

\* What is kept is kept by type.
LEMMA ByType ==
  ASSUME NEW db, NEW kept \in SUBSET (DOMAIN db), IsFiniteSet(kept),
         NEW s \in MemoryTypes, NEW t \in MemoryTypes, NEW u \in MemoryTypes,
         MemoryTypes = {s, t, u}, \A id \in kept : db[id].type \in MemoryTypes,
         ofType(kept, db, u) = {}
  PROVE  Cardinality(kept) <= Cardinality(ofType(kept, db, s)) + Cardinality(ofType(kept, db, t))
<1> DEFINE S == ofType(kept, db, s)
           T == ofType(kept, db, t)
<1>1. kept = S \cup T /\ S \in SUBSET kept /\ T \in SUBSET kept
  BY DEF ofType
<1> HIDE DEF S, T
<1>2. IsFiniteSet(S) /\ IsFiniteSet(T)
  BY <1>1, FS_Subset
<1>3. Cardinality(S \cup T) = Cardinality(S) + Cardinality(T) - Cardinality(S \cap T)
  BY <1>2, FS_Union
<1>4. IsFiniteSet(S \cap T)
  BY <1>2, FS_Intersection
<1>5. Cardinality(S) \in Nat /\ Cardinality(T) \in Nat /\ Cardinality(S \cap T) \in Nat
  BY <1>2, <1>4, FS_CardinalityType
<1>6. PICK a \in Nat, b \in Nat, c \in Nat :
        a = Cardinality(S) /\ b = Cardinality(T) /\ c = Cardinality(S \cap T)
  BY <1>5
<1>7. Cardinality(kept) = a + b - c
  BY <1>1, <1>3, <1>6
<1>8. Cardinality(kept) <= a + b
  BY <1>7
<1>9. Cardinality(kept) <= Cardinality(S) + Cardinality(T)
  BY <1>6, <1>8
<1> QED
  BY <1>9 DEF S, T

\* One turn.
LEMMA Turn ==
  ASSUME SizeOk, NEW said, NEW next \in Nat, NEW db, MemoryOk(db, next, said),
         NEW order \in Seq(DOMAIN db), NEW n \in 1 .. Len(order), NEW kept,
         KeptOk(kept, db, order, n - 1)
  PROVE  KeptOk(extended(kept, db, order[n]), db, order, n)
<1> DEFINE id == order[n]
           u == db[id].type
           more == kept \cup {id}
<1>1. id \in DOMAIN db /\ Len(order) \in Nat
  BY ElementOfSeq, LenProperties
<1>2. \A i \in DOMAIN db : db[i].type \in MemoryTypes
  BY DEF MemoryOk, BulletOk
<1>3. u \in MemoryTypes
  BY <1>1, <1>2
<1>4. /\ kept \in SUBSET (DOMAIN db) /\ IsFiniteSet(kept) /\ Cardinality(kept) <= MaxBullets
      /\ \A t \in MemoryTypes : Cardinality(ofType(kept, db, t)) <= quota(t)
      /\ \A i \in 1 .. n - 1 : ofType(kept, db, db[order[i]].type) # {}
  BY DEF KeptOk
<1>5. \A i \in 1 .. n : i \in 1 .. n - 1 \/ i = n
  BY <1>1
<1>6. Cardinality(kept) \in Nat /\ MaxBullets \in Nat
  BY <1>4, FS_CardinalityType, MemoryAssumption DEF MemoryAssumption
<1>7. extended(kept, db, id) = IF keeps(kept, db, id) THEN more ELSE kept
  BY DEF extended
<1> HIDE DEF id
<1>8. CASE keeps(kept, db, id)
  <2>1. /\ Cardinality(kept) < MaxBullets
        /\ Cardinality(ofType(kept, db, u)) < quota(u)
    BY <1>8 DEF keeps
  <2>2. /\ IsFiniteSet(more)
        /\ Cardinality(more) = Cardinality(kept) \/ Cardinality(more) = Cardinality(kept) + 1
    BY <1>4, FS_AddElement
  <2>3. Cardinality(more) <= MaxBullets
    BY <1>6, <2>1, <2>2
  <2>4. ASSUME NEW t \in MemoryTypes PROVE Cardinality(ofType(more, db, t)) <= quota(t)
    <3>1. CASE t # u
      <4>1. ofType(more, db, t) = ofType(kept, db, t)
        BY <3>1 DEF ofType
      <4> QED
        BY <1>4, <4>1
    <3>2. CASE t = u
      <4> DEFINE own == ofType(kept, db, t)
      <4>1. ofType(more, db, t) = own \cup {id}
        BY <3>2 DEF ofType
      <4>2. IsFiniteSet(own)
        <5>1. own \in SUBSET kept
          BY DEF ofType
        <5> HIDE DEF own
        <5> QED
          BY <1>4, <5>1, FS_Subset
      <4>3. Cardinality(own) < quota(t)
        BY <2>1, <3>2
      <4> HIDE DEF own
      <4>4. /\ Cardinality(own) \in Nat
            /\ \/ Cardinality(own \cup {id}) = Cardinality(own)
               \/ Cardinality(own \cup {id}) = Cardinality(own) + 1
        BY <4>2, FS_AddElement, FS_CardinalityType
      <4>5. quota(t) \in Nat
        BY Quotas
      <4>6. PICK a \in Nat, b \in Nat : a = Cardinality(own) /\ b = quota(t)
        BY <4>4, <4>5
      <4>7. a < b
        BY <4>3, <4>6
      <4>8. Cardinality(own \cup {id}) = a \/ Cardinality(own \cup {id}) = a + 1
        BY <4>4, <4>6
      <4>9. Cardinality(own \cup {id}) <= b
        BY <4>7, <4>8
      <4> QED
        BY <4>1, <4>6, <4>9
    <3> QED
      BY <3>1, <3>2
  <2>5. ASSUME NEW i \in 1 .. n PROVE ofType(more, db, db[order[i]].type) # {}
    <3>1. CASE i = n
      BY <3>1 DEF ofType, id
    <3>2. CASE i \in 1 .. n - 1
      BY <1>4, <3>2 DEF ofType
    <3> QED
      BY <1>5, <3>1, <3>2
  <2>6. more \in SUBSET (DOMAIN db)
    BY <1>1, <1>4
  <2> HIDE DEF more
  <2> QED
    BY <1>7, <1>8, <2>2, <2>3, <2>4, <2>5, <2>6 DEF KeptOk, id
<1>9. CASE ~keeps(kept, db, id)
  <2>1. ofType(kept, db, u) # {}
    <3> SUFFICES ASSUME ofType(kept, db, u) = {} PROVE FALSE
      OBVIOUS
    <3>1. Cardinality(ofType(kept, db, u)) = 0
      BY FS_EmptySet
    <3>2. quota(u) >= 1 /\ quota(u) \in Nat
      BY <1>3, Quotas
    <3>3. PICK s \in MemoryTypes, t \in MemoryTypes : MemoryTypes = {s, t, u} /\ s # t
      BY <1>3 DEF MemoryTypes
    <3>4. Cardinality(kept) <= Cardinality(ofType(kept, db, s)) + Cardinality(ofType(kept, db, t))
      BY <1>2, <1>3, <1>4, <3>3, ByType
    <3>5. quota(s) \in Nat /\ quota(t) \in Nat /\ quota(s) + quota(t) < MaxBullets
      BY <3>3, Quotas
    <3>6. Cardinality(ofType(kept, db, s)) <= quota(s) /\ Cardinality(ofType(kept, db, t)) <= quota(t)
      BY <1>4
    <3>7. Cardinality(ofType(kept, db, s)) \in Nat /\ Cardinality(ofType(kept, db, t)) \in Nat
      <4>1. ofType(kept, db, s) \in SUBSET kept /\ ofType(kept, db, t) \in SUBSET kept
        BY DEF ofType
      <4>2. IsFiniteSet(ofType(kept, db, s)) /\ IsFiniteSet(ofType(kept, db, t))
        BY <1>4, <4>1, FS_Subset
      <4> QED
        BY <4>2, FS_CardinalityType
    <3>8. Cardinality(kept) < MaxBullets
      BY <1>6, <3>4, <3>5, <3>6, <3>7
    <3> QED
      BY <1>9, <3>1, <3>2, <3>8 DEF keeps
  <2>2. \A i \in 1 .. n : ofType(kept, db, db[order[i]].type) # {}
    BY <1>4, <1>5, <2>1 DEF id
  <2> QED
    BY <1>4, <1>7, <1>9, <2>2 DEF KeptOk, id
<1> QED
  BY <1>8, <1>9

\* All turns.
LEMMA Turns ==
  ASSUME SizeOk, NEW said, NEW next \in Nat, NEW db, MemoryOk(db, next, said),
         NEW order \in Seq(DOMAIN db), Len(order) = Cardinality(DOMAIN db)
  PROVE  KeptOk(greedy(db, order)[Len(order)], db, order, Len(order))
<1> DEFINE N == Len(order)
           kept(n) == greedy(db, order)[n]
           Bad == {n \in 0 .. N : ~KeptOk(kept(n), db, order, n)}
<1>1. N \in Nat
  BY LenProperties
<1>2. kept(0) = {} /\ \A n \in 1 .. N : kept(n) = extended(kept(n - 1), db, order[n])
  <2>1. \A n \in 0 .. N : kept(n) = IF n = 0 THEN {} ELSE extended(kept(n - 1), db, order[n])
    BY <1>1, Greedy
  <2> HIDE DEF kept
  <2> QED
    BY <1>1, <2>1
<1> HIDE DEF N, kept
<1>3. KeptOk({}, db, order, 0)
  <2>1. IsFiniteSet({}) /\ Cardinality({}) = 0
    BY FS_EmptySet
  <2>2. \A t : ofType({}, db, t) = {}
    BY DEF ofType
  <2>3. MaxBullets \in Nat /\ \A t \in MemoryTypes : quota(t) \in Nat
    BY Quotas, MemoryAssumption DEF MemoryAssumption
  <2>4. Cardinality({}) <= MaxBullets
    BY <2>1, <2>3
  <2>5. ASSUME NEW t \in MemoryTypes PROVE Cardinality(ofType({}, db, t)) <= quota(t)
    <3>1. Cardinality(ofType({}, db, t)) = 0
      BY <2>1, <2>2
    <3>2. PICK q \in Nat : q = quota(t)
      BY <2>3
    <3> QED
      BY <3>1, <3>2
  <2>6. 1 .. 0 = {}
    OBVIOUS
  <2> QED
    BY <2>1, <2>4, <2>5, <2>6 DEF KeptOk
<1>4. Bad = {}
  <2> SUFFICES ASSUME Bad # {} PROVE FALSE
    OBVIOUS
  <2> DEFINE n == Min(Bad)
  <2>1. Bad \in SUBSET Nat
    BY <1>1
  <2>2. n \in Bad /\ \A k \in Bad : n <= k
    <3> HIDE DEF Bad
    <3> QED
      BY <2>1, LeastNumber
  <2> HIDE DEF n
  <2>3. n \in 0 .. N /\ ~KeptOk(kept(n), db, order, n)
    BY <2>2
  <2>4. n # 0
    BY <1>2, <1>3, <2>3
  <2>5. n \in 1 .. N /\ n - 1 \in 0 .. N /\ ~(n <= n - 1)
    BY <1>1, <2>3, <2>4
  <2>6. n - 1 \notin Bad
    <3> HIDE DEF Bad
    <3> QED
      BY <2>2, <2>5
  <2>7. KeptOk(kept(n - 1), db, order, n - 1)
    BY <2>5, <2>6
  <2>8. KeptOk(extended(kept(n - 1), db, order[n]), db, order, n)
    BY <2>5, <2>7, Turn DEF N
  <2> QED
    BY <1>2, <2>3, <2>5, <2>8
<1>5. N \in 0 .. N
  BY <1>1
<1>6. KeptOk(kept(N), db, order, N)
  BY <1>4, <1>5
<1> QED
  BY <1>6 DEF N, kept

\* A refinement keeps no more than the memory has room for, and something of each type.
LEMMA Refinement ==
  ASSUME SizeOk, NEW said, NEW next \in Nat, NEW db, MemoryOk(db, next, said)
  PROVE  LET kept == refine(db, 0)
         IN  /\ kept \in SUBSET (DOMAIN db) /\ IsFiniteSet(kept) /\ Cardinality(kept) <= MaxBullets
             /\ \A id \in DOMAIN db : \E k \in kept : db[k].type = db[id].type
<1> DEFINE rank == [id \in DOMAIN db |-> refineRank(db[id], 0)]
           order == ranked(db, rank)
           n == Cardinality(DOMAIN db)
<1>1. rank \in [DOMAIN db -> Int]
  <2>1. ASSUME NEW id \in DOMAIN db PROVE refineRank(db[id], 0) \in Int
    <3>1. BulletOk(db[id], said) /\ 0 \in 0 .. 2
      BY DEF MemoryOk
    <3>2. totalDecayedStrength(db[id], 0) \in Nat /\ db[id].helpful \in Nat
      BY <3>1, StrengthType DEF BulletOk
    <3> QED
      BY <3>2 DEF refineRank
  <2> QED
    BY <2>1
<1>2. refine(db, 0) = IF n <= MaxBullets THEN DOMAIN db ELSE greedy(db, order)[n]
  BY DEF refine
<1> HIDE DEF rank
<1>3. /\ IsFiniteSet(DOMAIN db) /\ n \in Nat
      /\ order \in Seq(DOMAIN db) /\ Len(order) = n /\ Covers(order, DOMAIN db)
  BY <1>1, Ranking
<1> HIDE DEF order, n
<1>4. CASE n <= MaxBullets
  BY <1>2, <1>3, <1>4 DEF n
<1>5. CASE ~(n <= MaxBullets)
  <2>1. KeptOk(greedy(db, order)[n], db, order, n)
    BY <1>3, Turns DEF n
  <2>2. refine(db, 0) = greedy(db, order)[n]
    BY <1>2, <1>5
  <2>3. KeptOk(refine(db, 0), db, order, n)
    BY <2>1, <2>2
  <2>4. ASSUME NEW id \in DOMAIN db PROVE \E k \in refine(db, 0) : db[k].type = db[id].type
    <3>1. PICK i \in 1 .. n : order[i] = id
      BY <1>3 DEF Covers
    <3> QED
      BY <2>3, <3>1 DEF KeptOk, ofType
  <2> QED
    BY <2>3, <2>4 DEF KeptOk
<1> QED
  BY <1>4, <1>5

-----------------------------------------------------------------------------
(* What holds of every behaviour. *)

\* The database, the run and the reflections keep their types.
THEOREM TypeCorrect == Spec => []TypeOK
<1>1. Inv => TypeOK
  <2> SUFFICES ASSUME Inv PROVE TypeOK
    OBVIOUS
  <2>1. DOMAIN stored \subseteq 1 .. nextId - 1 /\ nextId \in Nat
    BY DEF Inv, StoreInv, MemoryOk
  <2>2. \A id \in DOMAIN stored :
          /\ stored[id].type \in MemoryTypes /\ stored[id].strength \in 2 .. 10
          /\ stored[id].helpful \in Nat /\ stored[id].access \in 0 .. 2
    BY DEF Inv, StoreInv, MemoryOk, BulletOk
  <2>3. run.phase \in {"idle", "fragments", "replay", "replaying", "loop"}
    BY DEF Inv, RunOk
  <2>4. \A w \in Workers : worker[w].phase \in {"free", "load", "reflect", "refine"}
    BY DEF Inv, WorkersInv, WorkerOk
  <2> QED
    BY <2>1, <2>2, <2>3, <2>4 DEF TypeOK, Inv, CountInv
<1> QED
  BY Invariant, <1>1, PTL

\* services.py: failed runs avoid teaching bad procedures.  Whatever the memory holds
\* or a plan is about to replay was verified in a run that succeeded, and no secret is
\* part of it, for any traces, replies, likeness and number of reflections.
THEOREM LearnedDone == Spec => []LearnedWasDone
<1>1. Inv => LearnedWasDone
  <2> SUFFICES ASSUME Inv PROVE LearnedWasDone
    OBVIOUS
  <2>1. \A c \in taught : c.value # "secret"
    BY DEF Inv, StoreInv
  <2>2. \A id \in DOMAIN stored : stored[id].content.kind = "step" => stored[id].content \in taught
    BY DEF Inv, StoreInv, MemoryOk, BulletOk
  <2>3. \A f \in run.fragments : f.from \in taught
    BY DEF Inv, RunOk, FragmentOk
  <2>4. \A i \in DOMAIN run.plan : run.plan[i].from \in taught
    BY DEF Inv, RunOk
  <2> QED
    BY <2>1, <2>2, <2>3, <2>4 DEF LearnedWasDone
<1> QED
  BY Invariant, <1>1, PTL

\* repo.py: removeBullet deletes, updateBulletFields matches, and an upsert writes ids
\* that are new.  A bullet that was forgotten stays forgotten.
THEOREM RemovedForever == Spec => []RemovedStaysRemoved
<1>1. Inv => RemovedStaysRemoved
  BY DEF Inv, StoreInv, RemovedStaysRemoved
<1> QED
  BY Invariant, <1>1, PTL

\* replay.py and fragment_replay.py: with the thresholds of the code, a run that found
\* fragments and still enters the loop has lost their bullets from its second
\* retrieval, or has retrieved advice with them.
THEOREM ReplayShadows == Spec => ReplayShadowsFragments
<1> DEFINE order == retrieved(run.memory, run.task, 2)
           found == {run.memory[id] : id \in ToSet(order)}
           advice == {b \in found : b.type = "procedural" /\ ~isStep(b)}
           Shadows == run.phase = "replay" /\ run'.phase = "loop" =>
                        advice # {} \/ \A f \in run.fragments : f.from \notin {b.content : b \in found}
<1>1. Inv /\ [Next]_vars => [Shadows]_vars
  <2> SUFFICES ASSUME Inv, [Next]_vars, run.phase = "replay", run'.phase = "loop",
                      advice = {}, NEW f \in run.fragments, NEW b \in found, f.from = b.content
               PROVE  FALSE
    OBVIOUS
  <2>1. FindReplay
    <3>1. ~(UNCHANGED vars)
      BY DEF vars
    <3>2. run'.phase = "loop" /\ run' # Idle /\ run' # run
      <4>1. Idle.phase = "idle"
        BY DEF Idle
      <4> HIDE DEF order, found, advice
      <4> QED
        BY <4>1
    <3>3. ASSUME NEW w \in Workers, Load(w) \/ Reflect(w) \/ Refine(w) \/ Abandon(w) PROVE FALSE
      BY <3>2, <3>3 DEF Load, Reflect, Refine, Abandon
    <3> HIDE DEF order, found, advice
    <3> QED
      BY <3>1, <3>2, <3>3 DEF Next, Begin, FindFragments, Cancel, ExecuteReplay, RunLoop
  <2>2. replayPlan(order, run.memory, run.task) = <<>>
    <3>1. DOMAIN run = {"phase", "task", "site", "memory", "fragments", "plan"} /\ run' # Idle
      <4>1. Idle.phase = "idle"
        BY DEF Idle
      <4> HIDE DEF order, found, advice
      <4> QED
        BY <4>1 DEF Inv, RunOk
    <3> DEFINE plan == replayPlan(order, run.memory, run.task)
    <3>2. run' = [run EXCEPT !.phase = IF plan = <<>> THEN "loop" ELSE "replaying", !.plan = plan,
                             !.memory = NoMemory]
      BY <2>1, <3>1 DEF FindReplay
    <3> HIDE DEF plan
    <3>3. run'.phase = IF plan = <<>> THEN "loop" ELSE "replaying"
      BY <3>1, <3>2
    <3> QED
      BY <3>3 DEF plan
  <2>3. nextId \in Nat /\ run.task \in Tasks /\ MemoryOk(run.memory, nextId, taught)
    BY DEF Inv, StoreInv, RunOk
  <2>4. order \in Seq(DOMAIN run.memory)
    <3>1. 2 \in 1 .. 2
      OBVIOUS
    <3> QED
      BY <2>3, <3>1, Retrieved
  <2>5. FragmentOk(f, run.task, taught)
    BY DEF Inv, RunOk
  <2>6. PICK k \in 1 .. Len(order) : b = run.memory[order[k]]
    <3> HIDE DEF order
    <3>1. DOMAIN order = 1 .. Len(order)
      BY <2>4, LenProperties
    <3> QED
      BY <3>1 DEF ToSet
  <2>7. b.type = "procedural" /\ Similarity(Query(run.task), b.content) >= 85
    <3>1. f.from \in StepContents /\ Similarity(Query(run.task), b.content) >= 86
      BY <2>5 DEF FragmentOk
    <3>2. order[k] \in DOMAIN run.memory
      <4> HIDE DEF order
      <4> QED
        BY <2>4, ElementOfSeq
    <3>3. BulletOk(b, taught)
      BY <2>3, <2>6, <3>2 DEF MemoryOk
    <3>4. b.type = "procedural"
      BY <3>1, <3>3, ContentKinds DEF BulletOk
    <3>5. PICK s \in Nat : s = Similarity(Query(run.task), b.content)
      BY <2>3, <3>3, TextAssumption DEF TextAssumption, Tasks, BulletOk
    <3> QED
      BY <3>1, <3>4, <3>5
  <2>8. \A i \in 1 .. Len(order) :
          run.memory[order[i]].type = "procedural" => isStep(run.memory[order[i]])
    <3> HIDE DEF order
    <3>1. \A i \in 1 .. Len(order) : order[i] \in ToSet(order)
      BY <2>4, OwnElements
    <3> QED
      BY <3>1
  <2> HIDE DEF order
  <2> QED
    BY <2>2, <2>3, <2>4, <2>6, <2>7, <2>8, PlanExists
<1> QED
  BY Invariant, <1>1, PTL DEF Spec, ReplayShadowsFragments

\* ace_memory.py: a refinement enforces the quotas so that no memory type evicts all of
\* another.  For every size of the memory but 1, 2, 3 and 6, where rounding gives two
\* types all of it, a refinement leaves at most MaxBullets of what the reflection knew,
\* and something of every type it knew.
THEOREM RefineFair ==
  ASSUME SizeOk
  PROVE  Spec => RefineIsFair
<1> DEFINE Fair == \A w \in Workers : Refined(w) =>
             /\ Cardinality(DOMAIN worker[w].memory \cap DOMAIN stored') <= MaxBullets
             /\ DOMAIN worker[w].memory \subseteq DOMAIN stored =>
                  Types(worker[w].memory) \subseteq Types(stored')
<1>1. Inv /\ [Next]_vars => [Fair]_vars
  <2> SUFFICES ASSUME Inv, [Next]_vars, NEW w \in Workers, Refined(w)
               PROVE  /\ Cardinality(DOMAIN worker[w].memory \cap DOMAIN stored') <= MaxBullets
                      /\ DOMAIN worker[w].memory \subseteq DOMAIN stored =>
                           Types(worker[w].memory) \subseteq Types(stored')
    OBVIOUS
  <2> DEFINE memory == worker[w].memory
             kept == refine(memory, 0)
             gone == DOMAIN memory \ kept
  <2>1. worker[w].phase = "refine" /\ worker'[w] = Free /\ failures' = failures
    BY DEF Refined
  <2>2. worker[w] # Free /\ worker'[w] # worker[w] /\ worker' # worker
    BY <2>1 DEF Free
  <2>3. failures \in Nat
    BY DEF Inv, CountInv
  <2>4. Refine(w)
    <3>1. ~RunLoop
      <4> SUFFICES ASSUME RunLoop PROVE FALSE
        OBVIOUS
      <4>1. PICK v \in Workers : worker[v] = Free /\ \E x : worker' = [worker EXCEPT ![v] = x]
        BY <2>2 DEF RunLoop
      <4>2. v # w
        BY <2>2, <4>1
      <4> QED
        BY <2>2, <4>1, <4>2
    <3>2. ~Begin /\ ~FindFragments /\ ~Cancel /\ ~FindReplay /\ ~ExecuteReplay
      BY <2>2 DEF Begin, FindFragments, Cancel, FindReplay, ExecuteReplay
    <3>3. PICK v \in Workers : Load(v) \/ Reflect(v) \/ Refine(v) \/ Abandon(v)
      BY <2>2, <3>1, <3>2 DEF Next, vars
    <3>4. \E x : worker' = [worker EXCEPT ![v] = x]
      <4>1. CASE Load(v)
        BY <4>1 DEF Load
      <4>2. ASSUME NEW phase, NEW held, Remember(v, phase, held)
            PROVE  \E x : worker' = [worker EXCEPT ![v] = x]
        BY <4>2 DEF Remember
      <4>3. CASE Refine(v) \/ Abandon(v)
        BY <4>2, <4>3 DEF Refine, Abandon
      <4>4. CASE Reflect(v)
        BY <4>2, <4>4 DEF Reflect
      <4> QED
        BY <3>3, <4>1, <4>3, <4>4
    <3>5. v = w
      BY <2>2, <3>4
    <3>6. ~Load(w) /\ ~Reflect(w) /\ ~Abandon(w)
      BY <2>1 DEF Load, Reflect, Abandon
    <3> QED
      BY <3>3, <3>5, <3>6
  <2>5. stored' = without(stored, gone)
    <3>1. ~Fail
      BY <2>1, <2>3 DEF Fail
    <3> QED
      BY <2>4, <3>1 DEF Refine
  <2>6. nextId \in Nat /\ MemoryOk(memory, nextId, taught) /\ Agree(memory, stored)
    BY DEF Inv, StoreInv, WorkersInv, WorkerOk, AgreeInv
  <2> HIDE DEF memory
  <2>7. /\ kept \in SUBSET (DOMAIN memory) /\ IsFiniteSet(kept) /\ Cardinality(kept) <= MaxBullets
        /\ \A id \in DOMAIN memory : \E k \in kept : memory[k].type = memory[id].type
    BY <2>6, Refinement
  <2> HIDE DEF kept
  <2>8. DOMAIN stored' = DOMAIN stored \ gone /\ \A id \in DOMAIN stored' : stored'[id] = stored[id]
    BY <2>5 DEF without
  <2>9. Cardinality(DOMAIN memory \cap DOMAIN stored') <= MaxBullets
    <3> DEFINE left == DOMAIN memory \cap DOMAIN stored'
    <3>1. left \in SUBSET kept
      BY <2>8
    <3> HIDE DEF left
    <3>2. IsFiniteSet(left) /\ Cardinality(left) <= Cardinality(kept)
      BY <2>7, <3>1, FS_Subset
    <3>3. PICK a \in Nat, b \in Nat : a = Cardinality(left) /\ b = Cardinality(kept)
      BY <2>7, <3>2, FS_CardinalityType
    <3>4. MaxBullets \in Nat
      BY MemoryAssumption DEF MemoryAssumption
    <3>5. Cardinality(left) <= MaxBullets
      BY <2>7, <3>2, <3>3, <3>4
    <3> QED
      BY <3>5 DEF left
  <2>10. ASSUME DOMAIN memory \subseteq DOMAIN stored, NEW id \in DOMAIN memory
         PROVE  memory[id].type \in Types(stored')
    <3>1. PICK k \in kept : memory[k].type = memory[id].type
      BY <2>7
    <3>2. k \in DOMAIN stored' /\ stored'[k] = stored[k]
      BY <2>7, <2>8, <2>10
    <3>3. stored[k].type = memory[k].type
      BY <2>6, <2>7, <2>10 DEF Agree
    <3> QED
      BY <3>1, <3>2, <3>3 DEF Types
  <2> QED
    BY <2>9, <2>10 DEF Types, memory
<1> QED
  BY Invariant, <1>1, PTL DEF Spec, RefineIsFair
=============================================================================
