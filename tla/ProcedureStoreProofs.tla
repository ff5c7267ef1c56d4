---------------------- MODULE ProcedureStoreProofs ----------------------
(***************************************************************************)
(* Theorems about ProcedureStore, for every set of runs, users, procedures  *)
(* and pages, every site and every reply of the decomposer: the types, that *)
(* a chain loaded in part was stored in part, and that what is replayed was *)
(* once done for the same user.                                             *)
(***************************************************************************)
EXTENDS ProcedureStore, FiniteSetTheorems, SequenceTheorems, WellFoundedInduction, TLAPS

-----------------------------------------------------------------------------
(* Numbers and sequences. *)

\* Every nonempty set of numbers has a least one.
LEMMA Least ==
  ASSUME NEW T \in SUBSET Nat, T # {}
  PROVE  \E n \in T : \A m \in T : n <= m
<1>1. IsWellFoundedOn(OpToRel(<, Nat), Nat)
  BY NatLessThanWellFounded
<1>2. \E n \in T : \A m \in T : ~(<<m, n>> \in OpToRel(<, Nat))
  BY <1>1, WFMin
<1>3. \A m, n \in Nat : m < n => <<m, n>> \in OpToRel(<, Nat)
  BY DEF OpToRel
<1>4. PICK n \in T : \A m \in T : ~(<<m, n>> \in OpToRel(<, Nat))
  BY <1>2
<1>5. \A m \in T : ~(m < n)
  BY <1>3, <1>4
<1> QED
  BY <1>5

\* Every nonempty bounded set of numbers has a greatest one.
LEMMA Greatest ==
  ASSUME NEW b \in Nat, NEW T \in SUBSET (0 .. b), T # {}
  PROVE  Max(T) \in T /\ \A m \in T : Max(T) >= m
<1> DEFINE U == {u \in Nat : \A m \in T : u >= m}
<1>1. b \in U
  OBVIOUS
<1> HIDE DEF U
<1>2. PICK u \in U : \A v \in U : u <= v
  BY <1>1, Least DEF U
<1>3. u \in T
  <2> SUFFICES ASSUME u \notin T PROVE FALSE
    OBVIOUS
  <2>1. u \in Nat /\ \A m \in T : u >= m /\ u # m
    BY <1>2 DEF U
  <2>2. PICK m \in T : TRUE
    OBVIOUS
  <2>3. u - 1 \in U
    BY <2>1, <2>2 DEF U
  <2> QED
    BY <1>2, <2>1, <2>3
<1> QED
  BY <1>2, <1>3 DEF U, Max

\* s is the beginning of t, place by place.
Heads(s, t) == Len(s) <= Len(t) /\ \A i \in 1 .. Len(s) : s[i] = t[i]

\* Place by place is what IsPrefix means.
LEMMA HeadsIsPrefix ==
  ASSUME NEW S, NEW T, NEW s \in Seq(S), NEW t \in Seq(T), Heads(s, t)
  PROVE  IsPrefix(s, t)
<1>1. Len(s) \in Nat /\ Len(t) \in Nat
  BY LenProperties
<1>2. s \in Seq(S \cup T) /\ t \in Seq(S \cup T)
  BY SeqMonotonic
<1>3. \A i \in 1 .. Len(s) : s[i] \in S \cup T /\ t[i] \in S \cup T
  <2>1. \A i \in 1 .. Len(s) : s[i] \in S /\ t[i] \in T
    BY <1>1, ElementOfSeq DEF Heads
  <2> QED
    BY <2>1
<1>4. /\ SubSeq(s, 1, Len(s)) \in Seq(S \cup T)
      /\ Len(SubSeq(s, 1, Len(s))) = Len(s)
      /\ \A i \in 1 .. Len(s) : SubSeq(s, 1, Len(s))[i] = s[i]
  BY <1>1, <1>3, SubSeqProperties
<1>5. /\ SubSeq(t, 1, Len(s)) \in Seq(S \cup T)
      /\ Len(SubSeq(t, 1, Len(s))) = Len(s)
      /\ \A i \in 1 .. Len(s) : SubSeq(t, 1, Len(s))[i] = t[i]
  BY <1>1, <1>3, SubSeqProperties
<1>6. SubSeq(s, 1, Len(s)) = SubSeq(t, 1, Len(s))
  BY <1>1, <1>4, <1>5, SeqEqual DEF Heads
<1> QED
  BY <1>6 DEF IsPrefix, Heads

\* The first n of a sequence are its beginning.
LEMMA FirstOf ==
  ASSUME NEW S, NEW s \in Seq(S), NEW n \in 0 .. Len(s)
  PROVE  /\ SubSeq(s, 1, n) \in Seq(S) /\ Len(SubSeq(s, 1, n)) = n
         /\ \A i \in 1 .. n : SubSeq(s, 1, n)[i] = s[i]
         /\ Heads(SubSeq(s, 1, n), s)
<1>1. Len(s) \in Nat /\ n \in Nat /\ \A i \in 1 .. n : s[i] \in S
  BY LenProperties, ElementOfSeq
<1>2. /\ SubSeq(s, 1, n) \in Seq(S) /\ Len(SubSeq(s, 1, n)) = n
      /\ \A i \in 1 .. n : SubSeq(s, 1, n)[i] = s[i]
  BY <1>1, SubSeqProperties
<1> QED
  BY <1>1, <1>2 DEF Heads

\* The lesser of two numbers.
LEMMA Lesser ==
  ASSUME NEW a \in Nat, NEW b \in Nat
  PROVE  Min({a, b}) \in {a, b} /\ Min({a, b}) <= a /\ Min({a, b}) <= b
<1>1. \E n \in {a, b} : \A m \in {a, b} : n <= m
  OBVIOUS
<1> QED
  BY <1>1 DEF Min

-----------------------------------------------------------------------------
(* The matcher. *)

\* Fingerprints of a chain, one for each of its nodes.
LEMMA HashesOf ==
  ASSUME NEW S, NEW nodes \in Seq(S)
  PROVE  /\ hashes(nodes) \in Seq({computeActionHash(n.action) : n \in S})
         /\ Len(hashes(nodes)) = Len(nodes)
         /\ \A i \in 1 .. Len(nodes) : hashes(nodes)[i] = computeActionHash(nodes[i].action)
<1>1. Len(nodes) \in Nat /\ DOMAIN nodes = 1 .. Len(nodes) /\ \A i \in 1 .. Len(nodes) : nodes[i] \in S
  BY LenProperties, ElementOfSeq
<1>2. hashes(nodes) = [i \in 1 .. Len(nodes) |-> computeActionHash(nodes[i].action)]
  BY <1>1 DEF hashes
<1>3. \A i \in 1 .. Len(nodes) :
        computeActionHash(nodes[i].action) \in {computeActionHash(n.action) : n \in S}
  BY <1>1
<1> HIDE DEF computeActionHash
<1>4. hashes(nodes) \in [1 .. Len(nodes) -> {computeActionHash(n.action) : n \in S}]
  BY <1>2, <1>3
<1>5. hashes(nodes) \in Seq({computeActionHash(n.action) : n \in S})
  BY <1>1, <1>4, SeqDef
<1> QED
  BY <1>1, <1>2, <1>4, <1>5

\* The common prefix is one, and it is no longer than either sequence.
LEMMA CommonPrefix ==
  ASSUME NEW a, NEW b, Len(a) \in Nat, Len(b) \in Nat
  PROVE  /\ longestCommonPrefix(a, b) \in 0 .. Len(a)
         /\ longestCommonPrefix(a, b) \in 0 .. Len(b)
         /\ \A i \in 1 .. longestCommonPrefix(a, b) : a[i] = b[i]
<1> DEFINE m == Min({Len(a), Len(b)})
           common == {n \in 0 .. m : \A i \in 1 .. n : a[i] = b[i]}
<1>1. Len(a) \in Nat /\ Len(b) \in Nat
  OBVIOUS
<1>2. m \in Nat /\ m <= Len(a) /\ m <= Len(b)
  BY <1>1, Lesser
<1> HIDE DEF m
<1>3. 0 \in common /\ common \in SUBSET (0 .. m)
  BY <1>2
<1> HIDE DEF common
<1>4. Max(common) \in common
  BY <1>2, <1>3, Greatest
<1>5. longestCommonPrefix(a, b) = Max(common)
  BY DEF longestCommonPrefix, common, m
<1> QED
  BY <1>1, <1>2, <1>4, <1>5 DEF common

\* What the matcher returns is the beginning of a stored chain, step by step the
\* beginning of the new task, not too short, and safe to replay by its report.
LEMMA MatchIsPrefix ==
  ASSUME NEW S, NEW T, NEW task \in Seq(T), NEW stored \in Seq(Seq(S)),
         findBestMatch(task, stored) # <<>>
  PROVE  LET prefix == findBestMatch(task, stored) IN
         /\ prefix \in Seq(S)
         /\ \E k \in 1 .. Len(stored) : Heads(prefix, stored[k])
         /\ Len(prefix) >= MinPrefix
         /\ Heads(hashes(prefix), task)
         /\ Len(prefix) <= Cardinality(safeToReplay(task, stored))
<1> DEFINE common(k) == longestCommonPrefix(task, hashes(stored[k]))
           matches == {k \in DOMAIN stored : common(k) >= MinPrefix}
           best == bestMatch(task, stored)
           n == common(best)
           prefix == findBestMatch(task, stored)
<1>1. DOMAIN stored = 1 .. Len(stored) /\ Len(stored) \in Nat
  BY LenProperties
<1>2. \A k \in 1 .. Len(stored) : stored[k] \in Seq(S)
  BY ElementOfSeq
<1>3. ASSUME NEW k \in 1 .. Len(stored)
      PROVE  /\ common(k) \in Nat /\ common(k) <= Len(task) /\ common(k) <= Len(stored[k])
             /\ \A i \in 1 .. common(k) : task[i] = hashes(stored[k])[i]
  <2>1. /\ hashes(stored[k]) \in Seq({computeActionHash(a.action) : a \in S})
        /\ Len(hashes(stored[k])) = Len(stored[k])
    BY <1>2, HashesOf
  <2>2. /\ common(k) \in 0 .. Len(task) /\ common(k) \in 0 .. Len(hashes(stored[k]))
        /\ \A i \in 1 .. common(k) : task[i] = hashes(stored[k])[i]
    <3> DEFINE H == {computeActionHash(a.action) : a \in S}
               h == hashes(stored[k])
    <3>1. Len(h) \in Nat /\ Len(task) \in Nat
      <4>1. h \in Seq(H) /\ task \in Seq(T)
        BY <2>1
      <4> HIDE DEF H, h
      <4> QED
        BY <4>1, LenProperties
    <3> HIDE DEF H, h
    <3>2. /\ longestCommonPrefix(task, h) \in 0 .. Len(task)
          /\ longestCommonPrefix(task, h) \in 0 .. Len(h)
          /\ \A i \in 1 .. longestCommonPrefix(task, h) : task[i] = h[i]
      BY <3>1, CommonPrefix
    <3> QED
      BY <3>2 DEF h
  <2> QED
    BY <2>1, <2>2, LenProperties
<1> HIDE DEF common
<1>4. best # 0
  BY DEF findBestMatch
<1>5. best \in matches
  <2>1. matches # {}
    BY <1>4 DEF bestMatch, common, matches
  <2> DEFINE longest == {k \in matches : \A j \in matches : common(k) >= common(j)}
  <2>2. best = Min(longest)
    BY <2>1 DEF bestMatch, common, matches
  <2>3. longest # {}
    <3> DEFINE lengths == {common(k) : k \in matches}
    <3>1. lengths \in SUBSET (0 .. Len(task)) /\ Len(task) \in Nat
      BY <1>1, <1>3, LenProperties
    <3>2. lengths # {}
      BY <2>1
    <3> HIDE DEF lengths
    <3>3. Max(lengths) \in lengths /\ \A m \in lengths : Max(lengths) >= m
      BY <3>1, <3>2, Greatest
    <3>4. PICK k \in matches : common(k) = Max(lengths)
      BY <3>3 DEF lengths
    <3>5. \A j \in matches : common(k) >= common(j)
      BY <3>3, <3>4 DEF lengths
    <3> QED
      BY <3>5
  <2>4. longest \in SUBSET Nat /\ longest \in SUBSET matches
    BY <1>1
  <2> HIDE DEF longest, matches
  <2>5. PICK k \in longest : \A m \in longest : k <= m
    BY <2>3, <2>4, Least
  <2>6. Min(longest) \in longest
    BY <2>5 DEF Min
  <2> QED
    BY <2>2, <2>4, <2>6
<1>6. best \in 1 .. Len(stored) /\ n >= MinPrefix
  BY <1>1, <1>5
<1>7. prefix = SubSeq(stored[best], 1, n)
  BY <1>4 DEF findBestMatch, common
<1>8. n \in 0 .. Len(stored[best]) /\ n <= Len(task) /\ stored[best] \in Seq(S)
  BY <1>2, <1>3, <1>6
<1> HIDE DEF best, n, prefix, matches
<1>9. /\ prefix \in Seq(S) /\ Len(prefix) = n /\ Heads(prefix, stored[best])
      /\ \A i \in 1 .. n : prefix[i] = stored[best][i]
  BY <1>7, <1>8, FirstOf
<1>10. /\ Len(hashes(prefix)) = n
       /\ \A i \in 1 .. n : hashes(prefix)[i] = computeActionHash(prefix[i].action)
  BY <1>9, HashesOf
<1>11. \A i \in 1 .. n : hashes(stored[best])[i] = computeActionHash(stored[best][i].action)
  <2>1. n \in Nat /\ Len(stored[best]) \in Nat
    BY <1>8, LenProperties
  <2>2. \A i \in 1 .. Len(stored[best]) :
          hashes(stored[best])[i] = computeActionHash(stored[best][i].action)
    BY <1>8, HashesOf
  <2> QED
    BY <1>8, <2>1, <2>2
<1>12. \A i \in 1 .. n : task[i] = hashes(stored[best])[i]
  BY <1>3, <1>6 DEF n
<1>13. Heads(hashes(prefix), task)
  BY <1>8, <1>9, <1>10, <1>11, <1>12 DEF Heads
<1>14. n <= Cardinality(safeToReplay(task, stored))
  <2>1. n \in Nat /\ Len(task) \in Nat /\ DOMAIN task = 1 .. Len(task)
    BY <1>8, LenProperties
  <2>2. \A i \in 1 .. n : i \in findReusableSteps(task, stored)
    <3>1. DOMAIN hashes(stored[best]) = 1 .. Len(stored[best])
      <4> DEFINE h == hashes(stored[best])
                 H == {computeActionHash(a.action) : a \in S}
      <4>1. h \in Seq(H) /\ Len(h) = Len(stored[best])
        BY <1>8, HashesOf
      <4> HIDE DEF h, H
      <4>2. DOMAIN h = 1 .. Len(h)
        BY <4>1, LenProperties
      <4> QED
        BY <4>1, <4>2 DEF h
    <3>2. ASSUME NEW i \in 1 .. n PROVE task[i] \in Range(hashes(stored[best]))
      <4>1. i \in DOMAIN hashes(stored[best])
        BY <1>8, <2>1, <3>1, LenProperties
      <4> QED
        BY <1>12, <4>1 DEF Range
    <3>3. 1 .. n \subseteq DOMAIN task /\ best \in DOMAIN stored
      BY <1>1, <1>6, <1>8, <2>1
    <3> QED
      BY <3>2, <3>3 DEF findReusableSteps
  <2>3. 1 .. n \subseteq safeToReplay(task, stored)
    BY <1>8, <2>1, <2>2 DEF safeToReplay
  <2>4. safeToReplay(task, stored) \subseteq 1 .. Len(task)
    BY <2>1 DEF safeToReplay
  <2>5. IsFiniteSet(1 .. Len(task)) /\ Cardinality(1 .. n) = n
    BY <2>1, FS_Interval
  <2>6. IsFiniteSet(safeToReplay(task, stored))
    BY <2>4, <2>5, FS_Subset
  <2> QED
    BY <2>3, <2>5, <2>6, FS_Subset
<1> QED
  BY <1>6, <1>9, <1>13, <1>14 DEF prefix

\* A plan is a sequence of fingerprints.
LEMMA PlanType ==
  ASSUME NEW plan \in plans
  PROVE  plan \in Seq(Range(plan))
<1> USE ReplyAssumption DEF ReplyAssumption
<1>1. \A steps \in decompositions :
        \E isLocal, hasClient \in BOOLEAN, local, gemini \in Replies :
          steps = decompose(isLocal, local, hasClient, gemini)
  BY DEF decompositions
<1>2. ASSUME NEW reply \in Replies
      PROVE  \E n \in Nat : DOMAIN parseGraph(reply) = 1 .. n
  <2> DEFINE typed == {i \in DOMAIN reply : reply[i].type # ""}
             given == DOMAIN reply
  <2>1. typed \in SUBSET given /\ IsFiniteSet(given)
    OBVIOUS
  <2>2. DOMAIN parseGraph(reply) = 1 .. Cardinality(typed)
    BY DEF parseGraph
  <2> HIDE DEF typed, given
  <2>3. IsFiniteSet(typed)
    BY <2>1, FS_Subset
  <2>4. Cardinality(typed) \in Nat
    BY <2>3, FS_CardinalityType
  <2> QED
    BY <2>2, <2>4
<1>3. DOMAIN <<>> = 1 .. 0
  OBVIOUS
<1>4. \A steps \in decompositions : \E n \in Nat : DOMAIN steps = 1 .. n
  BY <1>1, <1>2, <1>3 DEF decompose
<1>6. PICK steps \in decompositions :
        plan = hashes([i \in DOMAIN steps |-> ActionNode(steps[i], Blank, FALSE)])
  BY DEF plans
<1>7. PICK n \in Nat : DOMAIN steps = 1 .. n
  BY <1>4
<1>8. DOMAIN plan = 1 .. n /\ plan = [i \in 1 .. n |-> plan[i]]
  BY <1>6, <1>7 DEF hashes
<1>9. plan \in [1 .. n -> Range(plan)]
  BY <1>8 DEF Range
<1> QED
  BY <1>9, SeqDef

-----------------------------------------------------------------------------
(* Chains. *)

\* What is read of a graph is the beginning of what was saved of it.
LEMMA ChainIsHead ==
  ASSUME NEW S, NEW g, g.nodes \in Seq(S), g.starts => g.nodes # <<>>
  PROVE  chain(g) \in Seq(S) /\ Heads(chain(g), g.nodes)
<1>1. Len(g.nodes) \in Nat
  BY LenProperties
<1>2. CASE ~g.live \/ ~g.starts
  <2>1. chain(g) = <<>> /\ <<>> \in Seq(S) /\ Len(<<>>) = 0
    BY <1>2, EmptySeq DEF chain
  <2> QED
    BY <1>1, <2>1 DEF Heads
<1>3. CASE g.live /\ g.starts
  <2> DEFINE T == {n \in 1 .. Len(g.nodes) : n <= MaxHops + 1 /\ 1 .. n - 1 \subseteq g.edges}
  <2>1. Len(g.nodes) >= 1
    BY <1>3, EmptySeq
  <2>2. T \in SUBSET (0 .. Len(g.nodes)) /\ 1 \in T
    BY <1>1, <2>1, DepthAssumption DEF DepthAssumption
  <2>3. chain(g) = SubSeq(g.nodes, 1, Max(T))
    BY <1>3 DEF chain
  <2> HIDE DEF T
  <2>4. Max(T) \in 0 .. Len(g.nodes)
    BY <1>1, <2>2, Greatest
  <2> QED
    BY <2>3, <2>4, FirstOf
<1> QED
  BY <1>2, <1>3

\* A graph with all of its nodes and edges is read whole, if it is not too deep.
LEMMA ChainIsWhole ==
  ASSUME NEW S, NEW g, g.nodes \in Seq(S), g.nodes # <<>>, g.live, g.starts,
         1 .. Len(g.nodes) - 1 \subseteq g.edges, Len(g.nodes) <= MaxHops + 1
  PROVE  chain(g) = g.nodes
<1>1. Len(g.nodes) \in Nat /\ Len(g.nodes) >= 1
  BY EmptySeq, LenProperties
<1> DEFINE T == {n \in 1 .. Len(g.nodes) : n <= MaxHops + 1 /\ 1 .. n - 1 \subseteq g.edges}
<1>2. T \in SUBSET (0 .. Len(g.nodes)) /\ Len(g.nodes) \in T
  BY <1>1
<1>3. chain(g) = SubSeq(g.nodes, 1, Max(T))
  BY DEF chain
<1> HIDE DEF T
<1>4. Max(T) \in 0 .. Len(g.nodes) /\ Max(T) >= Len(g.nodes)
  BY <1>1, <1>2, Greatest
<1>5. Max(T) = Len(g.nodes)
  BY <1>1, <1>4
<1> QED
  BY <1>3, <1>5, SubSeqFull

-----------------------------------------------------------------------------
(* Types. *)

Places == {"idle", "rows", "chains", "browser", "replay", "loop", "sweep",
           "graph", "nodes", "start", "edges"}
Saving == {"nodes", "start", "edges"}

GraphType ==
  [live : BOOLEAN, owner : Users \cup {""}, given : Seq(NodeSet), nodes : Seq(NodeSet),
   starts : BOOLEAN, edges : SUBSET Nat, used : Nat, over : BOOLEAN]

RunType ==
  [at : Places, user : Users \cup {""}, rows : Seq(Procedures), loaded : Seq(Seq(NodeSet)),
   plan : plans \cup {<<>>}, prefix : Seq(NodeSet), safe : Nat, since : Nat, page : Pages,
   history : Seq(NodeSet), graph : Nat, k : Nat]

\* A save walks along a history that is long enough, on a graph there is.
RunOk(x) ==
  /\ x.at \in {"sweep", "graph"} \cup Saving => Len(x.history) >= 2
  /\ x.at \in Saving => x.graph \in Procedures
  /\ x.at = "nodes" => x.k \in 1 .. Len(x.history)

\* The types of all fields, and what keeps a history in its type.
TypeInv ==
  /\ graphs \in [Procedures -> GraphType]
  /\ run \in [Runs -> RunType]
  /\ saved \in 0 .. Cardinality(Procedures) /\ day \in 0 .. MaxDay
  /\ failures \in 0 .. MaxFailures
  /\ \A p \in Procedures : graphs[p].starts => graphs[p].nodes # <<>>
  /\ \A r \in Runs : RunOk(run[r])

\* The records the model starts from.
LEMMA EmptyRecords == NoGraph \in GraphType /\ NoRun \in RunType
<1>1. <<>> \in Seq(NodeSet) /\ <<>> \in Seq(Procedures) /\ <<>> \in Seq(Seq(NodeSet))
  BY EmptySeq
<1>2. Blank \in Pages
  BY PagesAssumption DEF PagesAssumption
<1> QED
  BY <1>1, <1>2 DEF NoGraph, NoRun, GraphType, RunType, Places

\* What a run leaves in its history are nodes.
LEMMA NodeType ==
  /\ \A action \in Actions, page \in Pages, seen \in BOOLEAN :
       ActionNode(action, page, seen) \in NodeSet
  /\ \A action \in Actions, page \in Pages : Leads[action][page] \in Pages
  BY SiteAssumption DEF SiteAssumption, ActionNode, NodeSet


-----------------------------------------------------------------------------
(* What a step writes of a run and of a graph. *)

\* Reading renews the lease and leaves everything else of a graph alone.
LEMMA Renewed ==
  ASSUME NEW x \in GraphType, NEW used \in Nat
  PROVE  LET y == [x EXCEPT !.used = used] IN
         /\ y \in GraphType /\ y.used = used
         /\ y.live = x.live /\ y.owner = x.owner /\ y.given = x.given
         /\ y.nodes = x.nodes /\ y.starts = x.starts /\ y.edges = x.edges /\ y.over = x.over
  BY DEF GraphType

-----------------------------------------------------------------------------
(* What each action does to the run that takes it. *)

\* Where a type is read from.
LEMMA Typed ==
  ASSUME TypeInv
  PROVE  /\ run \in [Runs -> RunType] /\ graphs \in [Procedures -> GraphType]
         /\ saved \in Nat /\ day \in Nat /\ Cardinality(Procedures) \in Nat
         /\ \A r \in Runs : /\ run[r] \in RunType /\ run[r].at \in Places
                            /\ run[r].user \in Users \cup {""}
                            /\ run[r].rows \in Seq(Procedures) /\ run[r].since \in Nat
                            /\ run[r].loaded \in Seq(Seq(NodeSet))
                            /\ run[r].plan \in plans \cup {<<>>} /\ run[r].safe \in Nat
                            /\ run[r].prefix \in Seq(NodeSet) /\ run[r].history \in Seq(NodeSet)
                            /\ run[r].page \in Pages /\ run[r].graph \in Nat /\ run[r].k \in Nat
         /\ \A p \in Procedures : /\ graphs[p] \in GraphType /\ graphs[p].used \in Nat
                                  /\ graphs[p].nodes \in Seq(NodeSet)
                                  /\ graphs[p].given \in Seq(NodeSet)
                                  /\ graphs[p].edges \in SUBSET Nat
                                  /\ graphs[p].owner \in Users \cup {""}
                                  /\ graphs[p].live \in BOOLEAN /\ graphs[p].starts \in BOOLEAN
<1>1. Cardinality(Procedures) \in Nat
  BY StoreAssumption, FS_CardinalityType DEF StoreAssumption
<1>2. /\ run \in [Runs -> RunType] /\ graphs \in [Procedures -> GraphType]
      /\ saved \in Nat /\ day \in Nat
  BY <1>1, StoreAssumption DEF TypeInv, StoreAssumption
<1> QED
  BY <1>1, <1>2 DEF RunType, GraphType

\* The record of a run that has nothing to do.
LEMMA Idle ==
  /\ NoRun \in RunType /\ NoRun.at = "idle" /\ NoRun.graph = 0
  /\ NoRun.rows = <<>> /\ NoRun.loaded = <<>> /\ NoRun.prefix = <<>> /\ NoRun.history = <<>>
  BY EmptyRecords DEF NoRun

\* A run that begins belongs to a user and has neither read nor done anything.
LEMMA Begins ==
  ASSUME NEW r \in Runs, Begin(r)
  PROVE  \E x \in RunType :
           /\ run' = [run EXCEPT ![r] = x] /\ x.at \in {"rows", "browser"} /\ x.user \in Users
           /\ x.rows = <<>> /\ x.loaded = <<>> /\ x.prefix = <<>> /\ x.history = <<>>
           /\ x.graph = 0
<1>1. PICK u \in Users, strategy \in {"refine_with_replay", "single_shot"} :
        run' = [run EXCEPT ![r] = [NoRun EXCEPT
                  !.at = IF strategy = "single_shot" THEN "browser" ELSE "rows", !.user = u]]
  BY DEF Begin
<1> DEFINE at == IF strategy = "single_shot" THEN "browser" ELSE "rows"
           x == [NoRun EXCEPT !.at = at, !.user = u]
<1>2. at \in {"rows", "browser"} /\ at \in Places
  BY DEF Places
<1>3. run' = [run EXCEPT ![r] = x]
  BY <1>1
<1> HIDE DEF at
<1>4. x \in RunType /\ x.at = at /\ x.user = u /\ x.rows = NoRun.rows
      /\ x.loaded = NoRun.loaded /\ x.prefix = NoRun.prefix /\ x.history = NoRun.history
      /\ x.graph = NoRun.graph
  BY <1>2, Idle DEF RunType
<1> HIDE DEF x
<1> QED
  BY <1>2, <1>3, <1>4, Idle

\* Reading the rows of a user's graphs, newest first and at most so many.
LEMMA LoadsRows ==
  ASSUME TypeInv, NEW r \in Runs, LoadRows(r)
  PROVE  \E x \in RunType :
           /\ run' = [run EXCEPT ![r] = x] /\ x.at \in {"browser", "chains"} /\ x.since = day
           /\ \A i \in 1 .. Len(x.rows) :
                /\ x.rows[i] \in Procedures /\ graphs[x.rows[i]].live
                /\ graphs[x.rows[i]].owner = run[r].user
                /\ graphs'[x.rows[i]].used = day
           /\ x.user = run[r].user /\ x.loaded = run[r].loaded /\ x.prefix = run[r].prefix
           /\ x.plan = run[r].plan /\ x.safe = run[r].safe
           /\ x.history = run[r].history /\ x.graph = run[r].graph
<1> DEFINE mine == {p \in Procedures : graphs[p].live /\ graphs[p].owner = run[r].user}
           at == IF mine = {} THEN "browser" ELSE "chains"
<1>1. PICK rows \in SetToSeqs(mine) :
        run' = [run EXCEPT ![r].at = at, ![r].rows = SubSeq(rows, 1, Min({Len(rows), GraphLimit})),
                           ![r].since = day]
  BY DEF LoadRows
<1>2. graphs' = [p \in Procedures |-> IF p \in mine THEN [graphs[p] EXCEPT !.used = day]
                                      ELSE graphs[p]]
  BY DEF LoadRows
<1>3. at \in {"browser", "chains"} /\ at \in Places
  BY DEF Places
<1> HIDE DEF at
<1>4. mine \in SUBSET Procedures /\ \A p \in mine : graphs[p].live /\ graphs[p].owner = run[r].user
  OBVIOUS
<1> HIDE DEF mine
<1> DEFINE n == Min({Len(rows), GraphLimit})
           some == SubSeq(rows, 1, n)
<1>5. rows \in Seq(mine)
  <2>1. rows \in [1 .. Cardinality(mine) -> mine]
    BY DEF SetToSeqs
  <2>2. Cardinality(mine) \in Nat
    BY <1>4, StoreAssumption, FS_Subset, FS_CardinalityType DEF StoreAssumption
  <2> QED
    BY <2>1, <2>2, SeqDef
<1>6. n \in 0 .. Len(rows)
  <2> DEFINE l == Len(rows)
  <2>1. l \in Nat /\ GraphLimit \in Nat
    BY <1>5, StoreAssumption, LenProperties DEF StoreAssumption
  <2> HIDE DEF l
  <2>2. Min({l, GraphLimit}) \in {l, GraphLimit} /\ Min({l, GraphLimit}) <= l
    BY <2>1, Lesser
  <2>3. Min({l, GraphLimit}) \in 0 .. l
    BY <2>1, <2>2
  <2> QED
    BY <2>3 DEF l
<1> HIDE DEF n
<1>7. some \in Seq(mine)
  BY <1>5, <1>6, FirstOf
<1>8. run' = [run EXCEPT ![r].at = at, ![r].rows = some, ![r].since = day]
  BY <1>1 DEF n
<1> HIDE DEF some
<1>9. some \in Seq(Procedures) /\ \A i \in 1 .. Len(some) : some[i] \in mine
  BY <1>4, <1>7, SeqMonotonic, ElementOfSeq
<1> DEFINE x == [run[r] EXCEPT !.at = at, !.rows = some, !.since = day]
<1>10. run' = [run EXCEPT ![r] = x]
  BY <1>8, Typed
<1>11. /\ x \in RunType /\ x.at = at /\ x.rows = some /\ x.since = day
       /\ x.user = run[r].user /\ x.loaded = run[r].loaded /\ x.prefix = run[r].prefix
       /\ x.plan = run[r].plan /\ x.safe = run[r].safe
       /\ x.history = run[r].history /\ x.graph = run[r].graph
  <2> DEFINE y == run[r]
             today == day
             z == [y EXCEPT !.at = at, !.rows = some, !.since = today]
  <2>1. y \in RunType /\ today \in Nat
    BY Typed
  <2> HIDE DEF y, today
  <2>2. /\ z \in RunType /\ z.at = at /\ z.rows = some /\ z.since = today
        /\ z.user = y.user /\ z.loaded = y.loaded /\ z.prefix = y.prefix
        /\ z.plan = y.plan /\ z.safe = y.safe
        /\ z.history = y.history /\ z.graph = y.graph
    BY <1>3, <1>9, <2>1 DEF RunType
  <2> QED
    BY <2>2 DEF y, today
<1> HIDE DEF x
<1>12. \A i \in 1 .. Len(some) :
         /\ some[i] \in Procedures /\ graphs[some[i]].live /\ graphs[some[i]].owner = run[r].user
         /\ graphs'[some[i]].used = day
  <2>1. ASSUME NEW p \in mine PROVE graphs'[p].used = day
    <3>1. graphs[p] \in GraphType /\ day \in Nat
      BY <1>4, Typed
    <3>2. graphs'[p] = [graphs[p] EXCEPT !.used = day]
      BY <1>2, <1>4
    <3> QED
      BY <3>1, <3>2, Renewed
  <2> QED
    BY <1>4, <1>9, <2>1
<1> QED
  BY <1>3, <1>10, <1>11, <1>12

\* One chain is read and its row is done with.
LEMMA LoadsChain ==
  ASSUME TypeInv, NEW r \in Runs, LoadChain(r)
  PROVE  \E x \in RunType :
           /\ run' = [run EXCEPT ![r] = x] /\ x.at = "chains" /\ run[r].at = "chains"
           /\ run[r].rows # <<>> /\ x.rows = Tail(run[r].rows)
           /\ x.loaded = Append(run[r].loaded, chain(graphs[Head(run[r].rows)]))
           /\ x.since = run[r].since /\ x.user = run[r].user /\ x.prefix = run[r].prefix
           /\ x.plan = run[r].plan /\ x.safe = run[r].safe
           /\ x.history = run[r].history /\ x.graph = run[r].graph
<1> DEFINE y == run[r]
           p == Head(y.rows)
           nodes == chain(graphs[p])
           loaded == Append(y.loaded, nodes)
           rest == Tail(y.rows)
<1>1. y \in RunType /\ y.rows \in Seq(Procedures) /\ y.loaded \in Seq(Seq(NodeSet))
  BY Typed
<1>2. y.rows # <<>> /\ y.at = "chains"
  BY DEF LoadChain
<1>3. p \in Procedures /\ rest \in Seq(Procedures)
  BY <1>1, <1>2, HeadTailProperties
<1>4. nodes \in Seq(NodeSet)
  <2> DEFINE g == graphs[p]
  <2>1. g.nodes \in Seq(NodeSet) /\ (g.starts => g.nodes # <<>>)
    BY <1>3, Typed DEF TypeInv
  <2> HIDE DEF g
  <2>2. chain(g) \in Seq(NodeSet)
    BY <2>1, ChainIsHead
  <2> QED
    BY <2>2 DEF g
<1> HIDE DEF nodes
<1>5. loaded \in Seq(Seq(NodeSet))
  BY <1>1, <1>4, AppendProperties
<1>6. run' = [run EXCEPT ![r].loaded = loaded, ![r].rows = rest]
  BY Typed DEF LoadChain, nodes
<1> HIDE DEF loaded, rest, p
<1> DEFINE x == [y EXCEPT !.loaded = loaded, !.rows = rest]
<1>7. run' = [run EXCEPT ![r] = x]
  BY <1>6, Typed
<1> HIDE DEF y
<1>8. /\ x \in RunType /\ x.at = y.at /\ x.rows = rest /\ x.loaded = loaded
      /\ x.since = y.since /\ x.user = y.user /\ x.prefix = y.prefix
      /\ x.plan = y.plan /\ x.safe = y.safe
      /\ x.history = y.history /\ x.graph = y.graph
  BY <1>1, <1>3, <1>5 DEF RunType
<1> HIDE DEF x
<1> QED
  BY <1>2, <1>7, <1>8 DEF y, loaded, rest, p, nodes

\* When loading fails, nothing is left of it.
LEMMA LoadingFails ==
  ASSUME TypeInv, NEW r \in Runs, LoadFails(r)
  PROVE  \E x \in RunType :
           /\ run' = [run EXCEPT ![r] = x] /\ x.at = "browser" /\ x.loaded = <<>>
           /\ run[r].at \in {"rows", "chains"}
           /\ x.user = run[r].user /\ x.prefix = run[r].prefix
           /\ x.plan = run[r].plan /\ x.safe = run[r].safe
           /\ x.history = run[r].history /\ x.graph = run[r].graph
<1> DEFINE y == run[r]
           x == [y EXCEPT !.at = "browser", !.rows = <<>>, !.loaded = <<>>, !.since = 0]
<1>1. y \in RunType /\ "browser" \in Places
  BY Typed DEF Places
<1>2. <<>> \in Seq(Procedures) /\ <<>> \in Seq(Seq(NodeSet))
  BY EmptySeq
<1>3. run' = [run EXCEPT ![r] = x]
  BY Typed DEF LoadFails
<1>4. y.at \in {"rows", "chains"}
  BY DEF LoadFails
<1> HIDE DEF y
<1> DEFINE b == "browser"
           e == <<>>
           f == <<>>
           o == 0
           z == [y EXCEPT !.at = b, !.rows = e, !.loaded = f, !.since = o]
<1>5. b \in Places /\ e \in Seq(Procedures) /\ f \in Seq(Seq(NodeSet)) /\ o \in Nat
  BY <1>1, <1>2
<1> HIDE DEF b, e, f, o
<1>6. /\ z \in RunType /\ z.at = b /\ z.loaded = f
      /\ z.user = y.user /\ z.prefix = y.prefix
      /\ z.plan = y.plan /\ z.safe = y.safe
      /\ z.history = y.history /\ z.graph = y.graph
  BY <1>1, <1>5 DEF RunType
<1>7. x = z
  BY DEF b, e, f, o
<1> HIDE DEF x, z
<1> QED
  BY <1>3, <1>4, <1>6, <1>7 DEF y, b, f

\* The match leaves a prefix to replay, with the plan it was found for, or nothing.
LEMMA Matches ==
  ASSUME TypeInv, NEW r \in Runs, Match(r)
  PROVE  \E x \in RunType, plan \in plans :
           /\ run' = [run EXCEPT ![r] = x] /\ x.at = "browser" /\ run[r].at = "chains"
           /\ x.loaded = <<>> /\ x.prefix = findBestMatch(plan, run[r].loaded)
           /\ x.prefix # <<>> => /\ x.plan = plan
                                 /\ x.safe = Cardinality(safeToReplay(plan, run[r].loaded))
           /\ x.user = run[r].user /\ x.history = run[r].history /\ x.graph = run[r].graph
<1>1. PICK plan \in plans :
        run' = [run EXCEPT ![r].at = "browser", ![r].loaded = <<>>, ![r].since = 0,
                  ![r].prefix = findBestMatch(plan, run[r].loaded),
                  ![r].plan = IF findBestMatch(plan, run[r].loaded) = <<>> THEN <<>> ELSE plan,
                  ![r].safe = IF findBestMatch(plan, run[r].loaded) = <<>> THEN 0
                              ELSE Cardinality(safeToReplay(plan, run[r].loaded))]
  BY DEF Match
<1> DEFINE y == run[r]
           prefix == findBestMatch(plan, y.loaded)
           count == Cardinality(safeToReplay(plan, y.loaded))
           safe == IF prefix = <<>> THEN 0 ELSE count
           path == IF prefix = <<>> THEN <<>> ELSE plan
<1>2. y \in RunType /\ y.loaded \in Seq(Seq(NodeSet)) /\ y.at = "chains"
  BY Typed DEF Match
<1>3. plan \in Seq(Range(plan))
  BY PlanType
<1>4. prefix \in Seq(NodeSet)
  <2>1. CASE prefix # <<>>
    BY <1>2, <1>3, <2>1, MatchIsPrefix
  <2>2. CASE prefix = <<>>
    BY <2>2, EmptySeq
  <2> QED
    BY <2>1, <2>2
<1>5. count \in Nat
  <2>1. safeToReplay(plan, y.loaded) \subseteq 1 .. Len(plan) /\ Len(plan) \in Nat
    BY <1>3, LenProperties DEF safeToReplay
  <2>2. IsFiniteSet(1 .. Len(plan))
    BY <2>1, FS_Interval
  <2>3. IsFiniteSet(safeToReplay(plan, y.loaded))
    BY <2>1, <2>2, FS_Subset
  <2> QED
    BY <2>3, FS_CardinalityType
<1> HIDE DEF count
<1>6. safe \in Nat /\ path \in plans \cup {<<>>}
  BY <1>5
<1>7. prefix # <<>> => path = plan /\ safe = count
  OBVIOUS
<1>8. run' = [run EXCEPT ![r].at = "browser", ![r].loaded = <<>>, ![r].since = 0,
                ![r].prefix = prefix, ![r].plan = path, ![r].safe = safe]
  BY <1>1 DEF count
<1> HIDE DEF prefix, safe, path
<1> DEFINE x == [y EXCEPT !.at = "browser", !.loaded = <<>>, !.since = 0,
                   !.prefix = prefix, !.plan = path, !.safe = safe]
<1>9. run' = [run EXCEPT ![r] = x]
  BY <1>8, Typed
<1> HIDE DEF y
<1>10. /\ x \in RunType /\ x.at = "browser" /\ x.loaded = <<>>
       /\ x.prefix = prefix /\ x.plan = path /\ x.safe = safe
       /\ x.user = y.user /\ x.history = y.history /\ x.graph = y.graph
  <2> DEFINE b == "browser"
             f == <<>>
             o == 0
             z == [y EXCEPT !.at = b, !.loaded = f, !.since = o]
             w == [z EXCEPT !.prefix = prefix, !.plan = path, !.safe = safe]
  <2>1. b \in Places /\ f \in Seq(Seq(NodeSet)) /\ o \in Nat
    BY EmptySeq DEF Places
  <2> HIDE DEF b, f, o
  <2>2. /\ z \in RunType /\ z.at = b /\ z.loaded = f
        /\ z.user = y.user /\ z.history = y.history /\ z.graph = y.graph
    BY <1>2, <2>1 DEF RunType
  <2> HIDE DEF z
  <2>3. /\ w \in RunType /\ w.at = z.at /\ w.loaded = z.loaded
        /\ w.prefix = prefix /\ w.plan = path /\ w.safe = safe
        /\ w.user = z.user /\ w.history = z.history /\ w.graph = z.graph
    BY <1>4, <1>6, <2>2 DEF RunType
  <2>4. x = w
    BY DEF b, f, o, z
  <2> HIDE DEF x, w
  <2> QED
    BY <2>2, <2>3, <2>4 DEF b, f
<1> HIDE DEF x
<1> QED
  BY <1>2, <1>7, <1>9, <1>10 DEF y, prefix, count

\* A run gets its browser: it is over, or it goes on from the page it is shown, to
\* the replay when there is something to replay.
LEMMA Starts ==
  ASSUME TypeInv, NEW r \in Runs, StartBrowser(r)
  PROVE  \/ run' = [run EXCEPT ![r] = NoRun]
         \/ \E x \in RunType :
              /\ run' = [run EXCEPT ![r] = x] /\ x.at \in {"replay", "loop"}
              /\ run[r].at = "browser"
              /\ x.history = run[r].history \/ Len(x.history) = 1
              /\ x.at = "replay" => run[r].prefix # <<>> /\ x.history = run[r].history
              /\ x.loaded = run[r].loaded /\ x.prefix = run[r].prefix
              /\ x.plan = run[r].plan /\ x.safe = run[r].safe
              /\ x.user = run[r].user /\ x.graph = run[r].graph
<1> USE SiteAssumption DEF SiteAssumption
<1> DEFINE y == run[r]
<1>1. y \in RunType /\ y.at = "browser"
  BY Typed DEF StartBrowser
<1> HIDE DEF y
<1>2. ASSUME NEW page \in Pages, NEW at \in {"replay", "loop"},
             at = "replay" => run[r].prefix # <<>>,
             run' = [[run EXCEPT ![r].page = page] EXCEPT ![r].at = at]
      PROVE  \E x \in RunType :
              /\ run' = [run EXCEPT ![r] = x] /\ x.at \in {"replay", "loop"}
              /\ run[r].at = "browser"
              /\ x.history = run[r].history \/ Len(x.history) = 1
              /\ x.at = "replay" => run[r].prefix # <<>> /\ x.history = run[r].history
              /\ x.loaded = run[r].loaded /\ x.prefix = run[r].prefix
              /\ x.plan = run[r].plan /\ x.safe = run[r].safe
              /\ x.user = run[r].user /\ x.graph = run[r].graph
  <2> DEFINE x == [[y EXCEPT !.page = page] EXCEPT !.at = at]
  <2>0. at \in Places
    BY DEF Places
  <2>1. /\ x \in RunType /\ x.at = at /\ x.history = y.history
        /\ x.loaded = y.loaded /\ x.prefix = y.prefix
        /\ x.plan = y.plan /\ x.safe = y.safe
        /\ x.user = y.user /\ x.graph = y.graph
    BY <1>1, <2>0 DEF RunType
  <2>2. run' = [run EXCEPT ![r] = x]
    BY <1>2, Typed DEF y
  <2> HIDE DEF x
  <2> QED
    BY <1>1, <1>2, <2>1, <2>2 DEF y
<1>3. ASSUME NEW page \in Pages, NEW seen \in BOOLEAN,
             run' = [[run EXCEPT ![r].page = page] EXCEPT ![r].at = "loop",
                       ![r].page = Leads[InitialUrl][page],
                       ![r].history = <<after(InitialUrl, page, seen)>>]
      PROVE  \E x \in RunType :
              /\ run' = [run EXCEPT ![r] = x] /\ x.at \in {"replay", "loop"}
              /\ run[r].at = "browser"
              /\ x.history = run[r].history \/ Len(x.history) = 1
              /\ x.at = "replay" => run[r].prefix # <<>> /\ x.history = run[r].history
              /\ x.loaded = run[r].loaded /\ x.prefix = run[r].prefix
              /\ x.plan = run[r].plan /\ x.safe = run[r].safe
              /\ x.user = run[r].user /\ x.graph = run[r].graph
  <2> DEFINE step == after(InitialUrl, page, seen)
             there == Leads[InitialUrl][page]
             past == <<step>>
             b == "loop"
             z == [y EXCEPT !.page = page]
             x == [z EXCEPT !.at = b, !.page = there, !.history = past]
  <2>1. there \in Pages /\ step \in NodeSet
    BY NodeType DEF after
  <2> HIDE DEF step, there
  <2>2. past \in Seq(NodeSet) /\ Len(past) = 1 /\ b \in Places /\ b = "loop"
    BY <2>1 DEF Places
  <2> HIDE DEF past, b
  <2>3. /\ z \in RunType
        /\ z.loaded = y.loaded /\ z.prefix = y.prefix
        /\ z.plan = y.plan /\ z.safe = y.safe
        /\ z.user = y.user /\ z.graph = y.graph
    BY <1>1 DEF RunType
  <2>4. run' = [run EXCEPT ![r] = x]
    BY <1>3, Typed DEF y, past, b, step, there
  <2> HIDE DEF z
  <2>5. /\ x \in RunType /\ x.at = b /\ x.history = past
        /\ x.loaded = z.loaded /\ x.prefix = z.prefix
        /\ x.plan = z.plan /\ x.safe = z.safe
        /\ x.user = z.user /\ x.graph = z.graph
    BY <2>1, <2>2, <2>3 DEF RunType
  <2> HIDE DEF x
  <2> QED
    BY <1>1, <2>2, <2>3, <2>4, <2>5 DEF y
<1> QED
  BY <1>2, <1>3 DEF StartBrowser

\* A replayed step is added to the history, as is one that fails; a node whose page
\* is not the one it was done on is not, and the model goes on from there.
LEMMA Replays ==
  ASSUME TypeInv, NEW r \in Runs, Replay(r)
  PROVE  \/ run' = [run EXCEPT ![r] = NoRun]
         \/ \E x \in RunType :
              /\ run' = [run EXCEPT ![r] = x] /\ x.at \in {"replay", "loop"}
              /\ run[r].at = "replay"
              /\ Len(x.history) <= Len(run[r].prefix)
              /\ x.loaded = run[r].loaded /\ x.prefix = run[r].prefix
              /\ x.plan = run[r].plan /\ x.safe = run[r].safe
              /\ x.user = run[r].user /\ x.graph = run[r].graph
<1> DEFINE y == run[r]
           node == y.prefix[Len(y.history) + 1]
<1>1. /\ y \in RunType /\ y.at = "replay" /\ y.page \in Pages
      /\ y.prefix \in Seq(NodeSet) /\ y.history \in Seq(NodeSet)
  BY Typed DEF Replay
<1>2. Len(y.history) \in Nat /\ Len(y.prefix) \in Nat /\ Len(y.history) + 1 <= Len(y.prefix)
  BY <1>1, LenProperties DEF Replay
<1>3. node.action \in Actions
  <2>1. node \in NodeSet
    BY <1>1, <1>2, ElementOfSeq
  <2> QED
    BY <2>1 DEF NodeSet
<1> HIDE DEF node
<1>4. ASSUME NEW step \in NodeSet, NEW page \in Pages, NEW at \in {"replay", "loop"}, NEW x,
             x = [y EXCEPT !.at = at, !.page = page, !.history = Append(y.history, step)],
             run' = [run EXCEPT ![r] = x]
      PROVE  /\ x \in RunType /\ run' = [run EXCEPT ![r] = x] /\ x.at \in {"replay", "loop"}
             /\ run[r].at = "replay"
             /\ Len(x.history) <= Len(run[r].prefix)
             /\ x.loaded = run[r].loaded /\ x.prefix = run[r].prefix
             /\ x.plan = run[r].plan /\ x.safe = run[r].safe
             /\ x.user = run[r].user /\ x.graph = run[r].graph
  <2> HIDE DEF y
  <2> DEFINE past == Append(y.history, step)
             w == [y EXCEPT !.at = at, !.page = page, !.history = past]
  <2>1. past \in Seq(NodeSet) /\ Len(past) = Len(y.history) + 1 /\ at \in Places
    BY <1>1, AppendProperties DEF Places
  <2>2. x = w
    BY <1>4
  <2> HIDE DEF past
  <2>3. /\ w \in RunType /\ w.at = at /\ w.history = past
        /\ w.loaded = y.loaded /\ w.prefix = y.prefix
        /\ w.plan = y.plan /\ w.safe = y.safe
        /\ w.user = y.user /\ w.graph = y.graph
    BY <1>1, <2>1 DEF RunType
  <2> HIDE DEF w
  <2> QED
    BY <1>1, <1>2, <1>4, <2>1, <2>2, <2>3 DEF y
<1>5. CASE goto(r, "loop")
  <2> DEFINE b == "loop"
             x == [y EXCEPT !.at = b]
  <2>1. run' = [run EXCEPT ![r] = x]
    BY <1>5, Typed DEF goto
  <2> HIDE DEF y
  <2>2. b \in Places /\ b = "loop"
    BY DEF Places
  <2> HIDE DEF b
  <2>3. /\ x \in RunType /\ x.at = b /\ x.history = y.history
        /\ x.loaded = y.loaded /\ x.prefix = y.prefix
        /\ x.plan = y.plan /\ x.safe = y.safe
        /\ x.user = y.user /\ x.graph = y.graph
    BY <1>1, <2>2 DEF RunType
  <2> HIDE DEF x
  <2>4. Len(x.history) <= Len(y.prefix)
    BY <1>2, <2>3
  <2> QED
    BY <1>1, <2>1, <2>2, <2>3, <2>4 DEF y
<1>6. CASE run' = did(r, node.action, FALSE)
  <2> DEFINE step == after(node.action, y.page, FALSE)
             page == Leads[node.action][y.page]
             x == [y EXCEPT !.at = "replay", !.page = page, !.history = Append(y.history, step)]
  <2>1. step \in NodeSet /\ page \in Pages
    BY <1>1, <1>3, NodeType DEF after
  <2>2. run' = [run EXCEPT ![r].page = page, ![r].history = Append(y.history, step)]
    BY <1>1, <1>6, Typed DEF did, RunType
  <2> HIDE DEF step, page
  <2>3. [y EXCEPT !.at = "replay"] = y
    BY <1>1 DEF RunType
  <2>4. run' = [run EXCEPT ![r] = x]
    BY <1>1, <2>2, <2>3, Typed DEF RunType
  <2> HIDE DEF y
  <2> QED
    BY <1>4, <2>1, <2>4
<1>7. CASE run' = [run EXCEPT ![r].at = "loop", ![r].history =
                     Append(@, ActionNode(node.action, run[r].page, FALSE))]
  <2> DEFINE step == ActionNode(node.action, y.page, FALSE)
             page == y.page
             x == [y EXCEPT !.at = "loop", !.page = page, !.history = Append(y.history, step)]
  <2>1. step \in NodeSet /\ page \in Pages
    BY <1>1, <1>3, NodeType
  <2>2. run' = [run EXCEPT ![r].at = "loop", ![r].history = Append(y.history, step)]
    BY <1>1, <1>7, Typed DEF RunType
  <2> HIDE DEF step
  <2>3. [[y EXCEPT !.at = "loop"] EXCEPT !.page = page] = [y EXCEPT !.at = "loop"]
    BY <1>1 DEF RunType
  <2>4. run' = [run EXCEPT ![r] = x]
    BY <1>1, <2>2, <2>3, Typed DEF RunType
  <2> HIDE DEF y
  <2> QED
    BY <1>4, <2>1, <2>4
<1> QED
  BY <1>5, <1>6, <1>7 DEF Replay, node

\* A step that only moves the run to another place.
LEMMA Goes ==
  ASSUME TypeInv, NEW r \in Runs, NEW at \in Places, goto(r, at)
  PROVE  \E x \in RunType :
           /\ run' = [run EXCEPT ![r] = x] /\ x.at = at
           /\ x.rows = run[r].rows /\ x.loaded = run[r].loaded /\ x.since = run[r].since
           /\ x.prefix = run[r].prefix /\ x.plan = run[r].plan /\ x.safe = run[r].safe
           /\ x.user = run[r].user /\ x.history = run[r].history /\ x.graph = run[r].graph
           /\ x.k = run[r].k
<1> DEFINE y == run[r]
           x == [y EXCEPT !.at = at]
<1>1. y \in RunType
  BY Typed
<1>2. run' = [run EXCEPT ![r] = x]
  BY Typed DEF goto
<1> HIDE DEF y
<1>3. /\ x \in RunType /\ x.at = at
      /\ x.rows = y.rows /\ x.loaded = y.loaded /\ x.since = y.since
      /\ x.prefix = y.prefix /\ x.plan = y.plan /\ x.safe = y.safe
      /\ x.user = y.user /\ x.history = y.history /\ x.graph = y.graph /\ x.k = y.k
  BY <1>1 DEF RunType
<1> HIDE DEF x
<1> QED
  BY <1>2, <1>3 DEF y

\* The loop ends: the run is over, or what it did is to be saved.
LEMMA Ends ==
  ASSUME TypeInv, NEW r \in Runs, RunLoop(r)
  PROVE  \/ run' = [run EXCEPT ![r] = NoRun]
         \/ \E x \in RunType :
              /\ run' = [run EXCEPT ![r] = x] /\ x.at = "sweep" /\ run[r].at = "loop"
              /\ Len(x.history) \in 2 .. MaxSteps /\ x.prefix = <<>>
              /\ x.loaded = run[r].loaded /\ x.user = run[r].user /\ x.graph = run[r].graph
<1> USE SiteAssumption DEF SiteAssumption
<1> DEFINE y == run[r]
<1>1. y \in RunType /\ y.at = "loop" /\ y.history \in Seq(NodeSet)
  BY Typed DEF RunLoop
<1>2. ASSUME NEW actions \in Deeds, NEW seen \in Kept, NEW pages \in visits(actions, y.page),
             Len(y.history) + Len(actions) \in 2 .. MaxSteps,
             run' = [run EXCEPT ![r].at = "sweep", ![r].page = Blank,
                       ![r].history = @ \o [i \in DOMAIN actions |->
                                              ActionNode(actions[i], pages[i], seen)],
                       ![r].prefix = <<>>, ![r].plan = <<>>, ![r].safe = 0]
      PROVE  \E x \in RunType :
              /\ run' = [run EXCEPT ![r] = x] /\ x.at = "sweep" /\ run[r].at = "loop"
              /\ Len(x.history) \in 2 .. MaxSteps /\ x.prefix = <<>>
              /\ x.loaded = run[r].loaded /\ x.user = run[r].user /\ x.graph = run[r].graph
  <2> DEFINE done == [i \in DOMAIN actions |-> ActionNode(actions[i], pages[i], seen)]
             past == y.history \o done
  <2>1. /\ actions \in Seq(Actions) /\ Len(actions) \in Nat /\ DOMAIN actions = 1 .. Len(actions)
        /\ \A i \in DOMAIN actions : actions[i] \in Actions
    BY LenProperties, ElementOfSeq
  <2>2. pages \in [DOMAIN actions -> Pages]
    BY DEF visits
  <2>3. done \in [1 .. Len(actions) -> NodeSet]
    BY <2>1, <2>2, NodeType
  <2>4. done \in Seq(NodeSet) /\ Len(done) = Len(actions)
    BY <2>1, <2>3, SeqDef, LenProperties
  <2>5. run' = [run EXCEPT ![r].at = "sweep", ![r].page = Blank, ![r].history = past,
                  ![r].prefix = <<>>, ![r].plan = <<>>, ![r].safe = 0]
    BY <1>2, Typed
  <2> HIDE DEF done
  <2>6. past \in Seq(NodeSet) /\ Len(past) \in 2 .. MaxSteps
    <3>1. past \in Seq(NodeSet) /\ Len(past) = Len(y.history) + Len(done)
      <4> DEFINE h == y.history
      <4>1. h \in Seq(NodeSet)
        BY <1>1
      <4> HIDE DEF h
      <4>2. h \o done \in Seq(NodeSet) /\ Len(h \o done) = Len(h) + Len(done)
        BY <2>4, <4>1, ConcatProperties
      <4> QED
        BY <4>2 DEF h
    <3> QED
      BY <1>2, <2>4, <3>1
  <2> HIDE DEF past
  <2> DEFINE b == "sweep"
             f == <<>>
             e == <<>>
             o == 0
             c == Blank
             z == [y EXCEPT !.at = b, !.page = c, !.history = past]
             w == [z EXCEPT !.prefix = f, !.plan = e, !.safe = o]
  <2>7. run' = [run EXCEPT ![r] = w]
    BY <2>5, Typed
  <2>8. /\ b \in Places /\ b = "sweep" /\ f \in Seq(NodeSet) /\ f = <<>>
        /\ e \in plans \cup {<<>>} /\ o \in Nat /\ c \in Pages
    BY PagesAssumption, EmptySeq DEF PagesAssumption, Places
  <2> HIDE DEF b, f, e, o, c
  <2> HIDE DEF y
  <2>9. /\ z \in RunType /\ z.at = b /\ z.history = past
        /\ z.loaded = y.loaded /\ z.user = y.user /\ z.graph = y.graph
    BY <1>1, <2>6, <2>8 DEF RunType
  <2> HIDE DEF z
  <2>10. /\ w \in RunType /\ w.at = z.at /\ w.history = z.history /\ w.prefix = f
         /\ w.loaded = z.loaded /\ w.user = z.user /\ w.graph = z.graph
    BY <2>8, <2>9 DEF RunType
  <2> HIDE DEF w
  <2> QED
    BY <1>1, <2>6, <2>7, <2>8, <2>9, <2>10 DEF y
<1> QED
  BY <1>2 DEF RunLoop

\* The sweep takes away what has expired and moves the run on.
LEMMA Sweeps ==
  ASSUME TypeInv, NEW r \in Runs, SweepExpired(r)
  PROVE  /\ goto(r, "graph") /\ UNCHANGED <<saved, day>> /\ failures' \in 0 .. MaxFailures
         /\ graphs' \in [Procedures -> GraphType]
         /\ \A p \in Procedures :
              /\ graphs'[p].given = graphs[p].given /\ graphs'[p].owner = graphs[p].owner
              /\ graphs'[p].nodes = graphs[p].nodes /\ graphs'[p].edges = graphs[p].edges
              /\ graphs'[p].over = graphs[p].over /\ graphs'[p].used = graphs[p].used
              /\ graphs'[p].live => graphs[p].live
              /\ graphs[p].live /\ graphs[p].used + TtlDays >= day => graphs'[p].live
              /\ graphs'[p].starts => graphs[p].starts
              /\ graphs'[p].live => graphs'[p].starts = graphs[p].starts
<1>1. goto(r, "graph") /\ UNCHANGED <<saved, day>>
  BY DEF SweepExpired
<1>2. failures' \in 0 .. MaxFailures
  <2>1. failures \in 0 .. MaxFailures /\ MaxFailures \in Nat
    BY StoreAssumption DEF TypeInv, StoreAssumption
  <2>2. UNCHANGED failures \/ fail
    BY DEF SweepExpired
  <2> QED
    BY <2>1, <2>2 DEF fail
<1>3. CASE UNCHANGED graphs
  BY <1>1, <1>2, <1>3, Typed
<1>4. CASE graphs' = [p \in Procedures |->
                        IF expired(graphs[p])
                        THEN [graphs[p] EXCEPT !.live = FALSE, !.starts = FALSE] ELSE graphs[p]]
  <2>1. ASSUME NEW p \in Procedures
        PROVE  /\ graphs'[p] \in GraphType
               /\ graphs'[p].given = graphs[p].given /\ graphs'[p].owner = graphs[p].owner
               /\ graphs'[p].nodes = graphs[p].nodes /\ graphs'[p].edges = graphs[p].edges
               /\ graphs'[p].over = graphs[p].over /\ graphs'[p].used = graphs[p].used
               /\ graphs'[p].live => graphs[p].live
               /\ graphs[p].live /\ graphs[p].used + TtlDays >= day => graphs'[p].live
               /\ graphs'[p].starts => graphs[p].starts
               /\ graphs'[p].live => graphs'[p].starts = graphs[p].starts
    <3>1. graphs[p] \in GraphType
      BY Typed
    <3>2. CASE expired(graphs[p])
      <4> DEFINE g == graphs[p]
                 x == [g EXCEPT !.live = FALSE, !.starts = FALSE]
      <4>1. graphs'[p] = x
        BY <1>4, <3>2
      <4>2. g.live /\ ~(g.used + TtlDays >= day)
        <5>1. graphs[p].used \in Nat /\ day \in Nat /\ TtlDays \in Nat
          BY StoreAssumption, Typed DEF StoreAssumption
        <5> QED
          BY <3>2, <5>1 DEF expired
      <4>3. g \in GraphType
        BY <3>1
      <4> HIDE DEF g
      <4>4. /\ x \in GraphType /\ ~x.live /\ ~x.starts
            /\ x.owner = g.owner /\ x.given = g.given
            /\ x.nodes = g.nodes /\ x.edges = g.edges /\ x.over = g.over /\ x.used = g.used
        BY <4>3 DEF GraphType
      <4> HIDE DEF x
      <4> QED
        BY <4>1, <4>2, <4>4 DEF g
    <3>3. CASE ~expired(graphs[p])
      BY <1>4, <3>1, <3>3
    <3> QED
      BY <3>2, <3>3
  <2>2. graphs' \in [Procedures -> GraphType]
    BY <1>4, <2>1
  <2> QED
    BY <1>1, <1>2, <2>1, <2>2
<1> QED
  BY <1>3, <1>4 DEF SweepExpired

\* A new graph: it is the next one, and it is to hold what the run did.
LEMMA Creates ==
  ASSUME TypeInv, NEW r \in Runs, CreateGraph(r)
  PROVE  /\ run[r].at = "graph" /\ saved' = saved + 1 /\ saved' \in Procedures
         /\ saved' <= Cardinality(Procedures)
         /\ UNCHANGED <<day, failures>>
         /\ \E x \in RunType :
              /\ run' = [run EXCEPT ![r] = x] /\ x.at = "nodes" /\ x.graph = saved + 1 /\ x.k = 1
              /\ x.loaded = run[r].loaded /\ x.prefix = run[r].prefix /\ x.plan = run[r].plan
              /\ x.safe = run[r].safe /\ x.user = run[r].user /\ x.history = run[r].history
         /\ \E g \in GraphType :
              /\ graphs' = [graphs EXCEPT ![saved + 1] = g]
              /\ g.live /\ g.owner = run[r].user /\ g.given = run[r].history /\ g.used = day
              /\ g.nodes = <<>> /\ ~g.starts /\ g.edges = {} /\ ~g.over
<1>1. /\ run[r].at = "graph" /\ saved' = saved + 1 /\ UNCHANGED <<day, failures>>
      /\ saved < Cardinality(Procedures)
  BY DEF CreateGraph
<1>2. saved + 1 \in Procedures /\ saved + 1 \in Nat /\ saved + 1 <= Cardinality(Procedures)
  <2> DEFINE n == saved
             N == Cardinality(Procedures)
  <2>1. n \in Nat /\ N \in Nat /\ n < N
    BY <1>1, Typed
  <2>2. Procedures = 1 .. N
    BY StoreAssumption DEF StoreAssumption
  <2> HIDE DEF n, N
  <2>3. n + 1 \in Nat /\ n + 1 <= N /\ n + 1 \in 1 .. N
    BY <2>1
  <2> QED
    BY <2>2, <2>3 DEF n, N
<1>3. run' = [run EXCEPT ![r] = [run[r] EXCEPT !.at = "nodes", !.graph = saved + 1, !.k = 1]]
  BY <1>1, Typed DEF CreateGraph
<1>4. \E x \in RunType :
        /\ run' = [run EXCEPT ![r] = x] /\ x.at = "nodes" /\ x.graph = saved + 1 /\ x.k = 1
        /\ x.loaded = run[r].loaded /\ x.prefix = run[r].prefix /\ x.plan = run[r].plan
        /\ x.safe = run[r].safe /\ x.user = run[r].user /\ x.history = run[r].history
  <2> DEFINE y == run[r]
             b == "nodes"
             o == 1
             n == saved + 1
             x == [y EXCEPT !.at = b, !.graph = n, !.k = o]
  <2>1. b \in Places /\ o \in Nat /\ n \in Nat /\ y \in RunType
    BY <1>2, Typed DEF Places
  <2>2. run' = [run EXCEPT ![r] = x]
    BY <1>3
  <2> HIDE DEF b, o, n, y
  <2>3. /\ x \in RunType /\ x.at = b /\ x.graph = n /\ x.k = o
        /\ x.loaded = y.loaded /\ x.prefix = y.prefix /\ x.plan = y.plan
        /\ x.safe = y.safe /\ x.user = y.user /\ x.history = y.history
    BY <2>1 DEF RunType
  <2> HIDE DEF x
  <2> QED
    BY <2>2, <2>3 DEF b, o, n, y
<1>5. \E g \in GraphType :
        /\ graphs' = [graphs EXCEPT ![saved + 1] = g]
        /\ g.live /\ g.owner = run[r].user /\ g.given = run[r].history /\ g.used = day
        /\ g.nodes = <<>> /\ ~g.starts /\ g.edges = {} /\ ~g.over
  <2> DEFINE u == run[r].user
             h == run[r].history
             d == day
             g == [NoGraph EXCEPT !.live = TRUE, !.owner = u, !.given = h, !.used = d]
  <2>1. u \in Users \cup {""} /\ h \in Seq(NodeSet) /\ d \in Nat
    BY Typed
  <2>2. graphs' = [graphs EXCEPT ![saved + 1] = g]
    BY <1>1 DEF CreateGraph
  <2> HIDE DEF u, h, d
  <2>3. /\ NoGraph \in GraphType /\ NoGraph.nodes = <<>> /\ NoGraph.starts = FALSE
        /\ NoGraph.edges = {} /\ NoGraph.over = FALSE
    BY EmptyRecords DEF NoGraph
  <2> HIDE DEF NoGraph
  <2>4. /\ g \in GraphType /\ g.live = TRUE /\ g.owner = u /\ g.given = h /\ g.used = d
        /\ g.nodes = NoGraph.nodes /\ g.starts = NoGraph.starts /\ g.edges = NoGraph.edges
        /\ g.over = NoGraph.over
    BY <2>1, <2>3 DEF GraphType
  <2> HIDE DEF g
  <2> QED
    BY <2>2, <2>3, <2>4 DEF u, h, d
<1> QED
  BY <1>1, <1>2, <1>4, <1>5

\* One node is stored, where there still is a graph to store it for.
LEMMA StoresNode ==
  ASSUME TypeInv, NEW r \in Runs, CreateNode(r)
  PROVE  /\ run[r].at = "nodes" /\ UNCHANGED <<saved, day, failures>>
         /\ run[r].k \in 1 .. Len(run[r].history) /\ run[r].graph \in Procedures
         /\ \E x \in RunType :
              /\ run' = [run EXCEPT ![r] = x] /\ x.graph = run[r].graph
              /\ IF run[r].k = Len(run[r].history) THEN x.at = "start" /\ x.k = 1
                 ELSE x.at = "nodes" /\ x.k = run[r].k + 1
              /\ x.loaded = run[r].loaded /\ x.prefix = run[r].prefix /\ x.plan = run[r].plan
              /\ x.safe = run[r].safe /\ x.user = run[r].user /\ x.history = run[r].history
         /\ \E g \in GraphType :
              /\ graphs' = [graphs EXCEPT ![run[r].graph] = g]
              /\ LET old == graphs[run[r].graph] IN
                 /\ g.nodes = IF old.live THEN Append(old.nodes, run[r].history[run[r].k])
                              ELSE old.nodes
                 /\ g.live = old.live /\ g.owner = old.owner /\ g.given = old.given
                 /\ g.starts = old.starts /\ g.edges = old.edges /\ g.used = old.used
                 /\ g.over = old.over
<1> DEFINE y == run[r]
           p == y.graph
           n == Len(y.history)
           old == graphs[p]
<1>1. /\ y.at = "nodes" /\ UNCHANGED <<saved, day, failures>>
      /\ y.k \in 1 .. n /\ p \in Procedures
  BY DEF CreateNode, TypeInv, RunOk, Saving
<1>2. /\ y \in RunType /\ y.history \in Seq(NodeSet) /\ y.k \in Nat /\ old \in GraphType
      /\ old.nodes \in Seq(NodeSet) /\ y.graph \in Nat
  BY <1>1, Typed
<1>3. ASSUME NEW at \in Places, NEW k \in Nat, run' = [run EXCEPT ![r] = [y EXCEPT !.at = at, !.k = k]]
      PROVE  \E x \in RunType :
               /\ run' = [run EXCEPT ![r] = x] /\ x.graph = y.graph /\ x.at = at /\ x.k = k
               /\ x.loaded = y.loaded /\ x.prefix = y.prefix /\ x.plan = y.plan
               /\ x.safe = y.safe /\ x.user = y.user /\ x.history = y.history
  <2> DEFINE x == [y EXCEPT !.at = at, !.k = k]
  <2> HIDE DEF y
  <2>1. /\ x \in RunType /\ x.graph = y.graph /\ x.at = at /\ x.k = k
        /\ x.loaded = y.loaded /\ x.prefix = y.prefix /\ x.plan = y.plan
        /\ x.safe = y.safe /\ x.user = y.user /\ x.history = y.history
    BY <1>2 DEF RunType
  <2>2. run' = [run EXCEPT ![r] = x]
    BY <1>3
  <2> HIDE DEF x
  <2> QED
    BY <2>1, <2>2
<1>4. \E x \in RunType :
        /\ run' = [run EXCEPT ![r] = x] /\ x.graph = y.graph
        /\ IF y.k = n THEN x.at = "start" /\ x.k = 1 ELSE x.at = "nodes" /\ x.k = y.k + 1
        /\ x.loaded = y.loaded /\ x.prefix = y.prefix /\ x.plan = y.plan
        /\ x.safe = y.safe /\ x.user = y.user /\ x.history = y.history
  <2>1. CASE y.k = n
    <3> DEFINE at == "start"
               k == 1
    <3>1. run' = [run EXCEPT ![r] = [y EXCEPT !.at = at, !.k = k]]
      BY <2>1, Typed DEF CreateNode
    <3>2. at \in Places /\ k \in Nat
      BY <1>2 DEF Places
    <3> HIDE DEF at, k
    <3>3. PICK x \in RunType :
            /\ run' = [run EXCEPT ![r] = x] /\ x.graph = y.graph /\ x.at = at /\ x.k = k
            /\ x.loaded = y.loaded /\ x.prefix = y.prefix /\ x.plan = y.plan
            /\ x.safe = y.safe /\ x.user = y.user /\ x.history = y.history
      BY <1>3, <3>1, <3>2
    <3> HIDE DEF y, n
    <3> QED
      BY <2>1, <3>3 DEF at, k
  <2>2. CASE y.k # n
    <3> DEFINE at == "nodes"
               k == y.k + 1
    <3>1. run' = [run EXCEPT ![r] = [y EXCEPT !.at = at, !.k = k]]
      <4> DEFINE z == [y EXCEPT !.at = at]
      <4>1. z = y
        BY <1>1, <1>2 DEF RunType
      <4>2. run' = [run EXCEPT ![r] = [y EXCEPT !.k = k]]
        BY <2>2, Typed DEF CreateNode
      <4> HIDE DEF z, y, k
      <4>3. run' = [run EXCEPT ![r] = [z EXCEPT !.k = k]]
        BY <4>1, <4>2
      <4> QED
        BY <4>3 DEF z
    <3>2. at \in Places /\ k \in Nat
      BY <1>2 DEF Places
    <3> HIDE DEF at, k
    <3>3. PICK x \in RunType :
            /\ run' = [run EXCEPT ![r] = x] /\ x.graph = y.graph /\ x.at = at /\ x.k = k
            /\ x.loaded = y.loaded /\ x.prefix = y.prefix /\ x.plan = y.plan
            /\ x.safe = y.safe /\ x.user = y.user /\ x.history = y.history
      BY <1>3, <3>1, <3>2
    <3> HIDE DEF y, n
    <3> QED
      BY <2>2, <3>3 DEF at, k
  <2> QED
    BY <2>1, <2>2
<1>5. \E g \in GraphType :
        /\ graphs' = [graphs EXCEPT ![p] = g]
        /\ g.nodes = IF old.live THEN Append(old.nodes, y.history[y.k]) ELSE old.nodes
        /\ g.live = old.live /\ g.owner = old.owner /\ g.given = old.given
        /\ g.starts = old.starts /\ g.edges = old.edges /\ g.used = old.used
        /\ g.over = old.over
  <2>1. CASE old.live
    <3> DEFINE nodes == Append(old.nodes, y.history[y.k])
               g == [old EXCEPT !.nodes = nodes]
    <3>1. nodes \in Seq(NodeSet)
      <4>1. y.history[y.k] \in NodeSet
        BY <1>1, <1>2, ElementOfSeq
      <4> QED
        BY <1>2, <4>1, AppendProperties
    <3>2. graphs' = [graphs EXCEPT ![p] = g]
      BY <2>1, Typed DEF CreateNode
    <3> HIDE DEF nodes, old
    <3>3. /\ g \in GraphType /\ g.nodes = nodes
          /\ g.live = old.live /\ g.owner = old.owner /\ g.given = old.given
          /\ g.starts = old.starts /\ g.edges = old.edges /\ g.used = old.used
          /\ g.over = old.over
      BY <1>2, <3>1 DEF GraphType
    <3> HIDE DEF g
    <3> QED
      BY <2>1, <3>2, <3>3 DEF nodes
  <2>2. CASE ~old.live
    <3>1. graphs' = graphs
      BY <2>2 DEF CreateNode
    <3>2. graphs' = [graphs EXCEPT ![p] = old]
      BY <3>1, Typed
    <3> QED
      BY <1>2, <2>2, <3>2
  <2> QED
    BY <2>1, <2>2
<1> QED
  BY <1>1, <1>4, <1>5

\* The first edge is stored when there is a graph and a node to join.
LEMMA StoresStart ==
  ASSUME TypeInv, NEW r \in Runs, CreateStartsWith(r)
  PROVE  /\ run[r].at = "start" /\ UNCHANGED <<saved, day, failures>> /\ goto(r, "edges")
         /\ run[r].graph \in Procedures
         /\ \E g \in GraphType :
              /\ graphs' = [graphs EXCEPT ![run[r].graph] = g]
              /\ LET old == graphs[run[r].graph] IN
                 /\ g.starts = (old.live /\ old.nodes # <<>>)
                 /\ g.nodes = old.nodes
                 /\ g.live = old.live /\ g.owner = old.owner /\ g.given = old.given
                 /\ g.edges = old.edges /\ g.used = old.used
                 /\ g.over = old.over
<1> DEFINE p == run[r].graph
           old == graphs[p]
           starts == old.live /\ old.nodes # <<>>
           g == [old EXCEPT !.starts = starts]
<1>1. /\ run[r].at = "start" /\ UNCHANGED <<saved, day, failures>> /\ goto(r, "edges")
      /\ p \in Procedures
  BY DEF CreateStartsWith, TypeInv, RunOk, Saving
<1>2. graphs' = [graphs EXCEPT ![p] = g]
  BY Typed DEF CreateStartsWith
<1>3. old \in GraphType /\ starts \in BOOLEAN
  BY <1>1, Typed
<1> HIDE DEF old, starts
<1>4. /\ g \in GraphType /\ g.starts = starts /\ g.nodes = old.nodes
      /\ g.live = old.live /\ g.owner = old.owner /\ g.given = old.given
      /\ g.edges = old.edges /\ g.used = old.used /\ g.over = old.over
  BY <1>3 DEF GraphType
<1> HIDE DEF g
<1> QED
  BY <1>1, <1>2, <1>4 DEF old, starts

\* An edge between two nodes that are there; with the last one the save is over.
LEMMA StoresEdge ==
  ASSUME TypeInv, NEW r \in Runs, CreateNext(r)
  PROVE  LET k == run[r].k
             last == k + 1 = Len(run[r].history)
         IN
         /\ run[r].at = "edges" /\ UNCHANGED <<saved, day, failures>>
         /\ k < Len(run[r].history) /\ run[r].graph \in Procedures
         /\ last => run' = [run EXCEPT ![r] = NoRun]
         /\ ~last => \E x \in RunType :
              /\ run' = [run EXCEPT ![r] = x] /\ x.graph = run[r].graph
              /\ x.at = "edges" /\ x.k = k + 1
              /\ x.loaded = run[r].loaded /\ x.prefix = run[r].prefix /\ x.plan = run[r].plan
              /\ x.safe = run[r].safe /\ x.user = run[r].user /\ x.history = run[r].history
         /\ \E g \in GraphType :
              /\ graphs' = [graphs EXCEPT ![run[r].graph] = g]
              /\ LET old == graphs[run[r].graph] IN
                 /\ g.edges = IF {k, k + 1} \subseteq DOMAIN old.nodes THEN old.edges \cup {k}
                              ELSE old.edges
                 /\ g.over = last
                 /\ g.starts = old.starts /\ g.nodes = old.nodes
                 /\ g.live = old.live /\ g.owner = old.owner /\ g.given = old.given
                 /\ g.used = old.used
<1> DEFINE y == run[r]
           k == y.k
           p == y.graph
           old == graphs[p]
           last == k + 1 = Len(y.history)
<1>1. /\ y.at = "edges" /\ UNCHANGED <<saved, day, failures>>
      /\ k < Len(y.history) /\ p \in Procedures
  BY DEF CreateNext, TypeInv, RunOk, Saving
<1>2. y \in RunType /\ k \in Nat /\ old \in GraphType /\ old.edges \in SUBSET Nat
  BY <1>1, Typed
<1>3. last => run' = [run EXCEPT ![r] = NoRun]
  BY DEF CreateNext
<1>4. ASSUME ~last
      PROVE  \E x \in RunType :
               /\ run' = [run EXCEPT ![r] = x] /\ x.graph = y.graph
               /\ x.at = "edges" /\ x.k = k + 1
               /\ x.loaded = y.loaded /\ x.prefix = y.prefix /\ x.plan = y.plan
               /\ x.safe = y.safe /\ x.user = y.user /\ x.history = y.history
  <2> DEFINE l == k + 1
             x == [y EXCEPT !.k = l]
  <2>1. run' = [run EXCEPT ![r] = x]
    BY <1>4, Typed DEF CreateNext
  <2>2. l \in Nat
    BY <1>2
  <2> HIDE DEF l, y
  <2>3. /\ x \in RunType /\ x.graph = y.graph /\ x.at = y.at /\ x.k = l
        /\ x.loaded = y.loaded /\ x.prefix = y.prefix /\ x.plan = y.plan
        /\ x.safe = y.safe /\ x.user = y.user /\ x.history = y.history
    BY <1>2, <2>2 DEF RunType
  <2> HIDE DEF x
  <2> QED
    BY <1>1, <2>1, <2>3 DEF l
<1>5. \E g \in GraphType :
        /\ graphs' = [graphs EXCEPT ![p] = g]
        /\ g.edges = IF {k, k + 1} \subseteq DOMAIN old.nodes THEN old.edges \cup {k} ELSE old.edges
        /\ g.over = last
        /\ g.starts = old.starts /\ g.nodes = old.nodes
        /\ g.live = old.live /\ g.owner = old.owner /\ g.given = old.given /\ g.used = old.used
  <2> DEFINE edges == IF {k, k + 1} \subseteq DOMAIN old.nodes THEN old.edges \cup {k} ELSE old.edges
             over == last
             g == [old EXCEPT !.edges = edges, !.over = over]
  <2>1. edges \in SUBSET Nat /\ over \in BOOLEAN
    BY <1>2
  <2>2. graphs' = [graphs EXCEPT ![p] = g]
    BY <1>1, Typed DEF CreateNext
  <2> HIDE DEF edges, over, old
  <2>3. /\ g \in GraphType /\ g.edges = edges /\ g.over = over
        /\ g.starts = old.starts /\ g.nodes = old.nodes
        /\ g.live = old.live /\ g.owner = old.owner /\ g.given = old.given /\ g.used = old.used
    BY <1>2, <2>1 DEF GraphType
  <2> HIDE DEF g
  <2> QED
    BY <2>2, <2>3 DEF edges, over
<1> QED
  BY <1>1, <1>3, <1>4, <1>5

-----------------------------------------------------------------------------
(* The types are kept. *)

\* The run that acts keeps the type of a run; the others are as they were.
LEMMA OneRun ==
  ASSUME TypeInv, NEW r \in Runs, NEW x \in RunType, run' = [run EXCEPT ![r] = x], RunOk(x)
  PROVE  /\ run' \in [Runs -> RunType]
         /\ \A s \in Runs : RunOk(run'[s])
  BY DEF TypeInv

\* A step that leaves the graphs alone.
LEMMA RunStep ==
  ASSUME TypeInv, NEW r \in Runs, NEW x \in RunType, run' = [run EXCEPT ![r] = x], RunOk(x),
         UNCHANGED <<graphs, saved, day>>, failures' \in 0 .. MaxFailures
  PROVE  TypeInv'
<1>1. run' \in [Runs -> RunType] /\ \A s \in Runs : RunOk(run'[s])
  BY OneRun
<1> QED
  BY <1>1 DEF TypeInv, RunOk

\* A step that writes one graph.
LEMMA GraphStep ==
  ASSUME TypeInv, NEW r \in Runs, NEW x \in RunType, run' = [run EXCEPT ![r] = x], RunOk(x),
         NEW p \in Procedures, NEW g \in GraphType, graphs' = [graphs EXCEPT ![p] = g],
         g.starts => g.nodes # <<>>,
         saved' \in 0 .. Cardinality(Procedures), UNCHANGED <<day, failures>>
  PROVE  TypeInv'
<1>1. run' \in [Runs -> RunType] /\ \A s \in Runs : RunOk(run'[s])
  BY OneRun
<1>2. /\ graphs' \in [Procedures -> GraphType]
      /\ \A q \in Procedures : graphs'[q].starts => graphs'[q].nodes # <<>>
  BY DEF TypeInv
<1> QED
  BY <1>1, <1>2 DEF TypeInv, RunOk

\* A failure is counted, and not more often than failures happen.
LEMMA Failing ==
  ASSUME TypeInv, fail
  PROVE  failures' \in 0 .. MaxFailures
<1>1. failures \in 0 .. MaxFailures /\ MaxFailures \in Nat
  BY StoreAssumption DEF TypeInv, StoreAssumption
<1> QED
  BY <1>1 DEF fail

\* Whatever step is taken, the types are kept.
LEMMA TypeStep ==
  ASSUME TypeInv, [Next]_vars
  PROVE  TypeInv'
<1>0. RunOk(NoRun) /\ NoRun \in RunType /\ failures \in 0 .. MaxFailures
  BY Idle DEF RunOk, Saving, TypeInv
<1> DEFINE Quiet(at) == at \in Places \ ({"sweep", "graph"} \cup Saving)
<1>q. \A x : Quiet(x.at) => RunOk(x)
  BY DEF RunOk, Saving
<1>1. ASSUME NEW r \in Runs, Begin(r) PROVE TypeInv'
  <2>1. PICK x \in RunType : run' = [run EXCEPT ![r] = x] /\ x.at \in {"rows", "browser"}
    BY <1>1, Begins
  <2> QED
    BY <1>0, <1>1, <1>q, <2>1, RunStep DEF Begin, Places, Saving
<1>2. ASSUME NEW r \in Runs, LoadRows(r) PROVE TypeInv'
  <2>1. PICK x \in RunType : run' = [run EXCEPT ![r] = x] /\ x.at \in {"browser", "chains"}
    BY <1>2, LoadsRows
  <2>2. run' \in [Runs -> RunType] /\ \A s \in Runs : RunOk(run'[s])
    BY <1>q, <2>1, OneRun DEF Places, Saving
  <2>3. ASSUME NEW p \in Procedures
        PROVE  /\ graphs'[p] \in GraphType /\ graphs'[p].starts = graphs[p].starts
               /\ graphs'[p].nodes = graphs[p].nodes
    <3> DEFINE g == graphs[p]
               d == day
               y == [g EXCEPT !.used = d]
    <3>1. g \in GraphType /\ d \in Nat
      BY Typed
    <3>2. graphs'[p] = y \/ graphs'[p] = g
      BY <1>2 DEF LoadRows
    <3> HIDE DEF g, d
    <3>3. y \in GraphType /\ y.starts = g.starts /\ y.nodes = g.nodes
      BY <3>1 DEF GraphType
    <3> HIDE DEF y
    <3> QED
      BY <3>1, <3>2, <3>3 DEF g
  <2>4. graphs' \in [Procedures -> GraphType]
    <3>1. graphs' = [p \in Procedures |-> graphs'[p]]
      BY <1>2 DEF LoadRows
    <3> QED
      BY <2>3, <3>1
  <2>5. UNCHANGED <<saved, day, failures>>
    BY <1>2 DEF LoadRows
  <2> QED
    BY <2>2, <2>3, <2>4, <2>5 DEF TypeInv, RunOk
<1>3. ASSUME NEW r \in Runs, LoadChain(r) PROVE TypeInv'
  <2>1. PICK x \in RunType : run' = [run EXCEPT ![r] = x] /\ x.at = "chains"
    BY <1>3, LoadsChain
  <2> QED
    BY <1>0, <1>3, <1>q, <2>1, RunStep DEF LoadChain, Places, Saving
<1>4. ASSUME NEW r \in Runs, LoadFails(r) PROVE TypeInv'
  <2>1. PICK x \in RunType : run' = [run EXCEPT ![r] = x] /\ x.at = "browser"
    BY <1>4, LoadingFails
  <2>2. failures' \in 0 .. MaxFailures
    BY <1>4, Failing DEF LoadFails
  <2> QED
    BY <1>4, <1>q, <2>1, <2>2, RunStep DEF LoadFails, Places, Saving
<1>5. ASSUME NEW r \in Runs, Match(r) PROVE TypeInv'
  <2>1. PICK x \in RunType : run' = [run EXCEPT ![r] = x] /\ x.at = "browser"
    BY <1>5, Matches
  <2> QED
    BY <1>0, <1>5, <1>q, <2>1, RunStep DEF Match, Places, Saving
<1>6. ASSUME NEW r \in Runs, StartBrowser(r) \/ Replay(r) PROVE TypeInv'
  <2>1. PICK x \in RunType : run' = [run EXCEPT ![r] = x] /\ x.at \in {"replay", "loop", "idle"}
    BY <1>0, <1>6, Starts, Replays, Idle
  <2> QED
    BY <1>0, <1>6, <1>q, <2>1, RunStep DEF StartBrowser, Replay, Places, Saving
<1>7. ASSUME NEW r \in Runs, ReplayDone(r) PROVE TypeInv'
  <2>1. PICK x \in RunType : run' = [run EXCEPT ![r] = x] /\ x.at = "loop"
    BY <1>7, Goes DEF ReplayDone, Places
  <2> QED
    BY <1>0, <1>7, <1>q, <2>1, RunStep DEF ReplayDone, Places, Saving
<1>8. ASSUME NEW r \in Runs, RunLoop(r) PROVE TypeInv'
  <2>1. PICK x \in RunType : run' = [run EXCEPT ![r] = x] /\ RunOk(x)
    <3>1. CASE run' = [run EXCEPT ![r] = NoRun]
      BY <1>0, <3>1
    <3>2. CASE run' # [run EXCEPT ![r] = NoRun]
      <4>1. PICK x \in RunType : /\ run' = [run EXCEPT ![r] = x] /\ x.at = "sweep"
                                 /\ Len(x.history) \in 2 .. MaxSteps
        BY <1>8, <3>2, Ends
      <4>2. RunOk(x)
        BY <4>1, StoreAssumption DEF RunOk, Saving, StoreAssumption
      <4> QED
        BY <4>1, <4>2
    <3> QED
      BY <3>1, <3>2
  <2> QED
    BY <1>0, <1>8, <2>1, RunStep DEF RunLoop
<1>9. ASSUME NEW r \in Runs, SweepExpired(r) PROVE TypeInv'
  <2>0. run[r].at = "sweep"
    BY <1>9 DEF SweepExpired
  <2>1. /\ goto(r, "graph") /\ UNCHANGED <<saved, day>> /\ failures' \in 0 .. MaxFailures
        /\ graphs' \in [Procedures -> GraphType]
        /\ \A p \in Procedures : /\ graphs'[p].starts => graphs[p].starts
                                 /\ graphs'[p].nodes = graphs[p].nodes
    BY <1>9, Sweeps
  <2>2. PICK x \in RunType :
          run' = [run EXCEPT ![r] = x] /\ x.at = "graph" /\ x.history = run[r].history
    BY <2>1, Goes DEF Places
  <2>3. RunOk(x)
    BY <2>0, <2>2 DEF RunOk, TypeInv, Saving
  <2>4. run' \in [Runs -> RunType] /\ \A s \in Runs : RunOk(run'[s])
    BY <2>2, <2>3, OneRun
  <2> QED
    BY <2>1, <2>4 DEF TypeInv, RunOk
<1>10. ASSUME NEW r \in Runs, CreateGraph(r) PROVE TypeInv'
  <2>1. /\ run[r].at = "graph" /\ saved' = saved + 1 /\ saved' \in Procedures
        /\ saved' <= Cardinality(Procedures) /\ UNCHANGED <<day, failures>>
    BY <1>10, Creates
  <2>2. PICK x \in RunType :
          /\ run' = [run EXCEPT ![r] = x] /\ x.at = "nodes" /\ x.graph = saved + 1 /\ x.k = 1
          /\ x.history = run[r].history
    BY <1>10, Creates
  <2>3. PICK g \in GraphType : graphs' = [graphs EXCEPT ![saved + 1] = g] /\ ~g.starts
    BY <1>10, Creates
  <2>4. RunOk(x)
    <3>1. Len(run[r].history) >= 2 /\ Len(run[r].history) \in Nat
      BY <2>1, Typed, LenProperties DEF TypeInv, RunOk
    <3> QED
      BY <2>1, <2>2, <3>1 DEF RunOk, Saving
  <2>5. saved' \in 0 .. Cardinality(Procedures)
    <3> DEFINE n == saved
               N == Cardinality(Procedures)
    <3>1. n \in Nat /\ N \in Nat /\ n + 1 <= N
      BY <2>1, Typed
    <3> HIDE DEF n, N
    <3>2. n + 1 \in 0 .. N
      BY <3>1
    <3> QED
      BY <2>1, <3>2 DEF n, N
  <2> QED
    BY <2>1, <2>2, <2>3, <2>4, <2>5, GraphStep
<1>11. ASSUME NEW r \in Runs, CreateNode(r) PROVE TypeInv'
  <2>1. /\ run[r].at = "nodes" /\ UNCHANGED <<saved, day, failures>>
        /\ run[r].k \in 1 .. Len(run[r].history) /\ run[r].graph \in Procedures
    BY <1>11, StoresNode
  <2>2. PICK x \in RunType :
          /\ run' = [run EXCEPT ![r] = x] /\ x.graph = run[r].graph
          /\ IF run[r].k = Len(run[r].history) THEN x.at = "start" /\ x.k = 1
             ELSE x.at = "nodes" /\ x.k = run[r].k + 1
          /\ x.history = run[r].history
    BY <1>11, StoresNode
  <2>3. PICK g \in GraphType :
          /\ graphs' = [graphs EXCEPT ![run[r].graph] = g]
          /\ LET old == graphs[run[r].graph] IN
             /\ g.nodes = IF old.live THEN Append(old.nodes, run[r].history[run[r].k])
                          ELSE old.nodes
             /\ g.starts = old.starts
    BY <1>11, StoresNode
  <2>4. RunOk(x)
    <3>1. Len(run[r].history) >= 2 /\ Len(run[r].history) \in Nat
      BY <2>1, Typed, LenProperties DEF TypeInv, RunOk, Saving
    <3> QED
      BY <2>1, <2>2, <3>1 DEF RunOk, Saving
  <2>5. g.starts => g.nodes # <<>>
    <3> DEFINE old == graphs[run[r].graph]
               step == run[r].history[run[r].k]
    <3>1. old.nodes \in Seq(NodeSet) /\ (old.starts => old.nodes # <<>>)
      BY <2>1, Typed DEF TypeInv
    <3>2. step \in NodeSet
      BY <2>1, Typed, ElementOfSeq
    <3>3. g.nodes = (IF old.live THEN Append(old.nodes, step) ELSE old.nodes) /\ g.starts = old.starts
      BY <2>3
    <3> HIDE DEF old, step
    <3>4. Append(old.nodes, step) # <<>>
      BY <3>1, <3>2, AppendProperties, EmptySeq
    <3> QED
      BY <3>1, <3>3, <3>4
  <2>6. saved' \in 0 .. Cardinality(Procedures)
    BY <2>1 DEF TypeInv
  <2> QED
    BY <2>1, <2>2, <2>3, <2>4, <2>5, <2>6, GraphStep
<1>12. ASSUME NEW r \in Runs, CreateStartsWith(r) PROVE TypeInv'
  <2>1. /\ run[r].at = "start" /\ UNCHANGED <<saved, day, failures>> /\ goto(r, "edges")
        /\ run[r].graph \in Procedures
    BY <1>12, StoresStart
  <2>2. PICK x \in RunType :
          /\ run' = [run EXCEPT ![r] = x] /\ x.graph = run[r].graph
          /\ x.at = "edges" /\ x.history = run[r].history
    BY <2>1, Goes DEF Places
  <2>3. PICK g \in GraphType :
          /\ graphs' = [graphs EXCEPT ![run[r].graph] = g]
          /\ LET old == graphs[run[r].graph] IN
             g.starts = (old.live /\ old.nodes # <<>>) /\ g.nodes = old.nodes
    BY <1>12, StoresStart
  <2>4. RunOk(x)
    BY <2>1, <2>2 DEF RunOk, TypeInv, Saving
  <2>5. saved' \in 0 .. Cardinality(Procedures)
    BY <2>1 DEF TypeInv
  <2> QED
    BY <2>1, <2>2, <2>3, <2>4, <2>5, GraphStep
<1>13. ASSUME NEW r \in Runs, CreateNext(r) PROVE TypeInv'
  <2>1. /\ run[r].at = "edges" /\ UNCHANGED <<saved, day, failures>> /\ run[r].graph \in Procedures
    BY <1>13, StoresEdge
  <2>2. PICK x \in RunType : run' = [run EXCEPT ![r] = x] /\ RunOk(x)
    <3>1. CASE run' = [run EXCEPT ![r] = NoRun]
      BY <1>0, <3>1
    <3>2. CASE run' # [run EXCEPT ![r] = NoRun]
      <4>1. PICK x \in RunType : /\ run' = [run EXCEPT ![r] = x] /\ x.at = "edges"
                                 /\ x.graph = run[r].graph /\ x.history = run[r].history
        BY <1>13, <3>2, StoresEdge
      <4>2. RunOk(x)
        BY <2>1, <4>1 DEF RunOk, TypeInv, Saving
      <4> QED
        BY <4>1, <4>2
    <3> QED
      BY <3>1, <3>2
  <2>3. PICK g \in GraphType :
          /\ graphs' = [graphs EXCEPT ![run[r].graph] = g]
          /\ g.starts = graphs[run[r].graph].starts /\ g.nodes = graphs[run[r].graph].nodes
    BY <1>13, StoresEdge
  <2>4. g.starts => g.nodes # <<>>
    BY <2>1, <2>3 DEF TypeInv
  <2>5. saved' \in 0 .. Cardinality(Procedures)
    BY <2>1 DEF TypeInv
  <2> QED
    BY <2>1, <2>2, <2>3, <2>4, <2>5, GraphStep
<1>14. ASSUME NEW r \in Runs, SaveFails(r) PROVE TypeInv'
  <2>1. failures' \in 0 .. MaxFailures
    BY <1>14, Failing DEF SaveFails
  <2> QED
    BY <1>0, <1>14, <2>1, RunStep DEF SaveFails
<1>15. CASE Tick
  <2>1. day' \in 0 .. MaxDay
    <3>1. day \in 0 .. MaxDay /\ MaxDay \in Nat
      BY StoreAssumption DEF TypeInv, StoreAssumption
    <3> QED
      BY <1>15, <3>1 DEF Tick
  <2> QED
    BY <1>15, <2>1 DEF Tick, TypeInv, RunOk
<1>16. CASE UNCHANGED vars
  BY <1>16 DEF vars, TypeInv, RunOk
<1> QED
  BY <1>1, <1>2, <1>3, <1>4, <1>5, <1>6, <1>7, <1>8, <1>9, <1>10, <1>11, <1>12, <1>13, <1>14,
     <1>15, <1>16 DEF Next

-----------------------------------------------------------------------------
(* The invariant. *)

Whole(g) ==
  g.starts /\ Len(g.nodes) = Len(g.given) /\ 1 .. Len(g.given) - 1 \subseteq g.edges

\* A graph holds the beginning of what its run did, and all of it once its save is
\* over, for as long as it is there.
GraphOk(g) ==
  /\ g.live => g.owner \in Users
  /\ Len(g.given) <= MaxSteps
  /\ Heads(g.nodes, g.given)
  /\ g.edges \subseteq 1 .. Len(g.given) - 1
  /\ g.used <= day
  /\ g.over /\ g.live => Whole(g)

GraphInv == \A p \in Procedures : GraphOk(graphs[p]) /\ (p > saved => ~graphs[p].live)

\* How far a save has come is what its graph holds, while the graph is there.
Progress(x, g) ==
  /\ x.at = "nodes" => Len(g.nodes) = x.k - 1
  /\ x.at # "nodes" => Len(g.nodes) = Len(x.history)
  /\ x.at = "edges" => g.starts /\ 1 .. x.k - 1 \subseteq g.edges

\* A run that saves owns a graph given what the run did; how far it is is in its place
\* and its counter.
SaveOk(x) ==
  /\ x.at \notin Saving => x.graph = 0
  /\ x.at # "idle" => x.user \in Users
  /\ x.at \in Saving =>
       /\ x.graph \in 1 .. saved /\ graphs[x.graph].given = x.history /\ ~graphs[x.graph].over
       /\ x.at = "start" => x.k = 1
       /\ x.at = "edges" => x.k \in 1 .. Len(x.history) - 1
       /\ graphs[x.graph].live => Progress(x, graphs[x.graph])

\* No two runs save the same graph.
OwnInv ==
  \A r, s \in Runs :
    r # s /\ run[r].at \in Saving /\ run[s].at \in Saving => run[r].graph # run[s].graph

\* Rows that were read are of graphs of the user, and of graphs that are still there
\* as long as the lease that reading them gave has not run out.
LeaseOk(x) ==
  x.at = "chains" =>
    /\ x.since <= day
    /\ \A i \in 1 .. Len(x.rows) :
         /\ x.rows[i] \in 1 .. saved /\ graphs[x.rows[i]].owner = x.user
         /\ day <= x.since + TtlDays =>
              graphs[x.rows[i]].live /\ graphs[x.rows[i]].used >= x.since

\* The history starts empty, follows the prefix that is replayed, and is bounded.
PlayOk(x) ==
  /\ Len(x.history) <= MaxSteps
  /\ x.at \in {"idle", "rows", "chains", "browser"} => x.history = <<>>
  /\ x.at = "replay" => Len(x.history) <= Len(x.prefix)

\* nodes are the first steps of a procedure of the user.
Owned(nodes, user) ==
  \E p \in 1 .. saved : graphs[p].owner = user /\ Heads(nodes, graphs[p].given)

EarnedOk(x) ==
  /\ \A i \in 1 .. Len(x.loaded) : Owned(x.loaded[i], x.user)
  /\ x.prefix # <<>> =>
       /\ Owned(x.prefix, x.user) /\ x.plan \in plans
       /\ MinPrefix <= Len(x.prefix) /\ Len(x.prefix) <= x.safe
       /\ Heads(hashes(x.prefix), x.plan)

RunsOk == \A r \in Runs : /\ SaveOk(run[r]) /\ LeaseOk(run[r])
                          /\ PlayOk(run[r]) /\ EarnedOk(run[r])

\* The inductive invariant.
Inv == TypeInv /\ GraphInv /\ RunsOk /\ OwnInv

-----------------------------------------------------------------------------
(* What a step leaves of the graphs it does not write. *)

\* Being the beginning of something is transitive.
LEMMA HeadsOfHeads ==
  ASSUME NEW a, NEW b, NEW c, Len(a) \in Nat, Len(b) \in Nat, Len(c) \in Nat,
         Heads(a, b), Heads(b, c)
  PROVE  Heads(a, c)
<1>1. Len(a) <= Len(c)
  BY DEF Heads
<1>2. ASSUME NEW i \in 1 .. Len(a) PROVE a[i] = c[i]
  <2>1. i \in 1 .. Len(b)
    BY DEF Heads
  <2> QED
    BY <2>1 DEF Heads
<1> QED
  BY <1>1, <1>2 DEF Heads

\* Every step but a step of its own save leaves a graph as it is, renews its lease, or
\* takes it away when its lease has run out.
Untouched(p) ==
  /\ graphs'[p].given = graphs[p].given /\ graphs'[p].owner = graphs[p].owner
  /\ graphs'[p].nodes = graphs[p].nodes /\ graphs'[p].edges = graphs[p].edges
  /\ graphs'[p].over = graphs[p].over
  /\ graphs'[p].live => graphs[p].live /\ graphs'[p].starts = graphs[p].starts
  /\ graphs'[p].used = graphs[p].used \/ graphs'[p].used = day
  /\ graphs[p].live /\ graphs[p].used + TtlDays >= day => graphs'[p].live

\* A step of its save leaves its lease, and what it is to hold.
Written(p) ==
  /\ graphs'[p].given = graphs[p].given /\ graphs'[p].owner = graphs[p].owner
  /\ graphs'[p].live = graphs[p].live /\ graphs'[p].used = graphs[p].used

Step(r) ==
  \/ Begin(r) \/ LoadRows(r) \/ LoadChain(r) \/ LoadFails(r) \/ Match(r)
  \/ StartBrowser(r) \/ Replay(r) \/ ReplayDone(r) \/ RunLoop(r)
  \/ SweepExpired(r) \/ CreateGraph(r) \/ CreateNode(r) \/ CreateStartsWith(r)
  \/ CreateNext(r) \/ SaveFails(r)

Grown(r) ==
  /\ day' = day
  /\ saved' = saved \/ (run[r].at = "graph" /\ saved' = saved + 1)
  /\ \A p \in Procedures :
       \/ Untouched(p)
       \/ run[r].at \in Saving /\ p = run[r].graph /\ Written(p)
       \/ p = saved + 1 /\ saved' = saved + 1

\* A step of a run changes a graph as its save does, or not beyond a lease or a sweep.
LEMMA Grows ==
  ASSUME TypeInv, NEW r \in Runs, Step(r)
  PROVE  Grown(r)
<1>1. CASE UNCHANGED <<graphs, saved, day>>
  BY <1>1 DEF Grown, Untouched
<1>2. CASE LoadRows(r)
  <2>1. UNCHANGED <<saved, day>>
    BY <1>2 DEF LoadRows
  <2>2. ASSUME NEW p \in Procedures PROVE Untouched(p)
    <3> DEFINE g == graphs[p]
               d == day
               x == [g EXCEPT !.used = d]
    <3>1. g \in GraphType
      BY Typed
    <3>2. graphs'[p] = x \/ graphs'[p] = g
      BY <1>2 DEF LoadRows
    <3> HIDE DEF g, d
    <3>3. /\ x.given = g.given /\ x.owner = g.owner /\ x.nodes = g.nodes /\ x.edges = g.edges
          /\ x.over = g.over /\ x.live = g.live /\ x.starts = g.starts /\ x.used = d
      BY <3>1 DEF GraphType
    <3> HIDE DEF x
    <3> QED
      BY <3>2, <3>3 DEF Untouched, g, d
  <2> QED
    BY <2>1, <2>2 DEF Grown
<1>3. CASE SweepExpired(r)
  BY <1>3, Sweeps DEF Grown, Untouched
<1>4. CASE CreateGraph(r)
  <2>1. /\ run[r].at = "graph" /\ saved' = saved + 1 /\ UNCHANGED day
        /\ \E g \in GraphType : graphs' = [graphs EXCEPT ![saved + 1] = g]
    BY <1>4, Creates
  <2>2. \A p \in Procedures : p # saved + 1 => graphs'[p] = graphs[p]
    BY <2>1, Typed
  <2> QED
    BY <2>1, <2>2 DEF Grown, Untouched
<1>5. ASSUME UNCHANGED <<saved, day>>, run[r].at \in Saving,
             \E g \in GraphType :
               /\ graphs' = [graphs EXCEPT ![run[r].graph] = g]
               /\ LET old == graphs[run[r].graph] IN
                  g.live = old.live /\ g.owner = old.owner /\ g.given = old.given /\ g.used = old.used
      PROVE  Grown(r)
  <2>1. \A p \in Procedures : p # run[r].graph => graphs'[p] = graphs[p]
    BY <1>5, Typed
  <2>2. run[r].graph \in Procedures => Written(run[r].graph)
    BY <1>5, Typed DEF Written
  <2> QED
    BY <1>5, <2>1, <2>2 DEF Grown, Untouched
<1>6. CASE CreateNode(r)
  BY <1>5, <1>6, StoresNode DEF Saving
<1>7. CASE CreateStartsWith(r)
  BY <1>5, <1>7, StoresStart DEF Saving
<1>8. CASE CreateNext(r)
  BY <1>5, <1>8, StoresEdge DEF Saving
<1> QED
  BY <1>1, <1>2, <1>3, <1>4, <1>6, <1>7, <1>8
     DEF Step, Begin, LoadChain, LoadFails, Match, StartBrowser, Replay, ReplayDone, RunLoop,
         SaveFails

\* Graphs are numbered as they are saved.
LEMMA Numbered ==
  ASSUME TypeInv
  PROVE  \A p \in 1 .. saved : p \in Procedures
<1> DEFINE n == saved
           N == Cardinality(Procedures)
<1>1. n \in 0 .. N /\ N \in Nat
  BY Typed DEF TypeInv
<1>2. Procedures = 1 .. N
  BY StoreAssumption DEF StoreAssumption
<1> HIDE DEF n, N
<1>3. \A p \in 1 .. n : p \in 1 .. N
  BY <1>1
<1> QED
  BY <1>2, <1>3 DEF n

\* A graph that is saved stays saved, for the same user and with the same steps.
LEMMA Lasts ==
  ASSUME TypeInv, NEW r \in Runs, Grown(r)
  PROVE  /\ saved \in Nat /\ saved' \in Nat /\ saved' >= saved
         /\ \A p \in 1 .. saved : /\ graphs'[p].given = graphs[p].given
                                  /\ graphs'[p].owner = graphs[p].owner
<1>1. saved \in Nat /\ saved' \in Nat /\ saved' >= saved
  <2> DEFINE n == saved
             m == saved'
  <2>1. n \in Nat /\ (m = n \/ m = n + 1)
    BY Typed DEF Grown
  <2> HIDE DEF n, m
  <2>2. m \in Nat /\ m >= n
    BY <2>1
  <2> QED
    BY <2>1, <2>2 DEF n, m
<1>2. ASSUME NEW p \in 1 .. saved
      PROVE  graphs'[p].given = graphs[p].given /\ graphs'[p].owner = graphs[p].owner
  <2>1. p \in Procedures /\ p # saved + 1
    BY <1>1, Numbered
  <2> QED
    BY <2>1 DEF Grown, Untouched, Written
<1> QED
  BY <1>1, <1>2

\* What was earned stays earned.
LEMMA EarnedLasts ==
  ASSUME TypeInv, NEW r \in Runs, Grown(r)
  PROVE  \A nodes, user : Owned(nodes, user) => Owned(nodes, user)'
<1>1. /\ saved \in Nat /\ saved' \in Nat /\ saved' >= saved
      /\ \A p \in 1 .. saved : /\ graphs'[p].given = graphs[p].given
                               /\ graphs'[p].owner = graphs[p].owner
  BY Lasts
<1>2. \A p \in 1 .. saved : p \in 1 .. saved'
  BY <1>1
<1> QED
  BY <1>1, <1>2 DEF Owned

-----------------------------------------------------------------------------
(* The invariant is kept. *)

\* The graphs a step does not write stay as they should be.
LEMMA GraphLasts ==
  ASSUME TypeInv, GraphInv, NEW r \in Runs, Grown(r), NEW p \in Procedures, Untouched(p)
  PROVE  GraphOk(graphs[p])' /\ (p > saved' => ~graphs'[p].live)
<1>1. GraphOk(graphs[p]) /\ (p > saved => ~graphs[p].live)
  BY DEF GraphInv
<1>2. graphs'[p].used <= day'
  <2> DEFINE u == graphs[p].used
             v == graphs'[p].used
             d == day
  <2>1. d \in Nat /\ u <= d /\ (v = u \/ v = d)
    BY <1>1, Typed DEF GraphOk, Untouched
  <2> HIDE DEF u, v, d
  <2>2. v <= d
    BY <2>1
  <2> QED
    BY <2>2 DEF v, d, Grown
<1>3. p > saved' => p > saved
  <2>1. saved \in Nat /\ saved' \in Nat /\ saved' >= saved
    BY Lasts
  <2> DEFINE n == saved
             m == saved'
             N == Cardinality(Procedures)
  <2>2. n \in Nat /\ m \in Nat /\ m >= n /\ N \in Nat
    BY <2>1, Typed
  <2>3. p \in 1 .. N
    BY StoreAssumption DEF StoreAssumption
  <2> HIDE DEF n, m, N
  <2>4. p > m => p > n
    BY <2>2, <2>3
  <2> QED
    BY <2>4 DEF n, m
<1>4. p > saved' => ~graphs'[p].live
  BY <1>1, <1>3 DEF Untouched
<1>5. GraphOk(graphs[p])'
  <2>1. /\ graphs'[p].given = graphs[p].given /\ graphs'[p].owner = graphs[p].owner
        /\ graphs'[p].nodes = graphs[p].nodes /\ graphs'[p].edges = graphs[p].edges
        /\ graphs'[p].over = graphs[p].over
        /\ graphs'[p].live => graphs[p].live /\ graphs'[p].starts = graphs[p].starts
    BY DEF Untouched
  <2> QED
    BY <1>1, <1>2, <2>1 DEF GraphOk, Whole
<1> QED
  BY <1>4, <1>5

\* A lease that was given holds, whatever other runs do.
LEMMA LeaseLasts ==
  ASSUME TypeInv, GraphInv, NEW r \in Runs, Grown(r), NEW x \in RunType, LeaseOk(x)
  PROVE  LeaseOk(x)'
<1> SUFFICES ASSUME x.at = "chains"
             PROVE  /\ x.since <= day'
                    /\ \A i \in 1 .. Len(x.rows) :
                         /\ x.rows[i] \in 1 .. saved' /\ graphs'[x.rows[i]].owner = x.user
                         /\ day' <= x.since + TtlDays =>
                              graphs'[x.rows[i]].live /\ graphs'[x.rows[i]].used >= x.since
  BY DEF LeaseOk
<1>1. x.since <= day' /\ day' = day
  BY DEF LeaseOk, Grown
<1>2. ASSUME NEW i \in 1 .. Len(x.rows)
      PROVE  /\ x.rows[i] \in 1 .. saved' /\ graphs'[x.rows[i]].owner = x.user
             /\ day' <= x.since + TtlDays =>
                  graphs'[x.rows[i]].live /\ graphs'[x.rows[i]].used >= x.since
  <2> DEFINE p == x.rows[i]
  <2>1. /\ p \in 1 .. saved /\ graphs[p].owner = x.user
        /\ day <= x.since + TtlDays => graphs[p].live /\ graphs[p].used >= x.since
    BY DEF LeaseOk
  <2> HIDE DEF p
  <2>2. /\ saved \in Nat /\ saved' \in Nat /\ saved' >= saved
        /\ graphs'[p].owner = graphs[p].owner
    BY <2>1, Lasts
  <2>3. p \in 1 .. saved'
    BY <2>1, <2>2
  <2>4. ASSUME day <= x.since + TtlDays
        PROVE  graphs'[p].live /\ graphs'[p].used >= x.since
    <3>1. p \in Procedures /\ p # saved + 1
      BY <2>1, <2>2, Numbered
    <3>2. graphs[p].live /\ graphs[p].used >= x.since
      BY <2>1, <2>4
    <3>3. CASE Untouched(p)
      <4> DEFINE u == graphs[p].used
                 d == day
      <4>1. u \in Nat /\ d \in Nat /\ TtlDays \in Nat /\ x.since \in Nat
        BY <3>1, Typed, StoreAssumption DEF StoreAssumption, RunType
      <4>2. u >= x.since /\ d <= x.since + TtlDays /\ x.since <= d
        BY <1>1, <2>4, <3>2
      <4>3. graphs[p].live /\ u + TtlDays >= d => graphs'[p].live
        BY <3>3 DEF Untouched
      <4>4. graphs'[p].used = u \/ graphs'[p].used = d
        BY <3>3 DEF Untouched
      <4> HIDE DEF u, d
      <4>5. u + TtlDays >= d
        BY <4>1, <4>2
      <4>6. d >= x.since
        BY <4>1, <4>2
      <4>7. graphs'[p].used >= x.since
        BY <4>2, <4>4, <4>6
      <4> QED
        BY <3>2, <4>3, <4>5, <4>7
    <3>4. CASE Written(p)
      BY <3>2, <3>4 DEF Written
    <3> QED
      BY <3>1, <3>3, <3>4 DEF Grown
  <2> QED
    BY <1>1, <2>1, <2>2, <2>3, <2>4 DEF p
<1> QED
  BY <1>1, <1>2

\* What a run keeps of a graph that another run works on.
LEMMA SaveLasts ==
  ASSUME TypeInv, NEW r \in Runs, Grown(r), NEW x \in RunType, SaveOk(x),
         x.at \in Saving => ~(run[r].at \in Saving /\ run[r].graph = x.graph)
  PROVE  SaveOk(x)'
<1>1. CASE x.at \notin Saving
  BY <1>1 DEF SaveOk
<1>2. CASE x.at \in Saving
  <2> DEFINE p == x.graph
  <2>1. /\ p \in 1 .. saved /\ graphs[p].given = x.history /\ ~graphs[p].over
        /\ graphs[p].live => Progress(x, graphs[p])
    BY <1>2 DEF SaveOk
  <2>2. p # run[r].graph \/ run[r].at \notin Saving
    BY <1>2
  <2> HIDE DEF p
  <2>3. saved \in Nat /\ saved' \in Nat /\ saved' >= saved
    BY Lasts
  <2>4. p \in 1 .. saved' /\ p \in Procedures /\ p # saved + 1
    BY <2>1, <2>3, Numbered
  <2>5. Untouched(p)
    BY <2>2, <2>4 DEF Grown
  <2>6. graphs'[p].given = x.history /\ ~graphs'[p].over
    BY <2>1, <2>5 DEF Untouched
  <2>7. graphs'[p].live => Progress(x, graphs'[p])
    <3> SUFFICES ASSUME graphs'[p].live PROVE Progress(x, graphs'[p])
      OBVIOUS
    <3>1. /\ graphs[p].live /\ graphs'[p].starts = graphs[p].starts
          /\ graphs'[p].nodes = graphs[p].nodes /\ graphs'[p].edges = graphs[p].edges
      BY <2>5 DEF Untouched
    <3> QED
      BY <2>1, <3>1 DEF Progress
  <2> QED
    BY <1>2, <2>4, <2>6, <2>7 DEF SaveOk, p
<1> QED
  BY <1>1, <1>2

\* A step is right when it leaves its own run right, and its graph.
LEMMA StepKeeps ==
  ASSUME Inv, TypeInv', NEW r \in Runs, Step(r), NEW x \in RunType, run' = [run EXCEPT ![r] = x],
         SaveOk(x)', LeaseOk(x)', PlayOk(x), EarnedOk(x)',
         x.at \in Saving => \/ run[r].at \in Saving /\ x.graph = run[r].graph
                            \/ x.graph = saved + 1,
         \A p \in Procedures :
           Untouched(p) \/ (GraphOk(graphs[p])' /\ (p > saved' => ~graphs'[p].live))
  PROVE  Inv'
<1>1. Grown(r)
  BY Grows DEF Inv
<1>2. run'[r] = x /\ \A s \in Runs : s # r => run'[s] = run[s]
  BY Typed DEF Inv
<1>3. GraphInv'
  BY <1>1, GraphLasts DEF GraphInv, Inv
<1>4. ASSUME NEW s \in Runs
      PROVE  SaveOk(run[s])' /\ LeaseOk(run[s])' /\ PlayOk(run[s])' /\ EarnedOk(run[s])'
  <2>1. CASE s = r
    BY <1>2, <2>1 DEF SaveOk, LeaseOk, PlayOk, EarnedOk
  <2>2. CASE s # r
    <3>1. PICK y \in RunType : y = run[s]
      BY Typed DEF Inv
    <3>2. /\ run'[s] = y /\ SaveOk(y) /\ LeaseOk(y) /\ PlayOk(y) /\ EarnedOk(y)
      BY <1>2, <2>2, <3>1 DEF Inv, RunsOk
    <3>3. y.at \in Saving => ~(run[r].at \in Saving /\ run[r].graph = y.graph)
      BY <2>2, <3>1 DEF Inv, OwnInv
    <3>4. SaveOk(y)'
      BY <1>1, <3>2, <3>3, SaveLasts DEF Inv
    <3>5. LeaseOk(y)'
      BY <1>1, <3>2, LeaseLasts DEF Inv
    <3>6. EarnedOk(y)'
      BY <1>1, <3>2, EarnedLasts DEF Inv, EarnedOk
    <3> QED
      BY <3>2, <3>4, <3>5, <3>6 DEF SaveOk, LeaseOk, PlayOk, EarnedOk
  <2> QED
    BY <2>1, <2>2
<1>5. OwnInv'
  <2>1. ASSUME NEW s \in Runs, s # r, x.at \in Saving, run[s].at \in Saving
        PROVE  x.graph # run[s].graph
    <3>1. CASE run[r].at \in Saving /\ x.graph = run[r].graph
      BY <2>1, <3>1 DEF Inv, OwnInv
    <3>2. CASE x.graph = saved + 1
      <4> DEFINE n == saved
                 p == run[s].graph
      <4>1. n \in Nat /\ p \in 1 .. n
        BY <2>1, Typed DEF Inv, RunsOk, SaveOk
      <4> HIDE DEF n, p
      <4>2. n + 1 # p
        BY <4>1
      <4> QED
        BY <3>2, <4>2 DEF n, p
    <3> QED
      BY <2>1, <3>1, <3>2
  <2> QED
    BY <1>2, <2>1 DEF Inv, OwnInv
<1> QED
  BY <1>3, <1>4, <1>5 DEF Inv, RunsOk

\* A run that has nothing to do is right whatever the graphs are.
LEMMA IdleIsOk ==
  /\ SaveOk(NoRun) /\ LeaseOk(NoRun) /\ PlayOk(NoRun) /\ EarnedOk(NoRun)
  /\ SaveOk(NoRun)' /\ LeaseOk(NoRun)' /\ EarnedOk(NoRun)'
<1>1. /\ NoRun.at = "idle" /\ NoRun.graph = 0 /\ NoRun.loaded = <<>> /\ NoRun.prefix = <<>>
      /\ NoRun.history = <<>>
  BY Idle
<1>2. Len(<<>>) = 0 /\ MaxSteps \in Nat
  BY StoreAssumption DEF StoreAssumption
<1> HIDE DEF NoRun
<1>3. Len(NoRun.loaded) = 0 /\ Len(NoRun.history) = 0 /\ 1 .. 0 = {}
  BY <1>1, <1>2
<1> QED
  BY <1>1, <1>2, <1>3 DEF SaveOk, LeaseOk, PlayOk, EarnedOk, Saving

\* A step of a run that does not save, and does not start to.
LEMMA QuietStep ==
  ASSUME Inv, TypeInv', NEW r \in Runs, Step(r), NEW x \in RunType, run' = [run EXCEPT ![r] = x],
         run[r].at \notin Saving, saved' = saved, x.at \notin Saving,
         x.graph = 0, x.at # "idle" => x.user \in Users,
         LeaseOk(x)', PlayOk(x), EarnedOk(x)'
  PROVE  Inv'
<1>1. SaveOk(x)'
  BY DEF SaveOk
<1>2. \A p \in Procedures : Untouched(p)
  <2>1. Grown(r) /\ saved \in Nat
    BY Grows, Typed DEF Inv
  <2>2. saved' # saved + 1
    BY <2>1
  <2> QED
    BY <2>1, <2>2 DEF Grown
<1> QED
  BY <1>1, <1>2, StepKeeps

\* A run that goes on with what it has is as right as it was.
LEMMA EarnedOn ==
  ASSUME Inv, NEW r \in Runs, Step(r), NEW x \in RunType,
         x.user = run[r].user, x.loaded = run[r].loaded \/ x.loaded = <<>>,
         x.prefix = <<>> \/ (/\ x.prefix = run[r].prefix /\ x.plan = run[r].plan
                             /\ x.safe = run[r].safe)
  PROVE  EarnedOk(x)'
<1>1. PICK y \in RunType : y = run[r]
  BY Typed DEF Inv
<1>2. EarnedOk(y)
  BY <1>1 DEF Inv, RunsOk
<1>3. EarnedOk(x)
  <2>1. Len(<<>>) = 0 /\ 1 .. 0 = {}
    OBVIOUS
  <2> QED
    BY <1>1, <1>2, <2>1 DEF EarnedOk
<1>4. \A nodes, user : Owned(nodes, user) => Owned(nodes, user)'
  BY Grows, EarnedLasts DEF Inv
<1> QED
  BY <1>3, <1>4 DEF EarnedOk

\* The steps that only read, run, or wait.
LEMMA ReadSteps ==
  ASSUME Inv, TypeInv', NEW r \in Runs, Step(r),
         \/ Begin(r) \/ LoadRows(r) \/ LoadChain(r) \/ LoadFails(r) \/ Match(r)
         \/ StartBrowser(r) \/ Replay(r) \/ ReplayDone(r) \/ RunLoop(r) \/ SweepExpired(r)
  PROVE  Inv'
<1>0. /\ SaveOk(run[r]) /\ LeaseOk(run[r]) /\ PlayOk(run[r]) /\ EarnedOk(run[r])
  BY DEF Inv, RunsOk
<1>i. /\ NoRun \in RunType /\ NoRun.at = "idle" /\ NoRun.graph = 0
      /\ LeaseOk(NoRun)' /\ PlayOk(NoRun) /\ EarnedOk(NoRun)'
  BY Idle, IdleIsOk
<1>s. /\ run[r].at \notin Saving /\ run[r].graph = 0 /\ saved' = saved
      /\ run[r].at # "idle" => run[r].user \in Users
  <2>1. run[r].at \notin Saving
    BY DEF Saving, Begin, LoadRows, LoadChain, LoadFails, Match, StartBrowser, Replay, ReplayDone,
           RunLoop, SweepExpired
  <2>2. saved' = saved
    BY DEF Begin, LoadRows, LoadChain, LoadFails, Match, StartBrowser, Replay, ReplayDone,
           RunLoop, SweepExpired
  <2> QED
    BY <1>0, <2>1, <2>2 DEF SaveOk
<1>e. Len(<<>>) = 0 /\ 1 .. 0 = {} /\ MaxSteps \in Nat /\ MaxSteps >= 1
  BY StoreAssumption DEF StoreAssumption
<1>t. /\ TypeInv /\ GraphInv /\ Grown(r) /\ run[r] \in RunType
      /\ run[r].history \in Seq(NodeSet) /\ run[r].prefix \in Seq(NodeSet)
      /\ run[r].loaded \in Seq(Seq(NodeSet)) /\ run[r].rows \in Seq(Procedures)
  BY Grows, Typed DEF Inv
<1>1. CASE Begin(r)
  <2>1. PICK x \in RunType :
          /\ run' = [run EXCEPT ![r] = x] /\ x.at \in {"rows", "browser"} /\ x.user \in Users
          /\ x.rows = <<>> /\ x.loaded = <<>> /\ x.prefix = <<>> /\ x.history = <<>>
          /\ x.graph = 0
    BY <1>1, Begins
  <2>2. x.at \notin Saving /\ LeaseOk(x)'
    BY <2>1 DEF Saving, LeaseOk
  <2>3. PlayOk(x)
    BY <1>e, <2>1 DEF PlayOk
  <2>4. EarnedOk(x)'
    BY <1>e, <2>1 DEF EarnedOk
  <2> QED
    BY <1>s, <2>1, <2>2, <2>3, <2>4, QuietStep
<1>2. CASE LoadRows(r)
  <2>0. run[r].at = "rows"
    BY <1>2 DEF LoadRows
  <2>1. PICK x \in RunType :
          /\ run' = [run EXCEPT ![r] = x] /\ x.at \in {"browser", "chains"} /\ x.since = day
          /\ \A i \in 1 .. Len(x.rows) :
               /\ x.rows[i] \in Procedures /\ graphs[x.rows[i]].live
               /\ graphs[x.rows[i]].owner = run[r].user
               /\ graphs'[x.rows[i]].used = day
          /\ x.user = run[r].user /\ x.loaded = run[r].loaded /\ x.prefix = run[r].prefix
          /\ x.plan = run[r].plan /\ x.safe = run[r].safe
          /\ x.history = run[r].history /\ x.graph = run[r].graph
    BY <1>2, <1>t, LoadsRows
  <2>2. LeaseOk(x)'
    <3>1. ASSUME NEW i \in 1 .. Len(x.rows)
          PROVE  /\ x.rows[i] \in 1 .. saved' /\ graphs'[x.rows[i]].owner = x.user
                 /\ graphs'[x.rows[i]].live /\ graphs'[x.rows[i]].used = day
      <4> DEFINE p == x.rows[i]
      <4>1. /\ p \in Procedures /\ graphs[p].live /\ graphs[p].owner = x.user
            /\ graphs'[p].used = day
        BY <2>1
      <4>2. p \in 1 .. saved
        <5> DEFINE n == saved
                   N == Cardinality(Procedures)
        <5>1. ~(p > n) /\ n \in Nat /\ N \in Nat
          BY <1>t, <4>1, Typed DEF GraphInv
        <5>2. p \in 1 .. N
          BY <4>1, StoreAssumption DEF StoreAssumption
        <5> HIDE DEF n, N
        <5>3. p \in 1 .. n
          BY <5>1, <5>2
        <5> QED
          BY <5>3 DEF n
      <4> HIDE DEF p
      <4>3. graphs'[p].live = graphs[p].live
        <5> DEFINE g == graphs[p]
                   d == day
                   y == [g EXCEPT !.used = d]
        <5>1. g \in GraphType
          BY <1>t, <4>1, Typed
        <5>2. graphs'[p] = y \/ graphs'[p] = g
          BY <1>2, <4>1 DEF LoadRows
        <5> HIDE DEF g, d
        <5>3. y.live = g.live
          BY <5>1 DEF GraphType
        <5> QED
          BY <5>2, <5>3 DEF g
      <4>4. graphs'[p].owner = graphs[p].owner
        BY <1>t, <4>2, Lasts
      <4> QED
        BY <1>s, <4>1, <4>2, <4>3, <4>4 DEF p
    <3>2. x.since <= day' /\ day \in Nat /\ x.since \in Nat
      <4>1. day' = day /\ day \in Nat
        BY <1>t, Typed DEF Grown
      <4> QED
        BY <2>1, <4>1
    <3>3. \A i \in 1 .. Len(x.rows) : graphs'[x.rows[i]].used >= x.since
      BY <2>1, <3>1, <3>2
    <3> QED
      BY <3>1, <3>2, <3>3 DEF LeaseOk
  <2>3. PlayOk(x) /\ x.at \notin Saving
    BY <1>0, <1>e, <2>0, <2>1 DEF PlayOk, Saving
  <2>4. EarnedOk(x)'
    BY <2>1, EarnedOn
  <2> QED
    BY <1>s, <2>0, <2>1, <2>2, <2>3, <2>4, QuietStep
<1>3. CASE LoadChain(r)
  <2>1. PICK x \in RunType :
          /\ run' = [run EXCEPT ![r] = x] /\ x.at = "chains" /\ run[r].at = "chains"
          /\ run[r].rows # <<>> /\ x.rows = Tail(run[r].rows)
          /\ x.loaded = Append(run[r].loaded, chain(graphs[Head(run[r].rows)]))
          /\ x.since = run[r].since /\ x.user = run[r].user /\ x.prefix = run[r].prefix
          /\ x.plan = run[r].plan /\ x.safe = run[r].safe
          /\ x.history = run[r].history /\ x.graph = run[r].graph
    BY <1>3, <1>t, LoadsChain
  <2> DEFINE rows == run[r].rows
             p == Head(rows)
             nodes == chain(graphs[p])
  <2>2. /\ rows \in Seq(Procedures) /\ rows # <<>> /\ p = rows[1] /\ Len(rows) \in Nat
        /\ Len(Tail(rows)) = Len(rows) - 1 /\ Len(rows) >= 1
        /\ \A i \in 1 .. Len(rows) - 1 : Tail(rows)[i] = rows[i + 1]
    <3> DEFINE s == rows
    <3>1. s \in Seq(Procedures) /\ s # <<>>
      BY <1>t, <2>1
    <3> HIDE DEF s
    <3>2. /\ Len(s) \in Nat /\ Len(s) >= 1 /\ Head(s) = s[1]
          /\ Tail(s) \in Seq(Procedures) /\ Len(Tail(s)) = Len(s) - 1
          /\ \A i \in 1 .. Len(Tail(s)) : Tail(s)[i] = s[i + 1]
      BY <3>1, HeadTailProperties, LenProperties, EmptySeq
    <3> QED
      BY <3>1, <3>2 DEF s
  <2>3. /\ x.since <= day
        /\ \A i \in 1 .. Len(rows) :
             /\ rows[i] \in 1 .. saved /\ graphs[rows[i]].owner = x.user
             /\ day <= x.since + TtlDays =>
                  graphs[rows[i]].live /\ graphs[rows[i]].used >= x.since
    BY <1>0, <2>1 DEF LeaseOk
  <2> HIDE DEF rows
  <2>4. LeaseOk(x)'
    <3>1. \A i \in 1 .. Len(x.rows) : i + 1 \in 1 .. Len(rows) /\ x.rows[i] = rows[i + 1]
      BY <2>1, <2>2 DEF rows
    <3>2. LeaseOk(x)
      BY <2>1, <2>3, <3>1 DEF LeaseOk
    <3> QED
      BY <1>t, <3>2, LeaseLasts
  <2>5. p \in 1 .. saved /\ graphs[p].owner = x.user
    BY <2>2, <2>3
  <2> HIDE DEF p
  <2>6. Heads(nodes, graphs[p].given) /\ nodes \in Seq(NodeSet)
    <3> DEFINE g == graphs[p]
    <3>1. p \in Procedures
      BY <1>t, <2>5, Numbered
    <3>2. /\ g.nodes \in Seq(NodeSet) /\ g.given \in Seq(NodeSet)
          /\ (g.starts => g.nodes # <<>>) /\ Heads(g.nodes, g.given)
      BY <1>t, <3>1, Typed DEF TypeInv, GraphInv, GraphOk
    <3> HIDE DEF g
    <3>3. chain(g) \in Seq(NodeSet) /\ Heads(chain(g), g.nodes)
      BY <3>2, ChainIsHead
    <3> DEFINE c == chain(g)
    <3>4. Len(c) \in Nat /\ Len(g.nodes) \in Nat /\ Len(g.given) \in Nat
      BY <3>2, <3>3, LenProperties
    <3> HIDE DEF c
    <3>5. Heads(c, g.given)
      BY <3>2, <3>3, <3>4, HeadsOfHeads DEF c
    <3> QED
      BY <3>3, <3>5 DEF g, c
  <2>7. EarnedOk(x)'
    <3>1. Owned(nodes, x.user)
      BY <2>5, <2>6 DEF Owned
    <3> DEFINE past == run[r].loaded
    <3>2. past \in Seq(Seq(NodeSet)) /\ x.loaded = Append(past, nodes)
      BY <1>t, <2>1 DEF p, rows
    <3>3. \A i \in 1 .. Len(past) : Owned(past[i], x.user)
      BY <1>0, <2>1 DEF EarnedOk
    <3>4. \A i \in 1 .. Len(x.loaded) : Owned(x.loaded[i], x.user)
      <4> HIDE DEF past, nodes
      <4>1. /\ Len(past) \in Nat /\ Len(Append(past, nodes)) = Len(past) + 1
            /\ Append(past, nodes)[Len(past) + 1] = nodes
            /\ \A i \in 1 .. Len(past) : Append(past, nodes)[i] = past[i]
        BY <2>6, <3>2, AppendProperties, LenProperties
      <4> QED
        BY <3>1, <3>2, <3>3, <4>1
    <3>5. EarnedOk(x)
      BY <1>0, <2>1, <3>4 DEF EarnedOk
    <3>6. \A a, user : Owned(a, user) => Owned(a, user)'
      BY <1>t, EarnedLasts
    <3> QED
      BY <3>5, <3>6 DEF EarnedOk
  <2>8. PlayOk(x) /\ x.at \notin Saving
    BY <1>0, <2>1 DEF PlayOk, Saving
  <2> QED
    BY <1>s, <2>1, <2>4, <2>7, <2>8, QuietStep
<1>4. CASE LoadFails(r)
  <2>1. PICK x \in RunType :
          /\ run' = [run EXCEPT ![r] = x] /\ x.at = "browser" /\ x.loaded = <<>>
          /\ run[r].at \in {"rows", "chains"}
          /\ x.user = run[r].user /\ x.prefix = run[r].prefix
          /\ x.plan = run[r].plan /\ x.safe = run[r].safe
          /\ x.history = run[r].history /\ x.graph = run[r].graph
    BY <1>4, <1>t, LoadingFails
  <2>2. LeaseOk(x)' /\ PlayOk(x) /\ x.at \notin Saving
    BY <1>0, <1>e, <2>1 DEF LeaseOk, PlayOk, Saving
  <2>3. EarnedOk(x)'
    BY <2>1, EarnedOn
  <2> QED
    BY <1>s, <2>1, <2>2, <2>3, QuietStep
<1>5. CASE Match(r)
  <2>1. PICK x \in RunType, plan \in plans :
          /\ run' = [run EXCEPT ![r] = x] /\ x.at = "browser" /\ run[r].at = "chains"
          /\ x.loaded = <<>> /\ x.prefix = findBestMatch(plan, run[r].loaded)
          /\ x.prefix # <<>> => /\ x.plan = plan
                                /\ x.safe = Cardinality(safeToReplay(plan, run[r].loaded))
          /\ x.user = run[r].user /\ x.history = run[r].history /\ x.graph = run[r].graph
    BY <1>5, <1>t, Matches
  <2>2. LeaseOk(x)' /\ PlayOk(x) /\ x.at \notin Saving
    BY <1>0, <1>e, <2>1 DEF LeaseOk, PlayOk, Saving
  <2>3. EarnedOk(x)'
    <3> DEFINE stored == run[r].loaded
    <3>1. stored \in Seq(Seq(NodeSet)) /\ plan \in Seq(Range(plan))
      BY <1>t, PlanType
    <3>2. \A i \in 1 .. Len(stored) : Owned(stored[i], x.user)
      BY <1>0, <2>1 DEF EarnedOk
    <3>3. x.prefix = findBestMatch(plan, stored)
      BY <2>1
    <3>4. x.prefix # <<>> => x.plan = plan /\ x.safe = Cardinality(safeToReplay(plan, stored))
      BY <2>1
    <3> HIDE DEF stored
    <3>5. ASSUME x.prefix # <<>>
          PROVE  /\ Owned(x.prefix, x.user) /\ x.plan \in plans
                 /\ MinPrefix <= Len(x.prefix) /\ Len(x.prefix) <= x.safe
                 /\ Heads(hashes(x.prefix), x.plan)
      <4> DEFINE prefix == findBestMatch(plan, stored)
      <4>1. /\ prefix \in Seq(NodeSet)
            /\ \E k \in 1 .. Len(stored) : Heads(prefix, stored[k])
            /\ Len(prefix) >= MinPrefix
            /\ Heads(hashes(prefix), plan)
            /\ Len(prefix) <= Cardinality(safeToReplay(plan, stored))
        BY <3>1, <3>3, <3>5, MatchIsPrefix
      <4> HIDE DEF prefix
      <4>2. PICK k \in 1 .. Len(stored) : Heads(prefix, stored[k])
        BY <4>1
      <4>3. PICK p \in 1 .. saved : graphs[p].owner = x.user /\ Heads(stored[k], graphs[p].given)
        BY <3>2 DEF Owned
      <4>4. Heads(prefix, graphs[p].given)
        <5> DEFINE b == stored[k]
                   c == graphs[p].given
        <5>1. b \in Seq(NodeSet)
          BY <3>1, ElementOfSeq
        <5>2. p \in Procedures
          BY <1>t, Numbered
        <5>3. c \in Seq(NodeSet)
          BY <1>t, <5>2, Typed
        <5>4. Len(prefix) \in Nat /\ Len(b) \in Nat /\ Len(c) \in Nat
          <6> HIDE DEF b, c
          <6> QED
            BY <4>1, <5>1, <5>3, LenProperties
        <5>5. Heads(prefix, b) /\ Heads(b, c)
          BY <4>2, <4>3
        <5> HIDE DEF b, c
        <5>6. Heads(prefix, c)
          BY <5>4, <5>5, HeadsOfHeads
        <5> QED
          BY <5>6 DEF c
      <4>5. Owned(prefix, x.user)
        BY <4>3, <4>4 DEF Owned
      <4>6. Len(prefix) \in Nat
        BY <4>1, LenProperties
      <4>7. MinPrefix <= Len(prefix)
        BY <4>1, <4>6 DEF MinPrefix
      <4> QED
        BY <3>3, <3>4, <3>5, <4>1, <4>5, <4>7 DEF prefix
    <3>6. EarnedOk(x)
      BY <1>e, <2>1, <3>5 DEF EarnedOk
    <3>7. \A a, user : Owned(a, user) => Owned(a, user)'
      BY <1>t, EarnedLasts
    <3> QED
      BY <3>6, <3>7 DEF EarnedOk
  <2> QED
    BY <1>s, <2>1, <2>2, <2>3, QuietStep
<1>6. CASE run' = [run EXCEPT ![r] = NoRun]
  <2>1. NoRun.at \notin Saving
    BY <1>i DEF Saving
  <2> QED
    BY <1>i, <1>s, <1>6, <2>1, QuietStep
<1>7. CASE StartBrowser(r) /\ run' # [run EXCEPT ![r] = NoRun]
  <2>1. PICK x \in RunType :
          /\ run' = [run EXCEPT ![r] = x] /\ x.at \in {"replay", "loop"}
          /\ run[r].at = "browser"
          /\ x.history = run[r].history \/ Len(x.history) = 1
          /\ x.at = "replay" => run[r].prefix # <<>> /\ x.history = run[r].history
          /\ x.loaded = run[r].loaded /\ x.prefix = run[r].prefix
          /\ x.plan = run[r].plan /\ x.safe = run[r].safe
          /\ x.user = run[r].user /\ x.graph = run[r].graph
    BY <1>7, <1>t, Starts
  <2>2. run[r].history = <<>>
    BY <1>0, <2>1 DEF PlayOk
  <2>3. Len(run[r].prefix) \in Nat
    BY <1>t, LenProperties
  <2>4. LeaseOk(x)' /\ PlayOk(x) /\ x.at \notin Saving
    <3>1. LeaseOk(x)' /\ x.at \notin Saving
      BY <2>1 DEF LeaseOk, Saving
    <3>2. x.history = <<>> \/ Len(x.history) = 1
      BY <2>1, <2>2
    <3>3. Len(x.history) <= MaxSteps
      <4> DEFINE n == Len(x.history)
      <4>1. n = 0 \/ n = 1
        BY <1>e, <3>2
      <4> HIDE DEF n
      <4>2. n <= MaxSteps
        BY <1>e, <4>1
      <4> QED
        BY <4>2 DEF n
    <3>4. x.at = "replay" => Len(x.history) <= Len(run[r].prefix)
      BY <1>e, <2>1, <2>2, <2>3
    <3> QED
      BY <2>1, <3>1, <3>3, <3>4 DEF PlayOk
  <2>5. EarnedOk(x)'
    BY <2>1, EarnedOn
  <2> QED
    BY <1>s, <2>1, <2>4, <2>5, QuietStep
<1>8. CASE Replay(r) /\ run' # [run EXCEPT ![r] = NoRun]
  <2>1. PICK x \in RunType :
          /\ run' = [run EXCEPT ![r] = x] /\ x.at \in {"replay", "loop"}
          /\ run[r].at = "replay" /\ Len(x.history) <= Len(run[r].prefix)
          /\ x.loaded = run[r].loaded /\ x.prefix = run[r].prefix
          /\ x.plan = run[r].plan /\ x.safe = run[r].safe
          /\ x.user = run[r].user /\ x.graph = run[r].graph
    BY <1>8, <1>t, Replays
  <2>2. Len(x.history) <= MaxSteps
    <3>1. x.history \in Seq(NodeSet) /\ Len(x.history) \in Nat /\ Len(run[r].prefix) \in Nat
      <4>1. x.history \in Seq(NodeSet)
        BY DEF RunType
      <4> QED
        BY <1>t, <4>1, LenProperties
    <3>2. CASE run[r].prefix = <<>>
      BY <1>e, <2>1, <3>1, <3>2
    <3>3. CASE run[r].prefix # <<>>
      <4>1. PICK p \in 1 .. saved : Heads(run[r].prefix, graphs[p].given)
        BY <1>0, <3>3 DEF EarnedOk, Owned
      <4>2. p \in Procedures
        BY <1>t, Numbered
      <4>3. Len(graphs[p].given) <= MaxSteps /\ graphs[p].given \in Seq(NodeSet)
        BY <1>t, <4>2, Typed DEF GraphInv, GraphOk
      <4>4. Len(graphs[p].given) \in Nat
        BY <4>3, LenProperties
      <4>5. Len(run[r].prefix) <= Len(graphs[p].given)
        BY <4>1 DEF Heads
      <4> HIDE DEF TypeInv
      <4> DEFINE a == Len(x.history)
                 b == Len(run[r].prefix)
                 c == Len(graphs[p].given)
      <4>6. a \in Nat /\ b \in Nat /\ c \in Nat /\ MaxSteps \in Nat /\ a <= b /\ b <= c /\ c <= MaxSteps
        BY <1>e, <2>1, <3>1, <4>3, <4>4, <4>5
      <4> HIDE DEF a, b, c
      <4>7. a <= MaxSteps
        BY <4>6
      <4> QED
        BY <4>7 DEF a
    <3> QED
      BY <3>2, <3>3
  <2>3. LeaseOk(x)' /\ PlayOk(x) /\ x.at \notin Saving
    BY <2>1, <2>2 DEF LeaseOk, PlayOk, Saving
  <2>4. EarnedOk(x)'
    BY <2>1, EarnedOn
  <2> QED
    BY <1>s, <2>1, <2>3, <2>4, QuietStep
<1>9. CASE ReplayDone(r)
  <2>1. PICK x \in RunType :
          /\ run' = [run EXCEPT ![r] = x] /\ x.at = "loop"
          /\ x.loaded = run[r].loaded /\ x.prefix = run[r].prefix /\ x.plan = run[r].plan
          /\ x.safe = run[r].safe /\ x.user = run[r].user /\ x.history = run[r].history
          /\ x.graph = run[r].graph
    BY <1>9, <1>t, Goes DEF ReplayDone, Places
  <2>2. run[r].at = "replay"
    BY <1>9 DEF ReplayDone
  <2>3. LeaseOk(x)' /\ PlayOk(x) /\ x.at \notin Saving
    BY <1>0, <2>1 DEF LeaseOk, PlayOk, Saving
  <2>4. EarnedOk(x)'
    BY <2>1, EarnedOn
  <2> QED
    BY <1>s, <2>1, <2>2, <2>3, <2>4, QuietStep
<1>10. CASE RunLoop(r) /\ run' # [run EXCEPT ![r] = NoRun]
  <2>1. PICK x \in RunType :
          /\ run' = [run EXCEPT ![r] = x] /\ x.at = "sweep" /\ run[r].at = "loop"
          /\ Len(x.history) \in 2 .. MaxSteps /\ x.prefix = <<>>
          /\ x.loaded = run[r].loaded /\ x.user = run[r].user /\ x.graph = run[r].graph
    BY <1>10, <1>t, Ends
  <2>2. LeaseOk(x)' /\ PlayOk(x) /\ x.at \notin Saving
    BY <1>e, <2>1 DEF LeaseOk, PlayOk, Saving
  <2>3. EarnedOk(x)'
    BY <2>1, EarnedOn
  <2> QED
    BY <1>s, <2>1, <2>2, <2>3, QuietStep
<1>11. CASE SweepExpired(r)
  <2>1. run[r].at = "sweep" /\ goto(r, "graph")
    BY <1>11 DEF SweepExpired
  <2>2. PICK x \in RunType :
          /\ run' = [run EXCEPT ![r] = x] /\ x.at = "graph"
          /\ x.loaded = run[r].loaded /\ x.prefix = run[r].prefix /\ x.plan = run[r].plan
          /\ x.safe = run[r].safe /\ x.user = run[r].user /\ x.history = run[r].history
          /\ x.graph = run[r].graph
    BY <1>t, <2>1, Goes DEF Places
  <2>3. LeaseOk(x)' /\ PlayOk(x) /\ x.at \notin Saving
    BY <1>0, <2>2 DEF LeaseOk, PlayOk, Saving
  <2>4. EarnedOk(x)'
    BY <2>2, EarnedOn
  <2> QED
    BY <1>s, <2>1, <2>2, <2>3, <2>4, QuietStep
<1> QED
  BY <1>1, <1>2, <1>3, <1>4, <1>5, <1>6, <1>7, <1>8, <1>9, <1>10, <1>11

\* What is known of a run that saves, and of the graph it saves.
LEMMA SaveState ==
  ASSUME Inv, NEW r \in Runs, NEW y \in RunType, y = run[r], y.at \in Saving
  PROVE  LET old == graphs[y.graph] IN
         /\ y.graph \in 1 .. saved /\ y.graph \in Procedures /\ ~(y.graph > saved)
         /\ old \in GraphType /\ old.nodes \in Seq(NodeSet) /\ Len(old.nodes) \in Nat
         /\ old.edges \in SUBSET Nat
         /\ old.given = y.history /\ ~old.over /\ GraphOk(old)
         /\ old.live => Progress(y, old)
         /\ y.user \in Users /\ Len(y.history) >= 2 /\ y.k \in Nat
         /\ y.history \in Seq(NodeSet) /\ Len(y.history) \in Nat
<1> DEFINE p == y.graph
           old == graphs[p]
<1>0. TypeInv /\ GraphInv /\ SaveOk(y) /\ saved \in Nat
  BY Typed DEF Inv, RunsOk
<1>1. /\ p \in 1 .. saved /\ old.given = y.history /\ ~old.over
      /\ old.live => Progress(y, old)
  BY <1>0 DEF SaveOk
<1>2. p \in Procedures
  BY <1>0, <1>1, Numbered
<1>3. y.user \in Users /\ Len(y.history) >= 2
  BY <1>0 DEF SaveOk, Saving, TypeInv, RunOk
<1>4. /\ old \in GraphType /\ old.nodes \in Seq(NodeSet) /\ old.edges \in SUBSET Nat
      /\ y.k \in Nat /\ y.history \in Seq(NodeSet)
  BY <1>0, <1>2, Typed
<1>5. Len(old.nodes) \in Nat /\ Len(y.history) \in Nat
  <2> HIDE DEF old
  <2> QED
    BY <1>4, LenProperties
<1>6. GraphOk(old)
  BY <1>0, <1>2 DEF GraphInv
<1>7. ~(p > saved)
  <2> DEFINE n == saved
  <2>1. p \in 1 .. n /\ n \in Nat
    BY <1>0, <1>1
  <2> HIDE DEF n, p
  <2> QED
    BY <2>1 DEF n
<1> QED
  BY <1>1, <1>2, <1>3, <1>4, <1>5, <1>6, <1>7

\* A run that goes on with its save is as right as it was, apart from the save.
LEMMA SavingOn ==
  ASSUME Inv, NEW r \in Runs, Step(r), NEW x \in RunType, x.at \in {"nodes", "start", "edges"},
         x.history = run[r].history, x.user = run[r].user, x.loaded = run[r].loaded,
         x.prefix = run[r].prefix, x.plan = run[r].plan, x.safe = run[r].safe
  PROVE  LeaseOk(x)' /\ PlayOk(x) /\ EarnedOk(x)'
<1>1. PlayOk(run[r])
  BY DEF Inv, RunsOk
<1>2. LeaseOk(x)' /\ PlayOk(x)
  BY <1>1 DEF LeaseOk, PlayOk
<1>3. EarnedOk(x)'
  BY EarnedOn
<1> QED
  BY <1>2, <1>3

\* What is left to show of a step that writes g in place of the graph it saves.
LEMMA SaveWrites ==
  ASSUME Inv, TypeInv', NEW r \in Runs, Step(r), NEW y \in RunType, y = run[r], y.at \in Saving,
         UNCHANGED <<saved, day>>, NEW g \in GraphType, graphs' = [graphs EXCEPT ![y.graph] = g],
         g.live = graphs[y.graph].live, g.owner = graphs[y.graph].owner,
         g.given = graphs[y.graph].given, g.used = graphs[y.graph].used,
         Heads(g.nodes, g.given), g.edges \subseteq 1 .. Len(g.given) - 1,
         g.over /\ g.live => Whole(g),
         NEW x \in RunType, run' = [run EXCEPT ![r] = x],
         SaveOk(x)', LeaseOk(x)', PlayOk(x), EarnedOk(x)',
         x.at \in Saving => x.graph = y.graph
  PROVE  Inv'
<1> DEFINE p == y.graph
<1>1. p \in Procedures /\ ~(p > saved) /\ GraphOk(graphs[p])
  BY SaveState
<1>2. graphs'[p] = g /\ \A q \in Procedures : q # p => graphs'[q] = graphs[q]
  BY <1>1, Typed DEF Inv
<1>3. GraphOk(g)
  BY <1>1 DEF GraphOk
<1>4. GraphOk(graphs[p])' /\ ~(p > saved')
  BY <1>1, <1>2, <1>3 DEF GraphOk
<1>5. \A q \in Procedures :
        Untouched(q) \/ (GraphOk(graphs[q])' /\ (q > saved' => ~graphs'[q].live))
  BY <1>2, <1>4 DEF Untouched
<1> QED
  BY <1>5, StepKeeps

\* A graph that is handed over is one that no run has saved yet.
LEMMA CreateKeeps ==
  ASSUME Inv, TypeInv', NEW r \in Runs, CreateGraph(r)
  PROVE  Inv'
<1>0. /\ TypeInv /\ SaveOk(run[r]) /\ PlayOk(run[r]) /\ Step(r)
  BY DEF Inv, RunsOk, Step
<1>n. PICK n \in Nat : n = saved
  BY <1>0, Typed
<1>y. PICK y \in RunType : y = run[r]
  BY <1>0, Typed
<1>d. PICK d \in Nat : d = day
  BY <1>0, Typed
<1>1. y.at = "graph" /\ saved' = n + 1 /\ n + 1 \in Procedures /\ day' = d
  BY <1>0, <1>d, <1>n, <1>y, Creates
<1>2. PICK x \in RunType :
        /\ run' = [run EXCEPT ![r] = x] /\ x.at = "nodes" /\ x.graph = n + 1 /\ x.k = 1
        /\ x.loaded = y.loaded /\ x.prefix = y.prefix /\ x.plan = y.plan
        /\ x.safe = y.safe /\ x.user = y.user /\ x.history = y.history
  BY <1>0, <1>n, <1>y, Creates
<1>3. PICK g \in GraphType :
        /\ graphs' = [graphs EXCEPT ![n + 1] = g]
        /\ g.live /\ g.owner = y.user /\ g.given = y.history /\ g.used = d
        /\ g.nodes = <<>> /\ ~g.starts /\ g.edges = {} /\ ~g.over
  BY <1>0, <1>d, <1>n, <1>y, Creates
<1>4. graphs'[n + 1] = g /\ \A q \in Procedures : q # n + 1 => graphs'[q] = graphs[q]
  BY <1>0, <1>1, <1>3, Typed
<1>5. y.user \in Users /\ Len(y.history) <= MaxSteps /\ Len(y.history) \in Nat
  <2>1. y.history \in Seq(NodeSet)
    BY <1>0, <1>y, Typed
  <2> QED
    BY <1>0, <1>1, <1>y, <2>1, LenProperties DEF SaveOk, PlayOk
<1>6. Len(<<>>) = 0 /\ 1 .. 0 = {} /\ n + 1 \in 1 .. n + 1 /\ ~(n + 1 > n + 1) /\ d <= d
  OBVIOUS
<1>7. SaveOk(x)'
  <2>1. Progress(x, g)
    BY <1>2, <1>3, <1>6 DEF Progress
  <2> QED
    BY <1>1, <1>2, <1>3, <1>4, <1>5, <1>6, <2>1 DEF SaveOk, Saving
<1>8. GraphOk(graphs[n + 1])' /\ ~(n + 1 > saved')
  <2>1. Heads(g.nodes, g.given) /\ Len(g.given) <= MaxSteps
    BY <1>3, <1>5, <1>6 DEF Heads
  <2>2. g.used <= day' /\ g.edges \subseteq 1 .. Len(g.given) - 1 /\ ~g.over /\ g.owner \in Users
    BY <1>1, <1>3, <1>5, <1>6
  <2> QED
    BY <1>1, <1>4, <1>6, <2>1, <2>2 DEF GraphOk
<1>9. \A q \in Procedures :
        Untouched(q) \/ (GraphOk(graphs[q])' /\ (q > saved' => ~graphs'[q].live))
  <2>1. \A q \in Procedures : q # n + 1 => Untouched(q)
    BY <1>4 DEF Untouched
  <2> QED
    BY <1>8, <2>1
<1>10. LeaseOk(x)' /\ PlayOk(x) /\ EarnedOk(x)'
  BY <1>0, <1>2, <1>y, SavingOn
<1> QED
  BY <1>0, <1>2, <1>7, <1>9, <1>10, <1>n, StepKeeps

\* The node that is stored is the next one of the history.
LEMMA NodeKeeps ==
  ASSUME Inv, TypeInv', NEW r \in Runs, CreateNode(r)
  PROVE  Inv'
<1>0. TypeInv /\ Step(r)
  BY DEF Inv, Step
<1>y. PICK y \in RunType : y = run[r]
  BY <1>0, Typed
<1>1. /\ y.at = "nodes" /\ UNCHANGED <<saved, day>> /\ y.k \in 1 .. Len(y.history)
      /\ y.at \in Saving
  BY <1>0, <1>y, StoresNode DEF Saving
<1>s. /\ y.graph \in 1 .. saved /\ y.graph \in Procedures /\ graphs[y.graph] \in GraphType
      /\ y.user \in Users /\ Len(y.history) >= 2 /\ y.k \in Nat
      /\ y.history \in Seq(NodeSet) /\ Len(y.history) \in Nat
  BY <1>1, <1>y, SaveState
<1>o. PICK old \in GraphType : old = graphs[y.graph]
  BY <1>s
<1>t. /\ old.nodes \in Seq(NodeSet) /\ Len(old.nodes) \in Nat
      /\ old.given = y.history /\ ~old.over
      /\ Heads(old.nodes, y.history) /\ old.edges \subseteq 1 .. Len(y.history) - 1
      /\ old.live => Len(old.nodes) = y.k - 1
  <2>1. /\ old.nodes \in Seq(NodeSet) /\ Len(old.nodes) \in Nat
        /\ old.given = y.history /\ ~old.over /\ GraphOk(old)
        /\ old.live => Progress(y, old)
    BY <1>1, <1>o, <1>y, SaveState
  <2> QED
    BY <1>1, <2>1 DEF GraphOk, Progress
<1>2. PICK x \in RunType :
        /\ run' = [run EXCEPT ![r] = x] /\ x.graph = y.graph
        /\ IF y.k = Len(y.history) THEN x.at = "start" /\ x.k = 1
           ELSE x.at = "nodes" /\ x.k = y.k + 1
        /\ x.loaded = y.loaded /\ x.prefix = y.prefix /\ x.plan = y.plan
        /\ x.safe = y.safe /\ x.user = y.user /\ x.history = y.history
  BY <1>0, <1>y, StoresNode
<1>3. PICK g \in GraphType :
        /\ graphs' = [graphs EXCEPT ![y.graph] = g]
        /\ g.nodes = IF old.live THEN Append(old.nodes, y.history[y.k]) ELSE old.nodes
        /\ g.live = old.live /\ g.owner = old.owner /\ g.given = old.given
        /\ g.starts = old.starts /\ g.edges = old.edges /\ g.used = old.used
        /\ g.over = old.over
  BY <1>0, <1>o, <1>y, StoresNode
<1>4. Heads(g.nodes, y.history) /\ (g.live => Len(g.nodes) = y.k)
  <2>1. CASE ~old.live
    BY <1>3, <1>t, <2>1
  <2>2. CASE old.live
    <3> DEFINE h == y.history
               k == y.k
               nodes == old.nodes
               step == h[k]
    <3>1. /\ h \in Seq(NodeSet) /\ Len(h) \in Nat /\ k \in 1 .. Len(h) /\ k \in Nat
          /\ nodes \in Seq(NodeSet) /\ Len(nodes) = k - 1 /\ Heads(nodes, h)
          /\ g.nodes = Append(nodes, step)
      BY <1>1, <1>3, <1>s, <1>t, <2>2
    <3>2. step \in NodeSet /\ step = h[k]
      <4> HIDE DEF h, k
      <4> QED
        BY <3>1, ElementOfSeq
    <3> HIDE DEF h, k, nodes, step
    <3>3. /\ Len(Append(nodes, step)) = k /\ Append(nodes, step)[k] = step
          /\ \A i \in 1 .. k - 1 : Append(nodes, step)[i] = nodes[i]
      BY <3>1, <3>2, AppendProperties
    <3>4. \A i \in 1 .. k - 1 : nodes[i] = h[i]
      BY <3>1 DEF Heads
    <3>5. \A i \in 1 .. k : i = k \/ i \in 1 .. k - 1
      BY <3>1
    <3>6. \A i \in 1 .. k : g.nodes[i] = h[i]
      BY <3>1, <3>2, <3>3, <3>4, <3>5
    <3>7. Len(g.nodes) = k /\ k <= Len(h)
      BY <3>1, <3>3
    <3>8. Heads(g.nodes, h)
      BY <3>6, <3>7 DEF Heads
    <3> QED
      BY <3>7, <3>8 DEF h, k
  <2> QED
    BY <2>1, <2>2
<1>5. graphs'[y.graph] = g /\ saved' = saved
  BY <1>0, <1>1, <1>3, <1>s, Typed
<1>6. SaveOk(x)'
  <2>1. g.live => Progress(x, g)
    BY <1>2, <1>4, <1>s DEF Progress
  <2>2. /\ x.at \in Saving /\ x.at # "edges" /\ (x.at = "start" => x.k = 1) /\ x.user \in Users
        /\ x.graph \in 1 .. saved /\ g.given = x.history /\ ~g.over
    BY <1>2, <1>3, <1>s, <1>t DEF Saving
  <2>3. x.graph \in 1 .. saved' /\ graphs'[x.graph] = g
    BY <1>2, <1>5, <2>2
  <2> QED
    BY <2>1, <2>2, <2>3 DEF SaveOk
<1>7. LeaseOk(x)' /\ PlayOk(x) /\ EarnedOk(x)'
  BY <1>0, <1>2, <1>y, SavingOn
<1>8. /\ g.live = graphs[y.graph].live /\ g.owner = graphs[y.graph].owner
      /\ g.given = graphs[y.graph].given /\ g.used = graphs[y.graph].used
      /\ Heads(g.nodes, g.given) /\ g.edges \subseteq 1 .. Len(g.given) - 1 /\ ~g.over
  BY <1>3, <1>4, <1>o, <1>t
<1> QED
  BY <1>0, <1>1, <1>2, <1>3, <1>6, <1>7, <1>8, <1>y, SaveWrites

\* The first edge leads to a graph that has all of its nodes.
LEMMA StartKeeps ==
  ASSUME Inv, TypeInv', NEW r \in Runs, CreateStartsWith(r)
  PROVE  Inv'
<1>0. TypeInv /\ Step(r)
  BY DEF Inv, Step
<1>y. PICK y \in RunType : y = run[r]
  BY <1>0, Typed
<1>1. y.at = "start" /\ UNCHANGED <<saved, day>> /\ goto(r, "edges") /\ y.at \in Saving
  BY <1>0, <1>y, StoresStart DEF Saving
<1>s. /\ y.graph \in 1 .. saved /\ y.graph \in Procedures /\ graphs[y.graph] \in GraphType
      /\ y.user \in Users /\ Len(y.history) >= 2 /\ y.k = 1 /\ Len(y.history) \in Nat
  <2>1. y.k = 1
    BY <1>1, <1>y DEF Inv, RunsOk, SaveOk
  <2> QED
    BY <1>1, <1>y, <2>1, SaveState
<1>o. PICK old \in GraphType : old = graphs[y.graph]
  BY <1>s
<1>t. /\ old.nodes \in Seq(NodeSet) /\ Len(old.nodes) \in Nat
      /\ old.given = y.history /\ ~old.over
      /\ Heads(old.nodes, y.history) /\ old.edges \subseteq 1 .. Len(y.history) - 1
      /\ old.live => Len(old.nodes) = Len(y.history)
  <2>1. /\ old.nodes \in Seq(NodeSet) /\ Len(old.nodes) \in Nat
        /\ old.given = y.history /\ ~old.over /\ GraphOk(old)
        /\ old.live => Progress(y, old)
    BY <1>1, <1>o, <1>y, SaveState
  <2> QED
    BY <1>1, <2>1 DEF GraphOk, Progress
<1>2. PICK x \in RunType :
        /\ run' = [run EXCEPT ![r] = x] /\ x.at = "edges"
        /\ x.loaded = y.loaded /\ x.prefix = y.prefix /\ x.plan = y.plan
        /\ x.safe = y.safe /\ x.user = y.user /\ x.history = y.history
        /\ x.graph = y.graph /\ x.k = y.k
  BY <1>0, <1>1, <1>y, Goes DEF Places
<1>3. PICK g \in GraphType :
        /\ graphs' = [graphs EXCEPT ![y.graph] = g]
        /\ g.starts = (old.live /\ old.nodes # <<>>)
        /\ g.nodes = old.nodes
        /\ g.live = old.live /\ g.owner = old.owner /\ g.given = old.given
        /\ g.edges = old.edges /\ g.used = old.used /\ g.over = old.over
  BY <1>0, <1>o, <1>y, StoresStart
<1>4. graphs'[y.graph] = g /\ saved' = saved
  BY <1>0, <1>1, <1>3, <1>s, Typed
<1>5. SaveOk(x)'
  <2>1. g.live => Progress(x, g)
    <3>1. Len(<<>>) = 0 /\ 1 .. 1 - 1 = {}
      OBVIOUS
    <3>2. g.live => g.nodes # <<>>
      BY <1>3, <1>s, <1>t, <3>1
    <3>3. g.live => g.starts /\ Len(g.nodes) = Len(x.history)
      BY <1>2, <1>3, <1>t, <3>2
    <3> QED
      BY <1>2, <1>s, <3>1, <3>3 DEF Progress
  <2>2. x.k \in 1 .. Len(x.history) - 1
    BY <1>2, <1>s
  <2>3. /\ x.at \in Saving /\ x.at = "edges" /\ x.user \in Users
        /\ x.graph \in 1 .. saved /\ g.given = x.history /\ ~g.over
    BY <1>2, <1>3, <1>s, <1>t DEF Saving
  <2>4. x.graph \in 1 .. saved' /\ graphs'[x.graph] = g
    BY <1>2, <1>4, <2>3
  <2> QED
    BY <2>1, <2>2, <2>3, <2>4 DEF SaveOk
<1>6. LeaseOk(x)' /\ PlayOk(x) /\ EarnedOk(x)'
  BY <1>0, <1>2, <1>y, SavingOn
<1>7. /\ g.live = graphs[y.graph].live /\ g.owner = graphs[y.graph].owner
      /\ g.given = graphs[y.graph].given /\ g.used = graphs[y.graph].used
      /\ Heads(g.nodes, g.given) /\ g.edges \subseteq 1 .. Len(g.given) - 1 /\ ~g.over
  BY <1>3, <1>o, <1>t
<1> QED
  BY <1>0, <1>1, <1>2, <1>3, <1>5, <1>6, <1>7, <1>y, SaveWrites

\* With the last edge a graph that is still there is whole.
LEMMA EdgeKeeps ==
  ASSUME Inv, TypeInv', NEW r \in Runs, CreateNext(r)
  PROVE  Inv'
<1>0. TypeInv /\ Step(r)
  BY DEF Inv, Step
<1>y. PICK y \in RunType : y = run[r]
  BY <1>0, Typed
<1>1. y.at = "edges" /\ UNCHANGED <<saved, day>> /\ y.at \in Saving
  BY <1>0, <1>y, StoresEdge DEF Saving
<1>s. /\ y.graph \in 1 .. saved /\ y.graph \in Procedures /\ graphs[y.graph] \in GraphType
      /\ y.user \in Users /\ y.k \in 1 .. Len(y.history) - 1
      /\ Len(y.history) \in Nat /\ y.k \in Nat
  <2>1. y.k \in 1 .. Len(y.history) - 1
    BY <1>1, <1>y DEF Inv, RunsOk, SaveOk
  <2> QED
    BY <1>1, <1>y, <2>1, SaveState
<1>n. PICK n \in Nat : n = Len(y.history)
  BY <1>s
<1>k. PICK k \in Nat : k = y.k /\ k \in 1 .. n - 1
  BY <1>n, <1>s
<1>o. PICK old \in GraphType : old = graphs[y.graph]
  BY <1>s
<1>t. /\ old.nodes \in Seq(NodeSet) /\ Len(old.nodes) \in Nat
      /\ old.given = y.history /\ ~old.over
      /\ Heads(old.nodes, y.history) /\ old.edges \subseteq 1 .. n - 1
      /\ old.live => Len(old.nodes) = n /\ old.starts /\ 1 .. k - 1 \subseteq old.edges
  <2>1. /\ old.nodes \in Seq(NodeSet) /\ Len(old.nodes) \in Nat
        /\ old.given = y.history /\ ~old.over /\ GraphOk(old)
        /\ old.live => Progress(y, old)
    BY <1>1, <1>o, <1>y, SaveState
  <2> QED
    BY <1>1, <1>k, <1>n, <2>1 DEF GraphOk, Progress
<1>2. PICK g \in GraphType :
        /\ graphs' = [graphs EXCEPT ![y.graph] = g]
        /\ g.edges = IF {k, k + 1} \subseteq DOMAIN old.nodes THEN old.edges \cup {k}
                     ELSE old.edges
        /\ g.over = (k + 1 = n)
        /\ g.starts = old.starts /\ g.nodes = old.nodes
        /\ g.live = old.live /\ g.owner = old.owner /\ g.given = old.given
        /\ g.used = old.used
  BY <1>0, <1>k, <1>n, <1>o, <1>y, StoresEdge
<1>3. graphs'[y.graph] = g /\ saved' = saved
  BY <1>0, <1>1, <1>2, <1>s, Typed
<1>4. g.edges \subseteq 1 .. n - 1
  BY <1>2, <1>k, <1>t
<1>5. g.live => Len(g.nodes) = n /\ g.starts /\ 1 .. k \subseteq g.edges
  <2> SUFFICES ASSUME g.live PROVE Len(g.nodes) = n /\ g.starts /\ 1 .. k \subseteq g.edges
    OBVIOUS
  <2>1. old.live /\ Len(old.nodes) = n /\ old.starts /\ 1 .. k - 1 \subseteq old.edges
    BY <1>2, <1>t
  <2> DEFINE nodes == old.nodes
  <2>2. nodes \in Seq(NodeSet) /\ Len(nodes) = n
    BY <1>t, <2>1
  <2> HIDE DEF nodes
  <2>3. DOMAIN nodes = 1 .. n
    BY <2>2, LenProperties
  <2>4. {k, k + 1} \subseteq 1 .. n
    BY <1>k
  <2>5. g.edges = old.edges \cup {k}
    BY <1>2, <2>3, <2>4 DEF nodes
  <2>6. \A i \in 1 .. k : i \in 1 .. k - 1 \/ i = k
    BY <1>k
  <2>7. 1 .. k \subseteq g.edges
    BY <2>1, <2>5, <2>6
  <2>8. g.nodes = old.nodes /\ g.starts = old.starts
    BY <1>2
  <2> QED
    BY <2>1, <2>7, <2>8
<1>6. g.over /\ g.live => Whole(g)
  <2> SUFFICES ASSUME g.over, g.live PROVE Whole(g)
    OBVIOUS
  <2>1. k = n - 1
    <3>1. k + 1 = n
      BY <1>2
    <3> QED
      BY <1>k, <3>1
  <2>2. Len(g.given) = n
    BY <1>2, <1>n, <1>t
  <2> QED
    BY <1>5, <2>1, <2>2 DEF Whole
<1>7. /\ g.live = graphs[y.graph].live /\ g.owner = graphs[y.graph].owner
      /\ g.given = graphs[y.graph].given /\ g.used = graphs[y.graph].used
      /\ Heads(g.nodes, g.given) /\ g.edges \subseteq 1 .. Len(g.given) - 1
  BY <1>2, <1>4, <1>n, <1>o, <1>t
<1>8. CASE k + 1 = n
  <2>1. run' = [run EXCEPT ![r] = NoRun]
    <3>1. run[r].k + 1 = Len(run[r].history)
      BY <1>8, <1>k, <1>n, <1>y
    <3>2. run[r].k + 1 = Len(run[r].history) => run' = [run EXCEPT ![r] = NoRun]
      BY <1>0, StoresEdge
    <3> QED
      BY <3>1, <3>2
  <2>2. /\ NoRun \in RunType /\ NoRun.at \notin Saving
        /\ SaveOk(NoRun)' /\ LeaseOk(NoRun)' /\ PlayOk(NoRun) /\ EarnedOk(NoRun)'
    BY Idle, IdleIsOk DEF Saving
  <2> HIDE DEF NoRun
  <2> QED
    BY <1>0, <1>1, <1>2, <1>6, <1>7, <1>y, <2>1, <2>2, SaveWrites
<1>9. CASE k + 1 # n
  <2>1. PICK x \in RunType :
          /\ run' = [run EXCEPT ![r] = x] /\ x.graph = y.graph
          /\ x.at = "edges" /\ x.k = k + 1
          /\ x.loaded = y.loaded /\ x.prefix = y.prefix /\ x.plan = y.plan
          /\ x.safe = y.safe /\ x.user = y.user /\ x.history = y.history
    BY <1>0, <1>9, <1>k, <1>n, <1>y, StoresEdge
  <2>2. SaveOk(x)'
    <3>1. x.k \in 1 .. Len(x.history) - 1 /\ x.k - 1 = k
      BY <1>9, <1>k, <1>n, <2>1
    <3>2. g.live => Progress(x, g)
      BY <1>5, <1>n, <2>1, <3>1 DEF Progress
    <3>3. /\ x.at \in Saving /\ x.user \in Users
          /\ x.graph \in 1 .. saved /\ g.given = x.history /\ ~g.over
      BY <1>2, <1>9, <1>s, <1>t, <2>1 DEF Saving
    <3>4. x.graph \in 1 .. saved' /\ graphs'[x.graph] = g
      BY <1>3, <2>1, <3>3
    <3> QED
      BY <2>1, <3>1, <3>2, <3>3, <3>4 DEF SaveOk
  <2>3. LeaseOk(x)' /\ PlayOk(x) /\ EarnedOk(x)'
    BY <1>0, <1>y, <2>1, SavingOn
  <2> QED
    BY <1>0, <1>1, <1>2, <1>6, <1>7, <1>y, <2>1, <2>2, <2>3, SaveWrites
<1> QED
  BY <1>8, <1>9

\* A save that fails leaves the graph as it is.
LEMMA FailKeeps ==
  ASSUME Inv, TypeInv', NEW r \in Runs, SaveFails(r)
  PROVE  Inv'
<1>1. Step(r) /\ UNCHANGED graphs /\ run' = [run EXCEPT ![r] = NoRun]
  BY DEF SaveFails, Step
<1>2. /\ NoRun \in RunType /\ NoRun.at \notin Saving
      /\ SaveOk(NoRun)' /\ LeaseOk(NoRun)' /\ PlayOk(NoRun) /\ EarnedOk(NoRun)'
  BY Idle, IdleIsOk DEF Saving
<1>3. \A p \in Procedures : Untouched(p)
  BY <1>1 DEF Untouched
<1> HIDE DEF NoRun
<1> QED
  BY <1>1, <1>2, <1>3, StepKeeps

\* A day that passes ends leases and nothing else.
LEMMA TickKeeps ==
  ASSUME Inv, TypeInv', Tick
  PROVE  Inv'
<1>1. UNCHANGED <<graphs, run, saved>> /\ day \in Nat /\ day' = day + 1
  BY Typed DEF Inv, Tick
<1>d. PICK d \in Nat : d = day
  BY <1>1
<1>2. GraphInv'
  <2>1. ASSUME NEW p \in Procedures
        PROVE  GraphOk(graphs[p])' /\ (p > saved' => ~graphs'[p].live)
    <3>1. PICK u \in Nat : u = graphs[p].used
      BY Typed DEF Inv
    <3>2. GraphOk(graphs[p]) /\ (p > saved => ~graphs[p].live)
      BY DEF Inv, GraphInv
    <3>3. u <= d
      BY <1>d, <3>1, <3>2 DEF GraphOk
    <3>4. u <= d + 1
      BY <3>3
    <3> QED
      BY <1>1, <1>d, <3>1, <3>2, <3>4 DEF GraphOk
  <2> QED
    BY <2>1 DEF GraphInv
<1>3. ASSUME NEW r \in Runs
      PROVE  SaveOk(run[r])' /\ LeaseOk(run[r])' /\ PlayOk(run[r])' /\ EarnedOk(run[r])'
  <2>1. PICK x \in RunType : x = run[r]
    BY Typed DEF Inv
  <2>2. SaveOk(x) /\ LeaseOk(x) /\ PlayOk(x) /\ EarnedOk(x)
    BY <2>1 DEF Inv, RunsOk
  <2>3. SaveOk(x)'
    BY <1>1, <2>2 DEF SaveOk
  <2>4. EarnedOk(x)'
    BY <1>1, <2>2 DEF EarnedOk, Owned
  <2>5. LeaseOk(x)'
    <3> SUFFICES ASSUME x.at = "chains" PROVE LeaseOk(x)'
      BY DEF LeaseOk
    <3>1. PICK since \in Nat : since = x.since
      BY DEF RunType
    <3>2. TtlDays \in Nat
      BY StoreAssumption DEF StoreAssumption
    <3>3. since <= d
      BY <1>d, <2>2, <3>1 DEF LeaseOk
    <3>4. since <= d + 1 /\ (d + 1 <= since + TtlDays => d <= since + TtlDays)
      BY <3>2, <3>3
    <3> QED
      BY <1>1, <1>d, <2>2, <3>1, <3>4 DEF LeaseOk
  <2> QED
    BY <1>1, <2>1, <2>2, <2>3, <2>4, <2>5 DEF SaveOk, LeaseOk, PlayOk, EarnedOk
<1>4. OwnInv'
  BY <1>1 DEF Inv, OwnInv
<1> QED
  BY <1>2, <1>3, <1>4 DEF Inv, RunsOk

\* The invariant holds at the start and no step breaks it.
LEMMA Invariant == Spec => []Inv
<1>1. Init => Inv
  <2> SUFFICES ASSUME Init PROVE Inv
    OBVIOUS
  <2>0. Cardinality(Procedures) \in Nat /\ MaxDay \in Nat /\ MaxFailures \in Nat
    BY StoreAssumption, FS_CardinalityType DEF StoreAssumption
  <2>1. graphs \in [Procedures -> GraphType] /\ run \in [Runs -> RunType]
    BY EmptyRecords DEF Init
  <2>2. /\ \A p \in Procedures : graphs[p] = NoGraph
        /\ \A r \in Runs : run[r] = NoRun
    BY DEF Init
  <2>3. /\ ~NoGraph.live /\ ~NoGraph.starts /\ NoGraph.given = <<>> /\ NoGraph.nodes = <<>>
        /\ NoGraph.edges = {} /\ NoGraph.used = 0
    BY DEF NoGraph
  <2>4. TypeInv
    <3>1. RunOk(NoRun)
      BY Idle DEF RunOk, Saving
    <3> QED
      BY <2>0, <2>1, <2>2, <2>3, <3>1 DEF TypeInv, Init
  <2>5. GraphOk(NoGraph)
    <3>1. Len(<<>>) = 0 /\ 1 .. 0 = {} /\ MaxSteps \in Nat
      BY StoreAssumption DEF StoreAssumption
    <3>2. Heads(<<>>, <<>>)
      BY <3>1 DEF Heads
    <3>3. 0 <= day
      BY DEF Init
    <3>4. Len(<<>>) <= MaxSteps
      BY <3>1
    <3> QED
      BY <2>3, <3>2, <3>3, <3>4 DEF GraphOk
  <2>6. GraphInv
    BY <2>2, <2>3, <2>5 DEF GraphInv
  <2>7. RunsOk
    BY <2>2, IdleIsOk DEF RunsOk
  <2>8. OwnInv
    BY <2>2, Idle DEF OwnInv, Saving
  <2> QED
    BY <2>4, <2>6, <2>7, <2>8 DEF Inv
<1>2. Inv /\ [Next]_vars => Inv'
  <2> SUFFICES ASSUME Inv, [Next]_vars PROVE Inv'
    OBVIOUS
  <2>1. TypeInv'
    BY TypeStep DEF Inv
  <2>2. ASSUME NEW r \in Runs, Step(r) PROVE Inv'
    <3>1. CASE \/ Begin(r) \/ LoadRows(r) \/ LoadChain(r) \/ LoadFails(r) \/ Match(r)
               \/ StartBrowser(r) \/ Replay(r) \/ ReplayDone(r) \/ RunLoop(r)
               \/ SweepExpired(r)
      BY <2>1, <2>2, <3>1, ReadSteps
    <3> QED
      BY <2>1, <2>2, <3>1, CreateKeeps, NodeKeeps, StartKeeps, EdgeKeeps, FailKeeps DEF Step
  <2>3. CASE Tick
    BY <2>1, <2>3, TickKeeps
  <2>4. CASE UNCHANGED vars
    BY <2>4 DEF vars, Inv, TypeInv, RunOk, GraphInv, GraphOk, RunsOk, SaveOk, LeaseOk, PlayOk,
                EarnedOk, Owned, OwnInv
  <2> QED
    BY <2>2, <2>3, <2>4 DEF Next, Step
<1> QED
  BY <1>1, <1>2, PTL DEF Spec

-----------------------------------------------------------------------------
(* The theorems. *)

\* A sequence that is short enough is one of the bounded ones.
LEMMA Bounded ==
  ASSUME NEW S, NEW n \in Nat, NEW s \in Seq(S), Len(s) <= n
  PROVE  s \in BoundedSeq(S, n)
<1>1. Len(s) \in 0 .. n /\ s \in [1 .. Len(s) -> S]
  <2>1. Len(s) \in Nat /\ s \in [1 .. Len(s) -> S]
    BY LenProperties
  <2> QED
    BY <2>1
<1> QED
  BY <1>1 DEF BoundedSeq, SeqOf

\* The histories and the graphs stay within their bounds, every graph that is there has
\* an owner, and a run saves only a graph that was handed over.
THEOREM TypeCorrect == Spec => []TypeOK
<1>1. Inv => TypeOK
  <2> SUFFICES ASSUME Inv PROVE TypeOK
    OBVIOUS
  <2>0. /\ TypeInv /\ MaxSteps \in Nat /\ MaxSteps >= 1
    BY StoreAssumption DEF StoreAssumption, Inv
  <2>1. saved \in 0 .. Cardinality(Procedures) /\ day \in 0 .. MaxDay /\ failures \in 0 .. MaxFailures
    BY <2>0 DEF TypeInv
  <2>2. ASSUME NEW p \in Procedures
        PROVE  /\ graphs[p].given \in BoundedSeq(NodeSet, MaxSteps)
               /\ graphs[p].edges \subseteq 1 .. MaxSteps - 1
               /\ graphs[p].used \in 0 .. day
               /\ graphs[p].live => graphs[p].owner \in Users
    <3>1. PICK g \in GraphType : g = graphs[p]
      BY <2>0, Typed
    <3>2. PICK d \in Nat : d = day
      BY <2>0, Typed
    <3>3. g.given \in Seq(NodeSet) /\ g.used \in Nat
      BY DEF GraphType
    <3>4. /\ g.live => g.owner \in Users
          /\ Len(g.given) <= MaxSteps /\ g.edges \subseteq 1 .. Len(g.given) - 1 /\ g.used <= d
      BY <3>1, <3>2 DEF Inv, GraphInv, GraphOk
    <3>5. PICK n \in Nat : n = Len(g.given)
      BY <3>3, LenProperties
    <3>6. g.given \in BoundedSeq(NodeSet, MaxSteps)
      BY <2>0, <3>3, <3>4, Bounded
    <3>7. n <= MaxSteps /\ g.edges \subseteq 1 .. n - 1
      BY <3>4, <3>5
    <3>8. 1 .. n - 1 \subseteq 1 .. MaxSteps - 1
      BY <2>0, <3>7
    <3>9. g.used \in 0 .. d
      BY <3>3, <3>4
    <3> QED
      BY <3>1, <3>2, <3>4, <3>6, <3>7, <3>8, <3>9
  <2>3. ASSUME NEW r \in Runs
        PROVE  /\ run[r].history \in BoundedSeq(NodeSet, MaxSteps)
               /\ run[r].graph \in 0 .. saved
               /\ run[r].page \in Pages
    <3>1. PICK x \in RunType : x = run[r]
      BY <2>0, Typed
    <3>2. PICK n \in Nat : n = saved
      BY <2>0, Typed
    <3>3. x.history \in Seq(NodeSet) /\ x.page \in Pages
      BY DEF RunType
    <3>4. Len(x.history) <= MaxSteps
      BY <3>1 DEF Inv, RunsOk, PlayOk
    <3>5. x.graph = 0 \/ x.graph \in 1 .. n
      BY <3>1, <3>2 DEF Inv, RunsOk, SaveOk
    <3>6. x.graph \in 0 .. n
      BY <3>5
    <3>7. x.history \in BoundedSeq(NodeSet, MaxSteps)
      BY <2>0, <3>3, <3>4, Bounded
    <3> QED
      BY <3>1, <3>2, <3>3, <3>6, <3>7
  <2> QED
    BY <2>1, <2>2, <2>3 DEF TypeOK
<1> QED
  BY <1>1, Invariant, PTL

\* A graph whose save came to its end is read whole, node by node, whatever other runs
\* sweep and save in between, as long as the lease that the read gave it runs.
THEOREM LoadedWhole == Spec => []HalfLoadedWasHalfSaved
<1>1. Inv => HalfLoadedWasHalfSaved
  <2> SUFFICES ASSUME Inv, NEW r \in Runs, run[r].at = "chains", day <= run[r].since + TtlDays,
                      NEW p \in Range(run[r].rows), graphs[p].over
               PROVE  chain(graphs[p]) = graphs[p].given
    BY DEF HalfLoadedWasHalfSaved
  <2>1. TypeInv /\ LeaseOk(run[r]) /\ run[r].rows \in Seq(Procedures)
    BY Typed DEF Inv, RunsOk
  <2>2. PICK i \in 1 .. Len(run[r].rows) : p = run[r].rows[i]
    <3> DEFINE rows == run[r].rows
    <3>1. rows \in Seq(Procedures)
      BY <2>1
    <3> HIDE DEF rows
    <3>2. DOMAIN rows = 1 .. Len(rows)
      BY <3>1, LenProperties
    <3>3. \E i \in DOMAIN rows : p = rows[i]
      BY DEF Range, rows
    <3> QED
      BY <3>2, <3>3 DEF rows
  <2>3. p \in 1 .. saved /\ graphs[p].live
    BY <2>1, <2>2 DEF LeaseOk
  <2>4. p \in Procedures
    BY <2>1, <2>3, Numbered
  <2>5. PICK g \in GraphType : g = graphs[p]
    BY <2>1, <2>4, Typed
  <2>6. /\ g.live /\ g.over /\ g.nodes \in Seq(NodeSet) /\ g.given \in Seq(NodeSet)
        /\ (g.starts => g.nodes # <<>>) /\ GraphOk(g)
    BY <2>1, <2>3, <2>4, <2>5, Typed DEF TypeInv, Inv, GraphInv
  <2>7. /\ g.starts /\ Len(g.nodes) = Len(g.given) /\ 1 .. Len(g.given) - 1 \subseteq g.edges
        /\ Heads(g.nodes, g.given)
    BY <2>6 DEF GraphOk, Whole
  <2>8. chain(g) = g.nodes
    <3>1. PICK n \in Nat : n = Len(g.given)
      BY <2>6, LenProperties
    <3>2. n <= MaxSteps
      BY <2>6, <3>1 DEF GraphOk
    <3>3. n <= MaxHops + 1
      BY <3>1, <3>2, DepthAssumption, StoreAssumption DEF DepthAssumption, StoreAssumption
    <3>4. Len(g.nodes) <= MaxHops + 1 /\ 1 .. Len(g.nodes) - 1 \subseteq g.edges
      BY <2>7, <3>1, <3>3
    <3> QED
      BY <2>6, <2>7, <3>4, ChainIsWhole
  <2>9. g.nodes = g.given
    BY <2>6, <2>7, SeqEqual DEF Heads
  <2> QED
    BY <2>5, <2>8, <2>9
<1> QED
  BY <1>1, Invariant, PTL

\* What is replayed are the first steps of a procedure that the same user's run did to a
\* successful end, and the first steps of the task at hand, all of them reported safe.
THEOREM ReplayEarned == Spec => []ReplayedWasEarned
<1>1. Inv => ReplayedWasEarned
  <2> SUFFICES ASSUME Inv, NEW r \in Runs, run[r].prefix # <<>>
               PROVE  /\ \E p \in 1 .. saved :
                           /\ graphs[p].owner = run[r].user
                           /\ IsPrefix(run[r].prefix, graphs[p].given)
                      /\ IsPrefix(hashes(run[r].prefix), run[r].plan)
                      /\ Len(run[r].prefix) >= MinPrefix
                      /\ Len(run[r].prefix) <= run[r].safe
    BY DEF ReplayedWasEarned
  <2>1. PICK x \in RunType : x = run[r]
    BY Typed DEF Inv
  <2>2. /\ Owned(x.prefix, x.user) /\ x.plan \in plans
        /\ MinPrefix <= Len(x.prefix) /\ Len(x.prefix) <= x.safe
        /\ Heads(hashes(x.prefix), x.plan)
    BY <2>1 DEF Inv, RunsOk, EarnedOk
  <2>3. x.prefix \in Seq(NodeSet) /\ Len(x.prefix) \in Nat
    <3>1. x.prefix \in Seq(NodeSet)
      BY DEF RunType
    <3> QED
      BY <3>1, LenProperties
  <2>4. PICK p \in 1 .. saved : graphs[p].owner = x.user /\ Heads(x.prefix, graphs[p].given)
    BY <2>2 DEF Owned
  <2>5. IsPrefix(x.prefix, graphs[p].given)
    <3>1. p \in Procedures
      BY Numbered DEF Inv
    <3>2. graphs[p].given \in Seq(NodeSet)
      BY <3>1, Typed DEF Inv
    <3> QED
      BY <2>3, <2>4, <3>2, HeadsIsPrefix
  <2>6. IsPrefix(hashes(x.prefix), x.plan)
    <3> DEFINE h == hashes(x.prefix)
               S == {computeActionHash(n.action) : n \in NodeSet}
    <3>1. h \in Seq(S)
      BY <2>3, HashesOf
    <3>2. x.plan \in Seq(Range(x.plan))
      BY <2>2, PlanType
    <3>3. Heads(h, x.plan)
      BY <2>2
    <3> HIDE DEF h, S
    <3>4. IsPrefix(h, x.plan)
      BY <3>1, <3>2, <3>3, HeadsIsPrefix
    <3> QED
      BY <3>4 DEF h
  <2>7. Len(x.prefix) >= MinPrefix
    BY <2>2, <2>3 DEF MinPrefix
  <2> QED
    BY <2>1, <2>2, <2>4, <2>5, <2>6, <2>7
<1> QED
  BY <1>1, Invariant, PTL
=========================================================================
