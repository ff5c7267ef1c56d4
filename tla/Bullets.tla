------------------------------- MODULE Bullets -------------------------------
(***************************************************************************)
(* What the memory does with its bullets: agent/memory/bullet.py, decay.py,*)
(* curator.py, the scoring, retrieval and refinement of ace_memory.py, and *)
(* the plans that replay.py and fragment_replay.py read out of them.       *)
(* Pure operators on a memory: a function from the ids it holds to bullets *)
(* [content, type, high, site, credential, topic, helpful, strength,     *)
(* access].                                                                *)
(*                                                                         *)
(* A bullet's strength is that of its own channel, in halves: the other    *)
(* two stay zero.  Rows are taken in the order of their ids, which is the  *)
(* order of their creation (the query has no ORDER BY, so this is what the *)
(* database is assumed to do), and the stable sorts of the code keep it:   *)
(* only ties depend on it.  Decay is exact to one permille; scores are integers,   *)
(* the floats of the code times 30000, 2000 and 100.                       *)
(*                                                                         *)
(* An operator whose name starts with Wrong is a version of the definition *)
(* after it with a plausible bug, which a property must be able to see.    *)
(***************************************************************************)
EXTENDS Lessons

CONSTANTS
  Similarity(_, _), \* cosine of two embedded texts, in percent, at least 0
  MaxBullets,       \* maxBullets of the memory
  TopK,             \* how many bullets a retrieval asks for
  MaxActions        \* actions of a whole-template replay

ASSUME MemoryAssumption ==
  MaxBullets \in Nat \ {0} /\ TopK \in Nat \ {0} /\ MaxActions \in Nat \ {0}

\* The elements of a set, the least key first, and the least tie among equal keys.
sorted(S, key, tie) ==
  LET before(x) == LET own == key[x]
                   IN  {y \in S : LET its == key[y] IN its < own \/ (its = own /\ tie[y] < tie[x])}
  IN  [i \in 1 .. Cardinality(S) |-> CHOOSE x \in S : Cardinality(before(x)) = i - 1]

\* The description of a task, as a text to compare bullets with.
Query(task) == [kind |-> "query", task |-> task]

TypePriority(type) ==
  CASE type = "procedural" -> 100 [] type = "episodic" -> 70 [] type = "semantic" -> 40

\* A fresh bullet has no strength on its own channel.
WrongNewBullet(lesson) ==
  [content |-> lesson.content, type |-> lesson.type, high |-> "risk:high" \in lesson.tags,
   site |-> lesson.site, credential |-> FALSE, topic |-> lesson.topic,
   helpful |-> 0, strength |-> 0, access |-> 0]

\* Bullet(...) of the curator: the strength of its type starts at 1.0, and whether
\* the lesson holds a credential is not passed on.
newBullet(lesson) ==
  [content |-> lesson.content, type |-> lesson.type, high |-> "risk:high" \in lesson.tags,
   site |-> lesson.site, credential |-> FALSE, topic |-> lesson.topic,
   helpful |-> 0, strength |-> 2, access |-> 0]

\* exp(-rate * delta) in permille, with the rates 0.05, 0.01 and 0.005.
decayRate(type) ==
  CASE type = "episodic" -> <<951, 905>> [] type = "semantic" -> <<990, 980>>
    [] type = "procedural" -> <<995, 990>>
decay(bullet, clock) ==
  LET delta == Most(0, clock - bullet.access)
  IN  IF delta = 0 THEN 1000 ELSE decayRate(bullet.type)[Least(2, delta)]

\* totalDecayedStrength, times 2000.
totalDecayedStrength(bullet, clock) == bullet.strength * decay(bullet, clock)

-----------------------------------------------------------------------------
(* Curator *)

\* An identical hash, the last such row, else the first that is at least 0.90 alike.
duplicates(lesson, memory) ==
  LET same == {id \in DOMAIN memory : memory[id].content = lesson.content}
      alike == {id \in DOMAIN memory : Similarity(lesson.content, memory[id].content) >= 90}
  IN  IF same # {} THEN {Max(same)} ELSE IF alike # {} THEN {Min(alike)} ELSE {}

\* The patch of a bullet found again: its count is that of this batch alone, and its
\* strength, from what was loaded, grows by 0.5 up to 5.0 when the types agree.
patchOf(id, lessons, memory) ==
  LET again == {i \in DOMAIN lessons : duplicates(lessons[i], memory) = {id}}
      old == memory[id]
  IN  IF \E i \in again : lessons[i].type = old.type
      THEN [helpful |-> Cardinality(again), strength |-> Least(old.strength + 1, 10)]
      ELSE [helpful |-> Cardinality(again)]

\* The fields that a patch names, and the others as they were.
patched(bullet, patch) ==
  [field \in DOMAIN bullet |-> IF field \in DOMAIN patch THEN patch[field] ELSE bullet[field]]

\* curate: the lessons that become bullets, and the patches of those known.
curate(lessons, memory) ==
  LET known == UNION {duplicates(lessons[i], memory) : i \in DOMAIN lessons}
  IN  [fresh |-> those(lessons, {i \in DOMAIN lessons : duplicates(lessons[i], memory) = {}}),
       patch |-> [id \in known |-> patchOf(id, lessons, memory)]]

-----------------------------------------------------------------------------
(* ACEMemory.refine *)

refineRank(bullet, clock) == totalDecayedStrength(bullet, clock) + 200 * bullet.helpful

quota(type) ==
  LET share == CASE type = "procedural" -> 60 [] type = "episodic" -> 25 [] type = "semantic" -> 15
      exact == share * MaxBullets
  IN  Most(1, IF exact % 100 = 50 THEN 2 * ((exact \div 100 + 1) \div 2) ELSE (exact + 50) \div 100)

\* The highest rank first; equal ranks in the order of creation.
ranked(memory, rank) ==
  sorted(DOMAIN memory, [id \in DOMAIN memory |-> -rank[id]], [id \in DOMAIN memory |-> id])

ofType(kept, memory, type) == {id \in kept : memory[id].type = type}

\* The best MaxBullets are kept, whatever their types.
WrongKeeps(kept, memory, id) == Cardinality(kept) < MaxBullets

\* A bullet is kept while its type has room, the memory has room, and nothing kept of
\* its type is 0.85 alike.
keeps(kept, memory, id) ==
  LET type == memory[id].type
      rivals == ofType(kept, memory, type)
  IN  /\ Cardinality(kept) < MaxBullets
      /\ Cardinality(rivals) < quota(type)
      /\ \A other \in rivals : Similarity(memory[id].content, memory[other].content) < 85

\* What is kept once the next bullet of the order has had its turn.
extended(kept, memory, id) == IF keeps(kept, memory, id) THEN kept \cup {id} ELSE kept

\* What is kept of the first n of an order of the memory, for each n.
greedy(memory, order) ==
  LET kept[n \in 0 .. Cardinality(DOMAIN memory)] ==
        IF n = 0 THEN {} ELSE extended(kept[n - 1], memory, order[n])
  IN  kept

\* The ids a refinement keeps; a memory that fits keeps everything.
refine(memory, clock) ==
  LET n == Cardinality(DOMAIN memory)
      order == ranked(memory, [id \in DOMAIN memory |-> refineRank(memory[id], clock)])
  IN  IF n <= MaxBullets THEN DOMAIN memory ELSE greedy(memory, order)[n]

-----------------------------------------------------------------------------
(* ACEMemory.retrieveRelevantBullets *)

\* 0.60 relevance + 0.20 strength / 3 + 0.20 priority + 0.08: no bullet is a seed, and
\* no caller asks for facets.
scoreBullet(bullet, task, clock) ==
  180 * Similarity(Query(task), bullet.content) + totalDecayedStrength(bullet, clock)
    + 60 * TypePriority(bullet.type) + 2400

\* The best TopK, best first; what the learned floor adds is cut off again.
retrieved(memory, task, clock) ==
  LET order == ranked(memory, [id \in DOMAIN memory |-> scoreBullet(memory[id], task, clock)])
      open == those(order, {i \in DOMAIN order : ~memory[order[i]].credential})
  IN  SubSeq(open, 1, Least(TopK, Len(open)))

\* _touchBullet on the bullets a retrieval returns.
touched(bullet, clock) == [helpful |-> bullet.helpful + 1, access |-> clock]

-----------------------------------------------------------------------------
(* The plans *)

\* The content names an action.  A lesson of a model is assumed not to: its prompt asks
\* it not to copy actions, although the code would read "action=click" in any content.
isStep(bullet) == bullet.content.kind = "step"

\* stepIndexFromContent: 0 when the content names no step.
stepIndex(bullet) == IF isStep(bullet) THEN bullet.content.index ELSE 0

\* actionFromBullet, defined for the content of a step.  model: a fragment leaves the
\* value to the model; a whole-template replay types the stored value.
actionOf(bullet) ==
  [index |-> stepIndex(bullet), act |-> bullet.content.act, value |-> bullet.content.value,
   high |-> bullet.high, model |-> bullet.content.value # "", from |-> bullet.content]

procedural(order, memory) ==
  those(order, {i \in DOMAIN order : memory[order[i]].type = "procedural"})

\* Sorted by step index; the retrieval order within one index.
inStepOrder(order, memory) ==
  LET ids == {order[i] : i \in DOMAIN order}
  IN  sorted(ids, [id \in ids |-> stepIndex(memory[id])],
                  [id \in ids |-> CHOOSE i \in DOMAIN order : order[i] = id])

\* _scoreFragment, times 10000.  The best score off the domain, 0.70 + 0.10, is below
\* 0.80 in floating point, so the comparison is strict.
clearsThreshold(bullet, task, site) ==
  70 * Similarity(Query(task), bullet.content) + (IF site # "" /\ bullet.site = site THEN 1000 ELSE 0)
    + 1000 - (IF bullet.high THEN 1500 ELSE 0) > 8000

\* findReplayFragments: the first bullet of each index, if it names an action and
\* clears the threshold; one that does not leaves its index to the model.
fragmentPlan(order, memory, task, site) ==
  LET steps == inStepOrder(procedural(order, memory), memory)
      first(i) == \A j \in 1 .. i - 1 : stepIndex(memory[steps[j]]) # stepIndex(memory[steps[i]])
      fits(i) == /\ first(i) /\ isStep(memory[steps[i]])
                 /\ clearsThreshold(memory[steps[i]], task, site)
  IN  {actionOf(memory[steps[i]]) : i \in {j \in DOMAIN steps : fits(j)}}

\* Every percent of likeness, of every bullet: their number is the sum.
percents(ids, memory, task) ==
  UNION {{i} \X (1 .. Similarity(Query(task), memory[ids[i]].content)) : i \in DOMAIN ids}

ofTopic(topic, order, memory) ==
  those(order, {i \in DOMAIN order : memory[order[i]].topic = topic})

\* The mean instead of the sum.
WrongTopicScore(topic, order, memory, task) ==
  LET own == ofTopic(topic, order, memory)
  IN  Cardinality(percents(own, memory, task)) \div Len(own)

topicScore(topic, order, memory, task) ==
  Cardinality(percents(ofTopic(topic, order, memory), memory, task))

\* ReplayPlanner.findReplayPlan: the topic whose bullets are together most like the
\* task, at least 0.85, all of them in step order; those that name no action drop out
\* after the cut.
replayPlan(order, memory, task) ==
  LET steps == procedural(order, memory)
      topic(i) == memory[steps[i]].topic
      score == [t \in {topic(i) : i \in DOMAIN steps} |-> topicScore(t, steps, memory, task)]
      leads(i) == \A t \in DOMAIN score : score[t] <= score[topic(i)]
      best == topic(Min({i \in DOMAIN steps : leads(i)}))
      chosen == inStepOrder(ofTopic(best, steps, memory), memory)
      top == SubSeq(chosen, 1, Least(MaxActions, Len(chosen)))
      cut == those(top, {i \in DOMAIN top : isStep(memory[top[i]])})
  IN  IF steps = <<>> \/ score[best] < 85 THEN <<>>
      ELSE [i \in DOMAIN cut |-> actionOf(memory[cut[i]])]
=============================================================================
