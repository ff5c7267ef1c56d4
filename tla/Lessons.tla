------------------------------- MODULE Lessons -------------------------------
(***************************************************************************)
(* What a finished run teaches: agent/memory/reflector.py, text_utils.py,  *)
(* quality_gate.py and the local model that can stand in for Gemini.       *)
(* Pure operators on an AgentState, used by AceMemory.                     *)
(*                                                                         *)
(* The content of a lesson is what its text says, so that two lessons have *)
(* the same hash exactly when their contents are equal.  Confidences are   *)
(* percents and the scores of the gate are exact multiples of its weights. *)
(***************************************************************************)
EXTENDS Integers, Sequences, SequencesExt, FiniteSetsExt

CONSTANTS
  UseLlm,        \* CUTIEE_REFLECTOR=llm
  GeminiKey,     \* reflection is enabled and a client could be built
  LocalLlm,      \* local environment with the local model allowed
  ForceLocalLlm, \* CUTIEE_FORCE_LOCAL_LLM: on any page
  AccountTasks,  \* tasks whose description has an account-like marker
  Replies        \* what a model may answer: sequences of raw lessons

ASSUME ReflectorAssumption ==
  /\ UseLlm \in BOOLEAN /\ GeminiKey \in BOOLEAN
  /\ LocalLlm \in BOOLEAN /\ ForceLocalLlm \in BOOLEAN

MemoryTypes == {"procedural", "episodic", "semantic"}
Least(a, b) == IF a <= b THEN a ELSE b
Most(a, b) == IF a >= b THEN a ELSE b

\* The elements of s at the places kept, in their order.
those(s, kept) ==
  [n \in 1 .. Cardinality(kept) |-> s[CHOOSE i \in kept : Cardinality({j \in kept : j <= i}) = n]]

-----------------------------------------------------------------------------
(* An AgentState as the reflector reads it: the task, the site of its      *)
(* first step ("" when it has none), whether the run is complete, its      *)
(* price, and a history of steps [index, act, value, ok, high, conf].  A   *)
(* value is "" (none), "plain", or "secret" when it looks like a           *)
(* credential; act is "none" for a step that recorded no action.           *)

\* isCredential: the value looks like one, or the action is high risk.
isCredential(step) == step.value = "secret" \/ step.high

\* _redactValue leaves an empty value empty.
safeValue(step) == IF isCredential(step) /\ step.value # "" THEN "marker" ELSE step.value

stepContent(step) ==
  [kind |-> "step", index |-> step.index, act |-> step.act, value |-> safeValue(step)]

hasAccountMarker(task) == task \in AccountTasks

summaryContent(state) ==
  [kind |-> "summary", task |-> state.task, steps |-> Len(state.history), cost |-> state.cost]

affinityContent(state) == [kind |-> "affinity", task |-> state.task, site |-> state.site]

domainTag(state) == IF state.site = "" THEN {} ELSE {"domain"}

stepLesson(state, step) ==
  [content |-> stepContent(step), type |-> "procedural", conf |-> Most(70, step.conf),
   tags |-> {"topic"} \cup domainTag(state) \cup (IF step.high THEN {"risk:high"} ELSE {})
              \cup (IF isCredential(step) THEN {"credential"} ELSE {}),
   topic |-> state.task, site |-> state.site]

successfulSteps(history) ==
  those(history, {i \in DOMAIN history : history[i].ok /\ history[i].act # "none"})

\* HeuristicReflector.reflect, with its minConfidence of 0.7.
heuristicReflect(state) ==
  LET passed == successfulSteps(state.history)
      done == those(passed, {i \in DOMAIN passed : passed[i].act # "finish"})
      steps == [i \in DOMAIN done |-> stepLesson(state, done[i])]
      summary == IF state.complete /\ ~hasAccountMarker(state.task)
                 THEN <<[content |-> summaryContent(state), type |-> "episodic", conf |-> 85,
                         tags |-> {"topic", "outcome"}, topic |-> state.task,
                         site |-> ""]>>
                 ELSE <<>>
      affinity == IF state.site # ""
                  THEN <<[content |-> affinityContent(state), type |-> "semantic", conf |-> 75,
                          tags |-> {"domain"}, topic |-> state.task, site |-> state.site]>>
                  ELSE <<>>
      lessons == steps \o summary \o affinity
  IN  IF state.history = <<>> THEN <<>>
      ELSE those(lessons, {i \in DOMAIN lessons : lessons[i].conf >= 70})

-----------------------------------------------------------------------------
(* A raw lesson is [say, words, generic, conf, type, tags].  A reply that  *)
(* is no JSON object with a list of lessons is the empty sequence.         *)

isGenericLesson(raw) == raw.words < 8 \/ raw.generic

\* LlmReflector._parseLessons, minConfidence 0.6; an unknown type is semantic.
parseLessons(reply, state) ==
  LET kept == those(reply, {i \in DOMAIN reply : ~isGenericLesson(reply[i]) /\ reply[i].conf >= 60})
  IN  [i \in DOMAIN kept |->
        [content |-> [kind |-> "text", say |-> kept[i].say, words |-> kept[i].words],
         type |-> IF kept[i].type \in MemoryTypes THEN kept[i].type ELSE "semantic",
         conf |-> kept[i].conf,
         tags |-> kept[i].tags \cup {"topic"} \cup domainTag(state),
         topic |-> state.task, site |-> state.site]]

\* shouldUseLocalLlmForUrl: only a local environment, on a local page unless forced.
shouldUseLocalLlm(state) == LocalLlm /\ (ForceLocalLlm \/ state.site = "localhost")

\* generateText: whatever goes wrong, loading included, is no text at all.
localReplies == Replies \cup {<<>>}

\* LlmReflector.reflect: the local model when it teaches something, else Gemini, whose
\* empty answer stands, else the heuristic when there is no client or the call fails.
llmReflections(state) ==
  LET answers(replies) == {parseLessons(reply, state) : reply \in replies}
      local == IF shouldUseLocalLlm(state) THEN answers(localReplies) \ {<<>>} ELSE {}
      gemini == IF GeminiKey THEN answers(Replies) ELSE {}
  IN  local \cup gemini \cup {heuristicReflect(state)}

\* buildReflector and every outcome of its reflect.
reflections(state) == IF UseLlm THEN llmReflections(state) ELSE {heuristicReflect(state)}

-----------------------------------------------------------------------------
(* QualityGate *)

\* Words of a content: the least its template has.
words(content) ==
  CASE content.kind = "step" -> 4
    [] content.kind = "summary" -> 9
    [] content.kind = "affinity" -> 8
    [] content.kind = "text" -> content.words

\* _lessonQuality, in percent; the topic of a lesson is never empty.
lessonQuality(lesson) ==
  Least(100, Least(100, 5 * words(lesson.content)) + Least(40, 10 * Cardinality(lesson.tags)) + 20)

identicalPairs(lessons) ==
  {p \in (DOMAIN lessons) \X (DOMAIN lessons) :
     p[1] < p[2] /\ lessons[p[1]].content = lessons[p[2]].content}
pairs(lessons) == (Len(lessons) * (Len(lessons) - 1)) \div 2

total(lessons, field(_)) == FoldLeft(LAMBDA sum, l : sum + field(l), 0, lessons)

\* 0.35 valid + 0.35 average quality + 0.30 average confidence >= 0.60, a top
\* confidence of 0.70, and fewer than 95% of the pairs identical.
passesGate(lessons, state) ==
  LET n == Len(lessons)
      outputValid == IF state.complete THEN 100 ELSE 0
  IN  /\ 35 * outputValid * n + 35 * total(lessons, lessonQuality)
           + 30 * total(lessons, LAMBDA l : l.conf) >= 6000 * n
      /\ \E i \in 1 .. n : lessons[i].conf >= 70
      /\ n > 1 => 100 * Cardinality(identicalPairs(lessons)) < 95 * pairs(lessons)

qualityGate(lessons, state) == IF lessons # <<>> /\ passesGate(lessons, state) THEN lessons ELSE <<>>
=============================================================================
