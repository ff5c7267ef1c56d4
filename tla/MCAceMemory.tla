----------------------------- MODULE MCAceMemory -----------------------------
(* AceMemory for TLC: a purchase with a secret and a risky click, and a look *)
(* at a local page that repeats one of its steps.                           *)
EXTENDS AceMemory, TLC

Step(i, a, v, ok, high) == [index |-> i, act |-> a, value |-> v, ok |-> ok, high |-> high, conf |-> 80]
Trace(task, site, cost, history) ==
  [task |-> task, site |-> site, history |-> history, complete |-> TRUE, cost |-> cost]

MCTraces ==
  { Trace("buy", "shop", 1, <<Step(0, "navigate", "", TRUE, FALSE), Step(1, "type", "secret", TRUE, FALSE),
                              Step(2, "click", "", TRUE, TRUE), Step(3, "finish", "", TRUE, FALSE)>>),
    Trace("look", "localhost", 1, <<Step(0, "navigate", "", TRUE, FALSE), Step(1, "click", "", FALSE, FALSE),
                                    Step(2, "scroll", "", TRUE, FALSE), Step(3, "none", "", TRUE, FALSE)>>) }

Raw(say, n, conf, type) ==
  [say |-> say, words |-> n, generic |-> FALSE, conf |-> conf, type |-> type, tags |-> {}]
MCReplies ==
  { <<>>, <<Raw("short", 4, 90, "procedural"), Raw("doubtful", 9, 65, "rule")>>,
    <<Raw("open the menu first", 9, 90, "procedural"), Raw("open the menu first", 9, 90, "procedural"),
      Raw("prices are at the foot", 12, 75, "rule")>> }

MCSimilarity(a, b) ==
  IF a = b THEN 100
  ELSE IF a = Query("look") /\ b = [kind |-> "step", index |-> 2, act |-> "scroll", value |-> ""] THEN 90
  ELSE IF a.kind = "query" /\ b.kind = "text" THEN 80
  ELSE IF a.kind = "query" THEN 40
  ELSE IF {a.kind, b.kind} = {"summary"} \/ {a.kind, b.kind} = {"affinity"} THEN 86
  ELSE 30

WorkerSymmetry == Permutations(Workers)
=============================================================================
