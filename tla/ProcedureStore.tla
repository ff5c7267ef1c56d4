--------------------------- MODULE ProcedureStore ---------------------------
(* The procedure graphs of all users and the runs that read and write them.   *)
(* A run may load its user's graphs, replay a matched prefix, go on with the  *)
(* model and, when it succeeds, store what it did as a new graph.  Loading    *)
(* and saving take one query per graph, node and edge: each is a step of its  *)
(* own, any of them may fail, and other runs work on the same store between.  *)
EXTENDS ActionGraph

CONSTANTS
  Users,
  StartPages,    \* what an attached browser may show when a run starts
  Kept,          \* whether the screenshots of a run are still stored at its end
  Runs,          \* the worker threads
  Actions,       \* what the model may do: [type, what, at]
  Leads,         \* [Actions -> [Pages -> Pages]]: the page an action leads to
  InitialUrl,    \* the action of the initial navigation
  Replies,       \* what a decomposer's model may answer
  Deeds,         \* what the model does on its own: sequences of actions
  MaxSteps,      \* bound: steps of a run
  Procedures,    \* bound: the graphs ever saved, 1 .. n
  GraphLimit,    \* loadGraphsForUser(limit)
  MaxHops,       \* NEXT*0..50: the edges a reader follows
  TtlDays,
  MaxDay,        \* bound: the days that pass
  MaxFailures    \* bound: the queries that fail

ASSUME SiteAssumption ==
  /\ InitialUrl \in Actions /\ Leads \in [Actions -> [Pages -> Pages]]
  /\ Deeds \subseteq Seq(Actions)
  /\ StartPages \subseteq Pages /\ Kept \subseteq BOOLEAN
ASSUME ReplyAssumption == \A reply \in Replies : IsFiniteSet(DOMAIN reply)
\* A run records at most 50 steps: 25, each of them tried twice (runner_factory.py:79,
\* computer_use_loop.py:76).
ASSUME DepthAssumption == MaxHops \in Nat /\ MaxSteps <= MaxHops + 1
ASSUME StoreAssumption ==
  /\ IsFiniteSet(Procedures) /\ Procedures = 1 .. Cardinality(Procedures)
  /\ GraphLimit \in Nat /\ TtlDays \in Nat /\ MaxSteps \in Nat \ {0}
  /\ MaxDay \in Nat /\ MaxFailures \in Nat

VARIABLES
  graphs,    \* [Procedures -> record]: what the database holds of each graph
  run,       \* [Runs -> record]: where each run is
  saved,     \* how many graphs have been handed to saveGraph
  day,
  failures

vars == <<graphs, run, saved, day, failures>>

\* nodes are created in order and so are the edges i -> i+1 between them.
\* given is the whole chain, owner the user, used the day of its lease; over says
\* that every query of its save went through.
NoGraph == [live |-> FALSE, owner |-> "", given |-> <<>>, nodes |-> <<>>, starts |-> FALSE,
            edges |-> {}, used |-> 0, over |-> FALSE]

NoRun == [at |-> "idle", user |-> "", rows |-> <<>>, loaded |-> <<>>, plan |-> <<>>,
          prefix |-> <<>>, safe |-> 0, since |-> 0, page |-> Blank, history |-> <<>>,
          graph |-> 0, k |-> 0]

Init ==
  /\ graphs = [p \in Procedures |-> NoGraph]
  /\ run = [r \in Runs |-> NoRun]
  /\ saved = 0
  /\ day = 0
  /\ failures = 0

\* _loadGraphChain: from STARTS_WITH along NEXT, no further than MaxHops edges.
chain(g) ==
  IF ~g.live \/ ~g.starts THEN <<>>
  ELSE SubSeq(g.nodes, 1, Max({n \in 1 .. Len(g.nodes) :
                                   n <= MaxHops + 1 /\ 1 .. n - 1 \subseteq g.edges}))

goto(r, at) == run' = [run EXCEPT ![r].at = at]
------------------------------------------------------------------------------
(* Reading. *)

\* single_shot reads nothing.
Begin(r) ==
  /\ run[r].at = "idle"
  /\ \E u \in Users, strategy \in {"refine_with_replay", "single_shot"} :
       run' = [run EXCEPT ![r] = [NoRun EXCEPT
                 !.at = IF strategy = "single_shot" THEN "browser" ELSE "rows",
                 !.user = u]]
  /\ UNCHANGED <<graphs, saved, day, failures>>

\* Mutated: reading does not renew the lease.
WrongLoadRows(r) ==
  LET mine == {p \in Procedures : graphs[p].live /\ graphs[p].owner = run[r].user}
  IN /\ run[r].at = "rows"
     /\ \E rows \in SetToSeqs(mine) :
          run' = [run EXCEPT ![r].at = IF mine = {} THEN "browser" ELSE "chains",
                             ![r].rows = SubSeq(rows, 1, Min({Len(rows), GraphLimit})),
                             ![r].since = day]
     /\ UNCHANGED <<graphs, saved, day, failures>>

\* One query bumps every graph of the user and returns the newest; graphs that
\* were bumped together tie, and come in any order.
LoadRows(r) ==
  LET mine == {p \in Procedures : graphs[p].live /\ graphs[p].owner = run[r].user}
  IN /\ run[r].at = "rows"
     /\ \E rows \in SetToSeqs(mine) :
          run' = [run EXCEPT ![r].at = IF mine = {} THEN "browser" ELSE "chains",
                             ![r].rows = SubSeq(rows, 1, Min({Len(rows), GraphLimit})),
                             ![r].since = day]
     /\ graphs' = [p \in Procedures |->
                     IF p \in mine THEN [graphs[p] EXCEPT !.used = day] ELSE graphs[p]]
     /\ UNCHANGED <<saved, day, failures>>

LoadChain(r) ==
  /\ run[r].at = "chains"
  /\ run[r].rows # <<>>
  /\ run' = [run EXCEPT ![r].loaded = Append(@, chain(graphs[Head(run[r].rows)])),
                        ![r].rows = Tail(@)]
  /\ UNCHANGED <<graphs, saved, day, failures>>

fail == failures < MaxFailures /\ failures' = failures + 1

\* An error while loading leaves no replay candidates.
LoadFails(r) ==
  /\ run[r].at \in {"rows", "chains"}
  /\ run' = [run EXCEPT ![r].at = "browser", ![r].rows = <<>>, ![r].loaded = <<>>,
                        ![r].since = 0]
  /\ fail
  /\ UNCHANGED <<graphs, saved, day>>

\* What the decomposer may make of the task, and the path of hashes to follow.
decompositions == {decompose(isLocal, local, hasClient, gemini) :
                     isLocal \in BOOLEAN, local \in Replies,
                     hasClient \in BOOLEAN, gemini \in Replies}

plans == {hashes([i \in DOMAIN steps |-> ActionNode(steps[i], Blank, FALSE)]) :
            steps \in decompositions}

Match(r) ==
  /\ run[r].at = "chains"
  /\ run[r].rows = <<>>
  /\ \E plan \in plans :
       LET prefix == findBestMatch(plan, run[r].loaded)
       IN run' = [run EXCEPT ![r].at = "browser", ![r].loaded = <<>>, ![r].since = 0,
                             ![r].prefix = prefix,
                             ![r].plan = IF prefix = <<>> THEN <<>> ELSE plan,
                             ![r].safe = IF prefix = <<>> THEN 0
                                         ELSE Cardinality(safeToReplay(plan, run[r].loaded))]
  /\ UNCHANGED <<graphs, saved, day, failures>>
------------------------------------------------------------------------------
(* Running. *)

\* The step an action leaves in the history, with the page it leads to.
after(action, page, seen) == ActionNode(action, Leads[action][page], seen)

\* The pages that actions lead to, one after the other, from the page they start on.
visits(actions, start) ==
  {pages \in [DOMAIN actions -> Pages] : \A i \in DOMAIN actions :
     pages[i] = Leads[actions[i]][IF i = 1 THEN start ELSE pages[i - 1]]}

did(r, action, seen) ==
  [run EXCEPT ![r].page = Leads[action][@],
              ![r].history = Append(@, after(action, run[r].page, seen))]

\* A browser that is attached to may show any page when the run starts.
\* A whole template wins over everything and ends the run, which then stores
\* nothing; otherwise a matched prefix wins over the initial navigation.
StartBrowser(r) ==
  /\ run[r].at = "browser"
  /\ \/ run' = [run EXCEPT ![r] = NoRun]
     \/ \E page \in StartPages :
          LET ready == [run EXCEPT ![r].page = page]
          IN IF run[r].prefix # <<>> THEN run' = [ready EXCEPT ![r].at = "replay"]
             ELSE \/ run' = [ready EXCEPT ![r].at = "loop"]
                  \/ \E seen \in Kept :
                       run' = [ready EXCEPT ![r].at = "loop",
                                 ![r].page = Leads[InitialUrl][page],
                                 ![r].history = <<after(InitialUrl, page, seen)>>]
  /\ UNCHANGED <<graphs, saved, day, failures>>

\* Replayed steps leave no screenshot.  A node that fails stays in the history,
\* and the model goes on from there; the user may reject a risky one.
Replay(r) ==
  LET n == Len(run[r].history) + 1
      node == run[r].prefix[n]
  IN /\ run[r].at = "replay"
     /\ n <= Len(run[r].prefix)
     /\ \E readable \in BOOLEAN :
          IF ~verify(node, run[r].page, readable) THEN goto(r, "loop")
          ELSE \/ run' = did(r, node.action, FALSE)
               \/ run' = [run EXCEPT ![r].at = "loop", ![r].history =
                            Append(@, ActionNode(node.action, run[r].page, FALSE))]
               \/ run' = [run EXCEPT ![r] = NoRun]
     /\ UNCHANGED <<graphs, saved, day, failures>>

ReplayDone(r) ==
  /\ run[r].at = "replay"
  /\ Len(run[r].history) = Len(run[r].prefix)
  /\ goto(r, "loop")
  /\ UNCHANGED <<graphs, saved, day, failures>>

\* Mutated: the loop may take one step more than MaxSteps.
WrongRunLoop(r) ==
  /\ run[r].at = "loop"
  /\ \/ run' = [run EXCEPT ![r] = NoRun]
     \/ /\ saved < Cardinality(Procedures)
        /\ \E actions \in Deeds, seen \in Kept :
             /\ Len(run[r].history) + Len(actions) \in 2 .. MaxSteps + 1
             /\ \E pages \in visits(actions, run[r].page) :
                  run' = [run EXCEPT ![r].at = "sweep", ![r].page = Blank,
                            ![r].history = @ \o [i \in DOMAIN actions |->
                                                   ActionNode(actions[i], pages[i], seen)],
                            ![r].prefix = <<>>, ![r].plan = <<>>, ![r].safe = 0]
  /\ UNCHANGED <<graphs, saved, day, failures>>

\* The loop works on the browser alone, and so is one step: whatever the model
\* did, its screenshots kept or dropped.  A run that does not succeed stores
\* nothing, nor does one of fewer than two steps.
RunLoop(r) ==
  /\ run[r].at = "loop"
  /\ \/ run' = [run EXCEPT ![r] = NoRun]
     \/ /\ saved < Cardinality(Procedures)
        /\ \E actions \in Deeds, seen \in Kept :
             /\ Len(run[r].history) + Len(actions) \in 2 .. MaxSteps
             /\ \E pages \in visits(actions, run[r].page) :
                  run' = [run EXCEPT ![r].at = "sweep", ![r].page = Blank,
                            ![r].history = @ \o [i \in DOMAIN actions |->
                                                   ActionNode(actions[i], pages[i], seen)],
                            ![r].prefix = <<>>, ![r].plan = <<>>, ![r].safe = 0]
  /\ UNCHANGED <<graphs, saved, day, failures>>
------------------------------------------------------------------------------
(* Saving. *)

expired(g) == g.live /\ g.used + TtlDays < day

\* The sweep takes the graph's own node away and leaves its action nodes, which
\* nothing leads to any more.  An error in it is swallowed.
SweepExpired(r) ==
  /\ run[r].at = "sweep"
  /\ goto(r, "graph")
  /\ \/ /\ graphs' = [p \in Procedures |->
                        IF expired(graphs[p])
                        THEN [graphs[p] EXCEPT !.live = FALSE, !.starts = FALSE] ELSE graphs[p]]
        /\ UNCHANGED failures
     \/ fail /\ UNCHANGED graphs
  /\ UNCHANGED <<saved, day>>

CreateGraph(r) ==
  /\ run[r].at = "graph"
  /\ saved < Cardinality(Procedures)
  /\ saved' = saved + 1
  /\ graphs' = [graphs EXCEPT ![saved'] = [NoGraph EXCEPT
                  !.live = TRUE, !.owner = run[r].user, !.given = run[r].history, !.used = day]]
  /\ run' = [run EXCEPT ![r].at = "nodes", ![r].graph = saved', ![r].k = 1]
  /\ UNCHANGED <<day, failures>>

\* The statement matches the graph first: without it nothing is created.
CreateNode(r) ==
  LET p == run[r].graph IN
  /\ run[r].at = "nodes"
  /\ graphs' = IF graphs[p].live
               THEN [graphs EXCEPT ![p].nodes = Append(@, run[r].history[run[r].k])] ELSE graphs
  /\ run' = IF run[r].k = Len(run[r].history)
            THEN [run EXCEPT ![r].at = "start", ![r].k = 1] ELSE [run EXCEPT ![r].k = @ + 1]
  /\ UNCHANGED <<saved, day, failures>>

CreateStartsWith(r) ==
  LET p == run[r].graph IN
  /\ run[r].at = "start"
  /\ graphs' = [graphs EXCEPT ![p].starts = graphs[p].live /\ graphs[p].nodes # <<>>]
  /\ goto(r, "edges")
  /\ UNCHANGED <<saved, day, failures>>

CreateNext(r) ==
  LET p == run[r].graph
      k == run[r].k
  IN /\ run[r].at = "edges"
     /\ k < Len(run[r].history)
     /\ graphs' = [graphs EXCEPT ![p].edges =
                     IF {k, k + 1} \subseteq DOMAIN graphs[p].nodes THEN @ \union {k} ELSE @,
                                 ![p].over = k + 1 = Len(run[r].history)]
     /\ run' = IF k + 1 = Len(run[r].history)
               THEN [run EXCEPT ![r] = NoRun] ELSE [run EXCEPT ![r].k = @ + 1]
     /\ UNCHANGED <<saved, day, failures>>

\* The error ends the save where it stands; the run itself has succeeded.  A query that
\* fails after its effect leaves what this one leaves at the next query.
SaveFails(r) ==
  /\ run[r].at \in {"graph", "nodes", "start", "edges"}
  /\ run' = [run EXCEPT ![r] = NoRun]
  /\ fail
  /\ UNCHANGED <<graphs, saved, day>>

Tick ==
  /\ day < MaxDay
  /\ day' = day + 1
  /\ UNCHANGED <<graphs, run, saved, failures>>

Next ==
  \/ Tick
  \/ \E r \in Runs :
       \/ Begin(r) \/ LoadRows(r) \/ LoadChain(r) \/ LoadFails(r) \/ Match(r)
       \/ StartBrowser(r) \/ Replay(r) \/ ReplayDone(r) \/ RunLoop(r)
       \/ SweepExpired(r) \/ CreateGraph(r) \/ CreateNode(r) \/ CreateStartsWith(r)
       \/ CreateNext(r) \/ SaveFails(r)

Spec == Init /\ [][Next]_vars
------------------------------------------------------------------------------
(* Properties. *)

NodeSet == [action : Actions, page : Pages, seen : BOOLEAN]

\* Type invariant.
TypeOK ==
  /\ saved \in 0 .. Cardinality(Procedures)
  /\ day \in 0 .. MaxDay
  /\ failures \in 0 .. MaxFailures
  /\ \A p \in Procedures :
       /\ graphs[p].given \in BoundedSeq(NodeSet, MaxSteps)
       /\ graphs[p].edges \subseteq 1 .. MaxSteps - 1
       /\ graphs[p].used \in 0 .. day
       /\ graphs[p].live => graphs[p].owner \in Users
  /\ \A r \in Runs :
       /\ run[r].history \in BoundedSeq(NodeSet, MaxSteps)
       /\ run[r].graph \in 0 .. saved
       /\ run[r].page \in Pages

\* A graph is saved in many queries and read in several.  What a reader gets of
\* one whose save came to its end is the whole procedure, however old it was:
\* reading its row renews its lease before the walk, so that no sweep of another
\* run takes the chain away in between.  Only a save that is under way or that
\* failed shows a part.
HalfLoadedWasHalfSaved ==
  \A r \in Runs : run[r].at = "chains" /\ day <= run[r].since + TtlDays =>
    \A p \in Range(run[r].rows) : graphs[p].over => chain(graphs[p]) = graphs[p].given

\* What is replayed was earned: the steps a run replays are, place by place, the
\* first steps of one procedure that a run of the same user executed to a
\* successful end, and the first steps of the task it was asked for; and the
\* reuse report calls every one of them safe.
ReplayedWasEarned ==
  \A r \in Runs : run[r].prefix # <<>> =>
    LET n == Len(run[r].prefix) IN
    /\ \E p \in 1 .. saved :
         /\ graphs[p].owner = run[r].user
         /\ IsPrefix(run[r].prefix, graphs[p].given)
    /\ IsPrefix(hashes(run[r].prefix), run[r].plan)
    /\ n >= MinPrefix
    /\ n <= run[r].safe

\* What computer_use_loop.py:283 says of the check before a replayed node: it is
\* skipped for the very first one, which therefore always runs.
FirstNodeIsReplayed ==
  \A r \in Runs : run[r].at = "loop" /\ run[r].prefix # <<>> => run[r].history # <<>>
==============================================================================
