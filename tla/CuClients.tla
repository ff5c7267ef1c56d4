------------------------------ MODULE CuClients ------------------------------
(***************************************************************************)
(* The three Computer Use clients behind the CuClient protocol, driven by  *)
(* the step loop of the runner: Gemini (agent/routing/models/gemini_cu.py),*)
(* which keeps the conversation and trims it before every request,         *)
(* browser-use (browser_use_client.py), which keeps an agent it builds on  *)
(* demand, and the scripted client of demonstrations.  What a model        *)
(* answers is free: a tool the client knows, one it does not know, a call  *)
(* without its arguments or its id, or no call at all.                     *)
(*                                                                         *)
(* The page is the number of effects the runner has had on it: a           *)
(* screenshot shows the page of the moment it was taken.                   *)
(*                                                                         *)
(* An operator whose name starts with Wrong is a version of the definition *)
(* after it with a plausible bug, which a property must be able to see.    *)
(***************************************************************************)
EXTENDS Integers, Sequences

CONSTANTS
  Backends,    \* clients the environment may choose
  Keep,        \* historyKeepTurns
  MaxSteps,    \* maxSteps of the runner
  MaxRetries,  \* maxRetriesPerStep
  FirstSteps,  \* steps a run may have recorded before its loop
  Fragments,   \* step indices at which a stored fragment may be replayed
  GeminiCalls, \* tools Gemini is seen to call
  AgentCalls,  \* actions the browser-use agent is seen to take
  Script       \* action types of the scripted client

ASSUME BackendAssumption == Backends \subseteq {"gemini", "browser_use", "mock"}
ASSUME BoundAssumption ==
  /\ Keep \in Nat /\ MaxSteps \in Nat /\ MaxRetries \in Nat
  /\ FirstSteps \subseteq 0 .. MaxSteps

ActionTypes == {"open_browser", "click_at", "type_at", "key_combo", "scroll_at",
                "wait", "navigate", "finish"}
Args == {"coordinate", "text", "keys", "url"}
None == "none"

\* _NAME_TO_TYPE of each adapter: the tool names that stand for an action type.
GeminiNames ==
  [open_browser |-> {"open_web_browser"}, click_at |-> {"click_at"},
   type_at |-> {"type_text_at", "type_text"}, key_combo |-> {"key_combination"},
   scroll_at |-> {"scroll_at", "scroll"}, wait |-> {"wait", "wait_5_seconds"},
   navigate |-> {"navigate", "go_to_url"}, finish |-> {"finished", "task_complete"}]
AgentNames ==
  [click_at |-> {"click_element_by_index", "click_element"},
   type_at |-> {"input_text", "type_text"}, key_combo |-> {"send_keys", "key_combination"},
   scroll_at |-> {"scroll_down", "scroll_up", "scroll"}, wait |-> {"wait"},
   navigate |-> {"go_to_url", "navigate"}, finish |-> {"done", "finished"}]

ASSUME CallAssumption ==
  \A called \in GeminiCalls \union AgentCalls : called.args \subseteq Args

typeOf(names, tool, default) ==
  IF \E t \in DOMAIN names : tool \in names[t]
  THEN CHOOSE t \in DOMAIN names : tool \in names[t]
  ELSE default

ASSUME ScriptAssumption == Script \in Seq(ActionTypes)

VARIABLES
  backend,  \* CUTIEE_CU_BACKEND, or "mock" for the scripted client
  phase,    \* where the runner stands
  index,    \* stepIndex
  attempts, \* attempts at this step
  page,     \* effects the runner has had on the page
  shown,    \* the page of the screenshot that the runner holds
  history,  \* Gemini: the conversation
  pending,  \* Gemini: the call that waits for its response; 0 for none
  agent,    \* browser-use: whether the agent is built
  asks,     \* requests made
  action,   \* the action the last answer was translated to
  reason    \* class of completionReason; None while the run goes on

vars == <<backend, phase, index, attempts, page, shown, history, pending, agent, asks,
          action, reason>>
run == <<backend, index, attempts, page>>
client == <<history, pending, agent, asks, action>>

Action(type, args) == [type |-> type, args |-> args]
NoAction == Action("wait", {})

\* An entry of the conversation: "turn" numbers the call a model entry makes,
\* or the call a user entry responds to, and is 0 where there is none.
Entry(role, turn, at) == [role |-> role, turn |-> turn, page |-> at]

Init ==
  /\ backend \in Backends /\ index \in FirstSteps
  /\ phase = "build" /\ attempts = 0 /\ page = 0 /\ shown = 0
  /\ history = <<>> /\ pending = 0 /\ agent = FALSE /\ asks = 0
  /\ action = NoAction /\ reason = None

\* markComplete, or an exception that leaves the loop.
end(why) == phase' = "done" /\ reason' = why

-----------------------------------------------------------------------------
(* Composition and seed. *)

\* _buildCuClientFromEnv, buildMockCuRunner.
BuildClient ==
  /\ phase = "build" /\ phase' = "prime"
  /\ UNCHANGED <<run, client, shown, reason>>

\* No key, the package is not installed, or the SDK cannot be imported.
BuildRaises ==
  /\ phase = "build" /\ backend # "mock" /\ end("raised")
  /\ UNCHANGED <<run, client, shown>>

\* The first lines of _runLoop, and primeTask of the three clients.
PrimeTask ==
  /\ phase = "prime" /\ phase' = "step"
  /\ shown' = page
  /\ history' = IF backend = "gemini" THEN <<Entry("seed", 0, page)>> ELSE history
  /\ pending' = 0 /\ agent' = FALSE
  /\ UNCHANGED <<run, asks, action, reason>>

-----------------------------------------------------------------------------
(* The loop around the client. *)

Exhausted ==
  /\ phase = "step" /\ index >= MaxSteps /\ attempts = 0
  /\ end("max_steps_reached")
  /\ UNCHANGED <<run, client, shown>>

\* A stored fragment takes the place of the model for one step.
ReplayFragment ==
  /\ phase = "step" /\ index < MaxSteps /\ attempts = 0 /\ index \in Fragments
  /\ \/ /\ page' = page + 1 /\ shown' = page + 1
        /\ index' = index + 1
        /\ UNCHANGED <<phase, reason>>
     \/ /\ page' \in {page, page + 1} /\ shown' = page'
        /\ end("replay_fragment_failed")
        /\ UNCHANGED index
     \/ /\ shown' = page /\ end("stored_finish")
        /\ UNCHANGED <<page, index>>
  /\ UNCHANGED <<client, backend, attempts>>

\* CAPTCHA and preflight before the request; caps, heartbeat and the gate after it.
GuardStops ==
  /\ phase \in {"step", "gate"} /\ end("stopped")
  /\ UNCHANGED <<run, client, shown>>

-----------------------------------------------------------------------------
(* nextAction of the Gemini client. *)

\* Two entries are kept for each turn, the screenshot not yet answered included.
WrongTrim(conversation) ==
  IF Len(conversation) <= 2 * Keep + 1 THEN conversation
  ELSE <<conversation[1]>>
         \o SubSeq(conversation, Len(conversation) - 2 * Keep + 2, Len(conversation))

\* The tail is as long as the whole bound, and the seed comes on top of it.
WrongTail(conversation) ==
  IF Len(conversation) <= 2 * Keep + 1 THEN conversation
  ELSE <<conversation[1]>>
         \o SubSeq(conversation, Len(conversation) - 2 * Keep, Len(conversation))

\* _trimHistory: the seed and the last 2 * Keep entries.  In Python a slice that
\* starts at -0 is the whole list.
trimmed(conversation) ==
  LET tail == IF Keep = 0 THEN Len(conversation) ELSE 2 * Keep
  IN  IF Len(conversation) <= 2 * Keep + 1 THEN conversation
      ELSE <<conversation[1]>>
             \o SubSeq(conversation, Len(conversation) - tail + 1, Len(conversation))

AskGemini ==
  /\ phase = "step" /\ backend = "gemini" /\ index < MaxSteps
  /\ history' = trimmed(Append(history, Entry("user", pending, shown)))
  /\ asks' = asks + 1 /\ phase' = "answer"
  /\ UNCHANGED <<run, shown, pending, agent, action, reason>>

\* The request fails, or the reply has no candidate: nobody catches it.
GeminiRaises ==
  /\ phase = "answer" /\ backend = "gemini" /\ end("raised")
  /\ UNCHANGED <<run, client, shown>>

\* A call is answered next time only if the reply gave it an id.
pendingAfter(id) == IF id THEN asks ELSE 0

\* _actionFromFunctionCall.
fromFunctionCall(tool, args) ==
  LET type == typeOf(GeminiNames, tool, "finish")
  IN  Action(IF type = "click_at" /\ "coordinate" \notin args THEN "finish" ELSE type, args)

\* A reply is assumed to make one call: the code reads the first and answers no other.
GeminiCalled(tool, id, args) ==
  /\ phase = "answer" /\ backend = "gemini" /\ phase' = "gate"
  /\ history' = Append(history, Entry("model", IF id THEN asks ELSE 0, shown))
  /\ pending' = pendingAfter(id)
  /\ action' = fromFunctionCall(tool, args)
  /\ UNCHANGED <<run, shown, agent, asks, reason>>

\* The reply is text only: taken for the end of the task.
GeminiCalledNothing ==
  /\ phase = "answer" /\ backend = "gemini" /\ phase' = "gate"
  /\ history' = Append(history, Entry("model", 0, shown))
  /\ pending' = pendingAfter(FALSE)
  /\ action' = Action("finish", {})
  /\ UNCHANGED <<run, shown, agent, asks, reason>>

-----------------------------------------------------------------------------
(* nextAction of the other two clients. *)

\* _buildAgent, outside the try: a failing import ends the run.
BuildAgentRaises ==
  /\ phase = "step" /\ backend = "browser_use" /\ index < MaxSteps /\ ~agent
  /\ end("raised")
  /\ UNCHANGED <<run, client, shown>>

\* _toCanonicalAction: a step without a name is "done", an unknown name a wait,
\* and a navigation without a target goes to the current page.
toCanonicalAction(tool, args) ==
  LET type == typeOf(AgentNames, IF tool = None THEN "done" ELSE tool, "wait")
  IN  Action(type, CASE type \in {"click_at", "type_at"} -> args \intersect {"coordinate", "text"}
                     [] type = "key_combo" -> args \intersect {"keys"}
                     [] type = "navigate" -> {"url"}
                     [] OTHER -> {})

AgentStepped(tool, args) ==
  /\ phase = "step" /\ backend = "browser_use" /\ index < MaxSteps
  /\ agent' = TRUE /\ asks' = asks + 1 /\ phase' = "gate"
  /\ action' = toCanonicalAction(tool, args)
  /\ UNCHANGED <<run, shown, history, pending, reason>>

\* What the agent did is read outside the try: a point that is no number ends the run.
AgentStepUnreadable ==
  /\ phase = "step" /\ backend = "browser_use" /\ index < MaxSteps
  /\ agent' = TRUE /\ asks' = asks + 1 /\ end("raised")
  /\ UNCHANGED <<run, shown, history, pending, action>>

\* Whatever the agent raises becomes a finish.
AgentStepFailed ==
  /\ phase = "step" /\ backend = "browser_use" /\ index < MaxSteps
  /\ agent' = TRUE /\ asks' = asks + 1 /\ phase' = "gate"
  /\ action' = Action("finish", {})
  /\ UNCHANGED <<run, shown, history, pending, reason>>

\* The scripted actions in their order, and then finish.
MockAnswers ==
  /\ phase = "step" /\ backend = "mock" /\ index < MaxSteps
  /\ LET type == IF asks < Len(Script) THEN Script[asks + 1] ELSE "finish"
     IN  action' = Action(type, Args)
  /\ asks' = asks + 1 /\ phase' = "gate"
  /\ UNCHANGED <<run, shown, history, pending, agent, reason>>

-----------------------------------------------------------------------------
(* BrowserController.execute and what the loop does with its result. *)

executable(a) ==
  CASE a.type = "click_at" -> "coordinate" \in a.args
    [] a.type = "key_combo" -> a.args \intersect {"keys", "text"} # {}
    [] a.type = "navigate" -> "url" \in a.args
    [] OTHER -> TRUE

\* Finish does nothing in the browser; its reasoning ends the run.
Finish ==
  /\ phase = "gate" /\ action.type = "finish" /\ shown' = page
  /\ end("finish")
  /\ UNCHANGED <<run, client>>

Succeed ==
  /\ phase = "gate" /\ action.type # "finish" /\ executable(action)
  /\ page' = page + 1 /\ shown' = page + 1
  /\ index' = index + 1 /\ attempts' = 0 /\ phase' = "step"
  /\ UNCHANGED <<client, backend, reason>>

\* The retry is made with the screenshot of the first attempt.
WrongFail ==
  /\ phase = "gate" /\ action.type # "finish"
  /\ page' \in IF executable(action) THEN {page, page + 1} ELSE {page}
  /\ IF attempts < MaxRetries
     THEN phase' = "step" /\ attempts' = attempts + 1 /\ UNCHANGED reason
     ELSE end("action_failed") /\ UNCHANGED attempts
  /\ UNCHANGED <<client, backend, index, shown>>

\* A failing action may have had its effect or a part of it, a click before
\* the text say; one without its arguments has none.
Fail ==
  /\ phase = "gate" /\ action.type # "finish"
  /\ page' \in IF executable(action) THEN {page, page + 1} ELSE {page}
  /\ shown' = page'
  /\ IF attempts < MaxRetries
     THEN phase' = "step" /\ attempts' = attempts + 1 /\ UNCHANGED reason
     ELSE end("action_failed") /\ UNCHANGED attempts
  /\ UNCHANGED <<client, backend, index>>

Done == phase = "done" /\ UNCHANGED vars

Next ==
  \/ BuildClient \/ BuildRaises \/ PrimeTask \/ Exhausted \/ ReplayFragment \/ GuardStops
  \/ AskGemini \/ GeminiRaises \/ GeminiCalledNothing
  \/ \E call \in GeminiCalls, id \in BOOLEAN : GeminiCalled(call.tool, id, call.args)
  \/ BuildAgentRaises \/ AgentStepUnreadable \/ AgentStepFailed \/ MockAnswers
  \/ \E call \in AgentCalls : AgentStepped(call.tool, call.args)
  \/ Finish \/ Succeed \/ Fail \/ Done

Spec == Init /\ [][Next]_vars

-----------------------------------------------------------------------------
\* Every variable stays in its domain: in particular the conversation does not
\* outgrow the seed, the turns kept and the reply to come, unless none is kept:
\* then nothing is ever dropped.
TypeOK ==
  /\ backend \in Backends
  /\ phase \in {"build", "prime", "step", "answer", "gate", "done"}
  /\ index \in 0 .. MaxSteps /\ attempts \in 0 .. MaxRetries
  /\ page \in Nat /\ shown \in Nat /\ asks \in Nat /\ pending \in 0 .. asks
  /\ history \in Seq([role : {"seed", "user", "model"}, turn : 0 .. asks, page : 0 .. page])
  /\ Keep > 0 => Len(history) <= 2 * Keep + 2
  /\ agent \in BOOLEAN
  /\ action \in [type : ActionTypes, args : SUBSET Args]
  /\ reason \in {None, "finish", "raised", "stopped", "action_failed",
                 "stored_finish", "replay_fragment_failed", "max_steps_reached"}

\* A request that Gemini can read, however often the conversation was trimmed:
\* it starts with the goal and ends with a screenshot; a function response stands
\* directly behind the call it answers, and every call kept that had an id is
\* answered.  The code trims between the append of the screenshot and the request.
RequestIsWellFormed ==
  phase = "answer" =>
    /\ history[1].role = "seed" /\ history[Len(history)].role = "user"
    /\ \A i \in 2 .. Len(history) :
         /\ history[i].role # "seed"
         /\ history[i].role = "user" /\ history[i].turn # 0 =>
              history[i - 1].role = "model" /\ history[i - 1].turn = history[i].turn
         /\ history[i].role = "model" => history[i + 1].role = "user"
                                         /\ history[i + 1].turn = history[i].turn

\* The model is asked about the page as the runner's last action left it, be it
\* the model's, a replayed fragment's or an attempt that failed half way: the
\* loop carries one screenshot through three routines.
AskedAboutTheCurrentPage ==
  phase = "answer" => history[Len(history)].page = page
=============================================================================
