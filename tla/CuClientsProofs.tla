--------------------------- MODULE CuClientsProofs ---------------------------
(***************************************************************************)
(* Theorems about CuClients, for every number of steps, retries and turns  *)
(* kept, every tool the models may call and every script: the model is     *)
(* asked about the page as it is, and Gemini's conversation stays readable *)
(* however often it is trimmed.                                            *)
(***************************************************************************)
EXTENDS CuClients, SequenceTheorems, TLAPS

\* The entries a conversation may have once so many requests were made and the
\* page has had so many effects.
Entries(requests, effects) ==
  [role : {"seed", "user", "model"}, turn : 0 .. requests, page : 0 .. effects]

\* What keeps the requests about the page: the runner's screenshot is fresh
\* wherever a client may be asked, only Gemini is ever waited for, and its
\* conversation, once trimmed, has room for the reply and ends with the page.
ClientInv ==
  /\ TypeOK
  /\ phase \in {"step", "answer", "gate"} => shown = page
  /\ phase \in {"answer", "gate"} => index < MaxSteps
  /\ phase = "answer" =>
       /\ backend = "gemini" /\ Len(history) >= 1
       /\ Keep > 0 => Len(history) <= 2 * Keep + 1
  /\ AskedAboutTheCurrentPage

\* A conversation: the seed, and then screenshots and replies, where a response
\* stands behind its call and a call before its response.
Conversation(h) ==
  /\ Len(h) >= 1 /\ h[1].role = "seed"
  /\ \A i \in 2 .. Len(h) :
       /\ h[i].role \in {"user", "model"}
       /\ h[i].role = "user" /\ h[i].turn # 0 =>
            i > 2 /\ h[i - 1].role = "model" /\ h[i - 1].turn = h[i].turn
       /\ h[i].role = "model" /\ i < Len(h) =>
            h[i + 1].role = "user" /\ h[i + 1].turn = h[i].turn

\* Counted from its end, the entries behind the seed alternate.
Alternate(h, last, other) ==
  \A k \in Nat :
    /\ Len(h) - 2 * k >= 2 => h[Len(h) - 2 * k].role = last
    /\ Len(h) - 2 * k >= 3 => h[Len(h) - 2 * k - 1].role = other

\* Between two requests the conversation ends with the reply whose call, if it
\* made one, the next screenshot answers; during a request, with a screenshot.
ConversationInv ==
  backend = "gemini" =>
    /\ phase \in {"step", "answer", "gate"} => Conversation(history)
    /\ phase \in {"step", "gate"} =>
         /\ Alternate(history, "model", "user")
         /\ pending # 0 => Len(history) > 1
         /\ Len(history) > 1 => pending = history[Len(history)].turn
    /\ phase = "answer" => Len(history) >= 2 /\ Alternate(history, "user", "model")

-----------------------------------------------------------------------------
(* What the helpers of the clients return. *)

\* A tool name stands for an action type, or for the adapter's default.
LEMMA TypeOfTool ==
  ASSUME NEW tool, NEW default \in ActionTypes
  PROVE  /\ typeOf(GeminiNames, tool, default) \in ActionTypes
         /\ typeOf(AgentNames, tool, default) \in ActionTypes
<1>1. DOMAIN GeminiNames \subseteq ActionTypes /\ DOMAIN AgentNames \subseteq ActionTypes
  BY DEF GeminiNames, AgentNames, ActionTypes
<1> QED
  BY <1>1 DEF typeOf

\* Both adapters translate whatever was called into an action of the program,
\* with no argument the call did not carry but the page's own url.
LEMMA TranslatedCall ==
  ASSUME NEW tool, NEW args \in SUBSET Args
  PROVE  /\ fromFunctionCall(tool, args) \in [type : ActionTypes, args : SUBSET Args]
         /\ toCanonicalAction(tool, args) \in [type : ActionTypes, args : SUBSET Args]
<1>1. "finish" \in ActionTypes /\ "wait" \in ActionTypes
  BY DEF ActionTypes
<1>2. fromFunctionCall(tool, args) \in [type : ActionTypes, args : SUBSET Args]
  BY <1>1, TypeOfTool DEF fromFunctionCall, Action
<1>3. toCanonicalAction(tool, args) \in [type : ActionTypes, args : SUBSET Args]
  <2> DEFINE name == IF tool = None THEN "done" ELSE tool
             type == typeOf(AgentNames, name, "wait")
             kept == CASE type \in {"click_at", "type_at"} -> args \intersect {"coordinate", "text"}
                       [] type = "key_combo" -> args \intersect {"keys"}
                       [] type = "navigate" -> {"url"}
                       [] OTHER -> {}
  <2>1. type \in ActionTypes
    BY <1>1, TypeOfTool
  <2>2. kept \in SUBSET Args
    BY DEF Args
  <2>3. toCanonicalAction(tool, args) = [type |-> type, args |-> kept]
    BY DEF toCanonicalAction, Action
  <2> QED
    BY <2>1, <2>2, <2>3
<1> QED
  BY <1>2, <1>3

\* _trimHistory keeps the seed in front and, position by position from the end,
\* the entries that were there; with turns to keep, no more than their bound.
LEMMA Trimmed ==
  ASSUME NEW S, NEW c \in Seq(S), Len(c) >= 1
  PROVE  /\ trimmed(c) \in Seq(S) /\ Len(trimmed(c)) >= 1
         /\ trimmed(c)[1] = c[1]
         /\ trimmed(c)[Len(trimmed(c))] = c[Len(c)]
         /\ Keep > 0 =>
              /\ Len(trimmed(c)) <= 2 * Keep + 1 /\ Len(trimmed(c)) <= Len(c)
              /\ Len(trimmed(c)) < Len(c) => Len(trimmed(c)) = 2 * Keep + 1
              /\ \A j \in 2 .. Len(trimmed(c)) :
                   trimmed(c)[j] = c[Len(c) - Len(trimmed(c)) + j]
<1> DEFINE tail == IF Keep = 0 THEN Len(c) ELSE 2 * Keep
           last == SubSeq(c, Len(c) - tail + 1, Len(c))
<1>1. Keep \in Nat /\ Len(c) \in Nat /\ c[1] \in S
  BY BoundAssumption, ElementOfSeq DEF BoundAssumption
<1>2. CASE Len(c) <= 2 * Keep + 1
  <2>1. trimmed(c) = c
    BY <1>2 DEF trimmed
  <2> QED
    BY <1>1, <1>2, <2>1
<1>3. CASE Len(c) > 2 * Keep + 1
  <2>1. trimmed(c) = <<c[1]>> \o last
    <3>1. ~(Len(c) <= 2 * Keep + 1)
      BY <1>1, <1>3
    <3> QED
      BY <3>1, Zenon DEF trimmed
  <2>2. tail \in 1 .. Len(c)
    BY <1>1, <1>3
  <2> HIDE DEF tail
  <2>3. \A i \in Len(c) - tail + 1 .. Len(c) : c[i] \in S
    BY <1>1, <2>2, ElementOfSeq
  <2>4. /\ last \in Seq(S) /\ Len(last) = tail
        /\ \A i \in 1 .. tail : last[i] = c[Len(c) - tail + i]
    <3> DEFINE m == Len(c) - tail + 1
               n == Len(c)
    <3>1. m \in Int /\ n \in Int /\ m <= n /\ n - m + 1 = tail
      BY <1>1, <2>2
    <3>2. /\ SubSeq(c, m, n) \in Seq(S) /\ Len(SubSeq(c, m, n)) = IF m <= n THEN n - m + 1 ELSE 0
          /\ \A i \in 1 .. n - m + 1 : SubSeq(c, m, n)[i] = c[m + i - 1]
      <4> HIDE DEF m, n
      <4>1. \A i \in m .. n : c[i] \in S
        BY <2>3 DEF m, n
      <4> QED
        BY <3>1, <4>1, SubSeqProperties
    <3>3. \A i \in 1 .. tail : m + i - 1 = Len(c) - tail + i
      BY <1>1, <2>2
    <3> QED
      BY <3>1, <3>2, <3>3
  <2>5. <<c[1]>> \in Seq(S) /\ Len(<<c[1]>>) = 1 /\ <<c[1]>>[1] = c[1]
    BY <1>1
  <2> DEFINE both == <<c[1]>> \o last
  <2> HIDE DEF last
  <2>6. /\ both \in Seq(S) /\ Len(both) = 1 + tail
        /\ \A i \in 1 .. 1 + tail : both[i] = IF i <= 1 THEN c[1] ELSE last[i - 1]
    BY <2>2, <2>4, <2>5, ConcatProperties
  <2> HIDE DEF both
  <2>7. both[1] = c[1] /\ \A j \in 2 .. 1 + tail : both[j] = c[Len(c) - (1 + tail) + j]
    <3>1. ASSUME NEW j \in 2 .. 1 + tail
          PROVE  both[j] = c[Len(c) - (1 + tail) + j]
      <4>1. j - 1 \in 1 .. tail /\ ~(j <= 1) /\ j \in 1 .. 1 + tail
        BY <2>2
      <4>2. both[j] = last[j - 1] /\ last[j - 1] = c[Len(c) - tail + (j - 1)]
        BY <2>4, <2>6, <4>1
      <4>3. Len(c) - tail + (j - 1) = Len(c) - (1 + tail) + j
        BY <1>1, <2>2
      <4> QED
        BY <4>2, <4>3
    <3> QED
      BY <2>2, <2>6, <3>1
  <2>8. both[1 + tail] = c[Len(c)]
    BY <1>1, <2>2, <2>7
  <2>9. Keep > 0 => tail = 2 * Keep
    BY <1>1 DEF tail
  <2>10. trimmed(c) = both
    BY <2>1 DEF both
  <2>11. Len(both) >= 1 /\ Len(both) = 1 + tail /\ both \in Seq(S)
    BY <2>2, <2>6
  <2>12. Keep > 0 => 1 + tail = 2 * Keep + 1 /\ 1 + tail <= Len(c)
    BY <1>1, <1>3, <2>9
  <2> QED
    BY <2>7, <2>8, <2>10, <2>11, <2>12
<1> QED
  BY <1>1, <1>2, <1>3
-----------------------------------------------------------------------------
\* Every variable keeps its type and every request shows the page as it is.
LEMMA ClientInvariant == Spec => []ClientInv
<1> USE BackendAssumption, BoundAssumption, CallAssumption, ScriptAssumption
    DEF BackendAssumption, BoundAssumption, CallAssumption, ScriptAssumption,
        None, run, client, end
<1>1. Init => ClientInv
  <2> SUFFICES ASSUME Init PROVE ClientInv
    OBVIOUS
  <2>1. action \in [type : ActionTypes, args : SUBSET Args]
    BY DEF Init, NoAction, Action, ActionTypes, Args
  <2>2. history \in Seq(Entries(asks, page)) /\ Len(history) = 0
    BY DEF Init
  <2>3. agent = FALSE /\ index \in 0 .. MaxSteps /\ attempts \in 0 .. MaxRetries
    BY DEF Init
  <2>4. page = 0 /\ shown = 0 /\ asks = 0 /\ pending = 0 /\ phase = "build" /\ reason = None
    BY DEF Init
  <2>5. TypeOK
    <3>1. history \in Seq([role : {"seed", "user", "model"}, turn : 0 .. asks, page : 0 .. page])
      BY <2>2 DEF Entries
    <3>2. backend \in Backends
      BY DEF Init
    <3>3. agent \in BOOLEAN
      BY <2>3, Zenon
    <3>4. page \in Nat /\ shown \in Nat /\ asks \in Nat /\ pending \in 0 .. asks
      BY <2>4
    <3> QED
      BY <2>1, <2>2, <2>3, <2>4, <3>1, <3>2, <3>3, <3>4 DEF TypeOK
  <2> QED
    BY <2>4, <2>5 DEF ClientInv, AskedAboutTheCurrentPage
<1>2. ClientInv /\ [Next]_vars => ClientInv'
  <2> SUFFICES ASSUME ClientInv, [Next]_vars PROVE ClientInv'
    OBVIOUS
  <2>0. history \in Seq(Entries(asks, page)) /\ Len(history) \in Nat /\ asks \in Nat /\ page \in Nat
    BY DEF ClientInv, TypeOK, Entries
  \* What a later request or effect leaves of the type of the conversation.
  <2>a. ASSUME NEW a \in Nat, NEW p \in Nat, asks <= a, page <= p
        PROVE  history \in Seq(Entries(a, p))
    <3>1. Entries(asks, page) \subseteq Entries(a, p)
      BY <2>0, <2>a DEF Entries
    <3> QED
      BY <2>0, <3>1, SeqMonotonic
  <2>1. CASE BuildClient \/ BuildRaises
    BY <2>1 DEF BuildClient, BuildRaises, ClientInv, TypeOK, AskedAboutTheCurrentPage
  <2>2. CASE PrimeTask
    <3>1. Entry("seed", 0, page) \in Entries(asks, page)
      BY <2>0 DEF Entry, Entries
    <3>2. history' \in Seq(Entries(asks, page)) /\ (Keep > 0 => Len(history') <= 2 * Keep + 2)
      BY <2>0, <2>2, <3>1 DEF PrimeTask, ClientInv, TypeOK
    <3>3. UNCHANGED <<run, asks, action, reason>> /\ agent' = FALSE /\ pending' \in 0 .. asks
      BY <2>0, <2>2 DEF PrimeTask
    <3>4. phase' = "step" /\ shown' = page
      BY <2>2 DEF PrimeTask
    <3> QED
      BY <3>2, <3>3, <3>4 DEF ClientInv, TypeOK, AskedAboutTheCurrentPage, Entries
  <2>3. CASE Exhausted \/ GuardStops \/ GeminiRaises \/ BuildAgentRaises
    BY <2>3 DEF Exhausted, GuardStops, GeminiRaises, BuildAgentRaises, ClientInv, TypeOK,
                AskedAboutTheCurrentPage
  <2>4. CASE ReplayFragment
    <3>1. page' \in Nat /\ page <= page' /\ shown' = page'
      BY <2>0, <2>4 DEF ReplayFragment
    <3>2. UNCHANGED <<backend, attempts, history, pending, agent, asks, action>>
      BY <2>4 DEF ReplayFragment
    <3>3. history' \in Seq(Entries(asks', page'))
      BY <2>0, <2>a, <3>1, <3>2
    <3>4. /\ index' \in 0 .. MaxSteps /\ phase' \in {"step", "done"}
          /\ reason' \in {reason, "replay_fragment_failed", "stored_finish"}
      BY <2>4 DEF ReplayFragment, ClientInv, TypeOK
    <3> QED
      BY <3>1, <3>2, <3>3, <3>4 DEF ClientInv, TypeOK, AskedAboutTheCurrentPage, Entries
  <2>5. CASE AskGemini
    <3> DEFINE new == Entry("user", pending, shown)
               asked == Append(history, new)
    <3>1. new \in Entries(asks', page) /\ asks' \in Nat /\ asks <= asks' /\ new.page = page
      BY <2>0, <2>5 DEF AskGemini, Entry, Entries, ClientInv, TypeOK
    <3> HIDE DEF new
    <3>2. history \in Seq(Entries(asks', page))
      BY <2>0, <2>a, <3>1
    <3>3. /\ asked \in Seq(Entries(asks', page)) /\ Len(asked) >= 1
          /\ asked[Len(asked)].page = page
      BY <3>1, <3>2
    <3> HIDE DEF asked
    <3>4. history' = trimmed(asked)
      BY <2>5 DEF AskGemini, asked, new
    <3>5. /\ history' \in Seq(Entries(asks', page)) /\ Len(history') >= 1
          /\ history'[Len(history')] = asked[Len(asked)]
          /\ Keep > 0 => Len(history') <= 2 * Keep + 1
      BY <3>3, <3>4, Trimmed
    <3>6. /\ UNCHANGED <<backend, index, attempts, page, shown, pending, agent, action, reason>>
          /\ asks' = asks + 1 /\ phase = "step" /\ phase' = "answer" /\ backend = "gemini"
          /\ index < MaxSteps
      BY <2>5 DEF AskGemini
    <3>7. TypeOK'
      BY <3>1, <3>5, <3>6 DEF ClientInv, TypeOK, Entries
    <3> QED
      BY <3>3, <3>5, <3>6, <3>7 DEF ClientInv, AskedAboutTheCurrentPage
  <2>6. ASSUME NEW turn \in 0 .. asks, phase = "answer", phase' = "gate",
               history' = Append(history, Entry("model", turn, shown)),
               UNCHANGED <<backend, index, attempts, page, shown, agent, asks, reason>>,
               pending' \in 0 .. asks,
               action' \in [type : ActionTypes, args : SUBSET Args]
        PROVE  ClientInv'
    <3>1. Entry("model", turn, shown) \in Entries(asks, page)
      BY <2>0, <2>6 DEF Entry, Entries, ClientInv
    <3>2. history' \in Seq(Entries(asks, page)) /\ Len(history') = Len(history) + 1
      BY <2>0, <2>6, <3>1
    <3> QED
      BY <2>0, <2>6, <3>2 DEF ClientInv, TypeOK, AskedAboutTheCurrentPage, Entries
  <2>7. ASSUME NEW called \in GeminiCalls, NEW id \in BOOLEAN,
               GeminiCalled(called.tool, id, called.args)
        PROVE  ClientInv'
    <3>1. action' \in [type : ActionTypes, args : SUBSET Args]
      BY <2>7, TranslatedCall DEF GeminiCalled
    <3>2. (IF id THEN asks ELSE 0) \in 0 .. asks
      BY <2>0
    <3> QED
      BY <2>6, <2>7, <3>1, <3>2 DEF GeminiCalled, pendingAfter
  <2>8. CASE GeminiCalledNothing
    <3>1. Action("finish", {}) \in [type : ActionTypes, args : SUBSET Args]
      BY DEF Action, ActionTypes
    <3>2. 0 \in 0 .. asks /\ pendingAfter(FALSE) = 0
      BY <2>0 DEF pendingAfter
    <3> QED
      BY <2>6, <2>8, <3>1, <3>2 DEF GeminiCalledNothing
  <2>9. ASSUME phase = "step", phase' = "gate", index < MaxSteps, asks' = asks + 1,
               UNCHANGED <<backend, index, attempts, page, shown, history, pending, reason>>,
               agent' \in BOOLEAN,
               action' \in [type : ActionTypes, args : SUBSET Args]
        PROVE  ClientInv'
    <3>1. history' \in Seq(Entries(asks', page'))
      BY <2>0, <2>a, <2>9
    <3> QED
      BY <2>0, <2>9, <3>1 DEF ClientInv, TypeOK, AskedAboutTheCurrentPage, Entries
  <2>10. ASSUME NEW called \in AgentCalls, AgentStepped(called.tool, called.args)
         PROVE  ClientInv'
    <3>1. action' \in [type : ActionTypes, args : SUBSET Args]
      BY <2>10, TranslatedCall DEF AgentStepped
    <3> QED
      BY <2>9, <2>10, <3>1 DEF AgentStepped
  <2>11. CASE AgentStepFailed
    <3>1. Action("finish", {}) \in [type : ActionTypes, args : SUBSET Args]
      BY DEF Action, ActionTypes
    <3> QED
      BY <2>9, <2>11, <3>1 DEF AgentStepFailed
  <2>12. CASE MockAnswers
    <3> DEFINE type == IF asks < Len(Script) THEN Script[asks + 1] ELSE "finish"
    <3>1. type \in ActionTypes
      BY <2>0 DEF ActionTypes
    <3>2. action' = Action(type, Args)
      BY <2>12 DEF MockAnswers
    <3>3. action' \in [type : ActionTypes, args : SUBSET Args]
      BY <3>1, <3>2 DEF Action
    <3>4. agent' \in BOOLEAN
      BY <2>12 DEF MockAnswers, ClientInv, TypeOK
    <3> QED
      BY <2>9, <2>12, <3>3, <3>4 DEF MockAnswers
  <2>13. CASE Finish
    BY <2>13 DEF Finish, ClientInv, TypeOK, AskedAboutTheCurrentPage
  <2>14. CASE Succeed
    <3>1. history' \in Seq(Entries(asks', page'))
      BY <2>0, <2>14, <2>a DEF Succeed
    <3> QED
      BY <2>0, <2>14, <3>1 DEF Succeed, ClientInv, TypeOK, AskedAboutTheCurrentPage, Entries
  <2>15. CASE Fail
    <3>1. page' \in Nat /\ page <= page' /\ shown' = page'
      BY <2>0, <2>15 DEF Fail
    <3>2. UNCHANGED <<backend, index, history, pending, agent, asks, action>>
      BY <2>15 DEF Fail
    <3>3. history' \in Seq(Entries(asks', page'))
      BY <2>0, <2>a, <3>1, <3>2
    <3>4. /\ attempts' \in 0 .. MaxRetries /\ phase' \in {"step", "done"}
          /\ reason' \in {reason, "action_failed"}
      BY <2>15 DEF Fail, ClientInv, TypeOK
    <3> QED
      BY <3>1, <3>2, <3>3, <3>4 DEF ClientInv, TypeOK, AskedAboutTheCurrentPage, Entries
  <2>16. CASE AgentStepUnreadable
    <3>1. /\ asks' = asks + 1 /\ agent' = TRUE /\ phase' = "done" /\ reason' = "raised"
          /\ UNCHANGED <<backend, index, attempts, page, shown, history, pending, action>>
      BY <2>16 DEF AgentStepUnreadable, end, run
    <3>2. history' \in Seq(Entries(asks', page'))
      BY <2>0, <2>a, <3>1
    <3> QED
      BY <2>0, <3>1, <3>2 DEF ClientInv, TypeOK, AskedAboutTheCurrentPage, Entries
  <2>17. CASE UNCHANGED vars
    BY <2>17 DEF vars, ClientInv, TypeOK, AskedAboutTheCurrentPage
  <2> QED
    BY <2>1, <2>2, <2>3, <2>4, <2>5, <2>7, <2>8, <2>10, <2>11, <2>12, <2>13, <2>14, <2>15, <2>16,
       <2>17
    DEF Next, Done
<1> QED
  BY <1>1, <1>2, PTL DEF Spec

\* The adapters keep their types, and with turns to keep the conversation never
\* outgrows the seed, the turns kept and the reply to come.
THEOREM TypeCorrect == Spec => []TypeOK
  BY ClientInvariant, PTL DEF ClientInv

\* The screenshot in a request to Gemini is that of the page as the runner's last
\* action, a replayed fragment's or a failed attempt's included, left it.
THEOREM RequestsShowThePage == Spec => []AskedAboutTheCurrentPage
  BY ClientInvariant, PTL DEF ClientInv
-----------------------------------------------------------------------------
(* Gemini's conversation. *)

\* A screenshot that answers the last reply's call, if it made one, keeps a
\* conversation a conversation.
LEMMA ScreenshotAppended ==
  ASSUME NEW S, NEW h \in Seq(S), NEW e \in S,
         Conversation(h), Alternate(h, "model", "user"),
         e.role = "user",
         e.turn # 0 => Len(h) > 1,
         Len(h) > 1 => e.turn = h[Len(h)].turn
  PROVE  /\ Conversation(Append(h, e)) /\ Alternate(Append(h, e), "user", "model")
         /\ Len(Append(h, e)) >= 2
<1> DEFINE g == Append(h, e)
<1>1. /\ Len(h) \in Nat /\ Len(h) >= 1 /\ Len(g) = Len(h) + 1 /\ g[Len(h) + 1] = e
      /\ \A i \in 1 .. Len(h) : g[i] = h[i]
  BY DEF Conversation
<1> HIDE DEF g
<1>2. Len(h) >= 2 => h[Len(h)].role = "model"
  BY <1>1 DEF Alternate
<1>3. Conversation(g)
  <2>1. Len(g) >= 1 /\ g[1].role = "seed"
    BY <1>1 DEF Conversation
  <2>2. ASSUME NEW i \in 2 .. Len(g)
        PROVE  /\ g[i].role \in {"user", "model"}
               /\ g[i].role = "user" /\ g[i].turn # 0 =>
                    i > 2 /\ g[i - 1].role = "model" /\ g[i - 1].turn = g[i].turn
               /\ g[i].role = "model" /\ i < Len(g) =>
                    g[i + 1].role = "user" /\ g[i + 1].turn = g[i].turn
    <3>1. CASE i = Len(h) + 1
      <4>1. g[i] = e /\ i - 1 \in 1 .. Len(h) /\ g[i - 1] = h[Len(h)]
        BY <1>1, <3>1
      <4>2. e.turn # 0 => Len(h) > 1 /\ Len(h) >= 2 /\ i > 2
        BY <1>1, <3>1
      <4> QED
        BY <1>1, <1>2, <3>1, <4>1, <4>2
    <3>2. CASE i = Len(h)
      BY <1>1, <1>2, <3>2 DEF Conversation
    <3>3. CASE i < Len(h)
      <4>1. i \in 2 .. Len(h) /\ i - 1 \in 1 .. Len(h) /\ i + 1 \in 1 .. Len(h)
        BY <1>1, <3>3
      <4> QED
        BY <1>1, <3>3, <4>1 DEF Conversation
    <3> QED
      BY <1>1, <3>1, <3>2, <3>3
  <2> QED
    BY <2>1, <2>2 DEF Conversation
<1>4. Alternate(g, "user", "model")
  <2> SUFFICES ASSUME NEW k \in Nat
               PROVE  /\ Len(g) - 2 * k >= 2 => g[Len(g) - 2 * k].role = "user"
                      /\ Len(g) - 2 * k >= 3 => g[Len(g) - 2 * k - 1].role = "model"
    BY DEF Alternate
  <2>1. CASE k = 0
    BY <1>1, <1>2, <2>1
  <2>2. CASE k > 0
    <3>1. k - 1 \in Nat /\ Len(g) - 2 * k = Len(h) - 2 * (k - 1) - 1
          /\ Len(g) - 2 * k - 1 = Len(h) - 2 * k
      BY <1>1, <2>2
    <3>2. Len(g) - 2 * k >= 2 => g[Len(g) - 2 * k].role = "user"
      <4>1. Len(h) - 2 * (k - 1) >= 3 => h[Len(h) - 2 * (k - 1) - 1].role = "user"
        BY <3>1 DEF Alternate
      <4> QED
        BY <1>1, <2>2, <3>1, <4>1
    <3>3. Len(g) - 2 * k >= 3 => g[Len(g) - 2 * k - 1].role = "model"
      <4>1. Len(h) - 2 * k >= 2 => h[Len(h) - 2 * k].role = "model"
        BY DEF Alternate
      <4>2. Len(g) - 2 * k >= 3 => Len(h) - 2 * k >= 2 /\ Len(h) - 2 * k \in 1 .. Len(h)
        BY <1>1, <2>2
      <4>3. Len(g) - 2 * k >= 3 => g[Len(h) - 2 * k].role = "model"
        BY <1>1, <4>1, <4>2
      <4> QED
        BY <3>1, <4>3
    <3> QED
      BY <3>2, <3>3
  <2> QED
    BY <2>1, <2>2
<1> QED
  BY <1>1, <1>3, <1>4 DEF g

\* So does a reply behind a screenshot.
LEMMA ReplyAppended ==
  ASSUME NEW S, NEW h \in Seq(S), NEW e \in S,
         Conversation(h), Alternate(h, "user", "model"), Len(h) >= 2, e.role = "model"
  PROVE  Conversation(Append(h, e)) /\ Alternate(Append(h, e), "model", "user")
<1> DEFINE g == Append(h, e)
<1>1. /\ Len(h) \in Nat /\ Len(g) = Len(h) + 1 /\ g[Len(h) + 1] = e
      /\ \A i \in 1 .. Len(h) : g[i] = h[i]
  OBVIOUS
<1> HIDE DEF g
<1>2. h[Len(h)].role = "user"
  BY <1>1 DEF Alternate
<1>3. Conversation(g)
  <2>1. Len(g) >= 1 /\ g[1].role = "seed"
    BY <1>1 DEF Conversation
  <2>2. ASSUME NEW i \in 2 .. Len(g)
        PROVE  /\ g[i].role \in {"user", "model"}
               /\ g[i].role = "user" /\ g[i].turn # 0 =>
                    i > 2 /\ g[i - 1].role = "model" /\ g[i - 1].turn = g[i].turn
               /\ g[i].role = "model" /\ i < Len(g) =>
                    g[i + 1].role = "user" /\ g[i + 1].turn = g[i].turn
    <3>1. CASE i = Len(h) + 1
      BY <1>1, <3>1
    <3>2. CASE i = Len(h)
      BY <1>1, <1>2, <3>2 DEF Conversation
    <3>3. CASE i < Len(h)
      <4>1. i \in 2 .. Len(h) /\ i - 1 \in 1 .. Len(h) /\ i + 1 \in 1 .. Len(h)
        BY <1>1, <3>3
      <4> QED
        BY <1>1, <3>3, <4>1 DEF Conversation
    <3> QED
      BY <1>1, <3>1, <3>2, <3>3
  <2> QED
    BY <2>1, <2>2 DEF Conversation
<1>4. Alternate(g, "model", "user")
  <2> SUFFICES ASSUME NEW k \in Nat
               PROVE  /\ Len(g) - 2 * k >= 2 => g[Len(g) - 2 * k].role = "model"
                      /\ Len(g) - 2 * k >= 3 => g[Len(g) - 2 * k - 1].role = "user"
    BY DEF Alternate
  <2>1. CASE k = 0
    BY <1>1, <1>2, <2>1
  <2>2. CASE k > 0
    <3>1. k - 1 \in Nat /\ Len(g) - 2 * k = Len(h) - 2 * (k - 1) - 1
          /\ Len(g) - 2 * k - 1 = Len(h) - 2 * k
      BY <1>1, <2>2
    <3>2. Len(g) - 2 * k >= 2 => g[Len(g) - 2 * k].role = "model"
      <4>1. Len(h) - 2 * (k - 1) >= 3 => h[Len(h) - 2 * (k - 1) - 1].role = "model"
        BY <3>1 DEF Alternate
      <4> QED
        BY <1>1, <2>2, <3>1, <4>1
    <3>3. Len(g) - 2 * k >= 3 => g[Len(g) - 2 * k - 1].role = "user"
      <4>1. Len(h) - 2 * k >= 2 => h[Len(h) - 2 * k].role = "user"
        BY DEF Alternate
      <4>2. Len(g) - 2 * k >= 3 => Len(h) - 2 * k >= 2 /\ Len(h) - 2 * k \in 1 .. Len(h)
        BY <1>1, <2>2
      <4>3. Len(g) - 2 * k >= 3 => g[Len(h) - 2 * k].role = "user"
        BY <1>1, <4>1, <4>2
      <4> QED
        BY <3>1, <4>3
    <3> QED
      BY <3>2, <3>3
  <2> QED
    BY <2>1, <2>2
<1> QED
  BY <1>3, <1>4 DEF g

\* Trimming before a request cuts between a response and its call only where
\* neither is kept: the first entry behind the seed is a reply.
LEMMA ConversationTrimmed ==
  ASSUME Keep > 0, NEW S, NEW c \in Seq(S),
         Conversation(c), Alternate(c, "user", "model"), Len(c) >= 2
  PROVE  /\ Conversation(trimmed(c)) /\ Alternate(trimmed(c), "user", "model")
         /\ Len(trimmed(c)) >= 2
<1> DEFINE g == trimmed(c)
           cut == Len(c) - Len(g)
<1>1. Keep \in Nat /\ Len(c) \in Nat /\ Len(g) \in Nat
  BY BoundAssumption, Trimmed DEF BoundAssumption
<1>2. /\ g[1] = c[1] /\ Len(g) >= 1 /\ cut \in Nat
      /\ cut > 0 => Len(g) = 2 * Keep + 1
      /\ \A j \in 2 .. Len(g) : g[j] = c[cut + j]
  BY <1>1, Trimmed
<1> HIDE DEF g
<1>3. Len(g) >= 2
  BY <1>1, <1>2
<1>4. Len(c) = cut + Len(g)
  BY <1>1
<1> HIDE DEF cut
<1>5. cut > 0 => c[cut + 2].role = "model"
  <2> SUFFICES ASSUME cut > 0 PROVE c[cut + 2].role = "model"
    OBVIOUS
  <2>1. Keep - 1 \in Nat /\ Len(c) - 2 * (Keep - 1) - 1 = cut + 2
    BY <1>1, <1>2, <1>4
  <2>2. Len(c) - 2 * (Keep - 1) >= 3 => c[Len(c) - 2 * (Keep - 1) - 1].role = "model"
    BY <2>1 DEF Alternate
  <2> QED
    BY <1>1, <1>2, <1>4, <2>1, <2>2
<1>6. Conversation(g)
  <2>1. g[1].role = "seed"
    BY <1>2 DEF Conversation
  <2>2. ASSUME NEW i \in 2 .. Len(g)
        PROVE  /\ g[i].role \in {"user", "model"}
               /\ g[i].role = "user" /\ g[i].turn # 0 =>
                    i > 2 /\ g[i - 1].role = "model" /\ g[i - 1].turn = g[i].turn
               /\ g[i].role = "model" /\ i < Len(g) =>
                    g[i + 1].role = "user" /\ g[i + 1].turn = g[i].turn
    <3> DEFINE n == cut + i
    <3>1. g[i] = c[n] /\ n \in 2 .. Len(c)
      BY <1>1, <1>2, <1>4
    <3> HIDE DEF n
    <3>2. /\ c[n].role \in {"user", "model"}
          /\ c[n].role = "user" /\ c[n].turn # 0 =>
               /\ n > 2 /\ c[n - 1].role = "model"
               /\ c[n - 1].turn = c[n].turn
          /\ c[n].role = "model" /\ n < Len(c) =>
               c[n + 1].role = "user" /\ c[n + 1].turn = c[n].turn
      BY <3>1 DEF Conversation
    <3>3. i > 2 => g[i - 1] = c[n - 1]
      <4>1. i > 2 => i - 1 \in 2 .. Len(g) /\ cut + (i - 1) = n - 1
        BY <1>1, <1>2 DEF n
      <4> QED
        BY <1>2, <4>1
    <3>4. i < Len(g) => g[i + 1] = c[n + 1]
      <4>1. i < Len(g) => i + 1 \in 2 .. Len(g) /\ cut + (i + 1) = n + 1
        BY <1>1, <1>2 DEF n
      <4> QED
        BY <1>2, <4>1
    <3>5. i < Len(g) => n < Len(c)
      BY <1>1, <1>2, <1>4 DEF n
    <3>6. i = 2 /\ cut = 0 => n = 2
      BY DEF n
    <3>7. i = 2 /\ cut > 0 => c[n].role = "model"
      BY <1>5 DEF n
    <3>8. cut = 0 \/ cut > 0
      BY <1>2
    <3> QED
      BY <3>7, <3>8, <3>1, <3>2, <3>3, <3>4, <3>5, <3>6
  <2> QED
    BY <1>2, <2>1, <2>2 DEF Conversation
<1>7. Alternate(g, "user", "model")
  <2> SUFFICES ASSUME NEW k \in Nat
               PROVE  /\ Len(g) - 2 * k >= 2 => g[Len(g) - 2 * k].role = "user"
                      /\ Len(g) - 2 * k >= 3 => g[Len(g) - 2 * k - 1].role = "model"
    BY DEF Alternate
  <2>1. /\ cut + (Len(g) - 2 * k) = Len(c) - 2 * k
        /\ cut + (Len(g) - 2 * k - 1) = Len(c) - 2 * k - 1
    BY <1>1, <1>2, <1>4
  <2>2. /\ Len(c) - 2 * k >= 2 => c[Len(c) - 2 * k].role = "user"
        /\ Len(c) - 2 * k >= 3 => c[Len(c) - 2 * k - 1].role = "model"
    BY DEF Alternate
  <2>3. Len(g) - 2 * k >= 2 =>
          g[Len(g) - 2 * k] = c[Len(c) - 2 * k] /\ Len(c) - 2 * k >= 2
    BY <1>1, <1>2, <1>4, <2>1
  <2>4. Len(g) - 2 * k >= 3 =>
          g[Len(g) - 2 * k - 1] = c[Len(c) - 2 * k - 1] /\ Len(c) - 2 * k >= 3
    BY <1>1, <1>2, <1>4, <2>1
  <2> QED
    BY <2>2, <2>3, <2>4
<1> QED
  BY <1>3, <1>6, <1>7 DEF g
\* What ConversationInv says outlives every trimming.
LEMMA ConversationInvariant ==
  ASSUME Keep > 0
  PROVE  Spec => []ConversationInv
<1>1. Init => ConversationInv
  BY DEF Init, ConversationInv
<1>2. ClientInv /\ ConversationInv /\ [Next]_vars => ConversationInv'
  <2> SUFFICES ASSUME ClientInv, ConversationInv, [Next]_vars, backend' = "gemini"
               PROVE  ConversationInv'
    BY DEF ConversationInv
  <2>0. history \in Seq(Entries(asks, page)) /\ asks \in Nat /\ page \in Nat
    BY DEF ClientInv, TypeOK, Entries
  \* A step after which the conversation is as it was.
  <2>a. ASSUME UNCHANGED <<backend, history, pending>>,
               phase' = phase \/ phase' \in {"prime", "done"}
                 \/ (phase \in {"step", "gate"} /\ phase' \in {"step", "gate"})
        PROVE  ConversationInv'
    BY <2>a DEF ConversationInv
  <2>1. CASE PrimeTask
    <3>1. phase' = "step" /\ backend = "gemini" /\ pending' = 0
          /\ history' = <<Entry("seed", 0, page)>>
      BY <2>1 DEF PrimeTask, run
    <3>2. Len(history') = 1 /\ history'[1].role = "seed"
      BY <3>1 DEF Entry
    <3>3. \A k \in Nat : ~(1 - 2 * k >= 2) /\ ~(1 - 2 * k >= 3)
      OBVIOUS
    <3>4. Conversation(history') /\ Alternate(history', "model", "user")
      BY <3>2, <3>3 DEF Conversation, Alternate
    <3> QED
      BY <3>1, <3>2, <3>4 DEF ConversationInv
  <2>2. CASE AskGemini
    <3> DEFINE new == Entry("user", pending, shown)
               asked == Append(history, new)
    <3>1. /\ phase = "step" /\ backend = "gemini" /\ phase' = "answer"
          /\ history' = trimmed(asked)
      BY <2>2 DEF AskGemini
    <3>2. Entries(asks, page) \subseteq Entries(asks + 1, page) /\ new \in Entries(asks + 1, page)
      BY <2>0, <3>1 DEF Entries, Entry, ClientInv, TypeOK
    <3>3. history \in Seq(Entries(asks + 1, page))
      BY <2>0, <3>2, SeqMonotonic
    <3>4. new.role = "user" /\ new.turn = pending
      BY DEF Entry
    <3> HIDE DEF new
    <3>5. /\ Conversation(history) /\ Alternate(history, "model", "user")
          /\ pending # 0 => Len(history) > 1
          /\ Len(history) > 1 => pending = history[Len(history)].turn
      BY <3>1 DEF ConversationInv
    <3>6. /\ Conversation(asked) /\ Alternate(asked, "user", "model") /\ Len(asked) >= 2
          /\ asked \in Seq(Entries(asks + 1, page))
      BY <3>2, <3>3, <3>4, <3>5, ScreenshotAppended
    <3> HIDE DEF asked
    <3>7. /\ Conversation(trimmed(asked)) /\ Alternate(trimmed(asked), "user", "model")
          /\ Len(trimmed(asked)) >= 2
      BY <3>6, ConversationTrimmed
    <3> QED
      BY <3>1, <3>7 DEF ConversationInv
  <2>3. ASSUME NEW turn \in 0 .. asks, phase = "answer", phase' = "gate", backend = "gemini",
               history' = Append(history, Entry("model", turn, shown)), pending' = turn
        PROVE  ConversationInv'
    <3> DEFINE new == Entry("model", turn, shown)
    <3>1. new \in Entries(asks, page) /\ new.role = "model" /\ new.turn = turn
      BY <2>0, <2>3 DEF Entry, Entries, ClientInv
    <3> HIDE DEF new
    <3>2. Conversation(history) /\ Alternate(history, "user", "model") /\ Len(history) >= 2
      BY <2>3 DEF ConversationInv
    <3>3. history' = Append(history, new)
      BY <2>3 DEF new
    <3>4. Conversation(history') /\ Alternate(history', "model", "user")
      BY <2>0, <3>1, <3>2, <3>3, ReplyAppended
    <3>5. Len(history') > 1 /\ history'[Len(history')] = new
      BY <2>0, <3>1, <3>2, <3>3
    <3> QED
      BY <2>3, <3>1, <3>4, <3>5 DEF ConversationInv
  <2>4. ASSUME NEW called \in GeminiCalls, NEW id \in BOOLEAN,
               GeminiCalled(called.tool, id, called.args)
        PROVE  ConversationInv'
    <3>1. (IF id THEN asks ELSE 0) \in 0 .. asks
      BY <2>0
    <3> QED
      BY <2>3, <2>4, <3>1 DEF GeminiCalled, pendingAfter
  <2>5. CASE GeminiCalledNothing
    <3>1. 0 \in 0 .. asks /\ pendingAfter(FALSE) = 0
      BY <2>0 DEF pendingAfter
    <3> QED
      BY <2>3, <2>5, <3>1 DEF GeminiCalledNothing
  <2>6. CASE BuildClient \/ BuildRaises \/ Exhausted \/ ReplayFragment \/ GuardStops
             \/ GeminiRaises \/ BuildAgentRaises \/ AgentStepUnreadable \/ Finish \/ Succeed \/ Fail
    <3>1. /\ UNCHANGED <<backend, history, pending>>
          /\ \/ phase' = phase \/ phase' \in {"prime", "done"}
             \/ phase \in {"step", "gate"} /\ phase' \in {"step", "gate"}
      BY <2>6 DEF BuildClient, BuildRaises, Exhausted, ReplayFragment, GuardStops, GeminiRaises,
                  BuildAgentRaises, AgentStepUnreadable, Finish, Succeed, Fail, run, client, end
    <3> QED
      BY <2>a, <3>1
  <2>7. CASE AgentStepFailed \/ MockAnswers
             \/ \E called \in AgentCalls : AgentStepped(called.tool, called.args)
    BY <2>7 DEF AgentStepFailed, MockAnswers, AgentStepped, run
  <2>8. CASE UNCHANGED vars
    BY <2>a, <2>8 DEF vars
  <2> QED
    BY <2>1, <2>2, <2>4, <2>5, <2>6, <2>7, <2>8 DEF Next, Done
<1> QED
  BY <1>1, <1>2, ClientInvariant, PTL DEF Spec

\* Every request Gemini gets is one it can read, for as long as any turn is kept:
\* the goal in front, a screenshot behind, each response behind its call and each
\* call answered.  (With no turn kept, nothing is dropped and the seed is doubled.)
THEOREM RequestsStayReadable ==
  ASSUME Keep > 0
  PROVE  Spec => []RequestIsWellFormed
<1>1. ClientInv /\ ConversationInv => RequestIsWellFormed
  <2> SUFFICES ASSUME ClientInv, ConversationInv, phase = "answer"
               PROVE  /\ history[1].role = "seed" /\ history[Len(history)].role = "user"
                      /\ \A i \in 2 .. Len(history) :
                           /\ history[i].role # "seed"
                           /\ history[i].role = "user" /\ history[i].turn # 0 =>
                                /\ history[i - 1].role = "model"
                                /\ history[i - 1].turn = history[i].turn
                           /\ history[i].role = "model" =>
                                /\ history[i + 1].role = "user"
                                /\ history[i + 1].turn = history[i].turn
    BY DEF RequestIsWellFormed
  <2>1. /\ Conversation(history) /\ Len(history) >= 2 /\ Len(history) \in Nat
        /\ Alternate(history, "user", "model")
    BY DEF ClientInv, ConversationInv, TypeOK
  <2>2. history[Len(history)].role = "user"
    <3>1. 0 \in Nat /\ Len(history) - 2 * 0 = Len(history)
      BY <2>1
    <3> QED
      BY <2>1, <3>1 DEF Alternate
  <2> QED
    BY <2>1, <2>2 DEF Conversation
<1> QED
  BY <1>1, ClientInvariant, ConversationInvariant, PTL
=============================================================================
