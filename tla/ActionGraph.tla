----------------------------- MODULE ActionGraph -----------------------------
(* Procedures as chains of action nodes, the pure part: the fingerprint of a  *)
(* node, the chain a run leaves behind, the chain the decomposer imagines for *)
(* a new task, the longest common prefix of the two, and the check of the     *)
(* page before a node is replayed.                                            *)
(*                                                                            *)
(* An action is [type, what, at]: what stands for its target and value        *)
(* together, at for its coordinate in pixels.  A page stands for what the     *)
(* browser shows: Site is its host with the first path segment, and Distance  *)
(* the Hamming distance of the average hashes of two screenshots.             *)
EXTENDS Naturals, Integers, Sequences, FiniteSets, SequencesExt, FiniteSetsExt

CONSTANTS
  Pages,
  Blank,      \* the page of a browser that has just been started
  Site,       \* [Pages -> sites]
  Distance,   \* [Pages -> [Pages -> -1 .. 64]]; -1 when the hashes do not compare
  Canonical   \* [texts -> texts]: lower case and single blanks

ASSUME PagesAssumption ==
  /\ Blank \in Pages
  /\ DOMAIN Site = Pages
  /\ Distance \in [Pages -> [Pages -> -1 .. 64]]

NoCoord == -1   \* the coordinate of an action that has none
BandPx == 16    \* pixels that count as the same place
MinPrefix == 2
PhashThreshold == 16

------------------------------------------------------------------------------
(* The fingerprint. *)

band(at) == IF at = NoCoord THEN NoCoord ELSE at \div BandPx

computeActionHash(action) == <<action.type, Canonical[action.what], band(action.at)>>

\* A node as a run leaves it: the page is the one the action ended on, and seen
\* says whether its screenshot was still stored when the chain was built.
ActionNode(action, page, seen) == [action |-> action, page |-> page, seen |-> seen]

hashes(nodes) == [i \in DOMAIN nodes |-> computeActionHash(nodes[i].action)]

------------------------------------------------------------------------------
(* LlmActionDecomposer: a reply is a sequence of raw steps, [type, what]; an  *)
(* entry that is no object or has no type is left out, and no reply, a reply  *)
(* that does not parse, or a raised error all leave an empty chain.  Steps    *)
(* have no coordinates: the prompt asks for none and the parser reads none.   *)

NoReply == <<>>

parseGraph(reply) ==
  LET typed == {i \in DOMAIN reply : reply[i].type # ""}
      nth(n) == CHOOSE i \in typed : Cardinality({j \in typed : j <= i}) = n
  IN [n \in 1 .. Cardinality(typed) |->
        [type |-> reply[nth(n)].type, what |-> reply[nth(n)].what, at |-> NoCoord]]

\* The local model answers first when the start page is local, and Gemini when
\* it left nothing; without a client there is nothing more to ask.
decompose(isLocal, localReply, hasClient, geminiReply) ==
  IF isLocal /\ parseGraph(localReply) # <<>> THEN parseGraph(localReply)
  ELSE IF hasClient THEN parseGraph(geminiReply)
  ELSE <<>>

------------------------------------------------------------------------------
(* SubgraphMatcher. *)

\* Mutated: goes on after the first difference.
WrongCommonPrefix(a, b) ==
  Cardinality({i \in 1 .. Min({Len(a), Len(b)}) : a[i] = b[i]})

longestCommonPrefix(a, b) ==
  Max({n \in 0 .. Min({Len(a), Len(b)}) : \A i \in 1 .. n : a[i] = b[i]})

\* The first of the stored chains with the longest prefix, 0 when none of them
\* shares MinPrefix steps with the new task.
bestMatch(newHashes, stored) ==
  LET prefix(k) == longestCommonPrefix(newHashes, hashes(stored[k]))
      matches == {k \in DOMAIN stored : prefix(k) >= MinPrefix}
  IN IF matches = {} THEN 0
     ELSE Min({k \in matches : \A j \in matches : prefix(k) >= prefix(j)})

findBestMatch(newHashes, stored) ==
  LET k == bestMatch(newHashes, stored)
  IN IF newHashes = <<>> \/ k = 0 THEN <<>>
     ELSE SubSeq(stored[k], 1, longestCommonPrefix(newHashes, hashes(stored[k])))

\* Steps of the new task that some stored chain has, and those of them that are
\* called safe: every earlier step of the task is stored somewhere, too.
findReusableSteps(newHashes, stored) ==
  {i \in DOMAIN newHashes : \E k \in DOMAIN stored : newHashes[i] \in Range(hashes(stored[k]))}

safeToReplay(newHashes, stored) ==
  {i \in DOMAIN newHashes : 1 .. i \subseteq findReusableSteps(newHashes, stored)}

------------------------------------------------------------------------------
(* StateVerifier. *)

\* No url to compare, on either side, does not block.
urlsCompatible(expected, current) ==
  \/ "" \in {expected, current}
  \/ expected = current

\* Hashes that do not compare do not block either.
phashOk(node, page) ==
  node.seen => Distance[node.page][page] <= PhashThreshold

\* The page is read before the action; when reading raises there is nothing to
\* compare and the node is replayed.
verify(node, page, readable) ==
  readable => urlsCompatible(Site[node.page], Site[page]) /\ phashOk(node, page)
==============================================================================
