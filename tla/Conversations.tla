--------------------------- MODULE Conversations ---------------------------
(***************************************************************************)
(* The trace list's conversations (lib/conversations.ts): sessions are     *)
(* grouped by the conversation their id names, and a conversation is       *)
(* nested under the one whose records handed it out or that it forked.     *)
(* A session id is the sequence of its parts between colons; a tag is      *)
(* `link:<digest>` or `fork_of:<conversation>`.  What is only laid out     *)
(* (order, tokens, times) is left out.                                     *)
(***************************************************************************)
EXTENDS Naturals, Sequences, SequencesExt, FiniteSetsExt, Sorting

CONSTANTS Turns, None   \* the parts that number a turn, t<n>

TagType == [how : {"link"}, of : STRING] \cup [how : {"fork"}, of : Seq(STRING)]
LinkRow == [agent : STRING, id : Seq(STRING), behavior : STRING,
            kind : STRING \cup {None}, tags : Seq(TagType)]
SessionSummary == [agent : STRING, id : Seq(STRING), count : Nat]
ConversationKey == [agent : STRING, conversation : Seq(STRING)]

\* <conversation>:t<n> or <conversation>:sub:<lane>:t<n>; anything else is itself.
SessionKey(id) ==
  LET n == Len(id)
  IN  IF n < 2 \/ id[n] \notin Turns THEN [conversation |-> id, lane |-> None]
      ELSE IF n >= 4 /\ id[n - 2] = "sub"
      THEN [conversation |-> SubSeq(id, 1, n - 3), lane |-> id[n - 1]]
      ELSE [conversation |-> SubSeq(id, 1, n - 1), lane |-> None]

KeyOf(row) == [agent |-> row.agent, conversation |-> SessionKey(row.id).conversation]

Keys(sessions) == {KeyOf(s) : s \in ToSet(sessions)}
Of(sessions, key) == {s \in ToSet(sessions) : KeyOf(s) = key}
Lane(s) == SessionKey(s.id).lane

Group(sessions) ==
  [key \in Keys(sessions) |->
     LET its == Of(sessions, key)
     IN  [turns |-> {s \in its : Lane(s) = None},
          lanes |-> [lane \in {Lane(s) : s \in its} \ {None} |-> {s \in its : Lane(s) = lane}],
          record_count |-> MapThenSumSet(LAMBDA s : s.count, its)]]

-----------------------------------------------------------------------------
(***************************************************************************)
(* Edges: which conversation began another one.  The links come in the     *)
(* order of their sequence, and the first edge to a conversation counts.   *)
(***************************************************************************)

\* The Delegating that handed a link tag out: the first one that has it.
Handout(tag, links) ==
  LET at == {i \in DOMAIN links : links[i].behavior = "Delegating" /\ tag \in ToSet(links[i].tags)}
  IN  IF at = {} THEN None ELSE links[Min(at)]

Edge(key, relation) == [key |-> key, relation |-> relation]

\* The two sides of a link; a message only counts (see MessagesIn).
LinkEdge(tag, child, links) ==
  LET from == Handout(tag, links)
  IN  IF from = None THEN None
      ELSE IF KeyOf(from) = child \/ from.kind = "message" THEN None
      ELSE Edge(KeyOf(from), IF from.kind = "handoff" THEN "handoff" ELSE "spawn")

\* A fork names a conversation alone: the same agent's, else the first listed one.
ForkEdge(tag, child, sessions) ==
  LET same == [agent |-> child.agent, conversation |-> tag.of]
      named == {i \in DOMAIN sessions : KeyOf(sessions[i]).conversation = tag.of}
      key == IF same \in Keys(sessions) \/ named = {} THEN same ELSE KeyOf(sessions[Min(named)])
  IN  IF key = child THEN None ELSE Edge(key, "fork")

\* The tags of the Observing records, by where they are: the record, and the place in it.
Observed(links) ==
  UNION {{i} \X DOMAIN links[i].tags : i \in {n \in DOMAIN links : links[n].behavior = "Observing"}}
Child(o, links) == KeyOf(links[o[1]])
Tag(o, links) == links[o[1]].tags[o[2]]

EdgeOf(o, sessions, links) ==
  IF Tag(o, links).how = "link" THEN LinkEdge(Tag(o, links), Child(o, links), links)
  ELSE ForkEdge(Tag(o, links), Child(o, links), sessions)

ParentOf(sessions, links) ==
  LET seen == {o \in Observed(links) : EdgeOf(o, sessions, links) # None}
      first(child) == CHOOSE o \in seen :
        Child(o, links) = child /\ \A q \in seen : Child(q, links) = child => ~Earlier(q, o)
  IN  [child \in {Child(o, links) : o \in seen} |-> EdgeOf(first(child), sessions, links)]

MessagesIn(key, links) ==
  Cardinality({o \in Observed(links) :
    /\ Child(o, links) = key /\ Tag(o, links).how = "link"
    /\ LET from == Handout(Tag(o, links), links)
       IN  IF from = None THEN FALSE ELSE from.kind = "message" /\ KeyOf(from) # key})

\* Faulty: only the parent itself is looked at.
IsParent(candidate, of, parentOf) ==
  \/ of = candidate
  \/ of \in DOMAIN parentOf /\ parentOf[of].key = candidate

\* From a conversation up, one parent at a time, as far as there are parents.
Walk(of, parentOf) ==
  LET up[n \in Nat] ==
        IF n = 0 THEN of
        ELSE IF up[n - 1] \in DOMAIN parentOf THEN parentOf[up[n - 1]].key ELSE up[n - 1]
  IN  up

\* Up to the first without a parent, or until one comes round again.
IsAncestor(candidate, of, parentOf) ==
  \E n \in 0..Cardinality(DOMAIN parentOf) : Walk(of, parentOf)[n] = candidate

\* Every conversation with its parent, and the one it is nested under, if any.
BuildConversations(sessions, links) ==
  LET byKey == Group(sessions)
      parentOf == ParentOf(sessions, links)
      under(key) ==
        IF key \notin DOMAIN parentOf THEN None
        ELSE IF parentOf[key].key \notin DOMAIN byKey THEN None
        ELSE IF IsAncestor(key, parentOf[key].key, parentOf) THEN None
        ELSE parentOf[key].key
  IN  [key \in DOMAIN byKey |->
         [entry |-> byKey[key],
          parent |-> IF key \in DOMAIN parentOf THEN parentOf[key] ELSE None,
          under |-> under(key),
          messages_in |-> MessagesIn(key, links)]]

-----------------------------------------------------------------------------
(***************************************************************************)
(* What a list of conversations must be.                                   *)
(***************************************************************************)

\* In a graph, b is reached from a when it is in every set that has a and all that
\* the edges lead to from what it has.
Reaches(edges, nodes, a, b) ==
  \A T \in SUBSET nodes : a \in T /\ (\A e \in edges : e[1] \in T => e[2] \in T) => b \in T

\* Every conversation listed is under exactly one root: none is lost in a cycle.
EachIsListed(list) ==
  LET under == {<<k, list[k].under>> : k \in {c \in DOMAIN list : list[c].under # None}}
  IN  \A k \in DOMAIN list :
        Cardinality({root \in DOMAIN list :
          list[root].under = None /\ Reaches(under, DOMAIN list, k, root)}) = 1

\* The reference: a conversation is nested under a listed parent unless that parent
\* began, through any number of others, with the conversation itself.
NestedUnlessCircular(list, sessions, links) ==
  LET parentOf == ParentOf(sessions, links)
      nodes == DOMAIN parentOf \cup {parentOf[k].key : k \in DOMAIN parentOf}
      began == {<<k, parentOf[k].key>> : k \in DOMAIN parentOf}
  IN  \A k \in DOMAIN list :
        list[k].under = IF list[k].parent = None THEN None
                        ELSE IF list[k].parent.key \notin DOMAIN list THEN None
                        ELSE IF Reaches(began, nodes, list[k].parent.key, k) THEN None
                        ELSE list[k].parent.key
=============================================================================
