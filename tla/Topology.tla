------------------------------- MODULE Topology -------------------------------
(***************************************************************************)
(* What the spans of one run are read as: components, the relations        *)
(* between them and the counts of a run                                    *)
(* (packages/traces/src/topology.ts, with handoff.ts, superseded-span.ts,  *)
(* structural-span.ts and graph-node-span.ts).                             *)
(*                                                                         *)
(* A span has a kind, which says what its attributes were read as.  Left   *)
(* out: tokens, evidence, provenance, source identities, side effects, the *)
(* time to the first output (read from the span taskSuccess is read from), *)
(* the operations no kind here has and the counts of them alone, and spans *)
(* of two traces with one identifier.                                      *)
(***************************************************************************)
EXTENDS Integers, Sequences, FiniteSets, FiniteSetsExt, SequencesExt

CONSTANTS
  SpanKinds, \* kinds of span, numbered: operation, name, shape, scope, status, attempt, duration and ends
  Starts,    \* bound: the times at which spans start
  MaxSpans   \* bound: spans of a run

VARIABLE bundle  \* the spans in the order they arrived: identifier, parent (or 0), kind and start

----------------------------------------------------------------------------
(* One span.                                                               *)

Spans == Range(bundle)
KindOf(s) == SpanKinds[s.kind]

Ends(s) == s.start + KindOf(s).duration
Arrived(s) == CHOOSE n \in DOMAIN bundle : bundle[n] = s

\* componentKindFor; an operation nothing recognised has none.
ComponentKind(s) ==
  [chat |-> "model", execute_tool |-> "tool", invoke_agent |-> "agent", unclassified |-> "none"][KindOf(s).operation]

\* supersededSpans: the target's own instrumentation reported a call in flight all along it.
Inside(s, t) == t.start < s.start /\ Ends(s) < Ends(t)
ContainedBy(s, t) == t.start <= s.start /\ Ends(s) <= Ends(t)

Superseded(s) ==
  /\ KindOf(s).own /\ ComponentKind(s) = "model"
  /\ \E t \in Spans : ~KindOf(t).own /\ ComponentKind(t) = "model" /\ ContainedBy(s, t)

\* recognizeHandoffs: a tool whose ends are two agents the run reported.
AgentNames == {KindOf(s).name : s \in {t \in Spans : ComponentKind(t) = "agent"}}
IsHandoff(s) ==
  KindOf(s).operation = "execute_tool" /\ KindOf(s).ends # <<>> /\ Range(KindOf(s).ends) \subseteq AgentNames

\* componentOf, or why there is none.
Component(s) ==
  IF KindOf(s).shape = "graph_node" THEN <<"workflow_step", KindOf(s).name>>
  ELSE <<ComponentKind(s), KindOf(s).name>>
Unread(s) ==
  IF KindOf(s).shape = "graph_node" THEN "read"
  ELSE IF KindOf(s).shape = "structural" THEN "no_name"
  ELSE IF ComponentKind(s) = "none" THEN "no_operation" ELSE "read"

\* What visitSpan does with it.
Reading(s) ==
  IF IsHandoff(s) THEN "handoff" ELSE IF Superseded(s) THEN "superseded"
  ELSE IF Unread(s) # "read" THEN "unattributed" ELSE "component"

----------------------------------------------------------------------------
(* The forest.                                                             *)

HasParent(s) == \E t \in Spans : t.id = s.parent
Parent(s) == CHOOSE t \in Spans : t.id = s.parent
Children(s) == {t \in Spans : t.parent = s.id}
Roots == {s \in Spans : ~HasParent(s)}

\* Sorted by start; the comparison finds of two equal starts the second later, so both stay as they arrived.
EarlierUnsorted(s, t) == Arrived(s) < Arrived(t)
Earlier(s, t) == s.start < t.start \/ (s.start = t.start /\ Arrived(s) < Arrived(t))

\* The spans a traversal from the roots reaches: a cycle of parents is in nobody's tree.
Visited ==
  LET within[n \in 0 .. Cardinality(Spans)] ==
        IF n = 0 THEN Roots ELSE within[n - 1] \cup UNION {Children(s) : s \in within[n - 1]}
  IN  within[Cardinality(Spans)]

\* spanToComponentKey: a span that is no component stands for the one it is in.
Keys(visited) ==
  LET key[s \in visited] ==
        IF Reading(s) = "component" THEN Component(s)
        ELSE IF HasParent(s) THEN key[Parent(s)] ELSE <<>>
  IN  key

Siblings(s) == IF HasParent(s) THEN Children(Parent(s)) \ {s} ELSE {}
ParallelSiblings(s) ==
  Cardinality({t \in Siblings(s) : t.start < Ends(s) /\ s.start < Ends(t)})

\* isRetry: it says that it is not the first attempt, or the latest sibling before it of its name failed.
IsRetry(s) ==
  \/ KindOf(s).attempt > 1
  \/ LET before == {t \in Siblings(s) : Earlier(t, s) /\ KindOf(t).name = KindOf(s).name}
     IN  \E t \in before : KindOf(t).error /\ \A u \in before \ {t} : Earlier(u, t)

SelfDuration(s) == Max({0, KindOf(s).duration - MapThenSumSet(LAMBDA t : KindOf(t).duration, Children(s))})

----------------------------------------------------------------------------
(* What is accumulated.                                                    *)

\* The counts of a set of spans, of a component or of a relation.
Counted(set) ==
  [executions |-> Cardinality(set),
   errors |-> Cardinality({s \in set : KindOf(s).error}),
   retries |-> Cardinality({s \in set : IsRetry(s)}),
   duration |-> MapThenSumSet(LAMBDA s : KindOf(s).duration, set)]

\* edgeKindFor
EdgeKind(from, to) ==
  IF from = "agent" /\ to = "agent" THEN "hands_off_to"
  ELSE [model |-> "invokes_model", tool |-> "calls_tool", agent |-> "contains", workflow_step |-> "contains"][to]

\* The relation a span stands for, if it stands for one.
Edge(s, key) ==
  IF IsHandoff(s) THEN <<"hands_off_to", <<"agent", KindOf(s).ends[1]>>, <<"agent", KindOf(s).ends[2]>>>>
  ELSE IF Reading(s) # "component" \/ ~HasParent(s) THEN <<>>
  ELSE IF key[Parent(s)] \in {<<>>, Component(s)} THEN <<>>
  ELSE <<EdgeKind(key[Parent(s)][1], Component(s)[1]), key[Parent(s)], Component(s)>>

Components(visited) ==
  {[key |-> c, counts |-> Counted(of), self |-> MapThenSumSet(SelfDuration, of)] :
     <<c, of>> \in {<<Component(s), {t \in visited : Reading(t) = "component" /\ Component(t) = Component(s)}>> :
                      s \in {t \in visited : Reading(t) = "component"}}}

Edges(visited, key) ==
  {[edge |-> e, counts |-> Counted(of), parallel |-> Cardinality({s \in of : ParallelSiblings(s) > 0})] :
     <<e, of>> \in {<<Edge(s, key), {t \in visited : Edge(t, key) = Edge(s, key)}>> :
                      s \in {t \in visited : Edge(t, key) # <<>>}}}

\* runMetrics: of the spans that are read, and of the first root.
RunMetrics(visited) ==
  LET read == {s \in visited : Reading(s) \in {"component", "handoff"}}
      of(operation) == Cardinality({s \in read : Reading(s) = "component" /\ KindOf(s).operation = operation})
  IN  [modelCalls |-> of("chat"), toolCalls |-> of("execute_tool"), agentSteps |-> of("invoke_agent"),
       handoffs |-> Cardinality({s \in read : IsHandoff(s)}),
       errors |-> Counted(read).errors, retries |-> Counted(read).retries,
       concurrency |-> Max({0} \cup {ParallelSiblings(s) + 1 : s \in read}),
       durationMs |-> Max({0} \cup {KindOf(s).duration : s \in Roots}),
       taskSuccess |-> {KindOf(s).success : s \in {r \in Roots : \A t \in Roots \ {r} : Earlier(r, t)}}]

\* deriveTopology
Topology ==
  LET visited == Visited
  IN  [components |-> Components(visited), edges |-> Edges(visited, Keys(visited)), metrics |-> RunMetrics(visited),
       unattributed |-> {<<Unread(s), s.id>> : s \in {t \in visited : Reading(t) = "unattributed"}}]

----------------------------------------------------------------------------

Init == bundle = <<>>

\* A span arrives; its parent may come later, or never, and they may be in a cycle, of two at least.
Arrive ==
  /\ Len(bundle) < MaxSpans
  /\ \E parent \in (0 .. MaxSpans) \ {Len(bundle) + 1}, kind \in DOMAIN SpanKinds, start \in Starts :
       bundle' = Append(bundle, [id |-> Len(bundle) + 1, parent |-> parent, kind |-> kind, start |-> start])

Next == Arrive

===============================================================================
