---------------------------- MODULE MCAlgorithms ----------------------------
(***************************************************************************)
(* The algorithms that keep no state of their own, checked one beside the  *)
(* other: an initial state chooses the algorithm, and the steps enumerate  *)
(* its inputs up to the bounds given here.  The comparison and the         *)
(* accounting of effects, about which there are theorems, keep variables   *)
(* of their own.                                                           *)
(***************************************************************************)
EXTENDS EffectAccounting, ComparisonSides, TLC

VARIABLES
  subject,  \* the algorithm
  input     \* what it is given, unless it is one of those two

MCVars == <<subject, input, attempts, sides>>

----------------------------------------------------------------------------
(* Effects: one kind with two targets, a payment with two idempotency keys. *)

MCEffects ==
  {[kind |-> "mail", target |-> "first", key |-> "none"],
   [kind |-> "mail", target |-> "second", key |-> "none"],
   [kind |-> "pay", target |-> "card", key |-> "k1"],
   [kind |-> "pay", target |-> "card", key |-> "k2"]}

----------------------------------------------------------------------------
(* Comparisons: runs of which one measured nothing and one has no outcome; *)
(* two risks about one subject and a strength, with keys or, as an older   *)
(* build wrote them, one for each subject and without.                     *)

MCRunKinds == <<
  [spans |-> FALSE, success |-> "unreported", duration |-> 0, duplicates |-> 0],
  [spans |-> TRUE, success |-> "unreported", duration |-> 1, duplicates |-> 1],
  [spans |-> TRUE, success |-> "yes", duration |-> 1, duplicates |-> 0],
  [spans |-> TRUE, success |-> "yes", duration |-> 3, duplicates |-> 2],
  [spans |-> TRUE, success |-> "no", duration |-> 2, duplicates |-> 0]>>

MCGrades == [scale : 1 .. 2, severity : 1 .. 2]
MCFinding(strength, about, key, semantic, g) ==
  [strength |-> strength, about |-> about, key |-> key, semantic |-> semantic,
   scale |-> g.scale, severity |-> g.severity]

\* At most one finding for a claim.
Listed(strength, about, key, semantic) ==
  {<<>>} \cup {<<MCFinding(strength, about, key, semantic, g)>> : g \in MCGrades}

MCScans ==
  {<<>>}
  \cup {<<r \o q \o s>> : r \in Listed(FALSE, "model", "k1", TRUE),
                          q \in Listed(FALSE, "model", "k2", TRUE),
                          s \in Listed(TRUE, "model", "k3", TRUE)}
  \cup {<<r \o s>> : r \in Listed(FALSE, "model", "none", FALSE), s \in Listed(TRUE, "model", "none", FALSE)}

\* With runs: no scan, none found, or one risk, small or large.
MCScansWithRuns ==
  {<<>>, <<<<>>>>} \cup
    {<<<<MCFinding(FALSE, "model", "k1", TRUE, [scale |-> n, severity |-> 1])>>>> : n \in 1 .. 2}

MCSides == [s \in Sides |-> [runs |-> <<>>, scan |-> <<>>]]

----------------------------------------------------------------------------
(* Reconciliation: a declaration m, beside it p/m in another file, or m    *)
(* twice, in one file or in two; observations of them with and without     *)
(* locations.  The checkout may have changed, or be a part of the          *)
(* repository.                                                             *)

MCBareName == [n \in {"m", "p/m", "x"} |-> IF n = "p/m" THEN "m" ELSE n]

Declaration(id, name, running, file, lines) ==
  [id |-> id, name |-> name, runtimeName |-> running, file |-> file, lines |-> lines]

MCGraphs ==
  {[clean |-> tree[1], root |-> tree[2], declared |-> ds, relations |-> {<<d.id, d.id>> : d \in ds}] :
     tree \in {<<TRUE, "none">>, <<FALSE, "none">>, <<TRUE, "r">>},
     ds \in {{Declaration("m", "m", "x", "f", {1})},
             {Declaration("m", "m", "none", "f", {1}), Declaration("p/m", "p/m", "none", "g", {1})},
             {Declaration("m~f", "m", "none", "f", {1}), Declaration("m~g", "m", "none", "f", {2})},
             {Declaration("m~f", "m", "none", "f", {1}), Declaration("m~g", "m", "none", "g", {1})}}}

Unlocated(name) ==
  [name |-> name, proof |-> "none", repository |-> "none", revision |-> "none", under |-> "none",
   file |-> "none", line |-> 0, function |-> "none", digest |-> "none"]

Pinned(name, repository, revision, under, file, line) ==
  [Unlocated(name) EXCEPT !.proof = "pinned", !.repository = repository, !.revision = revision,
                          !.under = under, !.file = file, !.line = line]

ByContent(name, file, digest) ==
  [Unlocated(name) EXCEPT !.proof = "content", !.file = file, !.line = 1, !.digest = digest]

MCObservable ==
  {Unlocated(n) : n \in {"m", "p/m", "x"}}
  \cup {Pinned("m", c[1], c[2], "none", "f", l) :
          c \in {<<"ours", "ours">>, <<"theirs", "ours">>, <<"ours", "older">>}, l \in {1, 2}}
  \cup {Pinned("m", "ours", "ours", "r", "f", 1), Pinned("x", "ours", "ours", "none", "g", 1),
        [Pinned("m", "ours", "ours", "none", "f", 1) EXCEPT !.function = "h"]}
  \cup {ByContent("m", f, d) : f \in {"f", "g"}, d \in {"same", "other"}}

R == INSTANCE Reconcile WITH
  state <- input, Graphs <- MCGraphs, Observable <- MCObservable, BareName <- MCBareName, MaxSteps <- 3

ObservedOnce == subject = "reconciliation" => R!ObservedOnce
RelationsAddUp == subject = "reconciliation" => R!RelationsAddUp

----------------------------------------------------------------------------

(* Topologies: two agents, calls of one model that failed and succeeded,   *)
(* one this build watched too and that says it is a second attempt, a      *)
(* handoff, a node of a graph and a structural span.  The clock is coarse. *)

SpanKind(operation, name, shape, own, error, duration, ends) ==
  [operation |-> operation, name |-> name, shape |-> shape, own |-> own, error |-> error,
   attempt |-> IF own THEN 2 ELSE 1, duration |-> duration, ends |-> ends,
   success |-> IF operation = "invoke_agent" THEN "yes" ELSE "none"]

MCSpanKinds == <<
  SpanKind("invoke_agent", "first", "named", FALSE, FALSE, 4, <<>>),
  SpanKind("invoke_agent", "second", "named", FALSE, FALSE, 2, <<>>),
  SpanKind("chat", "model", "named", FALSE, TRUE, 2, <<>>),
  SpanKind("chat", "model", "named", FALSE, FALSE, 2, <<>>),
  SpanKind("chat", "endpoint", "named", TRUE, TRUE, 1, <<>>),
  SpanKind("execute_tool", "first", "named", FALSE, FALSE, 1, <<"first", "second">>),
  SpanKind("unclassified", "step", "graph_node", FALSE, FALSE, 3, <<>>),
  SpanKind("invoke_agent", "second", "structural", FALSE, FALSE, 3, <<>>)>>

Derive(b) == INSTANCE Topology WITH bundle <- b, SpanKinds <- MCSpanKinds, Starts <- {1, 2}, MaxSpans <- 3
T == INSTANCE Topology WITH bundle <- input, SpanKinds <- MCSpanKinds, Starts <- {1, 2}, MaxSpans <- 3

\* Two neighbours in the order of arrival, the other way round.
SwappedAt(n) == [input EXCEPT ![n] = input[n + 1], ![n + 1] = input[n]]

\* Two roots, or two children of one span, that start together.
Tied(s, t) == s.start = t.start /\ (s.parent = t.parent \/ {s, t} \subseteq T!Roots)

\* What a run is read as does not depend on the order its spans arrived in, which is the order
\* batches and processes exported them in: not on a parent after its child, nor on a retry before
\* the attempt that failed.  Only spans that are tied are read as they arrived.
ArrivalOrderIsIrrelevant ==
  subject = "topology" =>
    \A n \in 1 .. Len(input) - 1 :
      ~Tied(input[n], input[n + 1]) => Derive(SwappedAt(n))!Topology = T!Topology

\* A root of this build's during which the target's instrumentation had a call in flight.
Doubled(s) ==
  /\ T!KindOf(s).own /\ ~T!HasParent(s) /\ T!Children(s) = {}
  /\ \E t \in T!Spans : /\ ~T!KindOf(t).own /\ T!KindOf(t).operation = "chat"
                        /\ t.start <= s.start /\ T!Ends(t) >= T!Ends(s)
WatchedOnce == Derive(SelectSeq(input, LAMBDA s : ~Doubled(s)))!Topology

\* There is such a span; no span starts before the one it is in, and none is its own ancestor.
WatchedTwice ==
  /\ subject = "topology" /\ \E s \in T!Spans : Doubled(s)
  /\ T!Visited = T!Spans /\ \A s \in T!Spans : T!HasParent(s) => T!Parent(s).start <= s.start

\* The outcome of a run is read from its first root, also when that is one of those spans, which
\* starts in the same tick as the agent it belongs to and has none.
OutcomeOfDoubled ==
  /\ T!Topology.metrics.taskSuccess = {"none"}
  /\ \E s \in T!Roots : Doubled(s) /\ \A t \in T!Roots : s.start <= t.start
WithoutOutcome(topology) == [topology EXCEPT !.metrics.taskSuccess = {}]

\* A call watched by the target's instrumentation and by this build's is read once, with the
\* clock too coarse to order the two as well: the run is read as it is without those spans of
\* this build, all but its outcome where one of them is the first root.
WatchedTwiceReadOnce ==
  WatchedTwice =>
    \/ T!Topology = WatchedOnce
    \/ OutcomeOfDoubled /\ WithoutOutcome(T!Topology) = WithoutOutcome(WatchedOnce)

----------------------------------------------------------------------------
(* Graphs: a tool with three effects and a test, one of its name in        *)
(* another module, an agent, its calls to the tool and to one nobody adds. *)

MCIdentities ==
  [i \in {"agent", "tool", "other"} |->
     [base |-> IF i = "agent" THEN "agent" ELSE "tool", namespace |-> i]]

Draft(of, name, effect, method, basis, file, for, value) ==
  [of |-> of, discoveredBy |-> name, evidence |-> {name}, effect |-> effect, method |-> method,
   basis |-> basis, presence |-> {IF basis = 2 THEN "manifest" ELSE "static"}, locations |-> {file},
   details |-> [for |-> for, value |-> value]]

MCDrafts ==
  {Draft(<<"tool">>, "e1", "read", "none", 1, "code", "tool", "none"),
   Draft(<<"tool">>, "e2", "write", "none", 2, "test", "tool", "v"),
   Draft(<<"tool">>, "e3", "delete", "none", 1, "code", "model", "w"),
   Draft(<<"tool">>, "e4", "none", "none", 1, "test", "none", "none"),
   Draft(<<"other">>, "e5", "read", "none", 1, "test", "none", "none"),
   Draft(<<"agent">>, "e6", "none", "none", 1, "code", "none", "none"),
   Draft(<<"calls", "agent", "tool">>, "e7", "read", "get", 1, "code", "none", "none"),
   Draft(<<"calls", "agent", "tool">>, "e8", "write", "post", 2, "code", "policy", "v"),
   Draft(<<"calls", "agent", "nobody">>, "e9", "none", "none", 1, "code", "none", "none")}

G == INSTANCE GraphBuilder WITH
  drafts <- input, Identities <- MCIdentities, TestFiles <- {"test"}, Drafts <- MCDrafts, MaxDrafts <- 4

\* See GraphBuilder.
ClaimsSurviveMerging == subject = "graph" => G!ClaimsSurviveMerging

----------------------------------------------------------------------------
(* Federations: two checkouts of one revision, another revision, another   *)
(* repository and one that was changed since.                              *)

Repository(root, url, revision, dirty) ==
  [root |-> root, url |-> url, canonical |-> TRUE, revision |-> revision, dirty |-> dirty,
   declared |-> [file \in {"one", "two"} |-> IF file = "one" THEN {"c"} ELSE {"c", "d"}]]

MCRepositories ==
  {Repository("a", "ours", "1", FALSE), Repository("b", "ours", "1", FALSE), Repository("c", "ours", "2", FALSE),
   Repository("d", "theirs", "1", FALSE), Repository("e", "theirs", "2", TRUE), Repository("f", "none", "1", FALSE)}

Source(url, revision, file) == [url |-> url, revision |-> revision, file |-> file]

MCComponents ==
  {[source |-> s] : s \in {Source("ours", "1", "one"), Source("ours", "1", "two"), Source("ours", "2", "one")}}

Relation(kind, from, to, parentContext) == [kind |-> kind, from |-> from, to |-> to, parentContext |-> parentContext]

MCRelations ==
  {Relation("calls", Source("ours", "1", "one"), Source(url, "1", file), parent) :
     url \in {"ours", "theirs"}, file \in {"one"}, parent \in BOOLEAN}
  \cup {Relation("calls", Source("none", "none", "none"), Source("theirs", "2", "one"), TRUE),
        Relation("odd", Source("ours", "2", "one"), Source("theirs", "1", "one"), TRUE)}

F == INSTANCE Federation WITH
  state <- input, Repositories <- MCRepositories, Components <- MCComponents, Relations <- MCRelations,
  EdgeKinds <- {"calls"}, MaxSupplied <- 3, MaxObserved <- 2

\* See Federation.
JudgedByItsOwnSource == subject = "federation" => F!JudgedByItsOwnSource

----------------------------------------------------------------------------

MCInit ==
  \/ /\ attempts = <<>> /\ sides = MCSides
     /\ \/ subject = "topology" /\ T!Init
        \/ subject = "federation" /\ F!Init
        \/ subject = "graph" /\ G!Init
        \/ subject = "reconciliation" /\ R!Init
  \/ subject = "comparison" /\ attempts = <<>> /\ input = <<>> /\ SidesInit
  \/ subject = "effects" /\ sides = MCSides /\ input = <<>> /\ AccountInit

MCNext ==
  /\ UNCHANGED subject
  /\ \/ /\ UNCHANGED <<attempts, sides>>
        /\ \/ subject = "topology" /\ T!Next
           \/ subject = "federation" /\ F!Next
           \/ subject = "graph" /\ G!Next
           \/ subject = "reconciliation" /\ R!Next
     \/ subject = "comparison" /\ SidesNext /\ UNCHANGED <<input, attempts>>
     \/ subject = "effects" /\ AccountNext /\ UNCHANGED <<input, sides>>

MCSpec == MCInit /\ [][MCNext]_MCVars

=============================================================================
