------------------------------- MODULE Reconcile -------------------------------
(***************************************************************************)
(* Joining what ran with what was declared (packages/graph/src/            *)
(* reconcile.ts and source-match.ts).  Observed components of one run      *)
(* after another are attributed to declarations, by the location their     *)
(* spans carry, then by name, and what cannot be attributed becomes a      *)
(* component of its own.  Observed relations then follow their ends.       *)
(*                                                                         *)
(* One kind of component is modelled: every index of the code is keyed by  *)
(* the kind first.  Evidence is the set of positions in the history.  A    *)
(* pinned path is relative to the repository: under says which directory   *)
(* of it the file is in, and root which of them was scanned, if not all.   *)
(***************************************************************************)
EXTENDS Naturals, Sequences, FiniteSets, SequencesExt, FiniteSetsExt

CONSTANTS
  Graphs,     \* declared systems: whether the checkout is clean, its root, declarations, relations
  Observable, \* what spans of one component may say: a name and a location
  BareName,   \* the last segment of each name
  MaxSteps    \* bound: how much is observed

VARIABLE state

None == "none"

----------------------------------------------------------------------------
(* Resolving one observation.  A declaration has an id, a name, the name   *)
(* it is known to run by, a file and the lines it spans.                   *)

\* componentNames, and the bare form of each.
Names(d) == {d.name, d.runtimeName} \ {None}
Answers(d) == Names(d) \cup {BareName[n] : n \in Names(d)}

\* declarationsAt: by the full name, then by its last segment.
DeclarationsAt(g, file, name) ==
  LET at(n) == {d \in g.declared : d.file = file /\ n \in Answers(d)}
  IN  IF at(name) # {} THEN at(name) ELSE at(BareName[name])

Matched(d, rule) == [kind |-> "matched", id |-> d.id, rule |-> rule]
Refused(reason) == [kind |-> "refused", reason |-> reason]
Ambiguous == [kind |-> "ambiguous"]
Unmatched == [kind |-> "unmatched"]

\* uniqueCandidate
Only(ds) == Cardinality(ds) = 1
TheOne(ds) == CHOOSE d \in ds : TRUE

\* selectOn: a line chooses among candidates and does not veto the only one.
SelectOn(ds, line) ==
  LET on == {d \in ds : line \in d.lines}
      matching == IF on = {} THEN ds ELSE on
  IN  IF Only(matching) THEN Matched(TheOne(matching), "code_location") ELSE Ambiguous

\* rebasedOnScanRoot: a repository's file that is not under the scanned root declares nothing;
\* a content location is relative to that root already.
InTree(g, o) == o.proof = "pinned" => o.under = g.root

\* match and matchContent, asked in that order.
BySource(g, o) ==
  LET ds == IF InTree(g, o) THEN DeclarationsAt(g, o.file, o.name) ELSE {}
      pinned == o.proof = "pinned"
  IN  CASE pinned /\ o.repository # "ours" -> Refused("repository_mismatch")
        [] pinned /\ o.repository = "ours" /\ (o.revision # "ours" \/ ~g.clean) -> Refused("revision_mismatch")
        [] ~pinned /\ ds # {} /\ o.digest # "same" -> Refused("digest_mismatch")
        [] OTHER -> IF ds = {} THEN Refused("source_not_declared") ELSE SelectOn(ds, o.line)

\* A refusal that says the run was about other code is final.
AboutOtherCode == {"repository_mismatch", "revision_mismatch"}

ByName(g, name) ==
  LET running == {d \in g.declared : d.runtimeName = name}
      named == {d \in g.declared : d.name = name}
      bare == {d \in g.declared : BareName[d.name] = BareName[name]}
  IN  CASE Only(running) -> Matched(TheOne(running), "runtime_name")
        [] ~Only(running) /\ Only(named) -> Matched(TheOne(named), "kind_and_name")
        [] ~Only(running) /\ ~Only(named) /\ Only(bare) -> Matched(TheOne(bare), "kind_and_name")
        [] OTHER -> IF Cardinality(named) > 1 THEN Ambiguous ELSE Unmatched

\* resolveObserved
Resolve(g, o) ==
  LET bySource == BySource(g, o)
  IN  CASE o.proof = None -> ByName(g, o.name)
        [] o.proof # None /\ bySource.kind = "refused" ->
             IF bySource.reason \in AboutOtherCode THEN Unmatched ELSE ByName(g, o.name)
        [] o.proof # None /\ bySource.kind # "refused" -> bySource


\* observedResolutionKey: a content location is not in it.
Key(o) ==
  IF o.proof = "pinned"
  THEN <<o.name, o.repository, o.revision, o.under, o.file, o.line, o.function>>
  ELSE <<o.name>>

----------------------------------------------------------------------------
(* The state of one reconciliation.                                        *)

Init ==
  \E g \in Graphs : state =
    [graph |-> g,
     components |-> [i \in {d.id : d \in g.declared} |-> [declared |-> TRUE, runtime |-> FALSE, evidence |-> {}]],
     edges |-> [e \in g.relations |-> [declared |-> TRUE, count |-> 0]],
     resolved |-> <<>>, used |-> {d.id : d \in g.declared},
     seen |-> <<>>, related |-> <<>>,
     observed |-> 0, qualified |-> 0, refused |-> 0]

Steps == Len(state.seen) + Len(state.related)

\* markObserved, as the next step of the history.
Mark(i) ==
  [state.components EXCEPT ![i].runtime = TRUE, ![i].evidence = @ \cup {Len(state.seen) + 1}]

\* The id of a component that only ran: the readable one, or the suffix all such names share.
RuntimeOnlyId(name) == IF name \in state.used THEN name \o "~runtime" ELSE name

Created == [declared |-> FALSE, runtime |-> TRUE, evidence |-> {Len(state.seen) + 1}]

\* An observation that resolves as an earlier one did.
MarkAgain(o) ==
  /\ Key(o) \in DOMAIN state.resolved
  /\ state' = [state EXCEPT !.components = Mark(state.resolved[Key(o)]),
                            !.seen = Append(@, o)]

MarkMatched(o) ==
  LET r == Resolve(state.graph, o) IN
  /\ Key(o) \notin DOMAIN state.resolved /\ r.kind = "matched"
  /\ state' = [state EXCEPT !.components = Mark(r.id),
                            !.resolved = (Key(o) :> r.id) @@ @,
                            !.seen = Append(@, o)]

AddUnlisted(o) ==
  LET i == RuntimeOnlyId(o.name) IN
  /\ Key(o) \notin DOMAIN state.resolved /\ Resolve(state.graph, o).kind # "matched"
  /\ state' = [state EXCEPT !.components = (i :> Created) @@ @,
                            !.resolved = (Key(o) :> i) @@ @,
                            !.seen = Append(@, o)]

\* An ambiguous or unmatched observation becomes a component of its own.
AddRuntimeOnly(o) ==
  LET i == RuntimeOnlyId(o.name) IN
  /\ Key(o) \notin DOMAIN state.resolved /\ Resolve(state.graph, o).kind # "matched"
  /\ state' = [state EXCEPT !.components = (i :> Created) @@ @,
                            !.resolved = (Key(o) :> i) @@ @,
                            !.used = @ \cup {i},
                            !.seen = Append(@, o)]

Relation(a, b, rederived, places) == [from |-> a, to |-> b, rederived |-> rederived, at |-> places]

\* An end that nothing observed resolves to: the relation is refused.
RefuseUnresolved(a, b, rederived) ==
  /\ ~({a, b} \subseteq DOMAIN state.resolved)
  /\ state' = [state EXCEPT !.observed = @ + 1, !.refused = @ + 1,
                            !.related = Append(@, Relation(a, b, rederived, {}))]

Ends(a, b) == <<state.resolved[a], state.resolved[b]>>

\* A known relation, observed on evidence other than that of its ends, or refused.
MergeEdge(a, b, rederived) ==
  /\ {a, b} \subseteq DOMAIN state.resolved /\ Ends(a, b) \in DOMAIN state.edges
  /\ state' = [state EXCEPT !.observed = @ + 1,
                            !.edges[Ends(a, b)].count = IF rederived THEN @ ELSE @ + 1,
                            !.qualified = IF rederived THEN @ ELSE @ + 1,
                            !.refused = IF rederived THEN @ + 1 ELSE @,
                            !.related = Append(@, Relation(a, b, rederived, {Ends(a, b)}))]

ReplaceEdge(a, b, rederived) ==
  /\ {a, b} \subseteq DOMAIN state.resolved
  /\ state' = [state EXCEPT !.observed = @ + 1, !.refused = @ + 1,
                            !.edges = (Ends(a, b) :> [declared |-> FALSE, count |-> 1]) @@ @,
                            !.related = Append(@, Relation(a, b, rederived, {Ends(a, b)}))]

\* One nobody declared is added, and counted among the refusals.
AddEdge(a, b, rederived) ==
  /\ {a, b} \subseteq DOMAIN state.resolved /\ Ends(a, b) \notin DOMAIN state.edges
  /\ state' = [state EXCEPT !.observed = @ + 1, !.refused = @ + 1,
                            !.edges = (Ends(a, b) :> [declared |-> FALSE, count |-> 1]) @@ @,
                            !.related = Append(@, Relation(a, b, rederived, {Ends(a, b)}))]

\* Ends are named as components are, or by a hand-over that carries no location.
EndKeys == {Key(o) : o \in Range(state.seen)} \cup {<<o.name>> : o \in Range(state.seen)}

Next ==
  /\ Steps < MaxSteps
  /\ \/ \E o \in Observable : MarkAgain(o) \/ MarkMatched(o) \/ AddRuntimeOnly(o)
     \/ \E a, b \in EndKeys, rederived \in BOOLEAN :
          RefuseUnresolved(a, b, rederived) \/ MergeEdge(a, b, rederived) \/ AddEdge(a, b, rederived)

Spec == Init /\ [][Next]_state

----------------------------------------------------------------------------
(* What reconciliation promises.                                           *)

(* How an observation tells declarations apart, said without the lookups.  *)

\* The run was about a repository, a revision or a tree that is not the one declared.
OfOtherCode(g, o) ==
  o.proof = "pinned" /\ (o.repository # "ours" \/ o.revision # "ours" \/ ~g.clean)

\* The file is not the one that ran any more.
OfChangedFile(o) == o.proof = "content" /\ o.digest # "same"

\* The location stands, and it is in a file of d.
InFileOf(g, o, d) ==
  o.proof # None /\ ~OfOtherCode(g, o) /\ ~OfChangedFile(o) /\ InTree(g, o) /\ o.file = d.file

\* A name for d: its own, the one it runs by, or one with the same last segment.
MayBe(o, d) == \E n \in Names(d) : BareName[n] = BareName[o.name]
Bearers(g, o) == {d \in g.declared : MayBe(o, d)}

\* The file, the line, or a name that only d has in full tells it from another declaration.
Tells(g, o, d, other) ==
  \/ InFileOf(g, o, d) /\ (other.file # d.file \/ o.line \in d.lines \ other.lines)
  \/ \E n \in Names(d) \ Names(other) : n = o.name

DeclarationOf(k) ==
  {d \in state.graph.declared : d.id = state.resolved[Key(state.seen[k])]}

Decided(k) ==
  LET o == state.seen[k] IN
  \A d \in DeclarationOf(k) : \A other \in Bearers(state.graph, o) \ {d} :
    Tells(state.graph, o, d, other)

\* That location is not in the key: an earlier observation of the same key, located by content, may
\* have decided this one.
DecidedBefore(k) ==
  \E j \in 1 .. k - 1 : /\ Key(state.seen[j]) = Key(state.seen[k]) /\ state.seen[j].proof = "content"
                       /\ Decided(j) /\ DeclarationOf(j) = DeclarationOf(k)


\* The undeclared observations of one name, and how many ids there are for them.
Undeclared(name) ==
  {Key(o) : o \in {p \in Range(state.seen) : p.name = name /\ ~state.components[state.resolved[Key(p)]].declared}}
Room(name) == IF \E d \in state.graph.declared : d.id = name THEN 1 ELSE 2

\* What was observed is in the component it was resolved to, and nowhere else, while a name has
\* no more undeclared bearers than there are ids for them.
ObservedOnce ==
  \A k \in DOMAIN state.seen :
    LET o == state.seen[k] IN
    Cardinality(Undeclared(o.name)) <= Room(o.name) =>
      {i \in DOMAIN state.components : k \in state.components[i].evidence} = {state.resolved[Key(o)]}

\* The edges account for the relations observed: an edge counts those that have its ends, the
\* first of an undeclared edge included, and every relation is qualified or refused.
RelationsAddUp ==
  LET counts(e, r) == e \in r.at /\ ~(r.rederived /\ state.edges[e].declared)
  IN  /\ state.observed = state.qualified + state.refused
      /\ \A e \in DOMAIN state.edges : state.edges[e].declared =>
           state.edges[e].count = Len(SelectSeq(state.related, LAMBDA r : counts(e, r)))
      /\ MapThenSumSet(LAMBDA e : state.edges[e].count, DOMAIN state.edges)
           = state.qualified + Cardinality({e \in DOMAIN state.edges : ~state.edges[e].declared})

============================================================================
