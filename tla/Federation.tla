------------------------------ MODULE Federation ------------------------------
(***************************************************************************)
(* Joining a run of several repositories with the graph of each of them    *)
(* (packages/graph/src/federate.ts).  Which repositories are supplied      *)
(* decides what may be joined; what a span says of its own source decides  *)
(* which of them took part, and a relation between two of them needs a     *)
(* parent context of its own.                                              *)
(*                                                                         *)
(* Left out: evidence, durations and samples of refusals.  Names and lines *)
(* within a file are in Reconcile: here a file declares some components    *)
(* that answer to what was observed, and only one is a match.              *)
(***************************************************************************)
EXTENDS Naturals, Sequences, FiniteSets, SequencesExt, Bags

CONSTANTS
  Repositories,  \* what may be supplied: a root, its git state, and what each file declares
  Components,    \* what spans say of a component: a name and its source, or none
  Relations,     \* what spans say of a relation: its kind, two ends, and a parent context
  EdgeKinds,     \* the kinds of relation a graph has
  MaxSupplied,   \* bound: repositories supplied
  MaxObserved    \* bound: components and relations observed

VARIABLE state  \* what is supplied, and what was visited

None == "none"

----------------------------------------------------------------------------
(* Repositories that can be joined with.                                   *)

Coordinate(r) == [url |-> r.url, revision |-> r.revision]

\* repositoryCoordinate: the first thing that is wrong with its git state.
CoordinateRefusal(r) ==
  IF r.url = None THEN "repositoryUrl missing"
  ELSE IF ~r.canonical THEN "repositoryUrl invalid_path"
  ELSE IF r.revision = None THEN "commit missing"
  ELSE IF r.dirty THEN "repository_dirty"
  ELSE None

Candidates(supplied) == {r \in supplied : CoordinateRefusal(r) = None}

\* Several checkouts of one revision: none of them is.
Ambiguous(supplied) ==
  {r \in Candidates(supplied) : \E other \in Candidates(supplied) \ {r} : Coordinate(other) = Coordinate(r)}

\* eligibleRepositories
Eligible(supplied) == Candidates(supplied) \ Ambiguous(supplied)

----------------------------------------------------------------------------
(* Ends.  A source has a repository, a revision and a file, or no url.     *)

Joined(r, id) == [repository |-> Coordinate(r), id |-> id]

HereByUrl(r, source) == r.url = source.url

\* The repository a source names, as it was at that revision.
Here(r, source) == r.url = source.url /\ r.revision = source.revision

Exact(supplied, source) == {r \in Eligible(supplied) : Here(r, source)}

\* match, in the one repository it is asked of: the components a file declares.
Declared(r, source) == IF source.file \in DOMAIN r.declared THEN r.declared[source.file] ELSE {}

\* resolveEndpoint: why an end is refused.
EndRefusal(supplied, source) ==
  IF source.url = None THEN "missing"
  ELSE IF Exact(supplied, source) = {}
  THEN IF \E r \in Eligible(supplied) : r.url = source.url THEN "revision_mismatch" ELSE "repository_mismatch"
  ELSE LET found == Declared(CHOOSE r \in Exact(supplied, source) : TRUE, source)
       IN  IF found = {} THEN "source_not_declared"
           ELSE IF Cardinality(found) > 1 THEN "ambiguous_source_mapping"
           ELSE None

End(supplied, source) ==
  LET r == CHOOSE r \in Exact(supplied, source) : TRUE
  IN  Joined(r, CHOOSE id \in Declared(r, source) : TRUE)

----------------------------------------------------------------------------
(* Visiting what was observed.                                             *)

\* addRefusal
Refuse(f, scope, reason) ==
  IF reason = None THEN f ELSE [f EXCEPT !.refusals = @ (+) SetToBag({<<scope, reason>>})]

\* visitComponent and addComponentJoin: a join for each component and source.
VisitComponent(supplied, f, c) ==
  LET refusal == EndRefusal(supplied, c.source)
      counted == [f EXCEPT !.observedComponents = @ + 1]
  IN  IF refusal # None THEN Refuse(counted, "component", refusal)
      ELSE [counted EXCEPT !.joins = @ \cup {[component |-> End(supplied, c.source), source |-> c.source]}]

\* hasIndependentRelationEvidence and edgeKind, asked of a relation between two repositories.
RelationRefusal(e) ==
  IF ~e.parentContext THEN "relation_evidence_missing" ELSE IF e.kind \notin EdgeKinds THEN "kind" ELSE None

\* visitRelation and resolvedRelation.  An end is refused by itself, and the relation for it.
VisitRelation(supplied, f, e) ==
  LET fromRefusal == EndRefusal(supplied, e.from)
      toRefusal == EndRefusal(supplied, e.to)
      counted == Refuse(Refuse([f EXCEPT !.observedRelations = @ + 1], "relation", fromRefusal), "relation", toRefusal)
      from == End(supplied, e.from)
      to == End(supplied, e.to)
  IN  IF fromRefusal # None \/ toRefusal # None THEN Refuse(counted, "relation", "endpoint_refused")
      ELSE IF from.repository = to.repository THEN [counted EXCEPT !.within = @ + 1]
      ELSE IF RelationRefusal(e) # None THEN Refuse(counted, "relation", RelationRefusal(e))
      ELSE [counted EXCEPT !.relations = Append(@, [kind |-> e.kind, from |-> from, to |-> to])]

Nothing ==
  [refusals |-> EmptyBag, joins |-> {}, relations |-> <<>>,
   observedComponents |-> 0, observedRelations |-> 0, within |-> 0]

\* federate
Federate(supplied, seen) ==
  LET visit(f, o) == IF "source" \in DOMAIN o THEN VisitComponent(supplied, f, o) ELSE VisitRelation(supplied, f, o)
  IN  FoldLeft(visit, Nothing, seen)

----------------------------------------------------------------------------

Init == \E supplied \in SUBSET Repositories :
  Cardinality(supplied) \in 2 .. MaxSupplied /\ state = [supplied |-> supplied, seen |-> <<>>]

Observe ==
  /\ Len(state.seen) < MaxObserved
  /\ \E o \in Components \cup Relations : state' = [state EXCEPT !.seen = Append(@, o)]

Next == Observe

----------------------------------------------------------------------------
(* What a federation promises.                                             *)

Federated == Federate(state.supplied, state.seen)

\* With one repository fewer, what does not involve its revision is joined just the same.
SupplyOnlySelects ==
  \A r \in state.supplied :
    LET without == Federate(state.supplied \ {r}, state.seen)
        elsewhere(f) == {j \in f.joins : j.component.repository # Coordinate(r)}
        between(f) == SelectSeq(f.relations, LAMBDA e : Coordinate(r) \notin {e.from.repository, e.to.repository})
    IN  elsewhere(Federated) = elsewhere(without) /\ between(Federated) = between(without)

Refused(reason) == CopiesIn(<<"relation", reason>>, Federated.refusals)

\* Every observed relation is joined, inside one repository, or refused for one reason of its own.
RelationsAccounted ==
  Federated.observedRelations =
    Len(Federated.relations) + Federated.within
      + Refused("endpoint_refused") + Refused("relation_evidence_missing") + Refused("kind")

\* The list of repositories "selects what may be considered. Only the observed source on each
\* endpoint selects what actually participated" (federate.ts): which others were supplied, a
\* second revision or a second checkout among them, changes no join, and no relation is lost.
JudgedByItsOwnSource == SupplyOnlySelects /\ RelationsAccounted

===============================================================================
