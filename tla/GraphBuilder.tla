----------------------------- MODULE GraphBuilder -----------------------------
(***************************************************************************)
(* One graph from the drafts of every adapter (packages/graph/src/         *)
(* graph-builder.ts and merge.ts, identifiers from packages/domain/src/    *)
(* identity.ts).  Drafts of one identity are merged as they arrive; what   *)
(* needs all of them, identifiers, tests and ends of relations, is decided *)
(* once the last one is in.                                                *)
(*                                                                         *)
(* Components and relations are claims alike: a field that only one of     *)
(* them has is None or empty in the other.  A field merged like another    *)
(* one is left out with it (tags and permissions with evidence, retried    *)
(* effects with methods, a policy with details).                           *)
(***************************************************************************)
EXTENDS Naturals, Sequences, FiniteSets, SequencesExt, FiniteSetsExt

CONSTANTS
  Identities,  \* the readable identifier and the namespace of each identity
  TestFiles,   \* the files that are tests
  Drafts,      \* what adapters may report; `of` is an identity, or a kind and two identities
  MaxDrafts    \* bound: how many are reported

VARIABLE drafts  \* in the order the adapters reported them

None == "none"
Effects == {d.effect : d \in Drafts} \ {None}

----------------------------------------------------------------------------
(* Merging.                                                                *)

\* mergeSideEffect, and what mergeRelationMetadata does to a method.
MergeScalar(left, right, conflict) ==
  IF left = None THEN right ELSE IF right \in {None, left} THEN left ELSE conflict

MergeEffectClassesOfTwo(retained, left, right) ==
  IF left = None \/ right = None \/ left = right THEN retained ELSE {left, right}

\* mergeEffectClasses: what the scalar was made of, kept once it is a mixture.
MergeEffectClasses(retained, left, right) ==
  IF retained = {} /\ (left = None \/ right = None \/ left = right) THEN {}
  ELSE (IF retained = {} THEN {left, right} ELSE retained \cup {right}) \ {None}

\* The evidence for each class by itself.
MergeEffectEvidence(kept, effect, evidence) ==
  [c \in Effects |-> IF c = effect THEN kept[c] \cup evidence ELSE kept[c]]

NoEvidence == [c \in Effects |-> {}]

\* mergeDetails: of one kind, and the first who knew.
MergeDetails(left, right) ==
  IF left.for = None THEN right
  ELSE IF right.for = left.for /\ left.value = None THEN right ELSE left

\* A claim nobody made before.
Claim(d) ==
  [presence |-> d.presence, locations |-> d.locations, evidence |-> d.evidence,
   discoveredBy |-> {d.discoveredBy}, basis |-> d.basis, effect |-> d.effect, method |-> d.method,
   classes |-> {}, effectEvidence |-> MergeEffectEvidence(NoEvidence, d.effect, d.evidence),
   details |-> d.details]

Merged(c, d) ==
  [presence |-> c.presence \cup d.presence, locations |-> c.locations \cup d.locations,
   evidence |-> c.evidence \cup d.evidence, discoveredBy |-> c.discoveredBy \cup {d.discoveredBy},
   basis |-> Max({c.basis, d.basis}), effect |-> MergeScalar(c.effect, d.effect, "unknown"),
   method |-> MergeScalar(c.method, d.method, "mixed"),
   classes |-> MergeEffectClasses(c.classes, c.effect, d.effect),
   effectEvidence |-> MergeEffectEvidence(c.effectEvidence, d.effect, d.evidence),
   details |-> MergeDetails(c.details, d.details)]

\* addComponent and addEdge.
Add(pending, d) ==
  IF d.of \in DOMAIN pending THEN [pending EXCEPT ![d.of] = Merged(@, d)]
  ELSE [k \in DOMAIN pending \cup {d.of} |-> IF k = d.of THEN Claim(d) ELSE pending[k]]

Pending == FoldLeft(Add, <<>>, drafts)

----------------------------------------------------------------------------
(* Building.  A relation's key has three parts, a component's has one.     *)

IsRelation(key) == Len(key) = 3
Component(i) == <<i>>
Ends(key) == {key[2], key[3]}

\* assignComponentIds: every one of several that would share an identifier gets its suffix.
Id(all, i) ==
  IF \E j \in all \ {i} : Identities[j].base = Identities[i].base THEN Identities[i]
  ELSE [base |-> Identities[i].base, namespace |-> None]

\* declaredOnlyInTests
InTest(locations) == locations # {} /\ locations \subseteq TestFiles

\* The graph of merged claims: each component by its identifier, each relation by those of its
\* ends, and the relations without one of their ends.
Graph(claims) ==
  LET all == {i \in DOMAIN Identities : Component(i) \in DOMAIN claims}
      relations == {k \in DOMAIN claims : IsRelation(k)}
      complete == {k \in relations : Ends(k) \subseteq all}
  IN  [components |-> {[id |-> Id(all, i), claim |-> claims[Component(i)],
                        inTest |-> InTest(claims[Component(i)].locations)] : i \in all},
       relations |-> {[id |-> <<k[1], Id(all, k[2]), Id(all, k[3])>>, claim |-> claims[k],
                       inTest |-> InTest(claims[k].locations)] : k \in complete},
       discarded |-> {[key |-> k, discoveredBy |-> claims[k].discoveredBy] : k \in relations \ complete}]

----------------------------------------------------------------------------

Init == drafts = <<>>

\* An adapter reports one more.
Report == Len(drafts) < MaxDrafts /\ \E d \in Drafts : drafts' = Append(drafts, d)

Next == Report

----------------------------------------------------------------------------
(* What the graph promises.                                                *)

\* The first value somebody gave for the kind of details that was first told.
FirstTold(key) ==
  LET told == SelectSeq(drafts, LAMBDA d : d.of = key /\ d.details.for # None)
      known == SelectSeq(told, LAMBDA d : d.details.for = told[1].details.for /\ d.details.value # None)
  IN  IF told = <<>> THEN [for |-> None, value |-> None]
      ELSE IF known = <<>> THEN told[1].details ELSE known[1].details

\* All that was said of one thing, taken at once.
Said(key) ==
  LET about == {d \in ToSet(drafts) : d.of = key}
      effects == {d.effect : d \in about} \ {None}
      methods == {d.method : d \in about} \ {None}
      one(values, conflict) ==
        IF values = {} THEN None ELSE IF Cardinality(values) = 1 THEN CHOOSE v \in values : TRUE ELSE conflict
  IN  [presence |-> UNION {d.presence : d \in about}, locations |-> UNION {d.locations : d \in about},
       evidence |-> UNION {d.evidence : d \in about}, discoveredBy |-> {d.discoveredBy : d \in about},
       basis |-> Max({d.basis : d \in about}), effect |-> one(effects, "unknown"), method |-> one(methods, "mixed"),
       classes |-> IF Cardinality(effects) > 1 THEN effects ELSE {},
       effectEvidence |-> [c \in Effects |-> UNION {d.evidence : d \in {e \in about : e.effect = c}}],
       details |-> FirstTold(key)]

\* The graph is the one of everything the adapters said, taken at once: no order of adapters
\* or of files loses evidence, an exact effect behind a mixture, or a relation drafted before
\* its ends (merge.ts: "Exact constituent effect classes survive").  Only in details does the
\* first to speak win.
ClaimsSurviveMerging == Graph(Pending) = Graph([k \in {d.of : d \in ToSet(drafts)} |-> Said(k)])

===============================================================================
