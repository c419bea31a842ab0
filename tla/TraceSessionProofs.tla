------------------------- MODULE TraceSessionProofs -------------------------
(***************************************************************************)
(* The safety properties of TraceSession, and that it implements Capture,  *)
(* for any number of spans, any limits and any number of requests sent     *)
(* again.  What the receiver's two folds do to their spans comes first,    *)
(* then where a span can be, then the count of them.  That sessions end is *)
(* liveness and stays with TLC.                                            *)
(***************************************************************************)
EXTENDS TraceSession, FoldFacts, SequenceTheorems

\* What the receiver holds.
Held == Merged(bundles)

Apart(s, t) == ToSet(s) \cap ToSet(t) = {}

Known(s) == ToSet(s) \subseteq 1 .. ended

\* How the session got where it is.
SessionInv ==
  /\ session \in {"starting", "bound"} \/ kind = "receive" => ~tried /\ ~directory
  /\ Over /\ tried => receiver = "closed" /\ ~directory
  /\ kind = "receive" => target = "running"
  /\ session = "draining" => target = "ended"
  /\ session \in {"closing", "done"} /\ kind = "trace" => target \in {"none", "ended"}

\* A span is on its way only once it has ended, and the first post is the one that waits.
KnownInv ==
  /\ dropped <= ended /\ Known(batch) /\ Known(Held.spans)
  /\ \A i \in DOMAIN chain : Known(chain[i])
  /\ \A r \in network : Known(r.spans)
  /\ waiting # NoRequest => chain # <<>>

\* What is held, and what was taken of it, has every span once and effects of its spans alone.
HeldInv ==
  \A b \in {Held, result} : IsInjective(b.spans) /\ ToSet(b.effects) \subseteq ToSet(b.spans)

\* A span is in one place: in the batch, in a post, in a request other than that post's own,
\* or held.
Placed(b, posts, wait, net, held) ==
  /\ IsInjective(b) /\ ToSet(b) \cap held = {}
  /\ \A i \in DOMAIN posts :
       /\ IsInjective(posts[i]) /\ Apart(posts[i], b) /\ ToSet(posts[i]) \cap held = {}
       /\ \A j \in DOMAIN posts : i # j => Apart(posts[i], posts[j])
  /\ \A r \in net :
       /\ IsInjective(r.spans) /\ Apart(r.spans, b) /\ ToSet(r.spans) \cap held = {}
       /\ \A i \in DOMAIN posts : (i = 1 /\ r.id = wait) \/ Apart(r.spans, posts[i])
       /\ \A q \in net : q # r => Apart(r.spans, q.spans)

\* It is, unless a request is sent again; then an effect is collected once as well.
PlaceInv ==
  again = 0 =>
    /\ Placed(batch, chain, waiting, network, ToSet(Held.spans))
    /\ IsInjective(Held.effects) /\ IsInjective(result.effects)

\* The spans the exporter still has.
Unsent(b, posts) == ToSet(b) \cup UNION {ToSet(posts[i]) : i \in DOMAIN posts}

Tally(b) == Len(b.spans) + b.dropped + b.rejected

\* Undisturbed, every span is accounted for, and a target that has ended has none left.
CountInv ==
  smooth =>
    /\ again = 0
    /\ \A r \in network : r.id = waiting /\ chain # <<>> /\ r.spans = chain[1]
    /\ ended = Cardinality(Unsent(batch, chain)) + Tally(Held) + refused + dropped
    /\ target = "ended" => chain = <<>> /\ batch = <<>>
    /\ kind = "trace" /\ session \in {"closing", "done"} /\ target = "ended" =>
         Tally(result) = Tally(Held)

\* Merging keeps every span that arrived.
ArrivedInv == Arrived = ToSet(Held.spans)

IInv == TypeOK /\ SessionInv /\ KnownInv /\ HeldInv /\ PlaceInv /\ CountInv /\ ArrivedInv
----------------------------------------------------------------------------
(* Sequences and the sets of what they hold.                               *)

\* Lemma: one element more.
LEMMA Appended ==
  ASSUME NEW S, NEW s \in Seq(S), NEW e \in S
  PROVE  /\ Append(s, e) \in Seq(S) /\ Len(Append(s, e)) = Len(s) + 1
         /\ ToSet(Append(s, e)) = ToSet(s) \cup {e}
         /\ IsInjective(s) /\ e \notin ToSet(s) => IsInjective(Append(s, e))
  <1> DEFINE t == Append(s, e)
             n == Len(s)
  <1>1. /\ n \in Nat /\ DOMAIN s = 1 .. n /\ t \in Seq(S) /\ Len(t) = n + 1
        /\ DOMAIN t = 1 .. n + 1 /\ t[n + 1] = e /\ \A i \in 1 .. n : t[i] = s[i]
    OBVIOUS
  <1> HIDE DEF t, n
  <1>2. ToSet(t) = ToSet(s) \cup {e}
    BY <1>1 DEF ToSet
  <1>3. ASSUME IsInjective(s), e \notin ToSet(s) PROVE IsInjective(t)
    BY <1>1, <1>3 DEF ToSet, IsInjective
  <1>4. Append(s, e) = t /\ Len(s) = n
    BY DEF t, n
  <1> QED BY <1>1, <1>2, <1>3, <1>4

\* Lemma: two sequences, one after the other.
LEMMA Concatenated ==
  ASSUME NEW S, NEW s \in Seq(S), NEW t \in Seq(S)
  PROVE  /\ s \o t \in Seq(S) /\ Len(s \o t) = Len(s) + Len(t)
         /\ ToSet(s \o t) = ToSet(s) \cup ToSet(t)
         /\ IsInjective(s) /\ IsInjective(t) /\ Apart(s, t) => IsInjective(s \o t)
  <1> DEFINE u == s \o t
             n == Len(s)
             m == Len(t)
  <1>1. /\ n \in Nat /\ m \in Nat /\ DOMAIN s = 1 .. n /\ DOMAIN t = 1 .. m
        /\ u \in Seq(S) /\ Len(u) = n + m /\ DOMAIN u = 1 .. n + m
        /\ \A i \in 1 .. n : u[i] = s[i]
        /\ \A i \in 1 .. n + m : i > n => u[i] = t[i - n]
    BY ConcatProperties
  <1> HIDE DEF u, n, m
  <1>2. \A j \in 1 .. m : u[j + n] = t[j]
    BY <1>1
  <1>3. ToSet(u) = ToSet(s) \cup ToSet(t)
    <2>1. ToSet(u) \subseteq ToSet(s) \cup ToSet(t)
      <3> SUFFICES ASSUME NEW i \in 1 .. n + m PROVE u[i] \in ToSet(s) \cup ToSet(t)
        BY <1>1 DEF ToSet
      <3>1. CASE i \in 1 .. n
        BY <1>1, <3>1 DEF ToSet
      <3>2. CASE i \notin 1 .. n
        <4>1. i - n \in 1 .. m /\ u[i] = t[i - n]
          BY <1>1, <3>2
        <4> QED BY <1>1, <4>1 DEF ToSet
      <3> QED BY <3>1, <3>2
    <2>2. ToSet(s) \subseteq ToSet(u)
      <3>1. \A i \in 1 .. n : i \in 1 .. n + m
        BY <1>1
      <3> QED BY <1>1, <3>1 DEF ToSet
    <2>3. ToSet(t) \subseteq ToSet(u)
      <3> SUFFICES ASSUME NEW j \in 1 .. m PROVE t[j] \in ToSet(u)
        BY <1>1 DEF ToSet
      <3>1. j + n \in 1 .. n + m /\ u[j + n] = t[j]
        BY <1>1, <1>2
      <3> QED BY <1>1, <3>1 DEF ToSet
    <2> QED BY <2>1, <2>2, <2>3
  <1>4. ASSUME IsInjective(s), IsInjective(t), Apart(s, t) PROVE IsInjective(u)
    <2> SUFFICES ASSUME NEW i \in 1 .. n + m, NEW j \in 1 .. n + m, u[i] = u[j], i < j PROVE FALSE
      BY <1>1 DEF IsInjective
    <2>1. CASE j <= n
      <3>1. i \in 1 .. n /\ j \in 1 .. n /\ i # j
        BY <1>1, <2>1
      <3> QED BY <1>1, <1>4, <3>1 DEF IsInjective
    <2>2. CASE i <= n /\ j > n
      <3>1. i \in 1 .. n /\ j - n \in 1 .. m
        BY <1>1, <2>2
      <3>2. s[i] = t[j - n]
        BY <1>1, <2>2, <3>1
      <3> QED BY <1>1, <1>4, <3>1, <3>2 DEF Apart, ToSet
    <2>3. CASE i > n
      <3>1. i - n \in 1 .. m /\ j - n \in 1 .. m /\ i - n # j - n
        BY <1>1, <2>3
      <3>2. t[i - n] = t[j - n]
        BY <1>1, <2>3
      <3> QED BY <1>1, <1>4, <3>1, <3>2 DEF IsInjective
    <2> QED BY <1>1, <2>1, <2>2, <2>3
  <1>5. u = s \o t /\ n = Len(s) /\ m = Len(t)
    BY DEF u, n, m
  <1> QED BY <1>1, <1>3, <1>4, <1>5

\* Lemma: a sequence without repetition has as many elements as places.
LEMMA CountedByLength ==
  ASSUME NEW S, NEW s \in Seq(S), IsInjective(s)
  PROVE  IsFiniteSet(ToSet(s)) /\ Cardinality(ToSet(s)) = Len(s)
  <1> DEFINE n == Len(s)
             T == ToSet(s)
  <1>1. n \in Nat /\ DOMAIN s = 1 .. n /\ s \in [1 .. n -> T]
    BY DEF ToSet
  <1>2. s \in Bijection(1 .. n, T)
    BY <1>1 DEF ToSet, IsInjective, Bijection, Injection, Surjection, IsInjective
  <1>3. IsFiniteSet(1 .. n) /\ Cardinality(1 .. n) = n
    <2>1. \A k \in Nat : IsFiniteSet(1 .. k) /\ Cardinality(1 .. k) = k
      <3> SUFFICES ASSUME NEW k \in Nat PROVE IsFiniteSet(1 .. k) /\ Cardinality(1 .. k) = k
        OBVIOUS
      <3>1. IsFiniteSet(1 .. k) /\ Cardinality(1 .. k) = IF 1 > k THEN 0 ELSE k - 1 + 1
        BY FS_Interval
      <3> QED BY <3>1
    <2> QED BY <1>1, <2>1
  <1>4. ExistsBijection(1 .. n, T)
    BY <1>2 DEF ExistsBijection
  <1> HIDE DEF n, T
  <1>5. IsFiniteSet(T) /\ Cardinality(T) = Cardinality(1 .. n)
    BY <1>3, <1>4, FS_Bijection
  <1> QED BY <1>3, <1>5 DEF n, T

\* Lemma: nothing in a sequence.
LEMMA EmptyFacts == ToSet(<<>>) = {} /\ IsInjective(<<>>) /\ Len(<<>>) = 0
  BY DEF ToSet, IsInjective

----------------------------------------------------------------------------
(* Normalisation of one request.                                           *)

\* Lemma: a span more is kept, with or without its effect, or counted.
LEMMA OneSpan ==
  ASSUME NEW b \in Bundle, NEW s \in Span
  PROVE  /\ WithSpan(b, s) \in Bundle /\ Tally(WithSpan(b, s)) = Tally(b) + 1
         /\ \/ WithSpan(b, s).spans = b.spans /\ WithSpan(b, s).effects = b.effects
            \/ /\ WithSpan(b, s).spans = Append(b.spans, s)
               /\ WithSpan(b, s).effects \in {b.effects, Append(b.effects, s)}
  <1> DEFINE w == WithSpan(b, s)
  <1>0. /\ b.spans \in Seq(Span) /\ b.effects \in Seq(Span) /\ b.dropped \in Nat
        /\ b.rejected \in Nat /\ Len(b.spans) \in Nat /\ MaxSpansPerRun \in Nat
        /\ b = [spans |-> b.spans, effects |-> b.effects, dropped |-> b.dropped,
                rejected |-> b.rejected]
    BY LimitAssumption DEF Bundle
  <1>1. \/ w = [b EXCEPT !.dropped = @ + 1]
        \/ w = [b EXCEPT !.rejected = @ + 1]
        \/ w = [b EXCEPT !.spans = Append(@, s),
                         !.effects = IF s \in Effectful THEN Append(@, s) ELSE @]
    <2>1. CASE Len(b.spans) >= MaxSpansPerRun
      <3>1. ~(Len(b.spans) < MaxSpansPerRun)
        BY <1>0, <2>1
      <3> QED BY <2>1, <3>1, Zenon DEF WithSpan
    <2>2. CASE Len(b.spans) < MaxSpansPerRun
      <3>1. ~(Len(b.spans) >= MaxSpansPerRun)
        BY <1>0, <2>2
      <3>2. CASE s \in Malformed
        BY <2>2, <3>1, <3>2, Zenon DEF WithSpan
      <3>3. CASE s \notin Malformed
        BY <2>2, <3>1, <3>3, Zenon DEF WithSpan
      <3> QED BY <3>2, <3>3
    <2> QED BY <1>0, <2>1, <2>2
  <1> HIDE DEF w
  <1>2. CASE w = [b EXCEPT !.dropped = @ + 1]
    <2>1. /\ w.spans = b.spans /\ w.effects = b.effects /\ w.rejected = b.rejected
          /\ w.dropped = b.dropped + 1 /\ w \in Bundle
      BY <1>0, <1>2 DEF Bundle
    <2> QED BY <1>0, <2>1 DEF Tally, w
  <1>3. CASE w = [b EXCEPT !.rejected = @ + 1]
    <2>1. /\ w.spans = b.spans /\ w.effects = b.effects /\ w.rejected = b.rejected + 1
          /\ w.dropped = b.dropped /\ w \in Bundle
      BY <1>0, <1>3 DEF Bundle
    <2> QED BY <1>0, <2>1 DEF Tally, w
  <1>4. CASE w = [b EXCEPT !.spans = Append(@, s),
                           !.effects = IF s \in Effectful THEN Append(@, s) ELSE @]
    <2>0. Append(b.spans, s) \in Seq(Span) /\ Append(b.effects, s) \in Seq(Span)
      BY <1>0
    <2>1. /\ w.spans = Append(b.spans, s) /\ w.effects \in {b.effects, Append(b.effects, s)}
          /\ w.rejected = b.rejected /\ w.dropped = b.dropped /\ w \in Bundle
      <3>1. w = [spans |-> Append(b.spans, s),
                 effects |-> IF s \in Effectful THEN Append(b.effects, s) ELSE b.effects,
                 dropped |-> b.dropped, rejected |-> b.rejected]
        BY <1>0, <1>4
      <3> QED BY <1>0, <2>0, <3>1 DEF Bundle
    <2>2. Len(w.spans) = Len(b.spans) + 1
      BY <1>0, <2>1
    <2>3. Tally(w) = Tally(b) + 1
      BY <1>0, <2>1, <2>2 DEF Tally
    <2> QED BY <2>1, <2>3 DEF w
  <1> QED BY <1>1, <1>2, <1>3, <1>4

SpanStep(spans) == [i \in 1 .. Len(spans) |-> [b \in Bundle |-> WithSpan(b, spans[i])]]

\* Lemma: Normalized takes the spans one by one.
LEMMA NormalizedIterates ==
  ASSUME NEW spans \in Seq(Span)
  PROVE  \E f : /\ Iterates(f, Bundle, NoResult, SpanStep(spans), Len(spans))
                /\ Normalized(spans) = f[Len(spans)]
  <1> DEFINE n == Len(spans)
             step == SpanStep(spans)
             IsIter(g) == g = [T \in SUBSET DOMAIN spans |->
                               IF T = {} THEN NoResult
                               ELSE WithSpan(g[T \ {Max(T)}], spans[Max(T)])]
             iter == CHOOSE g : IsIter(g)
  <1>1. n \in Nat /\ DOMAIN spans = 1 .. n /\ \A i \in 1 .. n : spans[i] \in Span
    OBVIOUS
  <1>2. NoResult \in Bundle
    BY DEF NoResult, Bundle
  <1>3. step \in [1 .. n -> [Bundle -> Bundle]]
    BY <1>1, OneSpan DEF SpanStep
  <1>4. ASSUME NEW T \in SUBSET (1 .. n), T # {}, NEW b \in Bundle
        PROVE  step[Max(T)][b] = WithSpan(b, spans[Max(T)])
    <2>1. Max(T) \in 1 .. n
      BY <1>1, <1>4, MaxIsLargest
    <2> QED BY <2>1 DEF SpanStep
  <1>5. IsIter(iter)
    <2>1. PICK g : Folds(g, Bundle, NoResult, step, n)
      <3> HIDE DEF step
      <3> QED BY <1>1, <1>2, <1>3, FoldExists
    <2>2. IsIter(g)
      <3>1. ASSUME NEW T \in SUBSET (1 .. n), T # {}
            PROVE  g[T] = WithSpan(g[T \ {Max(T)}], spans[Max(T)])
        <4>1. g[T] = step[Max(T)][g[T \ {Max(T)}]] /\ g[T \ {Max(T)}] \in Bundle
          BY <2>1, <3>1 DEF Folds
        <4> QED BY <1>4, <3>1, <4>1
      <3> QED BY <1>1, <2>1, <3>1 DEF Folds
    <2> HIDE DEF IsIter
    <2> QED BY <2>2
  <1>6. Normalized(spans) = iter[1 .. n]
    BY <1>1 DEF Normalized, FoldLeft, MapThenFoldSet
  <1> HIDE DEF iter
  <1>7. FoldsWithin(iter, Bundle, NoResult, step, n)
    BY <1>1, <1>4, <1>5 DEF FoldsWithin
  <1>8. \E f : Iterates(f, Bundle, NoResult, step, n) /\ f[n] = iter[1 .. n]
    <2>1. n \in Nat
      BY <1>1
    <2> HIDE DEF step, n
    <2> QED BY <1>2, <1>3, <1>7, <2>1, FoldIterates
  <1> QED BY <1>6, <1>8

\* Lemma: what is normalised of a request is of its spans, each as often as it is there, and
\* every one is kept or counted.
LEMMA NormalizedFacts ==
  ASSUME NEW spans \in Seq(Span)
  PROVE  /\ Normalized(spans) \in Bundle /\ Tally(Normalized(spans)) = Len(spans)
         /\ ToSet(Normalized(spans).spans) \subseteq ToSet(spans)
         /\ ToSet(Normalized(spans).effects) \subseteq ToSet(Normalized(spans).spans)
         /\ IsInjective(spans) => /\ IsInjective(Normalized(spans).spans)
                                  /\ IsInjective(Normalized(spans).effects)
  <1> DEFINE n == Len(spans)
  <1>1. n \in Nat /\ DOMAIN spans = 1 .. n /\ \A i \in 1 .. n : spans[i] \in Span
    OBVIOUS
  <1>2. PICK f : Iterates(f, Bundle, NoResult, SpanStep(spans), n) /\ Normalized(spans) = f[n]
    BY NormalizedIterates
  <1> DEFINE Good(b, k) ==
               /\ b \in Bundle /\ Tally(b) = k
               /\ \A x \in ToSet(b.spans) : \E j \in 1 .. k : x = spans[j]
               /\ ToSet(b.effects) \subseteq ToSet(b.spans)
               /\ IsInjective(spans) => IsInjective(b.spans) /\ IsInjective(b.effects)
             A == {k \in Nat : k <= n => Good(f[k], k)}
  <1> HIDE DEF n
  <1>3. 0 \in A
    <2>1. f[0] = NoResult
      BY <1>2 DEF Iterates
    <2>2. /\ NoResult \in Bundle /\ NoResult.spans = <<>> /\ NoResult.effects = <<>>
          /\ NoResult.dropped = 0 /\ NoResult.rejected = 0
      BY DEF NoResult, Bundle
    <2>3. Tally(NoResult) = 0
      BY <2>2, EmptyFacts DEF Tally
    <2>4. Good(NoResult, 0)
      BY <2>2, <2>3, EmptyFacts
    <2> QED BY <2>1, <2>4
  <1>4. ASSUME NEW k \in A PROVE k + 1 \in A
    <2> SUFFICES ASSUME k + 1 <= n PROVE Good(f[k + 1], k + 1)
      OBVIOUS
    <2> DEFINE b == f[k]
               s == spans[k + 1]
               w == f[k + 1]
    <2>1. k \in Nat /\ k + 1 \in 1 .. n /\ Good(b, k)
      BY <1>1
    <2>2. s \in Span
      BY <1>1, <2>1
    <2>3. w = WithSpan(b, s)
      <3>1. w = SpanStep(spans)[k + 1][b]
        <4>1. f[k + 1] = SpanStep(spans)[k + 1][f[k + 1 - 1]] /\ k + 1 - 1 = k
          BY <1>2, <2>1 DEF Iterates
        <4> QED BY <4>1
      <3> QED BY <2>1, <3>1 DEF SpanStep, n
    <2>4. /\ w \in Bundle /\ Tally(w) = k + 1
          /\ \/ w.spans = b.spans /\ w.effects = b.effects
             \/ w.spans = Append(b.spans, s) /\ w.effects \in {b.effects, Append(b.effects, s)}
      <3>1. b \in Bundle /\ Tally(b) = k
        BY <2>1
      <3> HIDE DEF w, b, s, Good, A
      <3> QED BY <2>2, <2>3, <3>1, OneSpan
    <2> HIDE DEF w, b, s
    <2>5. CASE w.spans = b.spans /\ w.effects = b.effects
      BY <2>1, <2>4, <2>5 DEF w
    <2>6. CASE w.spans = Append(b.spans, s) /\ w.effects \in {b.effects, Append(b.effects, s)}
      <3>1. b.spans \in Seq(Span) /\ b.effects \in Seq(Span)
        BY <2>1 DEF Bundle
      <3>0. \A seq \in Seq(Span) :
              /\ ToSet(Append(seq, s)) = ToSet(seq) \cup {s}
              /\ IsInjective(seq) /\ s \notin ToSet(seq) => IsInjective(Append(seq, s))
        BY <2>2, Appended
      <3>2. /\ ToSet(w.spans) = ToSet(b.spans) \cup {s}
            /\ ToSet(w.effects) \subseteq ToSet(b.effects) \cup {s}
        BY <2>6, <3>0, <3>1
      <3>3. \A x \in ToSet(w.spans) : \E j \in 1 .. k + 1 : x = spans[j]
        <4>1. s = spans[k + 1]
          BY DEF s
        <4> QED BY <2>1, <3>2, <4>1
      <3>4. ASSUME IsInjective(spans) PROVE IsInjective(w.spans) /\ IsInjective(w.effects)
        <4>1. s \notin ToSet(b.spans)
          <5> SUFFICES ASSUME NEW j \in 1 .. k, s = spans[j] PROVE FALSE
            BY <2>1
          <5>1. j \in DOMAIN spans /\ k + 1 \in DOMAIN spans /\ j # k + 1
            BY <1>1, <2>1
          <5> QED BY <3>4, <5>1 DEF IsInjective, s
        <4>2. s \notin ToSet(b.effects)
          BY <2>1, <4>1
        <4>3. IsInjective(b.spans) /\ IsInjective(b.effects)
          BY <2>1, <3>4
        <4> QED BY <2>6, <3>0, <3>1, <4>1, <4>2, <4>3
      <3>5. ToSet(w.effects) \subseteq ToSet(w.spans)
        BY <2>1, <3>2
      <3> QED BY <2>4, <3>3, <3>4, <3>5 DEF w
    <2> QED BY <2>4, <2>5, <2>6
  <1>5. n \in A
    <2>1. A \in SUBSET Nat
      OBVIOUS
    <2> HIDE DEF A
    <2>2. A = Nat
      BY <1>3, <1>4, <2>1, InductionOnNaturals
    <2> QED BY <1>1, <2>2
  <1>6. Good(f[n], n)
    BY <1>1, <1>5
  <1>7. \A x \in ToSet(f[n].spans) : x \in ToSet(spans)
    BY <1>1, <1>6 DEF ToSet
  <1> QED BY <1>2, <1>6, <1>7 DEF n

----------------------------------------------------------------------------
(* Merging what was normalised.                                            *)

SpanSeq == Seq(Span)
WithUnseen(kept, s) == IF s \in ToSet(kept) THEN kept ELSE Append(kept, s)
UnseenStep(spans) == [i \in 1 .. Len(spans) |-> [kept \in SpanSeq |-> WithUnseen(kept, spans[i])]]

\* Lemma: a span that was not seen is one more, and one that was changes nothing.
LEMMA OneUnseen ==
  ASSUME NEW kept \in SpanSeq, NEW s \in Span
  PROVE  /\ WithUnseen(kept, s) \in SpanSeq
         /\ ToSet(WithUnseen(kept, s)) = ToSet(kept) \cup {s}
         /\ IsInjective(kept) => IsInjective(WithUnseen(kept, s))
         /\ s \notin ToSet(kept) => Len(WithUnseen(kept, s)) = Len(kept) + 1
  <1>1. CASE s \in ToSet(kept)
    BY <1>1 DEF WithUnseen
  <1>2. CASE s \notin ToSet(kept)
    <2>1. kept \in Seq(Span) /\ WithUnseen(kept, s) = Append(kept, s)
      BY <1>2 DEF WithUnseen, SpanSeq
    <2>2. /\ Append(kept, s) \in Seq(Span) /\ Len(Append(kept, s)) = Len(kept) + 1
          /\ ToSet(Append(kept, s)) = ToSet(kept) \cup {s}
          /\ IsInjective(kept) => IsInjective(Append(kept, s))
      BY <1>2, <2>1, Appended
    <2> QED BY <2>1, <2>2 DEF SpanSeq
  <1> QED BY <1>1, <1>2

\* Lemma: AppendUnseen takes the spans one by one.
LEMMA UnseenIterates ==
  ASSUME NEW kept \in SpanSeq, NEW spans \in SpanSeq
  PROVE  \E f : /\ Iterates(f, SpanSeq, kept, UnseenStep(spans), Len(spans))
                /\ AppendUnseen(kept, spans) = f[Len(spans)]
  <1> DEFINE n == Len(spans)
             step == UnseenStep(spans)
             IsIter(g) == g = [T \in SUBSET DOMAIN spans |->
                               IF T = {} THEN kept
                               ELSE WithUnseen(g[T \ {Max(T)}], spans[Max(T)])]
             iter == CHOOSE g : IsIter(g)
  <1>1. n \in Nat /\ DOMAIN spans = 1 .. n /\ \A i \in 1 .. n : spans[i] \in Span
    BY DEF SpanSeq
  <1>2. step \in [1 .. n -> [SpanSeq -> SpanSeq]]
    BY <1>1, OneUnseen DEF UnseenStep
  <1>3. ASSUME NEW T \in SUBSET (1 .. n), T # {}, NEW b \in SpanSeq
        PROVE  step[Max(T)][b] = WithUnseen(b, spans[Max(T)])
    <2>1. Max(T) \in 1 .. n
      BY <1>1, <1>3, MaxIsLargest
    <2> QED BY <2>1 DEF UnseenStep
  <1>4. IsIter(iter)
    <2>1. PICK g : Folds(g, SpanSeq, kept, step, n)
      <3> HIDE DEF step
      <3> QED BY <1>1, <1>2, FoldExists
    <2>2. IsIter(g)
      <3>1. ASSUME NEW T \in SUBSET (1 .. n), T # {}
            PROVE  g[T] = WithUnseen(g[T \ {Max(T)}], spans[Max(T)])
        <4>1. g[T] = step[Max(T)][g[T \ {Max(T)}]] /\ g[T \ {Max(T)}] \in SpanSeq
          BY <2>1, <3>1 DEF Folds
        <4> QED BY <1>3, <3>1, <4>1
      <3> QED BY <1>1, <2>1, <3>1 DEF Folds
    <2> HIDE DEF IsIter
    <2> QED BY <2>2
  <1>5. AppendUnseen(kept, spans) = iter[1 .. n]
    BY <1>1 DEF AppendUnseen, WithUnseen, FoldLeft, MapThenFoldSet
  <1> HIDE DEF iter
  <1>6. FoldsWithin(iter, SpanSeq, kept, step, n)
    BY <1>1, <1>3, <1>4 DEF FoldsWithin
  <1>7. \E f : Iterates(f, SpanSeq, kept, step, n) /\ f[n] = iter[1 .. n]
    <2>1. n \in Nat
      BY <1>1
    <2> HIDE DEF step, n
    <2> QED BY <1>2, <1>6, <2>1, FoldIterates
  <1> QED BY <1>5, <1>7

\* Lemma: merging loses no span and repeats none, and spans that are all new are all added.
LEMMA UnseenFacts ==
  ASSUME NEW kept \in SpanSeq, NEW spans \in SpanSeq
  PROVE  /\ AppendUnseen(kept, spans) \in SpanSeq
         /\ ToSet(AppendUnseen(kept, spans)) = ToSet(kept) \cup ToSet(spans)
         /\ IsInjective(kept) => IsInjective(AppendUnseen(kept, spans))
         /\ IsInjective(spans) /\ Apart(kept, spans) =>
              Len(AppendUnseen(kept, spans)) = Len(kept) + Len(spans)
  <1> DEFINE n == Len(spans)
  <1>1. n \in Nat /\ DOMAIN spans = 1 .. n /\ (\A i \in 1 .. n : spans[i] \in Span)
        /\ Len(kept) \in Nat
    BY DEF SpanSeq
  <1>2. PICK f : Iterates(f, SpanSeq, kept, UnseenStep(spans), n) /\ AppendUnseen(kept, spans) = f[n]
    BY UnseenIterates
  <1> DEFINE Good(b, k) ==
               /\ b \in SpanSeq
               /\ \A x : x \in ToSet(b) <=> x \in ToSet(kept) \/ \E j \in 1 .. k : x = spans[j]
               /\ IsInjective(kept) => IsInjective(b)
               /\ IsInjective(spans) /\ Apart(kept, spans) => Len(b) = Len(kept) + k
             A == {k \in Nat : k <= n => Good(f[k], k)}
  <1> HIDE DEF n
  <1>3. 0 \in A
    <2>1. f[0] = kept
      BY <1>2 DEF Iterates
    <2>2. Good(kept, 0)
      BY <1>1
    <2> QED BY <2>1, <2>2
  <1>4. ASSUME NEW k \in A PROVE k + 1 \in A
    <2> SUFFICES ASSUME k + 1 <= n PROVE Good(f[k + 1], k + 1)
      OBVIOUS
    <2> DEFINE b == f[k]
               s == spans[k + 1]
               w == f[k + 1]
    <2>1. k \in Nat /\ k + 1 \in 1 .. n /\ Good(b, k)
      BY <1>1
    <2>2. s \in Span
      BY <1>1, <2>1
    <2>3. w = WithUnseen(b, s)
      <3>1. w = UnseenStep(spans)[k + 1][b]
        <4>1. f[k + 1] = UnseenStep(spans)[k + 1][f[k + 1 - 1]] /\ k + 1 - 1 = k
          BY <1>2, <2>1 DEF Iterates
        <4> QED BY <4>1
      <3> QED BY <2>1, <3>1 DEF UnseenStep, n
    <2>4. /\ w \in SpanSeq /\ ToSet(w) = ToSet(b) \cup {s}
          /\ IsInjective(b) => IsInjective(w)
          /\ s \notin ToSet(b) => Len(w) = Len(b) + 1
      <3>1. b \in SpanSeq
        BY <2>1
      <3> HIDE DEF w, b, s, Good, A
      <3> QED BY <2>2, <2>3, <3>1, OneUnseen
    <2>5. s = spans[k + 1] /\ w = f[k + 1]
      OBVIOUS
    <2> HIDE DEF w, b, s
    <2>6. ASSUME NEW x PROVE x \in ToSet(w) <=> x \in ToSet(kept) \/ \E j \in 1 .. k + 1 : x = spans[j]
      <3>1. x \in ToSet(b) <=> x \in ToSet(kept) \/ \E j \in 1 .. k : x = spans[j]
        BY <2>1
      <3>2. (\E j \in 1 .. k + 1 : x = spans[j]) <=> (\E j \in 1 .. k : x = spans[j]) \/ x = s
        BY <2>1, <2>5
      <3> QED BY <2>4, <3>1, <3>2
    <2>7. ASSUME IsInjective(spans), Apart(kept, spans) PROVE Len(w) = Len(kept) + (k + 1)
      <3>1. s \notin ToSet(kept)
        <4>1. s \in ToSet(spans)
          BY <1>1, <2>1, <2>5 DEF ToSet
        <4> QED BY <2>7, <4>1 DEF Apart
      <3>2. ~ \E j \in 1 .. k : s = spans[j]
        <4> SUFFICES ASSUME NEW j \in 1 .. k, s = spans[j] PROVE FALSE
          OBVIOUS
        <4>1. j \in DOMAIN spans /\ k + 1 \in DOMAIN spans /\ j # k + 1
          BY <1>1, <2>1
        <4> QED BY <2>5, <2>7, <4>1 DEF IsInjective
      <3>3. s \notin ToSet(b) /\ Len(b) = Len(kept) + k
        BY <2>1, <2>7, <3>1, <3>2
      <3> QED BY <1>1, <2>1, <2>4, <3>3
    <2> QED BY <2>1, <2>4, <2>5, <2>6, <2>7
  <1>5. n \in A
    <2>1. A \in SUBSET Nat
      OBVIOUS
    <2> HIDE DEF A
    <2>2. A = Nat
      BY <1>3, <1>4, <2>1, InductionOnNaturals
    <2> QED BY <1>1, <2>2
  <1>6. Good(f[n], n)
    BY <1>1, <1>5
  <1>7. \A x : x \in ToSet(spans) <=> \E j \in 1 .. n : x = spans[j]
    BY <1>1 DEF ToSet
  <1> QED BY <1>2, <1>6, <1>7 DEF n

Plus(sum, bundle) ==
  [spans |-> AppendUnseen(sum.spans, bundle.spans), effects |-> sum.effects \o bundle.effects,
   dropped |-> sum.dropped + bundle.dropped, rejected |-> sum.rejected + bundle.rejected]
BundleStep(all) == [i \in 1 .. Len(all) |-> [sum \in Bundle |-> Plus(sum, all[i])]]

\* Lemma: a bundle and one more are a bundle.
LEMMA PlusTyped == ASSUME NEW sum \in Bundle, NEW b \in Bundle PROVE Plus(sum, b) \in Bundle
  <1>1. AppendUnseen(sum.spans, b.spans) \in Seq(Span)
    <2>1. sum.spans \in SpanSeq /\ b.spans \in SpanSeq
      BY DEF Bundle, SpanSeq
    <2> QED BY <2>1, UnseenFacts DEF SpanSeq
  <1>2. sum.effects \o b.effects \in Seq(Span)
    <2>1. sum.effects \in Seq(Span) /\ b.effects \in Seq(Span)
      BY DEF Bundle
    <2> QED BY <2>1, Concatenated
  <1> QED BY <1>1, <1>2 DEF Plus, Bundle

\* Lemma: Merged takes the bundles one by one.
LEMMA MergedIterates ==
  ASSUME NEW all \in Seq(Bundle)
  PROVE  \E f : /\ Iterates(f, Bundle, NoResult, BundleStep(all), Len(all))
                /\ Merged(all) = f[Len(all)]
  <1> DEFINE n == Len(all)
             step == BundleStep(all)
             IsIter(g) == g = [T \in SUBSET DOMAIN all |->
                               IF T = {} THEN NoResult ELSE Plus(g[T \ {Max(T)}], all[Max(T)])]
             iter == CHOOSE g : IsIter(g)
  <1>1. n \in Nat /\ DOMAIN all = 1 .. n /\ \A i \in 1 .. n : all[i] \in Bundle
    OBVIOUS
  <1>2. NoResult \in Bundle
    BY DEF NoResult, Bundle
  <1>3. step \in [1 .. n -> [Bundle -> Bundle]]
    BY <1>1, PlusTyped DEF BundleStep
  <1>4. ASSUME NEW T \in SUBSET (1 .. n), T # {}, NEW b \in Bundle
        PROVE  step[Max(T)][b] = Plus(b, all[Max(T)])
    <2>1. Max(T) \in 1 .. n
      BY <1>1, <1>4, MaxIsLargest
    <2> QED BY <2>1 DEF BundleStep
  <1>5. IsIter(iter)
    <2>1. PICK g : Folds(g, Bundle, NoResult, step, n)
      <3> HIDE DEF step
      <3> QED BY <1>1, <1>2, <1>3, FoldExists
    <2>2. IsIter(g)
      <3>1. ASSUME NEW T \in SUBSET (1 .. n), T # {}
            PROVE  g[T] = Plus(g[T \ {Max(T)}], all[Max(T)])
        <4>1. g[T] = step[Max(T)][g[T \ {Max(T)}]] /\ g[T \ {Max(T)}] \in Bundle
          BY <2>1, <3>1 DEF Folds
        <4> QED BY <1>4, <3>1, <4>1
      <3> QED BY <1>1, <2>1, <3>1 DEF Folds
    <2> HIDE DEF IsIter
    <2> QED BY <2>2
  <1>6. Merged(all) = iter[1 .. n]
    BY <1>1 DEF Merged, Plus, FoldLeft, MapThenFoldSet
  <1> HIDE DEF iter
  <1>7. FoldsWithin(iter, Bundle, NoResult, step, n)
    BY <1>1, <1>4, <1>5 DEF FoldsWithin
  <1>8. \E f : Iterates(f, Bundle, NoResult, step, n) /\ f[n] = iter[1 .. n]
    <2>1. n \in Nat
      BY <1>1
    <2> HIDE DEF step, n
    <2> QED BY <1>2, <1>3, <1>7, <2>1, FoldIterates
  <1> QED BY <1>6, <1>8

\* Lemma: a bundle more is merged into what was merged before it.
LEMMA MergedAppend ==
  /\ Merged(<<>>) = NoResult
  /\ \A all \in Seq(Bundle), b \in Bundle :
       Merged(all) \in Bundle /\ Merged(Append(all, b)) = Plus(Merged(all), b)
  <1>1. Merged(<<>>) = NoResult
    <2>1. <<>> \in Seq(Bundle) /\ Len(<<>>) = 0
      OBVIOUS
    <2> QED BY <2>1, MergedIterates DEF Iterates
  <1>2. ASSUME NEW all \in Seq(Bundle), NEW b \in Bundle
        PROVE  Merged(all) \in Bundle /\ Merged(Append(all, b)) = Plus(Merged(all), b)
    <2> DEFINE n == Len(all)
               more == Append(all, b)
    <2>1. /\ n \in Nat /\ more \in Seq(Bundle) /\ Len(more) = n + 1 /\ more[n + 1] = b
          /\ \A i \in 1 .. n : more[i] = all[i]
      OBVIOUS
    <2>2. PICK f : Iterates(f, Bundle, NoResult, BundleStep(all), n) /\ Merged(all) = f[n]
      BY MergedIterates
    <2>3. PICK g : /\ Iterates(g, Bundle, NoResult, BundleStep(more), n + 1)
                   /\ Merged(more) = g[n + 1]
      BY <2>1, MergedIterates
    <2>4. \A i \in 1 .. n, x \in Bundle : BundleStep(more)[i][x] = BundleStep(all)[i][x]
      BY <2>1 DEF BundleStep
    <2>5. g[n] = f[n]
      <3> DEFINE few == BundleStep(all)
                 many == BundleStep(more)
      <3>1. n \in Nat
        BY <2>1
      <3>2. Iterates(g, Bundle, NoResult, many, n + 1) /\ Iterates(f, Bundle, NoResult, few, n)
            /\ \A i \in 1 .. n : \A x \in Bundle : many[i][x] = few[i][x]
        BY <2>2, <2>3, <2>4
      <3> HIDE DEF few, many, n
      <3> QED BY <3>1, <3>2, IterationExtends
    <2>6. g[n + 1] = BundleStep(more)[n + 1][g[n]] /\ g[n] \in Bundle
      BY <2>1, <2>3 DEF Iterates
    <2>7. g[n + 1] = Plus(g[n], b)
      BY <2>1, <2>6 DEF BundleStep
    <2> QED BY <2>2, <2>3, <2>5, <2>6, <2>7
  <1> QED BY <1>1, <1>2

\* Lemma: what a request adds to what is held.  When its spans are new they are all kept or
\* counted, and its effects are new as well.
LEMMA HeldAfterRequest ==
  ASSUME NEW b \in Bundle, IsInjective(b.spans), ToSet(b.effects) \subseteq ToSet(b.spans),
         NEW spans \in SpanSeq
  PROVE  LET w == Plus(b, Normalized(spans))
         IN /\ w \in Bundle /\ IsInjective(w.spans) /\ ToSet(w.effects) \subseteq ToSet(w.spans)
            /\ \E some \in SUBSET ToSet(spans) : ToSet(w.spans) = ToSet(b.spans) \cup some
            /\ IsInjective(spans) /\ Apart(spans, b.spans) =>
                 /\ Tally(w) = Tally(b) + Len(spans)
                 /\ IsInjective(b.effects) => IsInjective(w.effects)
  <1> DEFINE m == Normalized(spans)
             w == Plus(b, m)
  <1>1. /\ m \in Bundle /\ Tally(m) = Len(spans) /\ ToSet(m.spans) \subseteq ToSet(spans)
        /\ ToSet(m.effects) \subseteq ToSet(m.spans)
        /\ IsInjective(spans) => IsInjective(m.spans) /\ IsInjective(m.effects)
    BY NormalizedFacts DEF SpanSeq
  <1> HIDE DEF m
  <1>2. /\ w.spans = AppendUnseen(b.spans, m.spans) /\ w.effects = b.effects \o m.effects
        /\ w.dropped = b.dropped + m.dropped /\ w.rejected = b.rejected + m.rejected
    BY DEF Plus
  <1>3. w \in Bundle
    BY <1>1, PlusTyped
  <1> HIDE DEF w
  <1>4. /\ b.spans \in SpanSeq /\ m.spans \in SpanSeq
        /\ b.effects \in Seq(Span) /\ m.effects \in Seq(Span)
        /\ b.dropped \in Nat /\ m.dropped \in Nat /\ b.rejected \in Nat /\ m.rejected \in Nat
    BY <1>1 DEF Bundle, SpanSeq
  <1>5. /\ ToSet(w.spans) = ToSet(b.spans) \cup ToSet(m.spans) /\ IsInjective(w.spans)
        /\ IsInjective(m.spans) /\ Apart(b.spans, m.spans) =>
             Len(w.spans) = Len(b.spans) + Len(m.spans)
    <2> DEFINE k == b.spans
               l == m.spans
    <2>1. k \in SpanSeq /\ l \in SpanSeq /\ IsInjective(k)
      BY <1>4
    <2> HIDE DEF k, l
    <2>2. /\ ToSet(AppendUnseen(k, l)) = ToSet(k) \cup ToSet(l)
          /\ IsInjective(AppendUnseen(k, l))
          /\ IsInjective(l) /\ Apart(k, l) => Len(AppendUnseen(k, l)) = Len(k) + Len(l)
      BY <2>1, UnseenFacts
    <2> QED BY <1>2, <2>2 DEF k, l
  <1>6. /\ ToSet(w.effects) = ToSet(b.effects) \cup ToSet(m.effects)
        /\ IsInjective(b.effects) /\ IsInjective(m.effects) /\ Apart(b.effects, m.effects) =>
             IsInjective(w.effects)
    BY <1>2, <1>4, Concatenated
  <1>7. ASSUME IsInjective(spans), Apart(spans, b.spans)
        PROVE  /\ Tally(w) = Tally(b) + Len(spans)
               /\ IsInjective(b.effects) => IsInjective(w.effects)
    <2>1. Apart(b.spans, m.spans) /\ Apart(b.effects, m.effects)
      BY <1>1, <1>7 DEF Apart
    <2>2. Len(w.spans) = Len(b.spans) + Len(m.spans)
      BY <1>1, <1>5, <1>7, <2>1
    <2>3. Len(b.spans) \in Nat /\ Len(m.spans) \in Nat
      BY <1>4 DEF SpanSeq
    <2>4. Tally(w) = Tally(b) + Tally(m)
      <3>1. /\ w.dropped = b.dropped + m.dropped /\ w.rejected = b.rejected + m.rejected
            /\ b.dropped \in Nat /\ m.dropped \in Nat /\ b.rejected \in Nat /\ m.rejected \in Nat
        BY <1>2, <1>4
      <3>2. Tally(w) = (Len(b.spans) + Len(m.spans)) + (b.dropped + m.dropped)
                       + (b.rejected + m.rejected)
        BY <2>2, <3>1, Zenon DEF Tally
      <3> DEFINE lb == Len(b.spans)
                 lm == Len(m.spans)
                 db == b.dropped
                 dm == m.dropped
                 rb == b.rejected
                 rm == m.rejected
      <3>3. lb \in Nat /\ lm \in Nat /\ db \in Nat /\ dm \in Nat /\ rb \in Nat /\ rm \in Nat
        BY <2>3, <3>1
      <3> HIDE DEF lb, lm, db, dm, rb, rm
      <3>4. (lb + lm) + (db + dm) + (rb + rm) = (lb + db + rb) + (lm + dm + rm)
        BY <3>3
      <3> QED BY <3>2, <3>4, Zenon DEF Tally, lb, lm, db, dm, rb, rm
    <2> QED BY <1>1, <1>6, <1>7, <2>1, <2>4
  <1>8. /\ ToSet(w.effects) \subseteq ToSet(w.spans)
        /\ \E some \in SUBSET ToSet(spans) : ToSet(w.spans) = ToSet(b.spans) \cup some
    BY <1>1, <1>5, <1>6
  <1> QED BY <1>3, <1>5, <1>7, <1>8 DEF w, m

----------------------------------------------------------------------------
(* The chain of posts, and where a span is.                                *)

Posts == Seq(SpanSeq)

\* Lemma: a post at the end of the chain.
LEMMA PostEnqueued ==
  ASSUME NEW c \in Posts, NEW s \in SpanSeq
  PROVE  /\ Append(c, s) \in Posts /\ Append(c, s) # <<>>
         /\ c # <<>> => Append(c, s)[1] = c[1]
         /\ \E n \in Nat : /\ n \notin DOMAIN c /\ DOMAIN Append(c, s) = DOMAIN c \cup {n}
                           /\ Append(c, s)[n] = s /\ \A i \in DOMAIN c : Append(c, s)[i] = c[i]
  <1> DEFINE n == Len(c)
             d == Append(c, s)
  <1>1. /\ n \in Nat /\ DOMAIN c = 1 .. n /\ d \in Posts /\ Len(d) = n + 1 /\ d # <<>>
        /\ DOMAIN d = 1 .. n + 1 /\ d[n + 1] = s /\ \A i \in 1 .. n : d[i] = c[i]
    BY DEF Posts
  <1>2. c # <<>> => 1 \in 1 .. n
    BY DEF Posts
  <1> HIDE DEF n, d
  <1>3. n + 1 \in Nat /\ n + 1 \notin DOMAIN c /\ DOMAIN d = DOMAIN c \cup {n + 1}
    BY <1>1
  <1> QED BY <1>1, <1>2, <1>3 DEF d

\* Lemma: the chain without its first post.
LEMMA PostDone ==
  ASSUME NEW c \in Posts, c # <<>>
  PROVE  /\ Tail(c) \in Posts /\ 1 \in DOMAIN c /\ Head(c) = c[1] /\ c[1] \in SpanSeq
         /\ \A i \in DOMAIN Tail(c) : i + 1 \in DOMAIN c /\ i + 1 # 1 /\ Tail(c)[i] = c[i + 1]
         /\ \A i \in DOMAIN c : i # 1 => i - 1 \in DOMAIN Tail(c) /\ Tail(c)[i - 1] = c[i]
  <1> DEFINE n == Len(c)
             d == Tail(c)
  <1>1. /\ n \in Nat /\ n > 0 /\ DOMAIN c = 1 .. n /\ d \in Posts /\ Len(d) = n - 1
        /\ Head(c) = c[1] /\ DOMAIN d = 1 .. n - 1 /\ \A i \in 1 .. n - 1 : d[i] = c[i + 1]
    BY HeadTailProperties DEF Posts
  <1>2. 1 \in 1 .. n /\ c[1] \in SpanSeq
    BY <1>1 DEF Posts
  <1> HIDE DEF n, d
  <1>3. \A i \in DOMAIN d : i + 1 \in DOMAIN c /\ i + 1 # 1 /\ d[i] = c[i + 1]
    BY <1>1
  <1>4. ASSUME NEW i \in DOMAIN c, i # 1 PROVE i - 1 \in DOMAIN d /\ d[i - 1] = c[i]
    <2>1. i - 1 \in 1 .. n - 1 /\ (i - 1) + 1 = i
      BY <1>1, <1>4
    <2> QED BY <1>1, <2>1
  <1> QED BY <1>1, <1>2, <1>3, <1>4 DEF d

\* Lemma: a new span in the batch.
LEMMA PlacedRecord ==
  ASSUME NEW b \in SpanSeq, NEW c \in Posts, NEW w, NEW net, NEW held, Placed(b, c, w, net, held),
         NEW e \in Span, e \notin held, e \notin ToSet(b), \A i \in DOMAIN c : e \notin ToSet(c[i]),
         \A r \in net : e \notin ToSet(r.spans)
  PROVE  Placed(Append(b, e), c, w, net, held)
  <1> DEFINE d == Append(b, e)
  <1>1. ToSet(d) = ToSet(b) \cup {e} /\ IsInjective(d)
    BY Appended DEF SpanSeq, Placed
  <1> HIDE DEF d
  <1>2. Placed(d, c, w, net, held)
    BY <1>1 DEF Placed, Apart
  <1> QED BY <1>2 DEF d

\* Lemma: the batch becomes a post.
LEMMA PlacedFlush ==
  ASSUME NEW b \in SpanSeq, NEW c \in Posts, NEW w, NEW net, NEW held, Placed(b, c, w, net, held)
  PROVE  Placed(<<>>, Append(c, b), w, net, held)
  <1> DEFINE d == Append(c, b)
  <1>1. PICK n \in Nat : /\ n \notin DOMAIN c /\ DOMAIN d = DOMAIN c \cup {n}
                         /\ d[n] = b /\ \A i \in DOMAIN c : d[i] = c[i]
    BY PostEnqueued
  <1> HIDE DEF d
  <1>2. ToSet(<<>>) = {} /\ IsInjective(<<>>)
    BY EmptyFacts
  <1>3. ASSUME NEW i \in DOMAIN d
        PROVE  /\ IsInjective(d[i]) /\ ToSet(d[i]) \cap held = {}
               /\ \A j \in DOMAIN d : i # j => Apart(d[i], d[j])
    BY <1>1 DEF Placed, Apart
  <1>4. ASSUME NEW r \in net, NEW i \in DOMAIN d
        PROVE  (i = 1 /\ r.id = w) \/ Apart(r.spans, d[i])
    BY <1>1 DEF Placed
  <1>5. Placed(<<>>, d, w, net, held)
    BY <1>2, <1>3, <1>4 DEF Placed, Apart
  <1> QED BY <1>5 DEF d

\* Lemma: the first post is done with, whatever becomes of its request.
LEMMA PlacedDone ==
  ASSUME NEW b, NEW c \in Posts, c # <<>>, NEW w, NEW net, NEW held, Placed(b, c, w, net, held),
         NEW v, NEW some \in SUBSET net
  PROVE  Placed(b, Tail(c), v, some, held)
  <1> DEFINE d == Tail(c)
  <1>1. /\ d \in Posts
        /\ \A i \in DOMAIN d : i + 1 \in DOMAIN c /\ i + 1 # 1 /\ d[i] = c[i + 1]
    BY PostDone
  <1>2. \A i \in DOMAIN d : i \in Int
    BY <1>1 DEF Posts
  <1> HIDE DEF d
  <1>3. ASSUME NEW i \in DOMAIN d
        PROVE  /\ IsInjective(d[i]) /\ Apart(d[i], b) /\ ToSet(d[i]) \cap held = {}
               /\ \A j \in DOMAIN d : i # j => Apart(d[i], d[j])
    <2>1. \A j \in DOMAIN d : i # j => i + 1 # j + 1
      BY <1>2
    <2> QED BY <1>1, <2>1, Zenon DEF Placed
  <1>4. \A r \in some, i \in DOMAIN d : Apart(r.spans, d[i])
    BY <1>1, Zenon DEF Placed
  <1>5. Placed(b, d, v, some, held)
    BY <1>3, <1>4 DEF Placed
  <1> QED BY <1>5 DEF d

\* Lemma: the first post is sent.
LEMMA PlacedPost ==
  ASSUME NEW b, NEW c \in Posts, c # <<>>, NEW w, NEW net, NEW held, Placed(b, c, w, net, held),
         \A r \in net : r.id # w, NEW r, r.spans = c[1], r.id \notin {q.id : q \in net}
  PROVE  Placed(b, c, r.id, net \cup {r}, held)
  <1>1. 1 \in DOMAIN c
    BY PostDone
  <1>2. /\ IsInjective(r.spans) /\ Apart(r.spans, b) /\ ToSet(r.spans) \cap held = {}
        /\ \A i \in DOMAIN c : i = 1 \/ Apart(r.spans, c[i])
    BY <1>1 DEF Placed
  <1>3. ASSUME NEW q \in net
        PROVE  /\ Apart(q.spans, r.spans) /\ Apart(r.spans, q.spans)
               /\ \A i \in DOMAIN c : Apart(q.spans, c[i])
    BY <1>1 DEF Placed, Apart
  <1> QED BY <1>2, <1>3 DEF Placed

\* Lemma: a request arrives whose post is done with, and some of its spans are held.
LEMMA PlacedArrival ==
  ASSUME NEW b, NEW c, NEW w, NEW net, NEW held, Placed(b, c, w, net, held),
         NEW r \in net, \A i \in DOMAIN c : Apart(r.spans, c[i]), NEW some \in SUBSET ToSet(r.spans)
  PROVE  Placed(b, c, w, net \ {r}, held \cup some)
  BY DEF Placed, Apart

\* Lemma: a new span is one more to send.
LEMMA UnsentRecord ==
  ASSUME NEW b \in SpanSeq, NEW c, NEW e \in Span
  PROVE  Unsent(Append(b, e), c) = Unsent(b, c) \cup {e}
  <1>1. ToSet(Append(b, e)) = ToSet(b) \cup {e}
    BY Appended DEF SpanSeq
  <1> QED BY <1>1 DEF Unsent

\* Lemma: a flush changes nothing of what is to be sent.
LEMMA UnsentFlush ==
  ASSUME NEW b \in SpanSeq, NEW c \in Posts
  PROVE  Unsent(<<>>, Append(c, b)) = Unsent(b, c)
  <1> DEFINE d == Append(c, b)
  <1>1. PICK n \in Nat : /\ n \notin DOMAIN c /\ DOMAIN d = DOMAIN c \cup {n}
                         /\ d[n] = b /\ \A i \in DOMAIN c : d[i] = c[i]
    BY PostEnqueued
  <1> HIDE DEF d
  <1>2. UNION {ToSet(d[i]) : i \in DOMAIN d} = ToSet(b) \cup UNION {ToSet(c[i]) : i \in DOMAIN c}
    BY <1>1
  <1>3. Unsent(<<>>, d) = Unsent(b, c)
    BY <1>2, EmptyFacts DEF Unsent
  <1> QED BY <1>3 DEF d

\* Lemma: a post that is done with leaves the others.
LEMMA UnsentDone ==
  ASSUME NEW b, NEW c \in Posts, c # <<>>, NEW w, NEW net, NEW held, Placed(b, c, w, net, held)
  PROVE  /\ Unsent(b, Tail(c)) = Unsent(b, c) \ ToSet(c[1])
         /\ ToSet(c[1]) \subseteq Unsent(b, c)
  <1> DEFINE d == Tail(c)
  <1>1. /\ 1 \in DOMAIN c
        /\ \A i \in DOMAIN d : i + 1 \in DOMAIN c /\ i + 1 # 1 /\ d[i] = c[i + 1]
        /\ \A i \in DOMAIN c : i # 1 => i - 1 \in DOMAIN d /\ d[i - 1] = c[i]
    BY PostDone
  <1> HIDE DEF d
  <1>2. \A x : (\E i \in DOMAIN d : x \in ToSet(d[i])) <=> (\E i \in DOMAIN c : i # 1 /\ x \in ToSet(c[i]))
    BY <1>1, Zenon
  <1>3. /\ \A x \in ToSet(c[1]) : x \notin ToSet(b)
        /\ \A x \in ToSet(c[1]), i \in DOMAIN c : i # 1 => x \notin ToSet(c[i])
    BY <1>1 DEF Placed, Apart
  <1>4. \A x : x \in Unsent(b, d) <=> x \in Unsent(b, c) /\ x \notin ToSet(c[1])
    <2>1. \A x : x \in Unsent(b, d) <=> x \in ToSet(b) \/ \E i \in DOMAIN d : x \in ToSet(d[i])
      BY DEF Unsent
    <2>2. \A x : x \in Unsent(b, c) <=> x \in ToSet(b) \/ \E i \in DOMAIN c : x \in ToSet(c[i])
      BY DEF Unsent
    <2> QED BY <1>2, <1>3, <2>1, <2>2
  <1>5. ToSet(c[1]) \subseteq Unsent(b, c)
    BY <1>1 DEF Unsent
  <1> QED BY <1>4, <1>5 DEF d

----------------------------------------------------------------------------
(* Each part of the invariant is kept by every step.                       *)

SessionStep ==
  \/ StartReceiver \/ Prepare \/ Announce \/ RunTarget \/ RefuseTarget
  \/ ProcessSettles \/ DrainEnds \/ WindowEnds \/ Closed

\* Lemma: the session touches neither the exporter nor what the receiver holds.
LEMMA SessionApart ==
  ASSUME SessionStep
  PROVE  /\ UNCHANGED <<kind, bundles, exporter, wire>>
         /\ result' = result \/ result' = Held
  BY DEF SessionStep, StartReceiver, Prepare, Announce, RunTarget, RefuseTarget, ProcessSettles,
         DrainEnds, WindowEnds, TakeAndClose, CloseReceiver, Closed, control, Held

OutsideStep == HelperEnds \/ OtherRequest \/ OtherAnswered \/ IdleCloses

\* Lemma: what surrounds the session touches nothing in it, and nothing else happens in a stutter.
LEMMA OutsideApart == OutsideStep \/ UNCHANGED vars => UNCHANGED inside
  BY DEF OutsideStep, HelperEnds, OtherRequest, OtherAnswered, IdleCloses, vars

OutsideTyped == connection \in {"none", "idle", "busy"} /\ helper \in BOOLEAN /\ killed \in BOOLEAN

\* Lemma: the connection and the helper keep their types.
LEMMA OutsideKept == ASSUME OutsideTyped, [Next]_vars PROVE OutsideTyped'
  <1> USE DEF OutsideTyped
  <1>1. CASE UNCHANGED outside
    BY <1>1 DEF outside
  <1>2. CASE RefuseTarget \/ DrainEnds \/ WindowEnds
    BY <1>2 DEF RefuseTarget, DrainEnds, WindowEnds, TakeAndClose, CloseReceiver, WithoutIdle
  <1>3. CASE Exit \/ Killed
    BY <1>3 DEF Exit, Killed, Gone
  <1>4. CASE Post
    BY <1>4 DEF Post, Occupy, WithoutIdle
  <1>5. CASE SendAgain
    BY <1>5 DEF SendAgain, Occupy, WithoutIdle
  <1>6. CASE Handle
    BY <1>6 DEF Handle, Kept
  <1>7. CASE OutsideStep
    BY <1>7 DEF OutsideStep, HelperEnds, OtherRequest, OtherAnswered, IdleCloses
  <1>8. CASE StartReceiver \/ Prepare \/ Announce \/ RunTarget \/ ProcessSettles \/ Closed
    BY <1>1, <1>8 DEF StartReceiver, Prepare, Announce, RunTarget, ProcessSettles, Closed, outside
  <1>9. CASE EndSpan \/ FlushByTimer \/ BeforeExit \/ GiveUp
    BY <1>1, <1>9 DEF EndSpan, FlushByTimer, BeforeExit, GiveUp, outside
  <1> QED
    BY <1>1, <1>2, <1>3, <1>4, <1>5, <1>6, <1>7, <1>8, <1>9 DEF Next, OutsideStep, vars

\* Lemma: what the types say of the sequences.
LEMMA Shapes ==
  ASSUME TypeOK
  PROVE  /\ batch \in SpanSeq /\ chain \in Posts /\ bundles \in Seq(Bundle) /\ Held \in Bundle
         /\ sent \in Nat /\ ended \in Nat /\ Spans \in Nat /\ dropped \in Nat
         /\ \A r \in network : r.id \in 1 .. sent /\ r.spans \in SpanSeq
  <1>1. Held \in Bundle
    <2>1. NoResult \in Bundle
      BY DEF NoResult, Bundle
    <2> QED BY <2>1, MergedAppend DEF TypeOK, Held
  <1>2. \A r \in network : r.id \in 1 .. sent /\ r.spans \in SpanSeq
    BY DEF TypeOK, SpanSeq
  <1> QED BY <1>1, <1>2, SpanAssumption DEF TypeOK, SpanSeq, Posts

\* Lemma: the session keeps the types.
LEMMA SessionTyped == ASSUME TypeOK, SessionStep, OutsideTyped' PROVE TypeOK'
  <1>1. UNCHANGED <<kind, bundles, exporter, wire>> /\ result' \in Bundle
    BY Shapes, SessionApart DEF TypeOK
  <1>2. /\ session' \in {"starting", "bound", "open", "draining", "closing", "done", "failed"}
        /\ receiver' \in {"down", "listening", "closing", "closed"}
        /\ target' \in {"none", "running", "leaving", "ended"}
        /\ tried' \in BOOLEAN /\ directory' \in BOOLEAN
    BY DEF TypeOK, SessionStep, StartReceiver, Prepare, Announce, RunTarget, RefuseTarget,
           ProcessSettles, DrainEnds, WindowEnds, TakeAndClose, CloseReceiver, Closed, control
  <1> QED BY <1>1, <1>2 DEF TypeOK, OutsideTyped, exporter, wire

\* Lemma: a request that is handled answers the first post or none, and adds to what is held
\* or to what is refused.
LEMMA Handled ==
  ASSUME TypeOK, KnownInv, Handle
  PROVE  \E r \in network :
           /\ network' = network \ {r} /\ r.spans \in SpanSeq
           /\ \/ r.id = waiting /\ chain # <<>> /\ waiting' = NoRequest /\ chain' = Tail(chain)
              \/ r.id # waiting /\ waiting' = waiting /\ chain' = chain
           /\ \/ bundles' = bundles /\ refused' = refused + Len(r.spans) /\ Held' = Held
              \/ /\ bundles' = Append(bundles, Normalized(r.spans)) /\ refused' = refused
                 /\ Held' = Plus(Held, Normalized(r.spans))
           /\ UNCHANGED <<control, receiver, result, target, ended, batch, dropped, sent, again, smooth>>
  <1>1. PICK r \in network :
          /\ network' = network \ {r} /\ Answered(r)
          /\ IF TooLarge(r.spans)
             THEN refused' = refused + Len(r.spans) /\ bundles' = bundles
             ELSE bundles' = Append(bundles, Normalized(r.spans)) /\ refused' = refused
          /\ UNCHANGED <<control, receiver, result, target, ended, batch, dropped, sent, again, smooth>>
    BY DEF Handle
  <1>2. r.spans \in SpanSeq /\ r.id # NoRequest /\ bundles \in Seq(Bundle)
    BY Shapes DEF NoRequest
  <1>3. \/ r.id = waiting /\ chain # <<>> /\ waiting' = NoRequest /\ chain' = Tail(chain)
        \/ r.id # waiting /\ waiting' = waiting /\ chain' = chain
    <2>1. waiting # NoRequest => chain # <<>>
      BY DEF KnownInv
    <2>2. CASE waiting = r.id
      BY <1>1, <1>2, <2>1, <2>2 DEF Answered
    <2>3. CASE waiting # r.id
      BY <1>1, <2>3 DEF Answered
    <2> QED BY <2>2, <2>3
  <1>4. bundles' = bundles => Held' = Held
    BY DEF Held
  <1>5. ASSUME bundles' = Append(bundles, Normalized(r.spans))
        PROVE  Held' = Plus(Held, Normalized(r.spans))
    <2>1. Normalized(r.spans) \in Bundle
      BY <1>2, NormalizedFacts DEF SpanSeq
    <2>2. Merged(Append(bundles, Normalized(r.spans))) = Plus(Merged(bundles), Normalized(r.spans))
      BY <1>2, <2>1, MergedAppend
    <2>3. Held' = Merged(bundles') /\ Held = Merged(bundles)
      BY DEF Held
    <2> QED BY <1>5, <2>2, <2>3
  <1> QED BY <1>1, <1>2, <1>3, <1>4, <1>5

\* Lemma: every step keeps the types.
LEMMA TypeKept == ASSUME TypeOK, KnownInv, [Next]_vars PROVE TypeOK'
  <1>0. OutsideTyped'
    BY OutsideKept DEF TypeOK, OutsideTyped
  <1>a. connection' \in {"none", "idle", "busy"} /\ helper' \in BOOLEAN /\ killed' \in BOOLEAN
    BY <1>0 DEF OutsideTyped
  <1>1. /\ batch \in SpanSeq /\ chain \in Posts /\ sent \in Nat /\ ended \in Nat
        /\ (\A r \in network : r.id \in 1 .. sent /\ r.spans \in SpanSeq)
        /\ <<>> \in SpanSeq /\ <<>> \in Posts /\ Len(<<>>) = 0 /\ BatchLimit \in Nat \ {0}
    BY Shapes, LimitAssumption DEF SpanSeq, Posts
  <1>2. ASSUME NEW b \in SpanSeq, chain' = Enqueued(b) PROVE chain' \in Posts
    BY <1>1, <1>2, PostEnqueued DEF Enqueued
  <1>3. ASSUME waiting # NoRequest PROVE Tail(chain) \in Posts /\ Head(chain) \in SpanSeq
    BY <1>1, <1>3, PostDone DEF KnownInv
  <1>4. CASE SessionStep
    BY <1>0, <1>4, SessionTyped
  <1>5. CASE EndSpan
    <2>1. ended' \in 0 .. Spans /\ dropped' \in 0 .. Spans
      <3>1. ended < Spans /\ ended' = ended + 1 /\ dropped' \in {dropped, dropped + 1}
        BY <1>5 DEF EndSpan
      <3>2. ended \in 0 .. Spans /\ dropped \in 0 .. Spans /\ dropped <= ended
        BY DEF TypeOK, KnownInv
      <3> QED BY <3>1, <3>2, SpanAssumption
    <2>2. Append(batch, ended + 1) \in SpanSeq
      <3>1. ended + 1 \in Span
        BY <1>5, SpanAssumption DEF EndSpan, TypeOK, Span
      <3> QED BY <1>1, <3>1, Appended DEF SpanSeq
    <2>3. batch' \in SpanSeq /\ Len(batch') < BatchLimit /\ chain' \in Posts
      <3>1. CASE UNCHANGED <<batch, chain>>
        BY <1>1, <3>1 DEF TypeOK
      <3>2. CASE /\ BatchFull(Append(batch, ended + 1)) /\ batch' = <<>>
                 /\ chain' = Enqueued(Append(batch, ended + 1))
        BY <1>1, <1>2, <2>2, <3>2
      <3>3. CASE ~BatchFull(Append(batch, ended + 1)) /\ batch' = Append(batch, ended + 1) /\ chain' = chain
        BY <1>1, <2>2, <3>3 DEF BatchFull, SpanSeq
      <3> QED BY <1>5, <3>1, <3>2, <3>3 DEF EndSpan
    <2> QED BY <1>a, <1>5, <2>1, <2>3 DEF EndSpan, TypeOK, SpanSeq, Posts, control, wire
  <1>6. CASE FlushByTimer \/ BeforeExit
    <2>1. batch' = <<>> /\ chain' \in Posts
      BY <1>1, <1>2, <1>6 DEF FlushByTimer, BeforeExit, FlushBatch
    <2> QED BY <1>a, <1>1, <1>6, <2>1
         DEF FlushByTimer, BeforeExit, FlushBatch, TypeOK, SpanSeq, Posts, control, wire
  <1>7. CASE Exit
    BY <1>a, <1>7 DEF Exit, Gone, TypeOK, control, exporter, wire
  <1>8. CASE Killed
    <2>1. batch' = <<>> /\ chain' = <<>> /\ waiting' = 0 /\ smooth' = FALSE /\ target' = "ended"
          /\ network' \subseteq network
          /\ UNCHANGED <<kind, session, tried, directory, receiver, bundles, result, ended, dropped,
                        sent, again, refused>>
      BY <1>8 DEF Killed, Gone, control, NoRequest
    <2>2. batch' \in SpanSeq /\ Len(batch') < BatchLimit /\ chain' \in Posts /\ waiting' \in 0 .. sent
      BY <1>1, <2>1
    <2> QED BY <1>a, <2>1, <2>2 DEF TypeOK, SpanSeq, Posts
  <1>9. CASE Post
    <2>1. CASE /\ sent' = sent + 1 /\ waiting' = sent + 1
               /\ network' = network \cup {[id |-> sent + 1, spans |-> Head(chain)]}
               /\ UNCHANGED <<chain, smooth>>
      <3>1. Head(chain) \in SpanSeq
        BY <1>1, <1>9, PostDone DEF Post
      <3>2. network' \subseteq [id : 1 .. sent', spans : SpanSeq]
        BY <1>1, <2>1, <3>1 DEF TypeOK
      <3> QED BY <1>a, <1>1, <1>9, <2>1, <3>2 DEF Post, TypeOK, SpanSeq, control
    <2>2. CASE chain' = Tail(chain) /\ smooth' = FALSE /\ UNCHANGED <<sent, waiting, network>>
      <3>1. chain' \in Posts
        BY <1>1, <1>9, <2>2, PostDone DEF Post
      <3>2. UNCHANGED <<control, receiver, bundles, result, target, ended, batch, dropped, again, refused>>
        BY <1>9 DEF Post
      <3> QED BY <1>a, <2>2, <3>1, <3>2, ZenonT(40) DEF TypeOK, Posts, SpanSeq, control
    <2> QED BY <1>9, <2>1, <2>2 DEF Post
  <1>10. CASE GiveUp
    <2>1. chain' = Tail(chain) /\ waiting' = 0 /\ smooth' = FALSE
          /\ network' \subseteq network
          /\ UNCHANGED <<kind, session, tried, directory, receiver, bundles, result, target, ended,
                        batch, dropped, sent, again, refused>>
      BY <1>10 DEF GiveUp, control, NoRequest
    <2>2. chain' \in Posts /\ waiting' \in 0 .. sent
      BY <1>1, <1>3, <1>10, <2>1 DEF GiveUp
    <2> QED BY <1>a, <2>1, <2>2, ZenonT(40) DEF TypeOK, Posts, SpanSeq
  <1>11. CASE SendAgain
    <2>1. network' \subseteq [id : 1 .. sent', spans : SpanSeq]
      <3>1. Head(chain) \in SpanSeq /\ sent' = sent + 1
            /\ network' = network \cup {[id |-> sent + 1, spans |-> Head(chain)]}
        BY <1>1, <1>3, <1>11 DEF SendAgain
      <3> QED BY <1>1, <3>1 DEF TypeOK
    <2>2. again' \in 0 .. MaxRetries /\ sent' \in Nat /\ waiting' \in 0 .. sent'
      BY <1>1, <1>11, LimitAssumption DEF SendAgain, TypeOK
    <2> QED BY <1>a, <1>11, <2>1, <2>2 DEF SendAgain, TypeOK, SpanSeq, control
  <1>12. CASE Handle
    <2>1. PICK r \in network :
            /\ network' = network \ {r} /\ r.spans \in SpanSeq
            /\ \/ r.id = waiting /\ chain # <<>> /\ waiting' = NoRequest /\ chain' = Tail(chain)
               \/ r.id # waiting /\ waiting' = waiting /\ chain' = chain
            /\ \/ bundles' = bundles /\ refused' = refused + Len(r.spans)
               \/ bundles' = Append(bundles, Normalized(r.spans)) /\ refused' = refused
            /\ UNCHANGED <<control, receiver, result, target, ended, batch, dropped, sent, again, smooth>>
      BY <1>12, Handled
    <2>2. refused' \in Nat /\ bundles' \in Seq(Bundle)
      <3>1. Len(r.spans) \in Nat /\ Normalized(r.spans) \in Bundle
        BY <2>1, NormalizedFacts DEF SpanSeq
      <3>2. refused \in Nat /\ bundles \in Seq(Bundle)
        BY DEF TypeOK
      <3> HIDE DEF TypeOK
      <3>3. bundles' \in Seq(Bundle)
        BY <2>1, <3>1, <3>2
      <3> QED BY <2>1, <3>1, <3>2, <3>3
    <2>3. waiting' \in 0 .. sent /\ chain' \in Posts
      <3>1. waiting \in 0 .. sent /\ 0 \in 0 .. sent
        BY <1>1 DEF TypeOK
      <3>2. chain # <<>> => Tail(chain) \in Posts
        BY <1>1, PostDone
      <3> QED BY <1>1, <2>1, <3>1, <3>2 DEF NoRequest
    <2> QED BY <1>a, <2>1, <2>2, <2>3 DEF TypeOK, SpanSeq, Posts, control
  <1>13. CASE UNCHANGED inside
    BY <1>a, <1>13 DEF inside, TypeOK, control, exporter, wire
  <1> QED
    BY <1>4, <1>5, <1>6, <1>7, <1>8, <1>9, <1>10, <1>11, <1>12, <1>13, OutsideApart DEF Next, SessionStep, OutsideStep

\* Lemma: how the session got where it is.
LEMMA SessionKept == ASSUME TypeOK, SessionInv, [Next]_vars PROVE SessionInv'
  <1> USE DEF SessionInv, Over
  <1>1. CASE SessionStep
    <2>1. TypeOK'
      BY <1>1, OutsideKept, SessionTyped DEF TypeOK, OutsideTyped
    <2>2. CASE StartReceiver
      BY <2>2 DEF StartReceiver
    <2>3. CASE Prepare
      BY <2>3 DEF Prepare
    <2>4. CASE Announce
      BY <2>4 DEF Announce
    <2>5. CASE RunTarget
      BY <2>5 DEF RunTarget, control
    <2>6. CASE RefuseTarget
      BY <2>6 DEF RefuseTarget, CloseReceiver
    <2>7. CASE ProcessSettles
      BY <2>7 DEF ProcessSettles, TypeOK
    <2>8. CASE DrainEnds
      BY <2>8 DEF DrainEnds, TakeAndClose, CloseReceiver
    <2>9. CASE WindowEnds
      BY <2>9 DEF WindowEnds, TakeAndClose, CloseReceiver
    <2>10. CASE Closed
      BY <2>10 DEF Closed
    <2> QED
      BY <1>1, <2>2, <2>3, <2>4, <2>5, <2>6, <2>7, <2>8, <2>9, <2>10 DEF SessionStep
  <1>2. CASE EndSpan
    BY <1>2 DEF EndSpan, control
  <1>3. CASE FlushByTimer
    BY <1>3 DEF FlushByTimer, control
  <1>4. CASE BeforeExit
    BY <1>4 DEF BeforeExit, control
  <1>5. CASE Exit
    BY <1>5 DEF Exit, Gone, control
  <1>6. CASE Killed
    BY <1>6 DEF Killed, Gone, control
  <1>7. CASE Post
    BY <1>7 DEF Post, control
  <1>8. CASE GiveUp
    BY <1>8 DEF GiveUp, control
  <1>9. CASE SendAgain
    BY <1>9 DEF SendAgain, control
  <1>10. CASE Handle
    BY <1>10 DEF Handle, control
  <1>11. CASE UNCHANGED inside
    BY <1>11 DEF inside, control
  <1> QED
    BY <1>1, <1>2, <1>3, <1>4, <1>5, <1>6, <1>7, <1>8, <1>9, <1>10, <1>11, OutsideApart DEF Next, SessionStep, OutsideStep

\* Lemma: only spans that have ended are on their way.
LEMMA KnownKept == ASSUME TypeOK, KnownInv, HeldInv, [Next]_vars PROVE KnownInv'
  <1>1. /\ batch \in SpanSeq /\ chain \in Posts /\ sent \in Nat /\ ended \in Nat /\ dropped \in Nat
        /\ dropped <= ended /\ ToSet(<<>>) = {}
        /\ \A r \in network : r.id \in 1 .. sent /\ r.spans \in SpanSeq
    BY Shapes, EmptyFacts DEF KnownInv
  <1>2. ASSUME UNCHANGED <<bundles, ended, batch, chain, waiting, dropped, network>>
        PROVE  KnownInv'
    <2>1. Held' = Held
      BY <1>2 DEF Held
    <2> QED BY <1>2, <2>1 DEF KnownInv, Known
  <1>3. ASSUME NEW b \in SpanSeq, chain' = Enqueued(b), ToSet(b) \subseteq 1 .. ended',
               \A i \in DOMAIN chain : ToSet(chain[i]) \subseteq 1 .. ended'
        PROVE  \A i \in DOMAIN chain' : ToSet(chain'[i]) \subseteq 1 .. ended'
    <2>1. CASE b = <<>>
      BY <1>3, <2>1 DEF Enqueued
    <2>2. CASE b # <<>>
      <3>1. chain' = Append(chain, b)
        BY <1>3, <2>2 DEF Enqueued
      <3>2. PICK n \in Nat : /\ n \notin DOMAIN chain /\ DOMAIN Append(chain, b) = DOMAIN chain \cup {n}
                 /\ Append(chain, b)[n] = b /\ \A i \in DOMAIN chain : Append(chain, b)[i] = chain[i]
        BY <1>1, PostEnqueued
      <3> QED BY <1>3, <3>1, <3>2
    <2> QED BY <2>1, <2>2
  <1>4. ASSUME chain # <<>>
        PROVE  /\ \A i \in DOMAIN Tail(chain) : ToSet(Tail(chain)[i]) \subseteq 1 .. ended
               /\ ToSet(Head(chain)) \subseteq 1 .. ended
    BY <1>1, <1>4, PostDone DEF KnownInv, Known
  <1>5. CASE SessionStep
    BY <1>2, <1>5, SessionApart DEF exporter, wire
  <1>6. CASE EndSpan
    <2>1. ended' = ended + 1 /\ (1 .. ended) \subseteq 1 .. ended' /\ ended + 1 \in 1 .. ended'
          /\ UNCHANGED <<bundles, waiting, network>>
      BY <1>1, <1>6 DEF EndSpan, wire
    <2>2. Held' = Held
      BY <2>1 DEF Held
    <2>3. dropped' <= ended'
      BY <1>1, <1>6 DEF EndSpan
    <2>4. Append(batch, ended + 1) \in SpanSeq /\ ToSet(Append(batch, ended + 1)) \subseteq 1 .. ended'
      <3>1. ended + 1 \in Span
        BY <1>6, SpanAssumption DEF EndSpan, TypeOK, Span
      <3>2. ToSet(Append(batch, ended + 1)) = ToSet(batch) \cup {ended + 1}
            /\ Append(batch, ended + 1) \in SpanSeq
        BY <1>1, <3>1, Appended DEF SpanSeq
      <3> QED BY <2>1, <3>2 DEF KnownInv, Known
    <2>5. \/ UNCHANGED <<batch, chain>>
          \/ batch' = <<>> /\ chain' = Enqueued(Append(batch, ended + 1))
          \/ batch' = Append(batch, ended + 1) /\ chain' = chain
      BY <1>6 DEF EndSpan
    <2>6. ToSet(batch') \subseteq 1 .. ended'
      BY <1>1, <2>1, <2>4, <2>5 DEF KnownInv, Known
    <2>7. \A i \in DOMAIN chain' : ToSet(chain'[i]) \subseteq 1 .. ended'
      <3>1. \A i \in DOMAIN chain : ToSet(chain[i]) \subseteq 1 .. ended'
        BY <2>1 DEF KnownInv, Known
      <3> QED BY <1>3, <2>4, <2>5, <3>1
    <2>8. waiting' # NoRequest => chain' # <<>>
      BY <1>1, <2>1, <2>5, PostEnqueued, <2>4 DEF KnownInv, Enqueued
    <2>9. ToSet(Held.spans) \subseteq 1 .. ended' /\ \A r \in network : ToSet(r.spans) \subseteq 1 .. ended'
      BY <2>1 DEF KnownInv, Known
    <2> QED BY <2>1, <2>2, <2>3, <2>6, <2>7, <2>8, <2>9 DEF KnownInv, Known
  <1>7. CASE FlushByTimer \/ BeforeExit
    <2>1. batch' = <<>> /\ chain' = Enqueued(batch)
          /\ UNCHANGED <<bundles, ended, waiting, dropped, network>>
      BY <1>7 DEF FlushByTimer, BeforeExit, FlushBatch, wire
    <2>2. Held' = Held
      BY <2>1 DEF Held
    <2>3. \A i \in DOMAIN chain' : ToSet(chain'[i]) \subseteq 1 .. ended'
      BY <1>1, <1>3, <2>1 DEF KnownInv, Known
    <2>4. waiting' # NoRequest => chain' # <<>>
      BY <1>1, <2>1, PostEnqueued DEF KnownInv, Enqueued
    <2> QED BY <1>1, <2>1, <2>2, <2>3, <2>4 DEF KnownInv, Known
  <1>8. CASE Exit
    BY <1>2, <1>8 DEF Exit, Gone, exporter, wire
  <1>9. CASE Killed
    <2>1. /\ batch' = <<>> /\ chain' = <<>> /\ waiting' = NoRequest /\ network' \subseteq network
          /\ UNCHANGED <<bundles, ended, dropped>>
      BY <1>9 DEF Killed, Gone
    <2>2. Held' = Held
      BY <2>1 DEF Held
    <2> QED BY <1>1, <2>1, <2>2 DEF KnownInv, Known
  <1>10. CASE Post \/ SendAgain
    <2>1. chain # <<>> /\ UNCHANGED <<bundles, ended, batch, dropped>>
      BY <1>10 DEF Post, SendAgain, KnownInv
    <2>2. Held' = Held
      BY <2>1 DEF Held
    <2>3. \/ network' = network \cup {[id |-> sent + 1, spans |-> Head(chain)]} /\ chain' = chain
          \/ network' = network /\ chain' = Tail(chain) /\ waiting' = waiting /\ waiting = NoRequest
      BY <1>10 DEF Post, SendAgain
    <2>4. \A r \in network' : ToSet(r.spans) \subseteq 1 .. ended
      BY <1>4, <2>1, <2>3 DEF KnownInv, Known
    <2>5. \A i \in DOMAIN chain' : ToSet(chain'[i]) \subseteq 1 .. ended
      BY <1>4, <2>1, <2>3 DEF KnownInv, Known
    <2> QED BY <2>1, <2>2, <2>3, <2>4, <2>5 DEF KnownInv, Known
  <1>11. CASE GiveUp
    <2>1. /\ chain # <<>> /\ chain' = Tail(chain) /\ waiting' = NoRequest /\ network' \subseteq network
          /\ UNCHANGED <<bundles, ended, batch, dropped>>
      BY <1>11 DEF GiveUp, KnownInv
    <2>2. Held' = Held
      BY <2>1 DEF Held
    <2> QED BY <1>4, <2>1, <2>2 DEF KnownInv, Known
  <1>12. CASE Handle
    <2>1. PICK r \in network :
            /\ network' = network \ {r} /\ r.spans \in SpanSeq
            /\ \/ r.id = waiting /\ chain # <<>> /\ waiting' = NoRequest /\ chain' = Tail(chain)
               \/ r.id # waiting /\ waiting' = waiting /\ chain' = chain
            /\ Held' = Held \/ Held' = Plus(Held, Normalized(r.spans))
            /\ UNCHANGED <<ended, batch, dropped>>
      BY <1>12, Handled
    <2>2. ToSet(Held'.spans) \subseteq ToSet(Held.spans) \cup ToSet(r.spans)
      <3>1. Held \in Bundle /\ IsInjective(Held.spans) /\ ToSet(Held.effects) \subseteq ToSet(Held.spans)
        BY Shapes DEF HeldInv
      <3> DEFINE new == Plus(Held, Normalized(r.spans))
      <3>2. \E some \in SUBSET ToSet(r.spans) : ToSet(new.spans) = ToSet(Held.spans) \cup some
        BY <2>1, <3>1, HeldAfterRequest
      <3> QED BY <2>1, <3>2
    <2>3. \A i \in DOMAIN chain' : ToSet(chain'[i]) \subseteq 1 .. ended
      BY <1>4, <2>1 DEF KnownInv, Known
    <2> QED BY <2>1, <2>2, <2>3 DEF KnownInv, Known
  <1>13. CASE UNCHANGED inside
    BY <1>2, <1>13 DEF inside, exporter, wire
  <1> QED
    BY <1>5, <1>6, <1>7, <1>8, <1>9, <1>10, <1>11, <1>12, <1>13, OutsideApart DEF Next, SessionStep, OutsideStep

\* Lemma: nothing but a request that is handled adds to what is held, and the session takes
\* what is held or nothing.
LEMMA OnlyHandleAdds ==
  ASSUME [Next]_vars, ~Handle
  PROVE  Held' = Held /\ bundles' = bundles /\ result' \in {result, Held}
  <1>1. CASE SessionStep
    BY <1>1, SessionApart DEF Held
  <1>2. CASE EndSpan \/ FlushByTimer \/ BeforeExit \/ Exit \/ Killed \/ Post \/ GiveUp \/ SendAgain
    BY <1>2 DEF EndSpan, FlushByTimer, BeforeExit, Exit, Killed, Post, GiveUp, SendAgain, Held
  <1>3. CASE UNCHANGED inside
    BY <1>3 DEF inside, Held
  <1> QED BY <1>1, <1>2, <1>3, OutsideApart DEF Next, SessionStep, OutsideStep

\* Lemma: every span is held and taken once, with its own effects.
LEMMA HeldKept == ASSUME TypeOK, KnownInv, HeldInv, [Next]_vars PROVE HeldInv'
  <1>1. CASE ~Handle
    BY <1>1, OnlyHandleAdds DEF HeldInv
  <1>2. CASE Handle
    <2>1. PICK r \in network :
            /\ r.spans \in SpanSeq /\ result' = result
            /\ Held' = Held \/ Held' = Plus(Held, Normalized(r.spans))
      BY <1>2, Handled
    <2>2. Held \in Bundle /\ IsInjective(Held.spans) /\ ToSet(Held.effects) \subseteq ToSet(Held.spans)
      BY Shapes DEF HeldInv
    <2> DEFINE new == Plus(Held, Normalized(r.spans))
    <2>3. IsInjective(new.spans) /\ ToSet(new.effects) \subseteq ToSet(new.spans)
      BY <2>1, <2>2, HeldAfterRequest
    <2> HIDE DEF new
    <2>4. IsInjective(Held'.spans) /\ ToSet(Held'.effects) \subseteq ToSet(Held'.spans)
      BY <2>1, <2>2, <2>3 DEF new
    <2> QED BY <2>1, <2>4 DEF HeldInv
  <1> QED BY <1>1, <1>2

\* Lemma: a span stays in one place until a request is sent again.
LEMMA PlaceKept == ASSUME TypeOK, KnownInv, HeldInv, PlaceInv, [Next]_vars PROVE PlaceInv'
  <1> DEFINE held == ToSet(Held.spans)
  <1> SUFFICES ASSUME again' = 0
               PROVE  /\ Placed(batch', chain', waiting', network', ToSet(Held'.spans))
                      /\ IsInjective(Held'.effects) /\ IsInjective(result'.effects)
    BY DEF PlaceInv
  <1>1. /\ batch \in SpanSeq /\ chain \in Posts /\ sent \in Nat /\ ended \in Nat /\ Held \in Bundle
        /\ <<>> \in SpanSeq /\ <<>> \in Posts
        /\ \A r \in network : r.id \in 1 .. sent /\ r.spans \in SpanSeq
    BY Shapes DEF SpanSeq, Posts
  <1>2. again = 0 /\ ~SendAgain
    <2>1. again \in Nat /\ (SendAgain => again' = again + 1)
      BY LimitAssumption DEF TypeOK, SendAgain
    <2>2. again' = again \/ SendAgain
      <3>1. CASE SessionStep
        BY <3>1, SessionApart DEF wire
      <3>2. CASE ~SessionStep
        BY <3>2, OutsideApart DEF Next, SessionStep, OutsideStep, inside, EndSpan, FlushByTimer, BeforeExit, Exit, Killed, Post,
                    GiveUp, Handle, wire
      <3> QED BY <3>1, <3>2
    <2> QED BY <2>1, <2>2
  <1>3. /\ Placed(batch, chain, waiting, network, held)
        /\ IsInjective(Held.effects) /\ IsInjective(result.effects)
    BY <1>2 DEF PlaceInv
  <1>4. ASSUME ~Handle
        PROVE  ToSet(Held'.spans) = held /\ IsInjective(Held'.effects) /\ IsInjective(result'.effects)
    BY <1>3, <1>4, OnlyHandleAdds
  <1>5. ASSUME NEW b \in SpanSeq, Placed(b, chain, waiting, network, held)
        PROVE  Placed(<<>>, Enqueued(b), waiting, network, held)
    BY <1>1, <1>5, PlacedFlush DEF Enqueued
  <1>6. \A r \in network : r.id # NoRequest /\ r.id # sent + 1
    BY <1>1 DEF NoRequest
  <1>7. CASE UNCHANGED <<batch, chain, waiting, network>> /\ ~Handle
    BY <1>3, <1>4, <1>7
  <1>8. CASE EndSpan
    <2>1. UNCHANGED <<waiting, network, bundles>> /\ ~Handle
      <3>1. ended' # ended
        BY <1>1, <1>8 DEF EndSpan
      <3> QED BY <1>8, <3>1 DEF EndSpan, wire, Handle
    <2>2. \/ UNCHANGED <<batch, chain>>
          \/ batch' = <<>> /\ chain' = Enqueued(Append(batch, ended + 1))
          \/ batch' = Append(batch, ended + 1) /\ chain' = chain
      BY <1>8 DEF EndSpan
    <2>3. ended + 1 \in Span
      BY <1>8, SpanAssumption DEF EndSpan, TypeOK, Span
    <2>4. /\ ended + 1 \notin held /\ ended + 1 \notin ToSet(batch)
          /\ \A i \in DOMAIN chain : ended + 1 \notin ToSet(chain[i])
          /\ \A r \in network : ended + 1 \notin ToSet(r.spans)
      <3>1. ended + 1 \notin 1 .. ended
        BY <1>1
      <3> QED BY <3>1 DEF KnownInv, Known
    <2> DEFINE more == Append(batch, ended + 1)
    <2>5. Placed(more, chain, waiting, network, held) /\ more \in SpanSeq
      <3>1. more \in SpanSeq
        BY <1>1, <2>3, Appended DEF SpanSeq
      <3> QED BY <1>1, <1>3, <2>3, <2>4, <3>1, PlacedRecord
    <2> HIDE DEF more
    <2>6. Placed(<<>>, Enqueued(more), waiting, network, held)
      BY <1>5, <2>5
    <2> QED BY <1>3, <1>4, <2>1, <2>2, <2>5, <2>6 DEF more
  <1>9. CASE FlushByTimer \/ BeforeExit
    <2>1. batch' = <<>> /\ chain' = Enqueued(batch) /\ UNCHANGED <<waiting, network>>
      BY <1>9 DEF FlushByTimer, BeforeExit, FlushBatch, wire
    <2>2. ~Handle \/ (Held' = Held /\ result' = result)
      BY <1>9 DEF FlushByTimer, BeforeExit, Held
    <2>3. Placed(<<>>, Enqueued(batch), waiting, network, held)
      BY <1>1, <1>3, <1>5
    <2> QED BY <1>3, <1>4, <2>1, <2>2, <2>3
  <1>10. CASE Killed
    <2>1. batch' = <<>> /\ chain' = <<>> /\ network' \subseteq network
          /\ Held' = Held /\ result' = result
      BY <1>10 DEF Killed, Gone, Held
    <2>2. ToSet(<<>>) = {} /\ IsInjective(<<>>) /\ DOMAIN <<>> = {}
      BY EmptyFacts
    <2>3. Placed(<<>>, <<>>, waiting', network', held)
      BY <1>3, <2>1, <2>2 DEF Placed, Apart
    <2> QED BY <1>3, <2>1, <2>3
  <1>11. CASE Post
    <2>1. chain # <<>> /\ waiting = NoRequest /\ Held' = Held /\ result' = result /\ batch' = batch
      BY <1>11 DEF Post, Held
    <2>2. \/ /\ waiting' = sent + 1 /\ chain' = chain
             /\ network' = network \cup {[id |-> sent + 1, spans |-> Head(chain)]}
          \/ network' = network /\ chain' = Tail(chain) /\ waiting' = waiting
      BY <1>11 DEF Post
    <2> DEFINE r == [id |-> sent + 1, spans |-> Head(chain)]
    <2>3. Placed(batch, chain, r.id, network \cup {r}, held)
      <3>1. r.id = sent + 1 /\ r.spans = chain[1]
        BY <1>1, <2>1, PostDone
      <3>2. r.id \notin {q.id : q \in network} /\ \A q \in network : q.id # waiting
        BY <1>6, <2>1, <3>1
      <3> HIDE DEF r
      <3> QED BY <1>1, <1>3, <2>1, <3>1, <3>2, PlacedPost
    <2>4. Placed(batch, Tail(chain), waiting, network, held)
      BY <1>1, <1>3, <2>1, PlacedDone
    <2> QED BY <1>3, <2>1, <2>2, <2>3, <2>4
  <1>12. CASE GiveUp
    <2>1. /\ chain # <<>> /\ Held' = Held /\ result' = result /\ batch' = batch
          /\ chain' = Tail(chain) /\ network' \in SUBSET network
      BY <1>12 DEF GiveUp, KnownInv, Held
    <2>2. Placed(batch, Tail(chain), waiting', network', held)
      BY <1>1, <1>3, <2>1, PlacedDone
    <2> QED BY <1>3, <2>1, <2>2
  <1>13. CASE Handle
    <2>1. PICK r \in network :
            /\ network' = network \ {r} /\ r.spans \in SpanSeq
            /\ \/ r.id = waiting /\ chain # <<>> /\ waiting' = NoRequest /\ chain' = Tail(chain)
               \/ r.id # waiting /\ waiting' = waiting /\ chain' = chain
            /\ Held' = Held \/ Held' = Plus(Held, Normalized(r.spans))
            /\ batch' = batch /\ result' = result
      BY <1>13, Handled
    <2>2. Placed(batch, chain', waiting', network, held) /\ \A i \in DOMAIN chain' : Apart(r.spans, chain'[i])
      <3>1. CASE r.id # waiting /\ waiting' = waiting /\ chain' = chain
        BY <1>3, <3>1 DEF Placed
      <3>2. CASE r.id = waiting /\ chain # <<>> /\ waiting' = NoRequest /\ chain' = Tail(chain)
        <4>1. Placed(batch, Tail(chain), waiting', network, held)
          BY <1>1, <1>3, <3>2, PlacedDone
        <4>2. \A i \in DOMAIN Tail(chain) : Apart(r.spans, Tail(chain)[i])
          <5>1. \A i \in DOMAIN Tail(chain) : i + 1 \in DOMAIN chain /\ i + 1 # 1 /\ Tail(chain)[i] = chain[i + 1]
            BY <1>1, <3>2, PostDone
          <5> QED BY <1>3, <5>1, Zenon DEF Placed
        <4> QED BY <3>2, <4>1, <4>2
      <3> QED BY <2>1, <3>1, <3>2
    <2>3. \A some \in SUBSET ToSet(r.spans) :
            Placed(batch, chain', waiting', network \ {r}, held \cup some)
      BY <2>2, PlacedArrival
    <2>4. IsInjective(r.spans) /\ Apart(r.spans, Held.spans)
      BY <1>3 DEF Placed, Apart
    <2> DEFINE new == Plus(Held, Normalized(r.spans))
    <2>5. /\ \E some \in SUBSET ToSet(r.spans) : ToSet(new.spans) = held \cup some
          /\ IsInjective(new.effects)
      <3>1. IsInjective(Held.spans) /\ ToSet(Held.effects) \subseteq ToSet(Held.spans)
        BY DEF HeldInv
      <3> QED BY <1>1, <1>3, <2>1, <2>4, <3>1, HeldAfterRequest
    <2> HIDE DEF new, held
    <2>6. held = held \cup {}
      OBVIOUS
    <2>7. /\ \E some \in SUBSET ToSet(r.spans) : ToSet(Held'.spans) = held \cup some
          /\ IsInjective(Held'.effects)
      BY <1>3, <2>1, <2>5, <2>6 DEF new, held
    <2> QED BY <1>3, <2>1, <2>3, <2>7
  <1>14. CASE SessionStep /\ ~Handle
    BY <1>7, <1>14, SessionApart DEF exporter, wire
  <1>15. CASE (Exit \/ UNCHANGED inside) /\ ~Handle
    BY <1>7, <1>15 DEF Exit, Gone, inside, exporter, wire
  <1> QED
    BY <1>2, <1>8, <1>9, <1>10, <1>11, <1>12, <1>13, <1>14, <1>15, OutsideApart DEF Next, SessionStep, OutsideStep

\* Lemma: what the exporter still has is of the spans that have ended.
LEMMA UnsentKnown ==
  ASSUME TypeOK, KnownInv
  PROVE  /\ Unsent(batch, chain) \subseteq 1 .. ended
         /\ IsFiniteSet(Unsent(batch, chain)) /\ Cardinality(Unsent(batch, chain)) \in Nat
  <1> DEFINE U == Unsent(batch, chain)
  <1>1. U \subseteq 1 .. ended
    BY DEF Unsent, KnownInv, Known
  <1>2. IsFiniteSet(1 .. ended)
    <2>1. ended \in Int /\ 1 \in Int
      BY Shapes
    <2> QED BY <2>1, FS_Interval
  <1> HIDE DEF U
  <1>3. IsFiniteSet(U) /\ Cardinality(U) \in Nat
    BY <1>1, <1>2, FS_Subset, FS_CardinalityType
  <1> QED BY <1>1, <1>3 DEF U

\* Lemma: in a run without disturbance every span stays accounted for.
LEMMA CountKept ==
  ASSUME TypeOK, SessionInv, KnownInv, HeldInv, PlaceInv, CountInv, [Next]_vars
  PROVE  CountInv'
  <1> DEFINE U == Unsent(batch, chain)
  <1> SUFFICES ASSUME smooth'
               PROVE  /\ again' = 0
                      /\ \A r \in network' : r.id = waiting' /\ chain' # <<>> /\ r.spans = chain'[1]
                      /\ ended' = Cardinality(Unsent(batch', chain')) + Tally(Held') + refused' + dropped'
                      /\ target' = "ended" => chain' = <<>> /\ batch' = <<>>
                      /\ kind' = "trace" /\ session' \in {"closing", "done"} /\ target' = "ended" =>
                           Tally(result') = Tally(Held')
    BY DEF CountInv
  <1>1. /\ batch \in SpanSeq /\ chain \in Posts /\ sent \in Nat /\ ended \in Nat /\ Held \in Bundle
        /\ refused \in Nat /\ dropped \in Nat
        /\ \A r \in network : r.id \in 1 .. sent /\ r.spans \in SpanSeq
    BY Shapes DEF TypeOK
  <1>2. smooth /\ ~Killed /\ ~GiveUp /\ ~SendAgain
    <2>1. ~Killed /\ ~GiveUp /\ ~SendAgain
      BY DEF Killed, Gone, GiveUp, SendAgain
    <2>2. CASE SessionStep
      BY <2>1, <2>2, SessionApart DEF wire
    <2>3. CASE ~SessionStep
      BY <2>1, <2>3, OutsideApart DEF Next, SessionStep, OutsideStep, inside, EndSpan, FlushByTimer, BeforeExit, Exit, Post,
                        Handle, wire
    <2> QED BY <2>1, <2>2, <2>3
  <1>3. /\ again = 0
        /\ \A r \in network : r.id = waiting /\ chain # <<>> /\ r.spans = chain[1]
        /\ ended = Cardinality(U) + Tally(Held) + refused + dropped
        /\ target = "ended" => chain = <<>> /\ batch = <<>>
        /\ kind = "trace" /\ session \in {"closing", "done"} /\ target = "ended" =>
             Tally(result) = Tally(Held)
    BY <1>2 DEF CountInv
  <1>4. U \subseteq 1 .. ended /\ IsFiniteSet(U) /\ Cardinality(U) \in Nat
    BY UnsentKnown
  <1>5. Tally(Held) \in Nat
    BY <1>1 DEF Tally, Bundle
  <1>6. ASSUME UNCHANGED <<batch, chain, waiting, network, again, ended, refused, dropped, bundles>>
        PROVE  /\ again' = 0
               /\ \A r \in network' : r.id = waiting' /\ chain' # <<>> /\ r.spans = chain'[1]
               /\ ended' = Cardinality(Unsent(batch', chain')) + Tally(Held') + refused' + dropped'
               /\ target = "ended" => chain' = <<>> /\ batch' = <<>>
               /\ Held' = Held
    BY <1>3, <1>6 DEF Held
  <1>7. ASSUME NEW b \in SpanSeq
        PROVE  Unsent(<<>>, Enqueued(b)) = Unsent(b, chain)
    BY <1>1, UnsentFlush, EmptyFacts DEF Enqueued
  <1>8. ASSUME NEW b \in SpanSeq, chain # <<>>
        PROVE  Enqueued(b) # <<>> /\ Enqueued(b)[1] = chain[1]
    BY <1>1, <1>8, PostEnqueued DEF Enqueued
  <1>9. CASE SessionStep
    <2>1. UNCHANGED <<batch, chain, waiting, network, again, ended, refused, dropped, bundles>>
      BY <1>9, SessionApart DEF exporter, wire
    <2>2. CASE StartReceiver
      BY <1>6, <2>1, <2>2 DEF StartReceiver
    <2>3. CASE Prepare
      BY <1>6, <2>1, <2>3 DEF Prepare
    <2>4. CASE Announce
      BY <1>6, <2>1, <2>4 DEF Announce
    <2>5. CASE RunTarget
      BY <1>6, <2>1, <2>5 DEF RunTarget
    <2>6. CASE RefuseTarget
      BY <1>6, <2>1, <2>6 DEF RefuseTarget, CloseReceiver
    <2>7. CASE ProcessSettles
      BY <1>6, <2>1, <2>7 DEF ProcessSettles
    <2>8. CASE DrainEnds
      BY <1>6, <2>1, <2>8 DEF DrainEnds, TakeAndClose, CloseReceiver, Held
    <2>9. CASE WindowEnds
      BY <1>6, <2>1, <2>9 DEF WindowEnds, TakeAndClose, CloseReceiver
    <2>10. CASE Closed
      <3>1. result' = result /\ kind' = kind /\ target' = target /\ session = "closing"
        BY <2>10 DEF Closed
      <3> QED BY <1>3, <1>6, <2>1, <3>1
    <2> QED
      BY <1>9, <2>2, <2>3, <2>4, <2>5, <2>6, <2>7, <2>8, <2>9, <2>10 DEF SessionStep
  <1>10. CASE EndSpan
    <2>1. /\ target = "running" /\ target' = target /\ ended' = ended + 1
          /\ UNCHANGED <<waiting, network, again, refused, bundles>>
      BY <1>10 DEF EndSpan, wire
    <2>2. Held' = Held
      BY <2>1 DEF Held
    <2>3. ended + 1 \in Span
      BY <1>10, SpanAssumption DEF EndSpan, TypeOK, Span
    <2> DEFINE more == Append(batch, ended + 1)
    <2>4. more \in SpanSeq /\ Unsent(more, chain) = U \cup {ended + 1}
      <3>1. more \in SpanSeq
        BY <1>1, <2>3, Appended DEF SpanSeq
      <3> QED BY <1>1, <2>3, <3>1, UnsentRecord
    <2>5. Cardinality(Unsent(more, chain)) = Cardinality(U) + 1
      <3>1. ended + 1 \notin U
        BY <1>1, <1>4
      <3> QED BY <1>4, <2>4, <3>1, FS_AddElement
    <2>6. \/ dropped' = dropped + 1 /\ UNCHANGED <<batch, chain>>
          \/ dropped' = dropped /\ batch' = <<>> /\ chain' = Enqueued(more)
          \/ dropped' = dropped /\ batch' = more /\ chain' = chain
      BY <1>10 DEF EndSpan
    <2> HIDE DEF more, U
    <2>7. \/ dropped' = dropped + 1 /\ Cardinality(Unsent(batch', chain')) = Cardinality(U)
          \/ dropped' = dropped /\ Cardinality(Unsent(batch', chain')) = Cardinality(U) + 1
      BY <1>7, <2>4, <2>5, <2>6 DEF U
    <2>8. ended' = Cardinality(Unsent(batch', chain')) + Tally(Held') + refused' + dropped'
      BY <1>1, <1>3, <1>4, <1>5, <2>1, <2>2, <2>7
    <2>9. \A r \in network' : r.id = waiting' /\ chain' # <<>> /\ r.spans = chain'[1]
      BY <1>3, <1>8, <2>1, <2>4, <2>6
    <2> QED BY <1>3, <2>1, <2>8, <2>9
  <1>11. CASE FlushByTimer \/ BeforeExit
    <2>1. /\ target' # "ended" /\ batch' = <<>> /\ chain' = Enqueued(batch)
          /\ UNCHANGED <<ended, waiting, dropped, network, again, refused, bundles>>
      BY <1>11 DEF FlushByTimer, BeforeExit, FlushBatch, wire
    <2>2. Held' = Held
      BY <2>1 DEF Held
    <2>3. Unsent(batch', chain') = U
      BY <1>1, <1>7, <2>1
    <2>4. \A r \in network' : r.id = waiting' /\ chain' # <<>> /\ r.spans = chain'[1]
      BY <1>1, <1>3, <1>8, <2>1
    <2> QED BY <1>3, <2>1, <2>2, <2>3, <2>4
  <1>12. CASE Exit
    <2>1. /\ target = "leaving" /\ chain = <<>> /\ batch = <<>>
          /\ UNCHANGED <<batch, chain, waiting, network, again, ended, refused, dropped, bundles>>
          /\ kind' = kind /\ session' = session
      BY <1>12 DEF Exit, Gone, control, exporter, wire
    <2>2. ~(kind = "trace" /\ session \in {"closing", "done"})
      BY <2>1 DEF SessionInv
    <2> QED BY <1>6, <2>1, <2>2
  <1>13. CASE Post
    <2>1. /\ target \in {"running", "leaving"} /\ target' = target /\ waiting = NoRequest
          /\ chain # <<>> /\ waiting' = sent + 1 /\ chain' = chain
          /\ network' = network \cup {[id |-> sent + 1, spans |-> Head(chain)]}
          /\ UNCHANGED <<batch, again, ended, refused, dropped, bundles>>
      BY <1>13 DEF Post, Living
    <2>2. network = {}
      BY <1>1, <1>3, <2>1 DEF NoRequest
    <2>3. Held' = Held
      BY <2>1 DEF Held
    <2>4. \A r \in network' : r.id = waiting' /\ chain' # <<>> /\ r.spans = chain'[1]
      BY <1>1, <2>1, <2>2, PostDone
    <2> QED BY <1>3, <2>1, <2>3, <2>4
  <1>14. CASE Handle
    <2>1. PICK r \in network :
            /\ network' = network \ {r} /\ r.spans \in SpanSeq
            /\ \/ r.id = waiting /\ chain # <<>> /\ waiting' = NoRequest /\ chain' = Tail(chain)
               \/ r.id # waiting /\ waiting' = waiting /\ chain' = chain
            /\ \/ refused' = refused + Len(r.spans) /\ Held' = Held
               \/ refused' = refused /\ Held' = Plus(Held, Normalized(r.spans))
            /\ UNCHANGED <<control, result, target, ended, batch, dropped, again>>
      BY <1>14, Handled
    <2>2. /\ r.id = waiting /\ chain # <<>> /\ r.spans = chain[1] /\ chain' = Tail(chain)
          /\ target # "ended"
      BY <1>3, <2>1
    <2>3. network' = {}
      <3>1. \A q \in network : q = r
        <4> SUFFICES ASSUME NEW q \in network PROVE q = r
          OBVIOUS
        <4>1. q.id = r.id /\ q.spans = r.spans
          BY <1>3, <2>2
        <4>2. q \in [id : 1 .. sent, spans : Seq(Span)] /\ r \in [id : 1 .. sent, spans : Seq(Span)]
          BY DEF TypeOK
        <4>3. q = [id |-> q.id, spans |-> q.spans] /\ r = [id |-> r.id, spans |-> r.spans]
          BY <4>2
        <4> QED BY <4>1, <4>3
      <3> QED BY <2>1, <3>1
    <2>4. Placed(batch, chain, waiting, network, ToSet(Held.spans))
      BY <1>3 DEF PlaceInv
    <2>5. IsInjective(r.spans) /\ Apart(r.spans, Held.spans)
      BY <2>4 DEF Placed, Apart
    <2> DEFINE X == ToSet(r.spans)
    <2>6. Unsent(batch, chain') = U \ X /\ X \subseteq U
      BY <1>1, <2>2, <2>4, UnsentDone
    <2>7. IsFiniteSet(X) /\ Cardinality(X) = Len(r.spans) /\ Len(r.spans) \in Nat
      BY <2>1, <2>5, CountedByLength DEF SpanSeq
    <2> HIDE DEF X, U
    <2>8. Cardinality(U \ X) = Cardinality(U) - Len(r.spans)
      <3>1. U \cap X = X
        BY <2>6
      <3>2. Cardinality(U \ X) = Cardinality(U) - Cardinality(U \cap X)
        BY <1>4, FS_Difference
      <3> QED BY <2>7, <3>1, <3>2
    <2>9. \/ refused' = refused + Len(r.spans) /\ Tally(Held') = Tally(Held)
          \/ refused' = refused /\ Tally(Held') = Tally(Held) + Len(r.spans)
      <3>1. IsInjective(Held.spans) /\ ToSet(Held.effects) \subseteq ToSet(Held.spans)
        BY DEF HeldInv
      <3> DEFINE new == Plus(Held, Normalized(r.spans))
      <3>2. Tally(new) = Tally(Held) + Len(r.spans)
        BY <1>1, <2>1, <2>5, <3>1, HeldAfterRequest
      <3> HIDE DEF new
      <3>3. (refused' = refused + Len(r.spans) /\ Held' = Held) \/ (refused' = refused /\ Held' = new)
        BY <2>1 DEF new
      <3> QED BY <3>2, <3>3
    <2>10. ended = ended' /\ dropped = dropped' /\ Unsent(batch', chain') = U \ X
      BY <2>1, <2>6
    <2>11. ended' = Cardinality(Unsent(batch', chain')) + Tally(Held') + refused' + dropped'
      BY <1>1, <1>3, <1>4, <1>5, <2>7, <2>8, <2>9, <2>10, SMTT(30)
    <2> QED BY <1>3, <2>1, <2>2, <2>3, <2>11
  <1>15. CASE UNCHANGED inside
    BY <1>3, <1>6, <1>15 DEF inside, control, exporter, wire
  <1> QED
    BY <1>2, <1>9, <1>10, <1>11, <1>12, <1>13, <1>14, <1>15, OutsideApart DEF Next, SessionStep, OutsideStep

\* Lemma: what is merged is what arrived.
LEMMA ArrivedKept == ASSUME TypeOK, KnownInv, ArrivedInv, [Next]_vars PROVE ArrivedInv'
  <1>1. ASSUME bundles' = bundles PROVE ArrivedInv'
    BY <1>1 DEF ArrivedInv, Arrived, Held
  <1>2. CASE Handle
    <2>1. PICK r \in network :
            /\ r.spans \in SpanSeq
            /\ \/ bundles' = bundles
               \/ /\ bundles' = Append(bundles, Normalized(r.spans))
                  /\ Held' = Plus(Held, Normalized(r.spans))
      BY <1>2, Handled
    <2> DEFINE m == Normalized(r.spans)
    <2>2. m \in Bundle /\ Held \in Bundle /\ bundles \in Seq(Bundle)
      BY <2>1, Shapes, NormalizedFacts DEF SpanSeq
    <2> HIDE DEF m
    <2>3. CASE bundles' = Append(bundles, m) /\ Held' = Plus(Held, m)
      <3>1. /\ DOMAIN bundles' = DOMAIN bundles \cup {Len(bundles) + 1}
            /\ bundles'[Len(bundles) + 1] = m /\ \A i \in DOMAIN bundles : bundles'[i] = bundles[i]
        BY <2>2, <2>3
      <3>2. Arrived' = Arrived \cup ToSet(m.spans)
        BY <3>1 DEF Arrived
      <3>3. m.spans \in SpanSeq /\ Held.spans \in SpanSeq
        BY <2>2 DEF Bundle, SpanSeq
      <3>4. Held'.spans = AppendUnseen(Held.spans, m.spans)
        BY <2>3 DEF Plus
      <3>5. ToSet(AppendUnseen(Held.spans, m.spans)) = ToSet(Held.spans) \cup ToSet(m.spans)
        BY <3>3, UnseenFacts
      <3> QED BY <3>2, <3>4, <3>5 DEF ArrivedInv
    <2> QED BY <1>1, <2>1, <2>3 DEF m
  <1>3. CASE SessionStep
    BY <1>1, <1>3, SessionApart
  <1>4. CASE EndSpan \/ FlushByTimer \/ BeforeExit \/ Exit \/ Killed \/ Post \/ GiveUp \/ SendAgain
    BY <1>1, <1>4 DEF EndSpan, FlushByTimer, BeforeExit, Exit, Killed, Post, GiveUp, SendAgain
  <1>5. CASE UNCHANGED inside
    BY <1>1, <1>5 DEF inside
  <1> QED BY <1>2, <1>3, <1>4, <1>5, OutsideApart DEF Next, SessionStep, OutsideStep

----------------------------------------------------------------------------
(* What collecting promises.                                               *)

\* Lemma: every step keeps the invariant.
LEMMA Invariant == IInv /\ [Next]_vars => IInv'
  BY TypeKept, SessionKept, KnownKept, HeldKept, PlaceKept, CountKept, ArrivedKept DEF IInv

\* Theorem: the strengthened invariant, and with it the types.
THEOREM Invariance == Spec => []IInv
  <1>1. Init => IInv
    <2> SUFFICES ASSUME Init PROVE IInv
      OBVIOUS
    <2>1. /\ bundles = <<>> /\ batch = <<>> /\ chain = <<>> /\ network = {} /\ waiting = NoRequest
          /\ ended = 0 /\ dropped = 0 /\ refused = 0 /\ again = 0 /\ result = NoResult /\ smooth = TRUE
          /\ tried = FALSE /\ directory = FALSE /\ session = "starting" /\ sent = 0
          /\ kind \in {"trace", "receive"} /\ target = IF kind = "receive" THEN "running" ELSE "none"
          /\ receiver = "down"
          /\ connection = "none" /\ helper = FALSE /\ killed = FALSE
      BY DEF Init
    <2>2. Held = NoResult
      BY <2>1, MergedAppend DEF Held
    <2>3. /\ NoResult.spans = <<>> /\ NoResult.effects = <<>> /\ NoResult \in Bundle
          /\ NoResult.dropped = 0 /\ NoResult.rejected = 0
      BY DEF NoResult, Bundle
    <2>4. ToSet(<<>>) = {} /\ IsInjective(<<>>) /\ Len(<<>>) = 0 /\ DOMAIN <<>> = {}
      BY EmptyFacts
    <2>5. TypeOK
      <3>1. /\ ended \in 0 .. Spans /\ dropped \in 0 .. Spans /\ again \in 0 .. MaxRetries
            /\ batch \in Seq(Span) /\ Len(batch) < BatchLimit /\ chain \in Seq(Seq(Span))
            /\ bundles \in Seq(Bundle) /\ waiting \in 0 .. sent /\ sent \in Nat /\ refused \in Nat
        BY <2>1, <2>4, SpanAssumption, LimitAssumption DEF NoRequest
      <3>2. tried \in BOOLEAN /\ directory \in BOOLEAN /\ smooth \in BOOLEAN
        BY <2>1
      <3> QED BY <2>1, <2>3, <3>1, <3>2 DEF TypeOK
    <2>6. SessionInv
      BY <2>1 DEF SessionInv, Over
    <2>7. KnownInv
      BY <2>1, <2>2, <2>3, <2>4 DEF KnownInv, Known
    <2>8. HeldInv
      BY <2>1, <2>2, <2>3, <2>4 DEF HeldInv
    <2>9. PlaceInv
      BY <2>1, <2>2, <2>3, <2>4 DEF PlaceInv, Placed
    <2>10. CountInv
      <3>1. Unsent(batch, chain) = {} /\ Tally(Held) = 0
        BY <2>1, <2>2, <2>3, <2>4 DEF Unsent, Tally
      <3>2. Cardinality(Unsent(batch, chain)) = 0
        BY <3>1, FS_EmptySet
      <3> QED BY <2>1, <3>1, <3>2 DEF CountInv
    <2>11. ArrivedInv
      BY <2>1, <2>2, <2>3, <2>4 DEF ArrivedInv, Arrived
    <2> QED BY <2>5, <2>6, <2>7, <2>8, <2>9, <2>10, <2>11 DEF IInv
  <1> QED BY <1>1, Invariant, PTL DEF Spec

\* Theorem: however often batches are sent, a span is in the run once, with its own effects, and
\* an effect once unless a request was sent again.
THEOREM SpansCountedOnce == Spec => []CountedOnce
  <1>1. IInv => CountedOnce
    BY DEF IInv, HeldInv, PlaceInv, CountedOnce
  <1> QED BY <1>1, Invariance, PTL

\* Theorem: of a target that leaves by itself, with every request answered in time, the run
\* has or reports every span but those the exporter dropped and those in refused requests.
THEOREM LossIsOverLimits == Spec => []OnlyLimitsLose
  <1>1. IInv => OnlyLimitsLose
    <2> SUFFICES ASSUME IInv, kind = "trace", session \in {"closing", "done"}, target = "ended", smooth
                 PROVE  ended = Len(result.spans) + result.dropped + result.rejected + dropped + refused
      BY DEF OnlyLimitsLose, CleanExit, Reported
    <2>1. /\ chain = <<>> /\ batch = <<>> /\ Tally(result) = Tally(Held)
          /\ ended = Cardinality(Unsent(batch, chain)) + Tally(Held) + refused + dropped
      BY DEF IInv, CountInv
    <2>2. Unsent(batch, chain) = {}
      <3>1. DOMAIN <<>> = {}
        OBVIOUS
      <3> QED BY <2>1, <3>1, EmptyFacts DEF Unsent
    <2>3. Cardinality(Unsent(batch, chain)) = 0
      BY <2>2, FS_EmptySet
    <2>4. Tally(Held) \in Nat /\ refused \in Nat /\ dropped \in Nat
      <3>1. Held \in Bundle /\ dropped \in Nat
        BY Shapes DEF IInv
      <3>2. refused \in Nat
        BY DEF IInv, TypeOK
      <3>3. Tally(Held) \in Nat
        BY <3>1 DEF Tally, Bundle
      <3> QED BY <3>1, <3>2, <3>3
    <2>5. ended = Tally(result) + dropped + refused
      <3>1. Tally(Held) = Tally(result)
        BY <2>1
      <3> QED BY <2>1, <2>3, <2>4, <3>1
    <2> QED BY <2>5 DEF Tally
  <1> QED BY <1>1, Invariance, PTL

\* Theorem: once the try block is entered nothing is left listening and no directory is left.
THEOREM CleanedUp == Spec => []TriedIsCleaned
  <1>1. IInv => TriedIsCleaned
    BY DEF IInv, SessionInv, TriedIsCleaned
  <1> QED BY <1>1, Invariance, PTL

\* Whether the run has been collected.
Taken == session \in {"closing", "done"} /\ ~(kind = "trace" /\ target = "none")

\* Lemma: a step that takes is the one of Capture, and every other step of the session is none.
LEMMA SessionTakes ==
  ASSUME TypeOK, SessionInv, SessionStep
  PROVE  \/ ~Taken /\ Taken' /\ result' = Held
         \/ Taken' = Taken /\ result' = result
  <1>1. CASE StartReceiver \/ Prepare \/ Announce \/ RunTarget \/ ProcessSettles
    BY <1>1 DEF StartReceiver, Prepare, Announce, RunTarget, ProcessSettles, Taken, control
  <1>2. CASE RefuseTarget
    BY <1>2 DEF RefuseTarget, CloseReceiver, Taken
  <1>3. CASE DrainEnds
    <2>1. target = "ended" /\ session = "draining"
      BY <1>3 DEF DrainEnds, SessionInv
    <2>2. session' = "closing" /\ target' = target /\ result' = Held
      BY <1>3 DEF DrainEnds, TakeAndClose, CloseReceiver, Held
    <2> QED BY <2>1, <2>2 DEF Taken
  <1>4. CASE WindowEnds
    BY <1>4 DEF WindowEnds, TakeAndClose, CloseReceiver, Taken, Held
  <1>5. CASE Closed
    BY <1>5 DEF Closed, Taken
  <1> QED BY <1>1, <1>2, <1>3, <1>4, <1>5 DEF SessionStep

\* Theorem: the session implements Capture.  What the run takes is what is held at one moment,
\* all of it and once; what ends or arrives later changes nothing.
THEOREM TakesAtOnce == Spec => TakesWhatIsHeld
  <1>1. Init => Collected!Init
    <2> SUFFICES ASSUME Init PROVE Collected!Init
      OBVIOUS
    <2>1. ended = 0 /\ bundles = <<>> /\ result = NoResult /\ session = "starting"
      BY DEF Init
    <2>2. Held = NoResult
      BY <2>1, MergedAppend DEF Held
    <2>3. ToSet(NoResult.spans) = {}
      BY EmptyFacts DEF NoResult
    <2>4. 1 .. ended = {}
      BY <2>1
    <2>5. Arrived = {}
      BY <2>1 DEF Arrived
    <2> QED BY <2>1, <2>3, <2>4, <2>5 DEF Collected!Init
  <1>2. IInv /\ [Next]_vars => [Collected!Next]_(Collected!captureVars)
    <2> SUFFICES ASSUME IInv, [Next]_vars
                 PROVE  Collected!Next \/ UNCHANGED Collected!captureVars
      OBVIOUS
    <2>0. Arrived = ToSet(Held.spans) /\ Arrived' = ToSet(Held'.spans)
      BY Invariant DEF IInv, ArrivedInv
    <2> DEFINE now == <<1 .. ended, Arrived, Taken, ToSet(result.spans)>>
    <2>1. ASSUME now' = now
          PROVE  UNCHANGED Collected!captureVars
      BY <2>1 DEF Collected!captureVars, Taken
    <2>2. CASE SessionStep
      <3>1. Held' = Held /\ ended' = ended
        BY <2>2, SessionApart DEF Held, exporter
      <3>2. CASE ~Taken /\ Taken' /\ result' = Held
        <4>1. Collected!Take
          BY <2>0, <3>1, <3>2 DEF Collected!Take, Taken
        <4> QED BY <4>1 DEF Collected!Next
      <3>3. CASE Taken' = Taken /\ result' = result
        BY <2>0, <2>1, <3>1, <3>3
      <3> QED BY <2>2, <3>2, <3>3, SessionTakes DEF IInv
    <2>3. CASE EndSpan
      <3>1. /\ ended < Spans /\ ended' = ended + 1 /\ ended \in Nat /\ Spans \in Nat
            /\ UNCHANGED <<bundles, result, session, kind, target>>
        BY <2>3, Shapes DEF EndSpan, control, IInv
      <3>2. ended + 1 \in Span \ (1 .. ended) /\ 1 .. ended + 1 = (1 .. ended) \cup {ended + 1}
        BY <3>1 DEF Span
      <3>3. Collected!EndSpan
        BY <3>1, <3>2 DEF Collected!EndSpan, Arrived, Taken
      <3> QED BY <3>3 DEF Collected!Next
    <2>4. CASE Handle
      <3>1. PICK r \in network :
              /\ r.spans \in SpanSeq
              /\ Held' = Held \/ Held' = Plus(Held, Normalized(r.spans))
              /\ UNCHANGED <<control, result, target, ended>>
        BY <2>4, Handled DEF IInv
      <3>2. Held \in Bundle /\ IsInjective(Held.spans) /\ ToSet(Held.effects) \subseteq ToSet(Held.spans)
        BY Shapes DEF IInv, HeldInv
      <3>3. ToSet(r.spans) \subseteq 1 .. ended
        BY DEF IInv, KnownInv, Known
      <3> DEFINE new == Plus(Held, Normalized(r.spans))
      <3>4. \E some \in SUBSET ToSet(r.spans) : ToSet(new.spans) = ToSet(Held.spans) \cup some
        BY <3>1, <3>2, HeldAfterRequest
      <3> HIDE DEF new
      <3>5. \E some \in SUBSET (1 .. ended) : ToSet(Held'.spans) = ToSet(Held.spans) \cup some
        <4>1. CASE Held' = Held
          <5>1. {} \in SUBSET (1 .. ended) /\ ToSet(Held.spans) = ToSet(Held.spans) \cup {}
            OBVIOUS
          <5> QED BY <4>1, <5>1
        <4>2. CASE Held' = new
          BY <3>3, <3>4, <4>2
        <4> QED BY <3>1, <4>1, <4>2 DEF new
      <3>6. Collected!Receive
        BY <2>0, <3>1, <3>5 DEF Collected!Receive, Taken, control
      <3> QED BY <3>6 DEF Collected!Next
    <2>5. CASE FlushByTimer \/ BeforeExit \/ Exit \/ Killed \/ Post \/ GiveUp \/ SendAgain
      <3>1. UNCHANGED <<control, bundles, result, ended>>
        BY <2>5 DEF FlushByTimer, FlushBatch, BeforeExit, Exit, Killed, Post, GiveUp, SendAgain, exporter
      <3>2. target' = target \/ (target # "none" /\ target' # "none")
        BY <2>5 DEF FlushByTimer, BeforeExit, Exit, Killed, Gone, Post, GiveUp, SendAgain
      <3> QED BY <2>1, <3>1, <3>2 DEF Arrived, Taken, control
    <2>6. CASE UNCHANGED inside
      BY <2>1, <2>6 DEF inside, control, exporter, Arrived, Taken
    <2> QED BY <2>2, <2>3, <2>4, <2>5, <2>6, OutsideApart DEF Next, SessionStep, OutsideStep
  <1> QED BY <1>1, <1>2, Invariance, PTL DEF Spec, TakesWhatIsHeld, Collected!Spec

=============================================================================
