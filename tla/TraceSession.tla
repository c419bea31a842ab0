---------------------------- MODULE TraceSession ----------------------------
(***************************************************************************)
(* Collecting the spans of a run.  In runTracedSession                     *)
(* (packages/runtime/src/session.ts) a receiver is started on loopback,    *)
(* the target is run with the receiver's address in its environment, the   *)
(* session waits for exports in flight, takes what arrived and cleans up.  *)
(* In receiveTraces (packages/usecases/src/receive.ts) the target is a     *)
(* system that is already running and the receiver is open for a window.   *)
(*                                                                         *)
(* The exporter is the one Orchescope loads into a target                  *)
(* (packages/instrumentation): a batch, a chain of posts, a ceiling, and a *)
(* flush by timer and before exit; it asks for its connection to be closed *)
(* after every answer.  An OpenTelemetry exporter of the target's own may  *)
(* keep its connection, ask for other paths on it, and send again what was *)
(* not answered in time; MaxRetries is zero for the former.                *)
(*                                                                         *)
(* runProcess is SupervisedProcess; here a target runs and ends, and what  *)
(* it started may hold its output.  Spans are numbered in the order they   *)
(* end.  A kept connection carries one request at a time.  Left out:       *)
(* attributes, whose truncation drops no span, undecodable bodies, and     *)
(* senders other than the target.                                          *)
(***************************************************************************)
EXTENDS Naturals, FiniteSets, Sequences, SequencesExt

CONSTANTS
  Spans,           \* bound: how many spans the target ends
  Effectful,       \* spans with a side effect event
  Malformed,       \* spans whose identifier cannot be read
  Large,           \* spans that count twice towards a request's size
  BatchLimit,      \* BATCH_LIMIT of the exporter
  ExporterSpans,   \* maxSpans of the exporter
  MaxSpansPerRun,  \* runtime.maxSpansPerRun
  MaxRequestSize,  \* runtime.maxRequestBytes
  MaxRetries       \* bound: how often a request is sent again

Span == 1 .. Spans

ASSUME SpanAssumption ==
  /\ Spans \in Nat
  /\ Effectful \subseteq Span /\ Malformed \subseteq Span /\ Large \subseteq Span

ASSUME LimitAssumption ==
  /\ BatchLimit \in Nat \ {0}
  /\ ExporterSpans \in Nat /\ MaxSpansPerRun \in Nat
  /\ MaxRequestSize \in Nat /\ MaxRetries \in Nat

VARIABLES
  kind,       \* trace or receive
  session,    \* where runTracedSession or receiveTraces is
  tried,      \* whether the try block with its finally was entered
  directory,  \* whether the directory of the result file exists
  receiver,   \* the HTTP server
  bundles,    \* what it normalised, one bundle for each request
  result,     \* what the session collected
  target,     \* the process that records spans
  ended,      \* how many spans it has ended
  batch,      \* the exporter's batch
  chain,      \* inFlight: posts that wait, the first one perhaps being sent
  waiting,    \* the request the first post waits for, or NoRequest
  dropped,    \* spans the exporter dropped at its ceiling
  network,    \* requests on their way
  sent,       \* how many requests were sent
  again,      \* how many of them repeat one before
  refused,    \* history: spans in requests that were answered 413, which nobody counts
  smooth,     \* history: no request was given up, sent again or cut off, no target killed
  connection, \* the connection the sender has kept, if any
  helper,     \* whether a process the target started holds its output open
  killed      \* history: the target did not leave by itself

exporter == <<ended, batch, chain, waiting, dropped>>
wire == <<network, sent, again, refused, smooth>>
control == <<kind, session, tried, directory>>
inside == <<control, receiver, bundles, result, target, exporter, wire>>
outside == <<connection, helper, killed>>
vars == <<inside, outside>>

NoRequest == 0
NoResult == [spans |-> <<>>, effects |-> <<>>, dropped |-> 0, rejected |-> 0]

----------------------------------------------------------------------------
(* Normalisation.                                                          *)

\* normalizeTraces, one span: past the limit it is dropped, with an identifier of the
\* wrong length it is rejected, and either is counted.
WithSpan(bundle, s) ==
  CASE Len(bundle.spans) >= MaxSpansPerRun -> [bundle EXCEPT !.dropped = @ + 1]
    [] Len(bundle.spans) < MaxSpansPerRun /\ s \in Malformed ->
         [bundle EXCEPT !.rejected = @ + 1]
    [] OTHER ->
         [bundle EXCEPT !.spans = Append(@, s),
                        !.effects = IF s \in Effectful THEN Append(@, s) ELSE @]

Normalized(spans) == FoldLeft(WithSpan, NoResult, spans)

\* What mergeBundles would be without the set of spans it has seen.
AppendAll(kept, spans) == kept \o spans

\* The spans of a bundle that were not seen before.
AppendUnseen(kept, spans) ==
  LET Add(sum, s) == IF s \in ToSet(sum) THEN sum ELSE Append(sum, s)
  IN FoldLeft(Add, kept, spans)

\* mergeBundles: spans once, everything else added up.
Merged(all) ==
  LET Add(sum, bundle) ==
        [spans |-> AppendUnseen(sum.spans, bundle.spans),
         effects |-> sum.effects \o bundle.effects,
         dropped |-> sum.dropped + bundle.dropped,
         rejected |-> sum.rejected + bundle.rejected]
  IN FoldLeft(Add, NoResult, all)

Size(spans) == Len(spans) + Len(SelectSeq(spans, LAMBDA s : s \in Large))

\* readBody refuses a body over the limit.
TooLarge(spans) == Size(spans) > MaxRequestSize

----------------------------------------------------------------------------

Bundle == [spans : Seq(Span), effects : Seq(Span), dropped : Nat, rejected : Nat]

\* Invariant: the state of the session, the exporter and the requests between them.
TypeOK ==
  /\ kind \in {"trace", "receive"}
  /\ session \in {"starting", "bound", "open", "draining", "closing", "done", "failed"}
  /\ tried \in BOOLEAN /\ directory \in BOOLEAN /\ smooth \in BOOLEAN
  /\ receiver \in {"down", "listening", "closing", "closed"}
  /\ bundles \in Seq(Bundle) /\ result \in Bundle
  /\ target \in {"none", "running", "leaving", "ended"}
  /\ ended \in 0 .. Spans /\ dropped \in 0 .. Spans
  /\ batch \in Seq(Span) /\ Len(batch) < BatchLimit
  /\ chain \in Seq(Seq(Span))
  /\ network \subseteq [id : 1 .. sent, spans : Seq(Span)]
  /\ waiting \in 0 .. sent /\ sent \in Nat /\ refused \in Nat /\ again \in 0 .. MaxRetries
  /\ connection \in {"none", "idle", "busy"}
  /\ helper \in BOOLEAN /\ killed \in BOOLEAN

Init ==
  /\ kind \in {"trace", "receive"}
  /\ session = "starting" /\ tried = FALSE /\ directory = FALSE
  /\ receiver = "down" /\ bundles = <<>> /\ result = NoResult
  /\ target = IF kind = "receive" THEN "running" ELSE "none"
  /\ ended = 0 /\ batch = <<>> /\ chain = <<>> /\ waiting = NoRequest /\ dropped = 0
  /\ network = {} /\ sent = 0 /\ again = 0 /\ refused = 0 /\ smooth = TRUE
  /\ connection = "none" /\ helper = FALSE /\ killed = FALSE

----------------------------------------------------------------------------
(* The session.                                                            *)

\* startReceiver binds a port, or fails and leaves nothing behind.
StartReceiver ==
  /\ session = "starting"
  /\ \/ receiver' = "listening" /\ session' = "bound"
     \/ receiver' = receiver /\ session' = "failed"
  /\ UNCHANGED <<kind, tried, directory, bundles, result, target, exporter, wire, outside>>

\* Between the receiver and the try block the directory is made, which may fail.
Prepare ==
  /\ session = "bound" /\ kind = "trace"
  /\ \/ session' = "open" /\ tried' = TRUE /\ directory' = TRUE
     \/ session' = "failed" /\ UNCHANGED <<tried, directory>>
  /\ UNCHANGED <<kind, receiver, bundles, result, target, exporter, wire, outside>>

\* receiveTraces tells the caller where it listens; the callback may throw.
Announce ==
  /\ session = "bound" /\ kind = "receive"
  /\ session' \in {"open", "failed"}
  /\ UNCHANGED <<kind, tried, directory, receiver, bundles, result, target, exporter, wire, outside>>

\* runProcess spawns the target.
RunTarget ==
  /\ session = "open" /\ kind = "trace" /\ target = "none"
  /\ target' = "running"
  /\ UNCHANGED <<control, receiver, bundles, result, exporter, wire, outside>>

TargetRefusedEarly ==
  /\ session = "open" /\ kind = "trace" /\ target = "none"
  /\ session' = "failed"
  /\ UNCHANGED <<kind, tried, directory, receiver, bundles, result, target, exporter, wire, outside>>

\* closeIdleConnections closes the kept connection only when it carries no request.
WithoutIdle == IF connection = "idle" THEN "none" ELSE connection

\* close: the socket no longer listens and idle connections are closed; the others live on.
CloseReceiver ==
  /\ session' = "closing" /\ receiver' = "closing"
  /\ connection' = WithoutIdle /\ UNCHANGED <<helper, killed>>

\* Or refuses to: the deadline was cancelled, or the command cannot be started.
RefuseTarget ==
  /\ session = "open" /\ kind = "trace" /\ target = "none"
  /\ CloseReceiver
  /\ UNCHANGED <<kind, tried, directory, bundles, result, target, exporter, wire>>

\* runProcess settles when the target has ended and nobody holds its output, and the drain
\* begins.
ProcessSettles ==
  /\ session = "open" /\ target = "ended" /\ ~helper
  /\ session' = "draining"
  /\ UNCHANGED <<kind, tried, directory, receiver, bundles, result, target, exporter, wire, outside>>

TakeLastAndClose ==
  /\ result' = IF bundles = <<>> THEN NoResult ELSE Last(bundles)
  /\ CloseReceiver
  /\ UNCHANGED <<kind, tried, directory, bundles, target, exporter, wire>>

\* What is taken, and the listening socket closed, in one turn of the event loop.
TakeAndClose ==
  /\ result' = Merged(bundles)
  /\ CloseReceiver
  /\ UNCHANGED <<kind, tried, directory, bundles, target, exporter, wire>>

\* The drain is over, whatever is still in flight.
DrainEnds == session = "draining" /\ TakeAndClose

\* The window ends, by its timer or by the operator.
WindowEnds == session = "open" /\ kind = "receive" /\ TakeAndClose

\* server.close waits for every connection, the idle ones it has closed apart.
NoConnection == network = {} /\ connection = "none"

ClosedByTarget ==
  /\ session = "closing" /\ NoConnection /\ target # "running"
  /\ receiver' = "closed" /\ directory' = FALSE
  /\ session' = IF kind = "trace" /\ target = "none" THEN "failed" ELSE "done"
  /\ UNCHANGED <<kind, tried, bundles, result, target, exporter, wire, outside>>

\* server.close settles when no connection is left; the directory goes last.
Closed ==
  /\ session = "closing" /\ NoConnection
  /\ receiver' = "closed" /\ directory' = FALSE
  /\ session' = IF kind = "trace" /\ target = "none" THEN "failed" ELSE "done"
  /\ UNCHANGED <<kind, tried, bundles, result, target, exporter, wire, outside>>

----------------------------------------------------------------------------
(* The exporter.                                                           *)

\* enqueue: the batch becomes a post behind the ones before it.
Enqueued(spans) == IF spans = <<>> THEN chain ELSE Append(chain, spans)

BatchFull(spans) == Len(spans) >= BatchLimit

\* span.end: record it, or count it when the ceiling was reached.
EndSpan ==
  /\ target = "running" /\ ended < Spans
  /\ ended' = ended + 1
  /\ IF ended - dropped >= ExporterSpans
     THEN dropped' = dropped + 1 /\ UNCHANGED <<batch, chain>>
     ELSE LET filled == Append(batch, ended + 1)
          IN /\ dropped' = dropped
             /\ IF BatchFull(filled)
                THEN batch' = <<>> /\ chain' = Enqueued(filled)
                ELSE batch' = filled /\ chain' = chain
  /\ UNCHANGED <<control, receiver, bundles, result, target, waiting, wire, outside>>

FlushBatch ==
  /\ batch' = <<>> /\ chain' = Enqueued(batch)
  /\ UNCHANGED <<ended, waiting, dropped>>

\* The flush every second.
FlushByTimer ==
  /\ target = "running" /\ batch # <<>>
  /\ FlushBatch
  /\ UNCHANGED <<control, receiver, bundles, result, target, wire, outside>>

\* beforeExit: the target has nothing left to do, and the flush gives it something.
BeforeExit ==
  /\ kind = "trace" /\ target = "running"
  /\ target' = "leaving"
  /\ FlushBatch
  /\ UNCHANGED <<control, receiver, bundles, result, wire, outside>>

\* A process that is gone keeps no connection; what it started may still hold its output.
Gone == target' = "ended" /\ connection' = "none" /\ helper' \in BOOLEAN

ExitAtOnce ==
  /\ target = "leaving"
  /\ Gone
  /\ UNCHANGED <<control, receiver, bundles, result, exporter, wire, killed>>

\* The process ends when nothing keeps its event loop busy.
Exit ==
  /\ target = "leaving" /\ chain = <<>> /\ batch = <<>>
  /\ Gone
  /\ UNCHANGED <<control, receiver, bundles, result, exporter, wire, killed>>

\* A signal, process.exit or an uncaught exception: beforeExit does not run, and
\* requests whose body was not yet written are cut off.
Killed ==
  /\ kind = "trace" /\ target \in {"running", "leaving"}
  /\ Gone /\ smooth' = FALSE /\ killed' = TRUE
  /\ batch' = <<>> /\ chain' = <<>> /\ waiting' = NoRequest
  /\ network' \in SUBSET network
  /\ UNCHANGED <<control, receiver, bundles, result, ended, dropped, sent, again, refused>>

Living == target \in {"running", "leaving"}

\* A request needs a socket that listens, or the connection kept from the one before.
Reachable == receiver = "listening" \/ connection = "idle"

\* It takes the kept connection; nothing else goes out on it meanwhile.
Occupy == connection # "busy" /\ connection' = WithoutIdle

\* The next post goes out, or is refused because nobody listens.
Post ==
  /\ Living /\ waiting = NoRequest /\ chain # <<>>
  /\ \/ /\ Reachable /\ Occupy
        /\ sent' = sent + 1 /\ waiting' = sent + 1
        /\ network' = network \cup {[id |-> sent + 1, spans |-> Head(chain)]}
        /\ UNCHANGED <<chain, smooth>>
     \/ /\ ~Reachable
        /\ chain' = Tail(chain) /\ smooth' = FALSE
        /\ UNCHANGED <<sent, waiting, network, connection>>
  /\ UNCHANGED <<control, receiver, bundles, result, target, ended, batch, dropped, again, refused,
                 helper, killed>>

\* The request is given up after EXPORT_TIMEOUT_MS, and its connection with it; the receiver
\* may still get it.
GiveUp ==
  /\ Living /\ waiting # NoRequest
  /\ waiting' = NoRequest /\ chain' = Tail(chain) /\ smooth' = FALSE
  /\ network' \in {network, {r \in network : r.id # waiting}}
  /\ UNCHANGED <<control, receiver, bundles, result, target, ended, batch, dropped, sent, again,
                 refused, outside>>

\* An exporter of the target's own sends it again.
SendAgain ==
  /\ Living /\ waiting # NoRequest /\ Reachable /\ Occupy
  /\ again < MaxRetries
  /\ again' = again + 1 /\ sent' = sent + 1 /\ waiting' = sent + 1 /\ smooth' = FALSE
  /\ network' = network \cup {[id |-> sent + 1, spans |-> Head(chain)]}
  /\ UNCHANGED <<control, receiver, bundles, result, target, ended, batch, chain, dropped, refused,
                 helper, killed>>

\* The response reaches the exporter that waits for it.
Answered(r) ==
  IF waiting = r.id
  THEN waiting' = NoRequest /\ chain' = Tail(chain)
  ELSE UNCHANGED <<waiting, chain>>

\* The connection of an answered request is kept; a sender that keeps none, as Orchescope's,
\* closes it at once (IdleCloses).
Kept(r) == connection' = IF waiting = r.id /\ connection = "none" THEN "idle" ELSE connection

\* handle: the body has arrived and is normalised, or is too large and answered 413.
Handle ==
  \E r \in network :
    /\ receiver \in {"listening", "closing"}
    /\ network' = network \ {r}
    /\ Answered(r) /\ Kept(r)
    /\ IF TooLarge(r.spans)
       THEN refused' = refused + Len(r.spans) /\ bundles' = bundles
       ELSE bundles' = Append(bundles, Normalized(r.spans)) /\ refused' = refused
    /\ UNCHANGED <<control, receiver, result, target, ended, batch, dropped, sent, again, smooth,
                   helper, killed>>

----------------------------------------------------------------------------
(* What surrounds them.                                                    *)

\* What the target started ends, or does not.
HelperEnds ==
  /\ helper /\ helper' = FALSE
  /\ UNCHANGED <<inside, connection, killed>>

\* A sender asks for another path, on the connection it keeps or on a new one.  In a traced
\* run this changes nothing, because the target is gone before the receiver closes.
OtherRequest ==
  /\ kind = "receive" /\ Living /\ connection \in {"none", "idle"} /\ Reachable
  /\ connection' = "busy"
  /\ UNCHANGED <<inside, helper, killed>>

\* handle answers it 404 and reads no body.
OtherAnswered ==
  /\ connection = "busy" /\ connection' = "idle"
  /\ UNCHANGED <<inside, helper, killed>>

\* Either side closes a connection that carries nothing, the receiver after keepAliveTimeout.
IdleCloses ==
  /\ connection = "idle" /\ connection' = "none"
  /\ UNCHANGED <<inside, helper, killed>>

----------------------------------------------------------------------------
(* The specification.                                                      *)

Next ==
  \/ StartReceiver \/ Prepare \/ Announce \/ RunTarget \/ RefuseTarget
  \/ ProcessSettles \/ DrainEnds \/ WindowEnds \/ Closed
  \/ EndSpan \/ FlushByTimer \/ BeforeExit \/ Exit \/ Killed
  \/ Post \/ GiveUp \/ SendAgain \/ Handle
  \/ HelperEnds \/ OtherRequest \/ OtherAnswered \/ IdleCloses

\* A request whose sender is gone has arrived as far as it ever will.
HandleLeft == target = "ended" /\ Handle

\* The session's own steps, the event loop and the timer of the receiver, and runProcess, which
\* kills its target in the end (SupervisedProcess).  Nothing is assumed of what a living target
\* exports, so its body may never arrive, nor of a process the target started.
Fairness ==
  /\ WF_vars(StartReceiver) /\ WF_vars(Prepare) /\ WF_vars(Announce)
  /\ WF_vars(RunTarget \/ RefuseTarget)
  /\ WF_vars(ProcessSettles) /\ WF_vars(DrainEnds) /\ WF_vars(WindowEnds) /\ WF_vars(Closed)
  /\ WF_vars(HandleLeft) /\ WF_vars(OtherAnswered) /\ WF_vars(IdleCloses) /\ WF_vars(Killed)

Spec == Init /\ [][Next]_vars /\ Fairness

----------------------------------------------------------------------------
(* What collecting promises.                                               *)

Over == session \in {"done", "failed"}

\* A span is in the run once however often its batch was sent; so is its effect, unless a
\* request was sent again, which makes one effect look like a duplicate: batches that are
\* filled, flushed by the timer and flushed before exit never carry a span twice.
CountedOnce ==
  /\ IsInjective(result.spans)
  /\ ToSet(result.effects) \subseteq ToSet(result.spans)
  /\ again = 0 => IsInjective(result.effects)

\* A target that left by itself and whose session has collected.
CleanExit == kind = "trace" /\ session \in {"closing", "done"} /\ target = "ended" /\ ~killed

\* What the run has of the spans and what it says of those it has not.
Reported == Len(result.spans) + result.dropped + result.rejected

\* A target that leaves by itself, with every request answered in time, loses nothing in the
\* batch, the chain, the flush before exit and the drain: what the run neither has nor reports
\* is exactly what the exporter dropped at its ceiling and what was in a request over the
\* limit.  The run reports neither of the two, although docs/architecture/runtime-observation.md
\* says that anything dropped is: the exporter's count stays in the target, and nobody keeps the
\* other, which is history of the model.
OnlyLimitsLose == CleanExit /\ smooth => ended = Reported + dropped + refused

\* Once the try block is entered, whatever happens in it, nothing listens afterwards
\* and the directory is gone.
TriedIsCleaned == Over /\ tried => receiver = "closed" /\ ~directory

\* Every session ends, although a target may export for ever, unless it is held: by a process
\* that keeps the target's output, or, in a receive window, by a sender that has a request
\* open for ever or opens one again and again.
SessionEndsUnlessHeld ==
  \/ <>Over
  \/ <>[]helper
  \/ kind = "receive" /\ []<>(network # {} \/ connection = "busy")

\* The spans the receiver holds, in whichever request they came.
Arrived == UNION {ToSet(bundles[i].spans) : i \in DOMAIN bundles}

\* Collecting is one reading of what the receiver holds.
Collected == INSTANCE Capture WITH
  ended <- 1 .. ended,
  held <- Arrived,
  taken <- session \in {"closing", "done"} /\ ~(kind = "trace" /\ target = "none"),
  kept <- ToSet(result.spans)

\* The session implements Capture: the run takes what is held at one moment.
TakesWhatIsHeld == Collected!Spec

============================================================================
