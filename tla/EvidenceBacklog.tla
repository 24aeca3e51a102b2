--------------------------- MODULE EvidenceBacklog ---------------------------
(***************************************************************************)
(* Raw marketplace events to evidence records to the aggregates ranking    *)
(* reads, for one vendor: the sweep of the Evidence Service on every pod   *)
(* (src/src/application/evidence/evidence-processor.service.ts), its       *)
(* repository, the interpretation table and the score.                     *)
(*                                                                         *)
(* A sweep takes five kinds of statement: find the oldest unprocessed      *)
(* events, append their records, mark them processed, find the subjects    *)
(* touched, then load and save each subject's aggregate.  Nothing is       *)
(* locked, so sweeps of two pods interleave; one that fails or whose pod   *)
(* dies stops where it is and the next interval starts over.               *)
(*                                                                         *)
(* The records of one event are appended by one statement with ids of      *)
(* their own, so records counts the copies of each event's set of records, *)
(* and an aggregate is the copies it was replayed from.  Of the score only *)
(* its being a number is modelled.  MaxBreaks bounds the broken sweeps.    *)
(***************************************************************************)
EXTENDS Integers, FiniteSets, FiniteSetsExt

CONSTANTS Event,      \* by occurredAt
          Type,       \* the eventType of each
          Capability, \* events whose payload names the capability
          Pod, BatchSize, MaxBreaks

ASSUME EvidenceAssumption ==
    /\ Event \subseteq Nat
    /\ Capability \subseteq Event
    /\ BatchSize \in Nat \ {0} /\ MaxBreaks \in Nat

\* The signals each event type implies; one unknown to the table implies none.
\* Left out: the types of the table that no code publishes.
SignalsFor(type) ==
    CASE type = "request.delivered" -> {"delivered"}
      [] type = "request.accepted" -> {"responded", "accepted"}
      [] type = "request.rejected" -> {"responded", "rejected"}
      [] type = "request.timeout" -> {"noResponse"}
      [] type = "vendor.selected" -> {"selected"}
      [] type = "match.completed" -> {"completed"}
      [] OTHER -> {}

\* A product, the third kind, is found and kept like a capability.
Subject == {"vendor", "capability"}
SubjectsFor(e) == {"vendor"} \cup (IF e \in Capability THEN {"capability"} ELSE {})

\* The subjects an event's records are about; an event without signals has none.
Touched(e) == IF SignalsFor(Type[e]) = {} THEN {} ELSE SubjectsFor(e)

VARIABLES raw,       \* events in marketplace_events
          processed, \* those whose processedAt is set
          records,   \* copies of each event's evidence records
          aggregate, \* per subject: the copies its aggregate was replayed from
          at,        \* per pod: the step of its sweep
          batch,     \* the events of the sweep
          todo,      \* the subjects it has yet to save
          loaded,    \* the history it loaded for subject
          subject,
          breaks,
          cut,       \* events a sweep appended and then failed to mark
          shared,    \* events two sweeps had taken at once
          unsafe     \* subjects a broken sweep or an overtaken save left behind

rawVars == <<raw, processed>>
sweepVars == <<at, batch, todo, loaded, subject>>
ghostVars == <<cut, shared, unsafe>>
vars == <<rawVars, records, aggregate, sweepVars, breaks, ghostVars>>

Copies == [Event -> Nat]
NoCopies == [e \in Event |-> 0]

TypeOK ==
    /\ raw \subseteq Event /\ processed \subseteq raw
    /\ records \in Copies
    /\ aggregate \in [Subject -> Copies]
    /\ at \in [Pod -> {"idle", "append", "mark", "pairs", "load", "save"}]
    /\ batch \in [Pod -> SUBSET Event]
    /\ todo \in [Pod -> SUBSET Subject]
    /\ loaded \in [Pod -> Copies]
    /\ subject \in [Pod -> Subject]
    /\ breaks \in 0..MaxBreaks
    /\ cut \subseteq Event /\ shared \subseteq Event /\ unsafe \subseteq Subject

Init ==
    /\ raw = {} /\ processed = {}
    /\ records = NoCopies
    /\ aggregate = [s \in Subject |-> NoCopies]
    /\ at = [p \in Pod |-> "idle"]
    /\ batch = [p \in Pod |-> {}]
    /\ todo = [p \in Pod |-> {}]
    /\ loaded = [p \in Pod |-> NoCopies]
    /\ subject = [p \in Pod |-> "vendor"]
    /\ breaks = 0
    /\ cut = {} /\ shared = {} /\ unsafe = {}

\* Sweep p is over.
EndSweep(p) ==
    /\ at' = [at EXCEPT ![p] = "idle"]
    /\ batch' = [batch EXCEPT ![p] = {}]
    /\ todo' = [todo EXCEPT ![p] = {}]
    /\ loaded' = [loaded EXCEPT ![p] = NoCopies]
    /\ subject' = [subject EXCEPT ![p] = "vendor"]

\* The history of subject s: every record of every event that touches it.
History(s) == [e \in Event |-> IF s \in Touched(e) THEN records[e] ELSE 0]
-----------------------------------------------------------------------------
(* What a score is made of.                                                *)

\* EMPTY_COUNTERS and applyRecord over a history.
Counter(signal, h) == MapThenSumSet(LAMBDA e : IF signal \in SignalsFor(Type[e]) THEN h[e] ELSE 0, Event)

\* wilsonLowerBound takes the root of phat(1 - phat) + z^2/4n, z = 1.96: no
\* number once the successes exceed the trials by enough (Math.max(0, NaN) is
\* NaN as well).
Wilson(s, n) == n = 0 \/ 40000 * s * (n - s) + 38416 * n >= 0

\* computeEvidenceScore: every dimension that was observed takes part.
ScoreIsNumber(h) ==
    /\ Wilson(Counter("responded", h), Counter("delivered", h))
    /\ Wilson(Counter("accepted", h), Counter("responded", h))
    /\ Wilson(Counter("selected", h), Counter("accepted", h))
    /\ Wilson(Counter("completed", h), Counter("selected", h))
-----------------------------------------------------------------------------
\* recordRawEvent, from the outbox: at least once, a known id being a no-op.
Capture(e) ==
    /\ e \notin raw
    /\ raw' = raw \cup {e}
    /\ UNCHANGED <<processed, records, aggregate, sweepVars, breaks, ghostVars>>

\* Mutant: processedAt is not looked at.
UnprocessedAny == raw

Unprocessed == raw \ processed

\* Mutant: what bears no evidence is passed over, and stays in the backlog.
OldestBearing == {e \in Unprocessed : /\ Touched(e) # {}
                                      /\ Cardinality({f \in Unprocessed : f < e}) < BatchSize}

\* The BatchSize oldest unprocessed events.
Oldest == {e \in Unprocessed : Cardinality({f \in Unprocessed : f < e}) < BatchSize}

\* Events another sweep has taken and not yet marked.
Taken(p) == UNION {batch[q] : q \in {q \in Pod \ {p} : at[q] \in {"append", "mark"}}}

\* Mutant: events are claimed as processed when they are read.
FindAndClaim(p) ==
    /\ at[p] = "idle" /\ Unprocessed # {}
    /\ at' = [at EXCEPT ![p] = "append"]
    /\ batch' = [batch EXCEPT ![p] = Oldest]
    /\ processed' = processed \cup Oldest
    /\ UNCHANGED <<raw, records, aggregate, todo, loaded, subject, breaks, ghostVars>>

FindUnprocessed(p) ==
    /\ at[p] = "idle" /\ Unprocessed # {}
    /\ at' = [at EXCEPT ![p] = "append"]
    /\ batch' = [batch EXCEPT ![p] = Oldest]
    /\ shared' = shared \cup (Oldest \cap Taken(p))
    /\ UNCHANGED <<rawVars, records, aggregate, todo, loaded, subject, breaks, cut, unsafe>>

\* deriveRecords and appendRecords: fresh ids, so nothing is a duplicate.
AppendRecords(p) ==
    /\ at[p] = "append"
    /\ at' = [at EXCEPT ![p] = "mark"]
    /\ records' = [e \in Event |-> IF e \in batch[p] /\ Touched(e) # {}
                                   THEN records[e] + 1 ELSE records[e]]
    /\ UNCHANGED <<rawVars, aggregate, batch, todo, loaded, subject, breaks, ghostVars>>

MarkProcessed(p) ==
    /\ at[p] = "mark"
    /\ at' = [at EXCEPT ![p] = "pairs"]
    /\ processed' = processed \cup batch[p]
    /\ UNCHANGED <<raw, records, aggregate, batch, todo, loaded, subject, breaks, ghostVars>>

\* Mutant: only the capability itself is refreshed when there is one.
PairsNarrow(B) == UNION {IF Touched(e) = Subject THEN {"capability"} ELSE Touched(e) : e \in B}

\* findPairsForEvents: the subjects of the batch's records.
Pairs(B) == UNION {Touched(e) : e \in B}

FindPairs(p) ==
    /\ at[p] = "pairs"
    /\ \/ /\ Pairs(batch[p]) = {} /\ EndSweep(p)
       \/ /\ Pairs(batch[p]) # {}
          /\ at' = [at EXCEPT ![p] = "load"]
          /\ todo' = [todo EXCEPT ![p] = Pairs(batch[p])]
          /\ batch' = [batch EXCEPT ![p] = {}]
          /\ UNCHANGED <<loaded, subject>>
    /\ UNCHANGED <<rawVars, records, aggregate, breaks, ghostVars>>

\* reaggregate: loadRecords, the subject's whole history.
LoadRecords(p, s) ==
    /\ at[p] = "load" /\ s \in todo[p]
    /\ at' = [at EXCEPT ![p] = "save"]
    /\ loaded' = [loaded EXCEPT ![p] = History(s)]
    /\ subject' = [subject EXCEPT ![p] = s]
    /\ UNCHANGED <<rawVars, records, aggregate, batch, todo, breaks, ghostVars>>

\* Another sweep has saved subject s from more records than h.
Overtaken(s, h) == \E e \in Event : aggregate[s][e] > h[e]

\* saveAggregate: an upsert by subject, whatever was saved since the load.
\* Whether the database client stores a score that is no number is left open.
SaveAggregate(p) ==
    /\ at[p] = "save"
    /\ LET s == subject[p] IN
       /\ aggregate' = [aggregate EXCEPT ![s] = loaded[p]]
       /\ unsafe' = unsafe \cup (IF Overtaken(s, loaded[p]) THEN {s} ELSE {})
       /\ IF todo[p] = {s} THEN EndSweep(p)
          ELSE /\ at' = [at EXCEPT ![p] = "load"]
               /\ todo' = [todo EXCEPT ![p] = @ \ {s}]
               /\ loaded' = [loaded EXCEPT ![p] = NoCopies]
               /\ subject' = [subject EXCEPT ![p] = "vendor"]
               /\ UNCHANGED batch
    /\ UNCHANGED <<rawVars, records, breaks, cut, shared>>

\* What a sweep at this step leaves undone: events appended and not marked,
\* subjects whose aggregate does not show what it appended.
LeftUnmarked(p) == IF at[p] = "mark" THEN batch[p] ELSE {}
LeftStale(p) == IF at[p] \in {"mark", "pairs"} THEN Pairs(batch[p]) ELSE todo[p]

\* Or the client refuses such a score, and the sweep fails there.
ScoreRejected(p) ==
    /\ at[p] = "save" /\ ~ScoreIsNumber(loaded[p])
    /\ unsafe' = unsafe \cup LeftStale(p)
    /\ EndSweep(p)
    /\ UNCHANGED <<rawVars, records, aggregate, breaks, cut, shared>>

\* A statement fails, which the sweep logs, or the pod dies and restarts.
Break(p) ==
    /\ at[p] # "idle" /\ breaks < MaxBreaks
    /\ breaks' = breaks + 1
    /\ cut' = cut \cup LeftUnmarked(p)
    /\ unsafe' = unsafe \cup LeftStale(p)
    /\ EndSweep(p)
    /\ UNCHANGED <<rawVars, records, aggregate, shared>>

Sweep(p) ==
    \/ FindUnprocessed(p) \/ AppendRecords(p) \/ MarkProcessed(p) \/ FindPairs(p)
    \/ \E s \in Subject : LoadRecords(p, s)
    \/ SaveAggregate(p) \/ ScoreRejected(p)

Next == \/ \E e \in Event : Capture(e)
        \/ \E p \in Pod : Sweep(p) \/ Break(p)

Spec == Init /\ [][Next]_vars

\* Every pod's interval keeps firing and a sweep that is running goes on.
FairSpec == Spec /\ \A p \in Pod : WF_vars(Sweep(p))
-----------------------------------------------------------------------------
\* No evidence is lost: whatever breaks where, an event is never marked
\* processed before the records it implies are stored.
ProcessedHasRecords ==
    \A e \in processed : Touched(e) # {} => records[e] > 0

\* An event is counted more than once only when two sweeps had it at the same
\* time, or one broke between the append and the mark.
DuplicatesExplained ==
    \A e \in Event : records[e] > 1 => e \in shared \cup cut

\* A sweep that has yet to load subject s.
WillRefresh(p, s) ==
    \/ at[p] \in {"mark", "pairs"} /\ s \in Pairs(batch[p])
    \/ at[p] \in {"load", "save"} /\ s \in todo[p]

\* A score never drifts from the records that justify it: an aggregate shows
\* the whole history of its subject, or a sweep is about to refresh it, or one
\* broke before it could or was overtaken by another's save.
AggregateExplained ==
    \A s \in Subject :
        aggregate[s] # History(s) => s \in unsafe \/ \E p \in Pod : WillRefresh(p, s)

\* Every captured event is processed in the end, whatever breaks and whether
\* or not it bears any evidence.
CapturedIsProcessed == []<>(Unprocessed = {})

\* prisma/schema.prisma:649: a composite score in [0,1].  Responses counted
\* twice outnumber the deliveries, and the score a sweep computes is no number.
ScoresAreNumbers == \A p \in Pod : at[p] = "save" => ScoreIsNumber(loaded[p])
=============================================================================
