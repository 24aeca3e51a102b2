----------------------------- MODULE EventOutbox -----------------------------
(***************************************************************************)
(* Domain events from the producer's publishAll to the subscribers: the    *)
(* outbox row, the in-process dispatch, the relay on every pod, and what   *)
(* three subscribers do with an event (src/src/adapters/outbound/events/   *)
(* outbox-event-publisher.ts, outbox-relay.service.ts; the Evidence        *)
(* Service's capture, the onboarding grant, the capability promotion).     *)
(*                                                                         *)
(* A subscriber is registered with { async: true }: emitAsync only queues  *)
(* it on the pod, so dispatching never waits for it and never fails.  A    *)
(* queued or running subscriber is a member of the bag tasks, with the     *)
(* pod it runs on; a pod that crashes takes its tasks, its publisher call  *)
(* and its sweep with it.  Beliefs have a second writer, a turn in which a *)
(* vendor describes its business: its observeStatement ends in the same    *)
(* recordEvidence and is a task too, of a "statement" no outbox row        *)
(* carries.  The turn's lock does not keep a promotion out.                *)
(*                                                                         *)
(* A pod runs one publisher call at a time here (two calls carry different *)
(* events and share nothing); the relay's batch size (100) is left out.    *)
(* MaxFaults bounds failed statements, failed subscribers and crashes;     *)
(* MaxAttempts is MAX_ATTEMPTS.                                            *)
(***************************************************************************)
EXTENDS Integers, FiniteSets, Bags

CONSTANTS Event, Kind,      \* events and statements, by time, and the eventType of each
          Batch,            \* the sets of events that one publishAll carries
          Vendor, VendorOf, \* whom an event is about
          Pod, Producer, Relayer, \* the pods, those that run turns, those that relay
          None, MaxAttempts, MaxFaults

ASSUME OutboxAssumption ==
    /\ Event \subseteq Nat
    /\ Kind \in [Event -> {"seller.onboarded", "request.accepted", "statement"}]
    /\ VendorOf \in [Event -> Vendor]
    /\ Batch \subseteq (SUBSET {e \in Event : Kind[e] # "statement"}) \ {{}}
    /\ None \notin Event /\ Producer \subseteq Pod /\ Relayer \subseteq Pod
    /\ MaxAttempts \in Nat \ {0} /\ MaxFaults \in Nat

VARIABLES row,      \* of each event in outbox_events: none, unpublished, published
          attempts, \* its attempts column
          pub,      \* per pod: the publisher call under way
          relay,    \* per pod: the relay sweep under way
          tasks,    \* bag of subscribers queued or running
          captured, \* events in the raw event store
          granted,  \* vendors whose onboarding grant is in the ledger
          welcomed, \* welcome notices sent per vendor
          evidence, \* capability evidence rows appended for each event
          belief,   \* how often each event counts in its vendor's beliefs
          lost,     \* <<event, subscriber>> that failed or died with its pod
          crossed,  \* vendors two of whose recordings of evidence overlapped
          faults

outboxVars == <<row, attempts>>
storeVars == <<captured, granted, welcomed, evidence, belief>>
ghostVars == <<lost, crossed>>
vars == <<outboxVars, pub, relay, tasks, storeVars, ghostVars, faults>>

\* Who subscribes: the wildcard capture, and the one listener of each kind.
Subscribers(e) == {"capture"} \cup
    (IF Kind[e] = "seller.onboarded" THEN {"grant"} ELSE {"learn"})

Counts == [Event -> Nat]
NoCounts == [e \in Event |-> 0]
Task == [pod : Pod, event : Event, who : {"capture", "grant", "learn"},
         at : {"start", "welcome", "replace"}, seen : Counts]

IdlePub == [at |-> "idle", left |-> {}, sent |-> {}]
IdleRelay == [at |-> "idle", todo |-> {}, cur |-> None, read |-> NoCounts]

TypeOK ==
    /\ row \in [Event -> {"none", "unpublished", "published"}]
    /\ attempts \in Counts
    /\ \A p \in Pod : /\ pub[p].at \in {"idle", "dispatch"}
                      /\ pub[p].left \cup pub[p].sent \subseteq Event
                      /\ relay[p].at \in {"idle", "emit", "mark"}
                      /\ relay[p].todo \subseteq Event
                      /\ relay[p].cur \in Event \cup {None}
                      /\ relay[p].read \in Counts
    /\ BagToSet(tasks) \subseteq Task
    /\ captured \subseteq Event /\ granted \subseteq Vendor
    /\ welcomed \in [Vendor -> Nat]
    /\ evidence \in Counts /\ belief \in Counts
    /\ lost \subseteq Event \X {"capture", "grant", "learn"}
    /\ crossed \subseteq Vendor
    /\ faults \in 0..MaxFaults

Init ==
    /\ row = [e \in Event |-> "none"] /\ attempts = NoCounts
    /\ pub = [p \in Pod |-> IdlePub] /\ relay = [p \in Pod |-> IdleRelay]
    /\ tasks = EmptyBag
    /\ captured = {} /\ granted = {} /\ welcomed = [v \in Vendor |-> 0]
    /\ evidence = NoCounts /\ belief = NoCounts
    /\ lost = {} /\ crossed = {}
    /\ faults = 0

\* The oldest of a nonempty set of events.
First(E) == CHOOSE e \in E : \A f \in E : e <= f

\* One more fault, while the bound allows.
Fault == faults < MaxFaults /\ faults' = faults + 1

\* On pod p a run of each of who is queued for e.
Queue(p, e, who) ==
    tasks' = tasks (+) SetToBag({[pod |-> p, event |-> e, who |-> s,
                                  at |-> "start", seen |-> NoCounts] : s \in who})

\* emitAsync on pod p: every subscriber of e is queued.
Emit(p, e) == Queue(p, e, Subscribers(e))
-----------------------------------------------------------------------------
(* The producer: publishAll.                                               *)

\* Mutant: the row is born published, as if dispatch could not be cut short.
RecordPublished(p, B) ==
    /\ pub[p] = IdlePub /\ \A e \in B : row[e] = "none"
    /\ row' = [e \in Event |-> IF e \in B THEN "published" ELSE row[e]]
    /\ pub' = [pub EXCEPT ![p] = [at |-> "dispatch", left |-> B, sent |-> {}]]
    /\ UNCHANGED <<attempts, relay, tasks, storeVars, ghostVars, faults>>

\* createMany: the whole batch becomes durable, unpublished.
Record(p, B) ==
    /\ pub[p] = IdlePub /\ \A e \in B : row[e] = "none"
    /\ row' = [e \in Event |-> IF e \in B THEN "unpublished" ELSE row[e]]
    /\ pub' = [pub EXCEPT ![p] = [at |-> "dispatch", left |-> B, sent |-> {}]]
    /\ UNCHANGED <<attempts, relay, tasks, storeVars, ghostVars, faults>>

\* dispatch: the next event of the batch goes to the bus.
Dispatch(p) ==
    /\ pub[p].at = "dispatch" /\ pub[p].left # {}
    /\ LET e == First(pub[p].left) IN
       /\ Emit(p, e)
       /\ pub' = [pub EXCEPT ![p].left = @ \ {e}, ![p].sent = @ \cup {e}]
    /\ UNCHANGED <<outboxVars, relay, storeVars, ghostVars, faults>>

\* updateMany over the delivered ones, after the last dispatch.
MarkDelivered(p) ==
    /\ pub[p].at = "dispatch" /\ pub[p].left = {}
    /\ row' = [e \in Event |-> IF e \in pub[p].sent THEN "published" ELSE row[e]]
    /\ pub' = [pub EXCEPT ![p] = IdlePub]
    /\ UNCHANGED <<attempts, relay, tasks, storeVars, ghostVars, faults>>

\* The statement fails: the caller's turn does, the rows stay unpublished.
MarkDeliveredFails(p) ==
    /\ pub[p].at = "dispatch" /\ pub[p].left = {}
    /\ Fault
    /\ pub' = [pub EXCEPT ![p] = IdlePub]
    /\ UNCHANGED <<outboxVars, relay, tasks, storeVars, ghostVars>>
-----------------------------------------------------------------------------
(* The relay: relayPending and relayOne.                                   *)

\* Mutant: the sweep retries only what failed before, not what was never tried.
PendingAttempted == {e \in Event : row[e] = "unpublished" /\ attempts[e] \in 1..MaxAttempts - 1}

\* publishedAt null and attempts below the cap: read without a lock, so an
\* event a publisher or another pod is dispatching is among them.
Pending == {e \in Event : row[e] = "unpublished" /\ attempts[e] < MaxAttempts}

Sweep(p) ==
    /\ p \in Relayer /\ relay[p].at = "idle" /\ Pending # {}
    /\ relay' = [relay EXCEPT ![p] =
                    [at |-> "emit", todo |-> Pending, cur |-> None,
                     read |-> [e \in Event |-> IF e \in Pending THEN attempts[e] ELSE 0]]]
    /\ UNCHANGED <<outboxVars, pub, tasks, storeVars, ghostVars, faults>>

RelayEmit(p) ==
    /\ relay[p].at = "emit"
    /\ LET e == First(relay[p].todo) IN
       /\ Emit(p, e)
       /\ relay' = [relay EXCEPT ![p].at = "mark", ![p].cur = e, ![p].todo = @ \ {e}]
    /\ UNCHANGED <<outboxVars, pub, storeVars, ghostVars, faults>>

\* On to the next row of the batch, or the sweep is over.
Advance(p) ==
    relay' = [relay EXCEPT ![p] = IF @.todo = {} THEN IdleRelay
                                  ELSE [@ EXCEPT !.at = "emit", !.cur = None]]

RelayMark(p) ==
    /\ relay[p].at = "mark"
    /\ row' = [row EXCEPT ![relay[p].cur] = "published"]
    /\ attempts' = [attempts EXCEPT ![relay[p].cur] = @ + 1]
    /\ Advance(p)
    /\ UNCHANGED <<pub, tasks, storeVars, ghostVars, faults>>

\* The statement fails: catch writes attempts as the sweep read it, plus one;
\* when that fails as well the sweep is over.
RelayMarkFails(p) ==
    /\ relay[p].at = "mark"
    /\ Fault
    /\ \/ /\ attempts' = [attempts EXCEPT ![relay[p].cur] = relay[p].read[relay[p].cur] + 1]
          /\ Advance(p)
       \/ /\ relay' = [relay EXCEPT ![p] = IdleRelay]
          /\ UNCHANGED attempts
    /\ UNCHANGED <<row, pub, tasks, storeVars, ghostVars>>
-----------------------------------------------------------------------------
(* The subscribers, one database step at a time.                           *)

\* Task t is over, or goes on as u.
Ends(t) == tasks' = tasks (-) SetToBag({t})
Becomes(t, u) == tasks' = (tasks (-) SetToBag({t})) (+) SetToBag({u})

\* onMarketplaceEvent: recordRawEvent, a duplicate event id being a no-op.
Capture(t) ==
    /\ t.who = "capture"
    /\ captured' = captured \cup {t.event}
    /\ Ends(t)
    /\ UNCHANGED <<outboxVars, pub, relay, granted, welcomed, evidence, belief, ghostVars, faults>>

\* Mutant: a duplicate is welcomed like a first grant.
GrantWelcomingAll(t) ==
    /\ t.who = "grant" /\ t.at = "start"
    /\ granted' = granted \cup {VendorOf[t.event]}
    /\ Becomes(t, [t EXCEPT !.at = "welcome"])
    /\ UNCHANGED <<outboxVars, pub, relay, captured, welcomed, evidence, belief, ghostVars, faults>>

\* onSellerOnboarded: ensureWallet, then the grant under its unique reference
\* onboarding:<vendorId>; a duplicate ends the listener.
Grant(t) ==
    /\ t.who = "grant" /\ t.at = "start"
    /\ \/ /\ VendorOf[t.event] \in granted
          /\ Ends(t) /\ UNCHANGED granted
       \/ /\ VendorOf[t.event] \notin granted
          /\ granted' = granted \cup {VendorOf[t.event]}
          /\ Becomes(t, [t EXCEPT !.at = "welcome"])
    /\ UNCHANGED <<outboxVars, pub, relay, captured, welcomed, evidence, belief, ghostVars, faults>>

\* notifyOnboardingCredit; a channel that refuses it is only logged.
Welcome(t) ==
    /\ t.who = "grant" /\ t.at = "welcome"
    /\ welcomed' = [welcomed EXCEPT ![VendorOf[t.event]] = @ + 1]
    /\ Ends(t)
    /\ UNCHANGED <<outboxVars, pub, relay, captured, granted, evidence, belief, ghostVars, faults>>

\* A vendor's turn on pod p hands what it states to observeStatement.
Observe(p, s) ==
    /\ Kind[s] = "statement" /\ evidence[s] = 0 /\ <<s, "learn">> \notin lost
    /\ \A t \in BagToSet(tasks) : t.event # s
    /\ Queue(p, s, {"learn"})
    /\ UNCHANGED <<outboxVars, pub, relay, storeVars, ghostVars, faults>>

\* Runs of recordEvidence for vendor v under way past their append.
Learning(v) == {t \in BagToSet(tasks) : /\ t.who = "learn" /\ t.at # "start"
                                         /\ VendorOf[t.event] = v}

\* Mutant: the history a run reads leaves out the row it appends.
HistoryBefore(e) == [f \in Event |-> IF VendorOf[f] = VendorOf[e] THEN evidence[f] ELSE 0]

\* loadEvidence after appendEvidence for event e: all of its vendor's rows.
History(e) == [f \in Event |-> IF VendorOf[f] # VendorOf[e] THEN 0
                               ELSE IF f = e THEN evidence[f] + 1 ELSE evidence[f]]

\* recordEvidence, of a promotion or a statement: a row with an id of its own is
\* appended and the history read.  Rows that others append between the two would
\* only make that history newer.
AppendEvidence(t) ==
    /\ t.who = "learn" /\ t.at = "start"
    /\ evidence' = [evidence EXCEPT ![t.event] = @ + 1]
    /\ Becomes(t, [t EXCEPT !.at = "replace", !.seen = History(t.event)])
    /\ crossed' = crossed \cup (IF Learning(VendorOf[t.event]) = {} THEN {}
                                ELSE {VendorOf[t.event]})
    /\ UNCHANGED <<outboxVars, pub, relay, captured, granted, welcomed, belief, lost, faults>>

\* deriveBeliefs: every row of the history counts, each as often as it is there.
DeriveBeliefs(t) ==
    [e \in Event |-> IF VendorOf[e] = VendorOf[t.event] THEN t.seen[e] ELSE belief[e]]

\* replaceBeliefs: the vendor's beliefs are those of the history read, whatever
\* was appended or derived meanwhile.
ReplaceBeliefs(t) ==
    /\ t.who = "learn" /\ t.at = "replace"
    /\ belief' = DeriveBeliefs(t)
    /\ Ends(t)
    /\ UNCHANGED <<outboxVars, pub, relay, captured, granted, welcomed, evidence, ghostVars, faults>>

\* A run fails at a database call: a subscriber logs and returns, a turn ends
\* in its apology; nobody retries either.
SubscriberFails(t) ==
    /\ Fault
    /\ Ends(t)
    /\ lost' = lost \cup {<<t.event, t.who>>}
    /\ UNCHANGED <<outboxVars, pub, relay, storeVars, crossed>>

Run(t) == \/ Capture(t) \/ Grant(t) \/ Welcome(t)
          \/ AppendEvidence(t) \/ ReplaceBeliefs(t)

\* Pod p dies and restarts: its memory is gone.
OnPod(p) == {t \in BagToSet(tasks) : t.pod = p}

Crash(p) ==
    /\ Fault
    /\ pub' = [pub EXCEPT ![p] = IdlePub]
    /\ relay' = [relay EXCEPT ![p] = IdleRelay]
    /\ tasks' = [t \in BagToSet(tasks) \ OnPod(p) |-> tasks[t]]
    /\ lost' = lost \cup {<<t.event, t.who>> : t \in OnPod(p)}
    /\ UNCHANGED <<outboxVars, storeVars, crossed>>
-----------------------------------------------------------------------------
Publish(p) == Dispatch(p) \/ MarkDelivered(p)

Relay(p) == Sweep(p) \/ RelayEmit(p) \/ RelayMark(p)

RunOn(p) == \E t \in OnPod(p) : Run(t)

Next == \/ \E p \in Producer : \/ \E B \in Batch : Record(p, B)
                                \/ \E s \in Event : Observe(p, s)
        \/ \E p \in Pod : \/ Publish(p) \/ Relay(p) \/ RunOn(p)
                          \/ MarkDeliveredFails(p) \/ RelayMarkFails(p)
                          \/ Crash(p)
        \/ \E t \in BagToSet(tasks) : SubscriberFails(t)

Spec == Init /\ [][Next]_vars

\* A call that is running goes on, the relay's interval keeps firing, and the
\* event loop gets to every queued callback.
Fairness == /\ \A p \in Producer : WF_vars(Publish(p))
            /\ \A p \in Relayer : WF_vars(Relay(p))
            /\ \A p \in Pod : WF_vars(RunOn(p))

FairSpec == Spec /\ Fairness
-----------------------------------------------------------------------------
\* An event is marked published only once a bus has carried it: each of its
\* subscribers is queued or running, has done its work, or was lost.
Settled(e, s) ==
    \/ <<e, s>> \in lost
    \/ CASE s = "capture" -> e \in captured
         [] s = "grant" -> VendorOf[e] \in granted
         [] s = "learn" -> evidence[e] > 0

PublishedIsServed ==
    \A e \in Event : row[e] = "published" => \A s \in Subscribers(e) :
        Settled(e, s) \/ \E t \in BagToSet(tasks) : t.event = e /\ t.who = s

\* However often seller.onboarded is announced or delivered, to however many
\* pods, a vendor is welcomed at most once, and never without the grant.
WelcomedOnce == \A v \in Vendor : welcomed[v] <= (IF v \in granted THEN 1 ELSE 0)

\* Beliefs are a view over the evidence: once no recording of a vendor's
\* evidence is under way, whether a promotion's or a statement's, they count
\* every row exactly once, unless two of them overlapped or one was cut short.
BeliefsExplained ==
    \A e \in Event :
        (Learning(VendorOf[e]) = {} /\ belief[e] # evidence[e])
        => \/ VendorOf[e] \in crossed
           \/ \E l \in lost : l[2] = "learn" /\ VendorOf[l[1]] = VendorOf[e]

\* A recorded event reaches every subscriber, across crashes and failed
\* statements, unless a run of that very subscriber was cut short.
RecordedIsServed ==
    []<>(\A e \in Event : row[e] # "none" => \A s \in Subscribers(e) : Settled(e, s))
=============================================================================
