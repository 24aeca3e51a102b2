-------------------------- MODULE WorkflowLifecycle --------------------------
(***************************************************************************)
(* The workflows of one conversation: how a turn picks one, parks or       *)
(* restarts others, runs its state machine and hands over, while the       *)
(* expiry sweeper archives rows behind its back (src/src/application/      *)
(* pipeline/turn-processor.service.ts, src/src/domain/workflows/           *)
(* workflow-manager.ts, workflow-engine.ts, conversation-policy.ts,        *)
(* src/src/application/workflow/workflow-expiry.sweeper.ts).               *)
(*                                                                         *)
(* One turn at a time: ConversationTurn models the lock.  What the user    *)
(* means (continuity, intent, discovery layers) and what a state handler   *)
(* returns are choices, so currentState is left out; the registered        *)
(* definitions are all interruptible and resumable, and ask for status     *)
(* completed only on the way to a final state.  Lifecycle events are left  *)
(* out; a failing publish is a Break.                                      *)
(*                                                                         *)
(* Status finished is completed, cancelled or failed: nothing in this code *)
(* tells them apart again.  MaxBreaks bounds the turns and sweeps that     *)
(* break off, MaxExpired the rows past their expiry, Id the rows; MaxSteps *)
(* is MAX_TRANSITIONS_PER_TURN.                                            *)
(***************************************************************************)
EXTENDS Integers, FiniteSets

CONSTANTS Id, None,
          Type, TypeOf,  \* the workflowType each row will have
          Concurrent,    \* types that allow several open instances
          HandsOff,      \* types that name a successor on completion
          Sweeper,       \* runs of the expiry sweep, of which a pod may have several:
                         \* nothing keeps the next from starting before the last ends
          MaxSteps, MaxSuspended, MaxBreaks, MaxExpired

ASSUME WorkflowAssumption ==
    /\ None \notin Id /\ None \notin Type
    /\ TypeOf \in [Id -> Type]
    /\ Concurrent \subseteq Type /\ HandsOff \subseteq Type
    /\ MaxSteps \in Nat \ {0} /\ MaxSuspended \in Nat \ {0}
    /\ MaxBreaks \in Nat /\ MaxExpired \in Nat

Open == {"active", "suspended"}
Terminal == {"finished", "archived"}
Status == Open \cup Terminal \cup {"none"}

VARIABLES status,  \* of each row; "none": no such row yet
          expired, \* rows whose expiresAt has passed
          focus,   \* the conversation's activeWorkflowId
          pc,      \* where the turn is
          inst,    \* the row it is about
          seen,    \* the statuses the turn loaded with its registry
          cur,     \* the status of the turn's copy of inst
          want,    \* the type to start
          steps,   \* transitions of this run of the engine
          hopped,  \* whether the turn has been handed to a successor
          archive, \* per sweeper: rows it found expired and has yet to archive
          breaks   \* turns and sweeps that broke off

rowVars == <<status, expired>>
turnVars == <<pc, inst, seen, cur, want, steps, hopped>>
sweepVars == <<archive, breaks>>
vars == <<rowVars, focus, turnVars, sweepVars>>

NoRegistry == [i \in Id |-> "none"]

TypeOK ==
    /\ status \in [Id -> Status]
    /\ expired \subseteq Id
    /\ focus \in Id \cup {None}
    /\ pc \in {"idle", "resume", "wake", "refocus", "unfocus", "suspend", "open", "focus",
               "trim", "run", "handoff", "finalise", "apologise"}
    /\ inst \in Id \cup {None}
    /\ seen \in [Id -> Status]
    /\ cur \in Status
    /\ want \in Type \cup {None}
    /\ steps \in 0..MaxSteps
    /\ hopped \in BOOLEAN
    /\ archive \in [Sweeper -> SUBSET Id]
    /\ breaks \in 0..MaxBreaks

Init ==
    /\ status = NoRegistry
    /\ expired = {}
    /\ focus = None
    /\ pc = "idle" /\ inst = None /\ seen = NoRegistry /\ cur = "none"
    /\ want = None /\ steps = 0 /\ hopped = FALSE
    /\ archive = [p \in Sweeper |-> {}]
    /\ breaks = 0

OpenRows == {i \in Id : status[i] \in Open}
Suspended == {i \in Id : status[i] = "suspended"}
Unused(ty) == {i \in Id : status[i] = "none" /\ TypeOf[i] = ty}

\* Mutant: a tap on an old button resumes whatever it names.
ResumableTapped == {i \in Id : status[i] # "none" /\ i \notin expired}

\* canResume, at the time the turn began.
Resumable == {i \in OpenRows : i \notin expired}

\* Repository update of row i's status: unconditional.
SetStatus(i, s) == status' = [status EXCEPT ![i] = s]

\* The open rows as they are now.
Registry == [i \in Id |-> IF status[i] \in Open THEN status[i] ELSE "none"]

\* A hand-over is followed once: the successor's own is not.
MayHandOff(ty) == ty \in HandsOff /\ ~hopped

\* What the turn needs of registry r if it runs a row of type ty: nothing,
\* unless that row may hand over.
Keep(ty, r) == seen' = IF MayHandOff(ty) THEN r ELSE NoRegistry

EndTurn ==
    /\ pc' = "idle" /\ inst' = None /\ seen' = NoRegistry /\ cur' = "none"
    /\ want' = None /\ steps' = 0 /\ hopped' = FALSE
-----------------------------------------------------------------------------
(* Routing: the turn loads the registry and WorkflowManager.decide picks.  *)

\* A button, an identifier or the continuity analysis names an open workflow.
RouteResume(i) ==
    /\ pc = "idle" /\ i \in Resumable
    /\ pc' = "resume" /\ inst' = i /\ cur' = status[i]
    /\ Keep(TypeOf[i], Registry)
    /\ UNCHANGED <<rowVars, focus, want, steps, hopped, sweepVars>>

\* Restart puts the row back to its beginning, with a new expiry.
RouteRestart(i) ==
    /\ pc = "idle" /\ i \in Resumable
    /\ pc' = "refocus" /\ inst' = i
    /\ Keep(TypeOf[i], Registry)
    /\ UNCHANGED <<rowVars, focus, cur, want, steps, hopped, sweepVars>>

RouteCancel(i) ==
    /\ pc = "idle" /\ i \in Resumable
    /\ SetStatus(i, "finished")
    /\ \/ /\ focus = i
          /\ pc' = "unfocus"
          /\ UNCHANGED <<inst, seen, cur, want, steps, hopped>>
       \/ focus # i /\ EndTurn
    /\ UNCHANGED <<expired, focus, sweepVars>>

\* A new objective of type ty; the workflow in focus is to be parked first.
RouteStart(ty) ==
    /\ pc = "idle" /\ Unused(ty) # {}
    /\ want' = ty /\ seen' = Registry
    /\ \/ /\ focus \in Resumable /\ status[focus] = "active"
          /\ pc' = "suspend" /\ inst' = focus
       \/ /\ ~(focus \in Resumable /\ status[focus] = "active")
          /\ pc' = "open" /\ UNCHANGED inst
    /\ UNCHANGED <<rowVars, focus, cur, steps, hopped, sweepVars>>
-----------------------------------------------------------------------------
(* Carrying the decision out: TurnProcessor.applyRouting. *)

\* resume: focus first; the loaded status decides whether the row is updated.
Resume ==
    /\ pc = "resume"
    /\ focus' = inst
    /\ pc' = IF cur = "suspended" THEN "wake" ELSE "run"
    /\ UNCHANGED <<rowVars, inst, seen, cur, want, steps, hopped, sweepVars>>

Wake ==
    /\ pc = "wake"
    /\ SetStatus(inst, "active")
    /\ pc' = "run" /\ cur' = "active"
    /\ UNCHANGED <<expired, focus, inst, seen, want, steps, hopped, sweepVars>>

\* restart: one update of the row, then the focus.
Restart ==
    /\ pc = "refocus" /\ cur = "none"
    /\ SetStatus(inst, "active")
    /\ expired' = expired \ {inst}
    /\ cur' = "active"
    /\ UNCHANGED <<focus, pc, inst, seen, want, steps, hopped, sweepVars>>

Refocus ==
    /\ pc = "refocus" /\ cur = "active"
    /\ focus' = inst /\ pc' = "run"
    /\ UNCHANGED <<rowVars, inst, seen, cur, want, steps, hopped, sweepVars>>

\* cancel: the focus is cleared; the turn has nothing to run.
Unfocus ==
    /\ pc = "unfocus"
    /\ focus' = None
    /\ EndTurn
    /\ UNCHANGED <<rowVars, sweepVars>>

\* start: the workflow in focus is parked in a write of its own.
Suspend ==
    /\ pc = "suspend"
    /\ SetStatus(inst, "suspended")
    /\ pc' = "open"
    /\ UNCHANGED <<expired, focus, inst, seen, cur, want, steps, hopped, sweepVars>>

\* Mutant: only an active instance counts as open.
ReusableActive(ty) ==
    {i \in Id : ty \notin Concurrent /\ seen[i] = "active" /\ TypeOf[i] = ty}

\* Open instances of type ty, in the registry the turn loaded.
Reusable(ty) == {i \in Id : ty \notin Concurrent /\ seen[i] \in Open /\ TypeOf[i] = ty}

Reuse ==
    /\ pc = "open"
    /\ inst' \in Reusable(want)
    /\ cur' = seen[inst'] /\ Keep(want, seen)
    /\ pc' = "resume" /\ want' = None
    /\ UNCHANGED <<rowVars, focus, steps, hopped, sweepVars>>

\* The row, the focus and the ceiling are three writes.
Create ==
    /\ pc = "open"
    /\ Reusable(want) = {}
    /\ inst' = CHOOSE i \in Unused(want) : TRUE
    /\ status' = [status EXCEPT ![inst'] = "active"]
    /\ cur' = "active" /\ Keep(want, seen)
    /\ pc' = "focus" /\ want' = None
    /\ UNCHANGED <<expired, focus, steps, hopped, sweepVars>>

Focus ==
    /\ pc = "focus"
    /\ focus' = inst /\ pc' = "trim"
    /\ UNCHANGED <<rowVars, inst, seen, cur, want, steps, hopped, sweepVars>>

\* archiveExcessSuspended; which rows are oldest is not modelled.
Trim ==
    /\ pc = "trim" /\ pc' = "run"
    /\ \/ /\ Cardinality(Suspended) <= MaxSuspended
          /\ UNCHANGED status
       \/ \E excess \in SUBSET Suspended :
          /\ Cardinality(excess) = Cardinality(Suspended) - MaxSuspended
          /\ excess # {}
          /\ status' = [i \in Id |-> IF i \in excess THEN "archived" ELSE status[i]]
    /\ UNCHANGED <<expired, focus, inst, seen, cur, want, steps, hopped, sweepVars>>
-----------------------------------------------------------------------------
(* WorkflowEngine.execute: one handler and its update per step. *)

\* resolveStatus short of a final state: running reactivates, going by the
\* engine's copy; otherwise the row keeps the status it has.
Reactivated == IF cur = "suspended" THEN "active" ELSE status[inst]

\* The update; the engine's copy becomes the row it returned.
Apply(s) == SetStatus(inst, s) /\ cur' = s

InLoop == pc = "run" /\ steps < MaxSteps

\* The dead letter: the handler threw, asked for an undeclared transition, or
\* the turn ran into the cap.
DeadLetter(s) ==
    /\ SetStatus(inst, s)
    /\ cur' = s
    /\ pc' = "apologise"
    /\ UNCHANGED <<expired, focus, inst, seen, want, steps, hopped, sweepVars>>

HandlerThrows == InLoop /\ DeadLetter("suspended")

\* Also after a last step that completed the workflow.
HandlerFails ==
    /\ pc = "run"
    /\ DeadLetter("finished")

\* No transition, or one to a state that has asked its question: the workflow
\* waits for the next message.
Park ==
    /\ pc = "run" /\ steps + 1 < MaxSteps
    /\ Apply(Reactivated)
    /\ pc' = "finalise"
    /\ UNCHANGED <<expired, focus, inst, seen, want, steps, hopped, sweepVars>>

\* A transition to a state that runs in the same turn.
Advance ==
    /\ InLoop
    /\ Apply(Reactivated)
    /\ steps' = steps + 1
    /\ UNCHANGED <<expired, focus, pc, inst, seen, want, hopped, sweepVars>>

\* A transition to a final state; below the cap it ends the run, and a type
\* that hands off may name the successor's type.
Complete ==
    /\ InLoop
    /\ Apply("finished")
    /\ \/ steps + 1 = MaxSteps /\ steps' = MaxSteps /\ UNCHANGED <<pc, want>>
       \/ /\ steps + 1 < MaxSteps
          /\ \/ pc' = "finalise" /\ UNCHANGED want
             \/ /\ MayHandOff(TypeOf[inst])
                /\ want' \in {ty \in Type \ {TypeOf[inst]} : Unused(ty) # {} \/ Reusable(ty) # {}}
                /\ pc' = "handoff"
          /\ UNCHANGED steps
    /\ UNCHANGED <<expired, focus, inst, seen, hopped, sweepVars>>

\* applyHandoff: start without parking anything, from the registry loaded at
\* the beginning of the turn.
HandOff ==
    /\ pc = "handoff"
    /\ pc' = "open" /\ steps' = 0 /\ hopped' = TRUE
    /\ UNCHANGED <<rowVars, focus, inst, seen, cur, want, sweepVars>>

Over == cur \in Terminal

\* finalise: a workflow that is over leaves the focus; the reply goes out.
Finalise ==
    /\ pc \in {"finalise", "apologise"}
    /\ focus' = IF Over THEN None ELSE focus
    /\ EndTurn
    /\ UNCHANGED <<rowVars, sweepVars>>

\* The turn throws or its pod dies; what it wrote stays.
Break ==
    /\ pc # "idle" /\ breaks < MaxBreaks
    /\ breaks' = breaks + 1
    /\ EndTurn
    /\ UNCHANGED <<rowVars, focus, archive>>
-----------------------------------------------------------------------------
(* Expiry. *)

\* expiresAt passes; nothing but a restart moves it.
Expire(i) ==
    /\ i \in OpenRows \ expired
    /\ Cardinality(expired) < MaxExpired
    /\ expired' = expired \cup {i}
    /\ UNCHANGED <<status, focus, turnVars, sweepVars>>

\* Mutant: findExpired looks at active rows only.
DueActive == {i \in expired : status[i] = "active"}

Due == expired \cap OpenRows

FindExpired(p) ==
    /\ archive[p] = {} /\ Due # {}
    /\ archive' = [archive EXCEPT ![p] = Due]
    /\ UNCHANGED <<rowVars, focus, turnVars, breaks>>

\* The update does not look at the row again.
Archive(p) ==
    /\ \E i \in archive[p] :
          /\ SetStatus(i, "archived")
          /\ archive' = [archive EXCEPT ![p] = @ \ {i}]
    /\ UNCHANGED <<expired, focus, turnVars, breaks>>

AbandonSweep(p) ==
    /\ archive[p] # {} /\ breaks < MaxBreaks
    /\ breaks' = breaks + 1
    /\ archive' = [archive EXCEPT ![p] = {}]
    /\ UNCHANGED <<rowVars, focus, turnVars>>
-----------------------------------------------------------------------------
Route ==
    \/ \E i \in Id : RouteResume(i) \/ RouteRestart(i) \/ RouteCancel(i)
    \/ \E ty \in Type : RouteStart(ty)

TurnStep ==
    \/ Resume \/ Wake \/ Restart \/ Refocus \/ Unfocus \/ Suspend
    \/ Reuse \/ Create \/ Focus \/ Trim
    \/ HandlerThrows \/ HandlerFails \/ Park \/ Advance \/ Complete
    \/ HandOff \/ Finalise

Next ==
    \/ Route
    \/ TurnStep
    \/ Break
    \/ \E i \in Id : Expire(i)
    \/ \E p \in Sweeper : FindExpired(p) \/ Archive(p) \/ AbandonSweep(p)

Spec == Init /\ [][Next]_vars

\* A turn that has begun goes on, and the sweep runs every minute.  Users
\* need not write.
Fairness ==
    /\ WF_vars(TurnStep)
    /\ \A p \in Sweeper : WF_vars(FindExpired(p)) /\ WF_vars(Archive(p))

FairSpec == Spec /\ Fairness
-----------------------------------------------------------------------------
\* A type that allows no concurrent instances has one open instance at most,
\* although start decides from the registry loaded before it parked others,
\* although the sweep and the turn overwrite each other, and whatever breaks.
OneOpenPerType ==
    \A i, k \in OpenRows :
        i # k /\ TypeOf[i] = TypeOf[k] => TypeOf[i] \in Concurrent

\* Between turns the focus is on no workflow that was completed, cancelled or
\* failed, unless a turn broke off between that write and the next.
FocusNotFinished ==
    pc = "idle" /\ breaks = 0 /\ focus # None => status[focus] # "finished"

\* A workflow that was completed, cancelled or failed never opens again: no
\* stale button, copy or registry brings it back.
FinishedStaysShut ==
    [][\A i \in Id : status[i] = "finished" => status'[i] \notin Open]_vars

\* An expired workflow does not stay open: it is archived, ends or restarts.
ExpiredIsClosed ==
    \A i \in Id : i \in expired \cap OpenRows ~> i \notin expired \cap OpenRows

\* What the engine has run without an error is not left suspended
\* (workflow-engine.spec.ts:214, "reactivates a suspended workflow when it is
\* executed again").
RunIsReactivated ==
    [][pc = "finalise" => status[inst] # "suspended"]_vars
=============================================================================
