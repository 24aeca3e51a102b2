----------------------- MODULE WorkflowLifecycleProofs -----------------------
(***************************************************************************)
(* For any rows, types, sweepers and bounds: at most one open row of a     *)
(* type that allows no more, a row that was finished never opens again,    *)
(* and the focus is left on no finished row.                               *)
(*                                                                         *)
(* All three rest on what a turn knows of rows it does not lock.  The row  *)
(* it works on is not finished before the turn itself finishes it: only    *)
(* the sweep writes behind its back, and the sweep archives.  The registry *)
(* it loaded is out of date, but only in one direction: until the turn has *)
(* created or resumed its own row, every row that is open was open when    *)
(* the registry was loaded, so a type absent from it has no open row.      *)
(* That is why one hand-over per turn matters: a second would decide from  *)
(* a registry that lacks the row created by the first.                     *)
(***************************************************************************)
EXTENDS WorkflowLifecycle, TLAPS

\* The turn has a row to work on and has not finished it.
Live ==
    \/ pc \in {"resume", "wake", "refocus", "suspend", "focus", "trim"}
    \/ InLoop
    \/ pc = "open" /\ ~hopped /\ inst # None

\* The turn has finished its row and is to start the successor.
Handed == pc = "handoff" \/ (pc = "open" /\ hopped)

\* What the turn holds at each place.  A type it is to start has a row to
\* create or one to reuse.
PhaseInv ==
    /\ pc = "idle" => /\ inst = None /\ seen = NoRegistry /\ cur = "none"
                      /\ want = None /\ steps = 0 /\ ~hopped
    /\ pc \notin {"idle", "unfocus", "open"} => inst \in Id
    /\ pc = "unfocus" => inst = None /\ seen = NoRegistry
    /\ pc = "open" /\ hopped => inst # None
    /\ pc \in {"suspend", "open", "handoff"} =>
          want \in Type /\ (Unused(want) # {} \/ Reusable(want) # {})
    /\ pc = "suspend" => ~hopped

\* The turn's row exists and nobody else finishes it; a row that hands over
\* is shut, and never hands over to its own type.
LiveInv ==
    /\ Live => status[inst] \notin {"none", "finished"}
    /\ Handed => status[inst] \in Terminal /\ TypeOf[inst] # want

\* No other row of the turn's type is open, so that it may open its own.
AloneInv ==
    Live => \A k \in OpenRows :
               k # inst /\ TypeOf[k] = TypeOf[inst] => TypeOf[k] \in Concurrent

\* Rows of the registry are not finished, the turn's own apart, and the
\* registry itself had one open row of a type.
SeenInv ==
    /\ \A i \in Id : seen[i] \in Open /\ i # inst => status[i] \notin {"none", "finished"}
    /\ \A i, k \in Id : seen[i] \in Open /\ seen[k] \in Open /\ i # k
       /\ TypeOf[i] = TypeOf[k]
                            => TypeOf[i] \in Concurrent

\* The turn will or may still start a row from its registry.
Needed ==
    \/ pc \in {"suspend", "open", "handoff"}
    \/ inst \in Id /\ MayHandOff(TypeOf[inst]) /\ (Live \/ InLoop)

\* Then the registry misses no open row but the turn's own.
CoverInv ==
    /\ Needed => \A k \in OpenRows : seen[k] \in Open \/ k = inst
    /\ pc \in {"suspend", "open"} /\ ~hopped /\ inst # None => seen[inst] \in Open

\* The focus is on the row that runs; it is on a finished row only while the
\* turn that finished it is still to clear it, or has handed it over.
FocusInv ==
    /\ pc \in {"wake", "trim", "run", "handoff", "finalise", "apologise"} => focus = inst
    /\ pc \in {"run", "finalise", "apologise"} /\ status[inst] = "finished"
       => cur = "finished"
    /\ breaks = 0 /\ focus # None /\ status[focus] = "finished" =>
          \/ pc \in {"unfocus", "run", "finalise", "apologise", "handoff"}
          \/ hopped /\ pc \in {"open", "resume", "focus"}

\* A sweeper archives rows that exist.
ArchInv == \A p \in Sweeper : \A i \in archive[p] : status[i] # "none"

IInv ==
    /\ TypeOK /\ PhaseInv /\ LiveInv /\ AloneInv /\ SeenInv /\ CoverInv
    /\ FocusInv /\ ArchInv /\ OneOpenPerType

LEMMA NoRegistryType == NoRegistry \in [Id -> Status]
BY DEF NoRegistry, Status, Terminal

\* A turn that ends leaves the rows and knows nothing any more; what it does
\* to the focus and to the breaks must not leave the focus on a finished row.
LEMMA TurnEnds ==
    ASSUME IInv, EndTurn, breaks' \in 0..MaxBreaks, focus' \in {focus, None},
           status' \in [Id -> Status], expired' = expired, archive' = archive,
           \A i \in Id : status[i] # "none" => status'[i] # "none",
           \A i \in Id : status'[i] \in Open => status'[i] = status[i],
           breaks' = 0 /\ focus' # None => status'[focus'] # "finished"
    PROVE  IInv'
<1>1. \A i \in Id : NoRegistry[i] = "none"
  BY DEF NoRegistry
<1>2. /\ pc' = "idle" /\ inst' = None /\ seen' = NoRegistry /\ cur' = "none"
      /\ want' = None /\ steps' = 0 /\ hopped' = FALSE
  BY DEF EndTurn
<1>3. seen' \in [Id -> Status] /\ \A i \in Id : seen'[i] \notin Open
  BY <1>1, <1>2, NoRegistryType DEF Open
<1>4. TypeOK /\ MaxSteps \in Nat
  BY WorkflowAssumption DEF IInv
<1>5. TypeOK'
  <2>1. pc' = "idle" /\ inst' = None /\ seen' \in [Id -> Status] /\ cur' \in Status
        /\ want' = None /\ steps' = 0 /\ hopped' \in BOOLEAN
    BY <1>2, <1>3 DEF Status
  <2> QED
    BY <2>1, <1>4 DEF TypeOK
<1>6. PhaseInv'
  BY <1>2 DEF PhaseInv
<1>7. LiveInv' /\ AloneInv' /\ CoverInv'
  BY <1>2 DEF LiveInv, AloneInv, CoverInv, Live, Handed, Needed, InLoop
<1>8. SeenInv'
  BY <1>3 DEF SeenInv
<1>9. FocusInv'
  BY <1>2 DEF FocusInv
<1>10. ArchInv' /\ OneOpenPerType'
  BY DEF IInv, TypeOK, ArchInv, OneOpenPerType, OpenRows
<1> QED
  BY <1>5, <1>6, <1>7, <1>8, <1>9, <1>10 DEF IInv

\* Routing: a resumable row is open, and what is parked is the row in focus.
LEMMA RoutingStep == ASSUME IInv, Route PROVE IInv'
<1> USE WorkflowAssumption DEF Status, Terminal, Open, OpenRows, Unused, Reusable,
      MayHandOff, InLoop, rowVars, turnVars, sweepVars, NoRegistry, TypeOK, IInv, PhaseInv,
      Live, Handed, LiveInv, AloneInv, SeenInv, Needed, CoverInv, FocusInv, ArchInv,
      OneOpenPerType
<1>1. ASSUME NEW i \in Id, RouteResume(i) PROVE IInv'
  BY <1>1 DEF RouteResume, Keep, Registry, Resumable
<1>2. ASSUME NEW i \in Id, RouteRestart(i) PROVE IInv'
  BY <1>2 DEF RouteRestart, Keep, Registry, Resumable
<1>3. ASSUME NEW i \in Id, RouteCancel(i) PROVE IInv'
  <2>1. /\ i \in Id /\ status[i] \in Open /\ status' = [status EXCEPT ![i] = "finished"]
        /\ pc = "idle" /\ UNCHANGED <<expired, focus, sweepVars>>
    BY <1>3 DEF RouteCancel, Resumable, SetStatus
  <2>2. CASE focus # i /\ EndTurn
    <3> HIDE DEF IInv, PhaseInv, LiveInv, AloneInv, SeenInv, CoverInv, ArchInv,
                OneOpenPerType, NoRegistry
    <3> QED
      BY <2>1, <2>2, TurnEnds DEF IInv
  <2>3. CASE focus = i /\ pc' = "unfocus"
        /\ UNCHANGED <<inst, seen, cur, want, steps, hopped>>
    BY <2>1, <2>3
  <2> QED
    BY <1>3, <2>2, <2>3 DEF RouteCancel
<1>4. ASSUME NEW ty \in Type, RouteStart(ty) PROVE IInv'
  BY <1>4 DEF RouteStart, Registry, Resumable
<1> QED
  BY <1>1, <1>2, <1>3, <1>4 DEF Route

\* Carrying out: a row is created where the registry, and so the conversation,
\* has no open one of its type.
LEMMA CarryingOutStep ==
    ASSUME IInv,
           \/ Resume \/ Wake \/ Restart \/ Refocus \/ Unfocus \/ Suspend
           \/ Reuse \/ Create \/ Focus \/ Trim
    PROVE  IInv'
<1> USE WorkflowAssumption DEF Status, Terminal, Open, OpenRows, Unused, Reusable,
      MayHandOff, InLoop, rowVars, turnVars, sweepVars, NoRegistry, TypeOK, IInv, PhaseInv,
      Live, Handed, LiveInv, AloneInv, SeenInv, Needed, CoverInv, FocusInv, ArchInv,
      OneOpenPerType
<1>1. ASSUME Resume PROVE IInv'
  BY <1>1 DEF Resume
<1>2. ASSUME Wake PROVE IInv'
  BY <1>2 DEF Wake, SetStatus
<1>3. ASSUME Restart PROVE IInv'
  BY <1>3 DEF Restart, SetStatus
<1>4. ASSUME Refocus PROVE IInv'
  BY <1>4 DEF Refocus
<1>5. ASSUME Unfocus PROVE IInv'
  <2>1. /\ focus' = None /\ EndTurn
        /\ UNCHANGED <<status, expired, archive, breaks>>
    BY <1>5 DEF Unfocus
  <2> HIDE DEF NoRegistry, PhaseInv, LiveInv, AloneInv, SeenInv, CoverInv, FocusInv,
     ArchInv,
              OneOpenPerType
  <2> QED
    BY <2>1, TurnEnds
<1>6. ASSUME Suspend PROVE IInv'
  BY <1>6 DEF Suspend, SetStatus
<1>7. ASSUME Reuse PROVE IInv'
  BY <1>7 DEF Reuse, Keep
<1>8. ASSUME Create PROVE IInv'
  <2>1. /\ pc = "open" /\ Reusable(want) = {}
        /\ inst' = CHOOSE i \in Unused(want) : TRUE
        /\ status' = [status EXCEPT ![inst'] = "active"]
        /\ cur' = "active" /\ seen' = (IF MayHandOff(want) THEN seen ELSE NoRegistry)
        /\ pc' = "focus" /\ want' = None
        /\ UNCHANGED <<expired, focus, steps, hopped, archive, breaks>>
    BY <1>8 DEF Create, Keep
  <2>2. want \in Type /\ inst' \in Unused(want)
    <3> HIDE DEF Unused, Reusable
    <3> QED
      BY <2>1
  <2>3. /\ inst' \in Id /\ status[inst'] = "none" /\ TypeOf[inst'] = want
        /\ \A i \in Id : status'[i] = IF i = inst' THEN "active" ELSE status[i]
    BY <2>1, <2>2
  <2>4. \A k \in OpenRows : TypeOf[k] = want => want \in Concurrent
    BY <2>1
  <2>5. TypeOK' /\ PhaseInv' /\ LiveInv'
    BY <2>1, <2>3
  <2>6. ArchInv' /\ FocusInv'
    BY <2>1, <2>3
  <2>7. AloneInv' /\ OneOpenPerType'
    <3>1. OpenRows' = OpenRows \cup {inst'} /\ OpenRows \subseteq Id
      BY <2>3
    <3>2. \A k \in OpenRows' : k # inst' /\ TypeOf[k] = TypeOf[inst']
          => TypeOf[k] \in Concurrent
      BY <2>3, <2>4, <3>1
    <3> QED
      BY <3>1, <3>2
  <2>8. SeenInv' /\ CoverInv'
    BY <2>1, <2>3
  <2> QED
    BY <2>5, <2>6, <2>7, <2>8
<1>9. ASSUME Focus PROVE IInv'
  BY <1>9 DEF Focus
<1>10. ASSUME Trim PROVE IInv'
  BY <1>10 DEF Trim, Suspended
<1> QED
  BY <1>1, <1>2, <1>3, <1>4, <1>5, <1>6, <1>7, <1>8, <1>9, <1>10

\* The engine: the row it runs is its own until it finishes it.
LEMMA EngineRunStep ==
    ASSUME IInv,
           \/ HandlerThrows \/ HandlerFails \/ Park \/ Advance \/ Complete
           \/ HandOff \/ Finalise \/ Break
    PROVE  IInv'
<1> USE WorkflowAssumption DEF Status, Terminal, Open, OpenRows, Unused, Reusable,
      MayHandOff, InLoop, rowVars, turnVars, sweepVars, NoRegistry, TypeOK, IInv, PhaseInv,
      Live, Handed, LiveInv, AloneInv, SeenInv, Needed, CoverInv, FocusInv, ArchInv,
      OneOpenPerType
<1>1. ASSUME HandlerThrows PROVE IInv'
  BY <1>1 DEF HandlerThrows, DeadLetter, SetStatus
<1>2. ASSUME HandlerFails PROVE IInv'
  BY <1>2 DEF HandlerFails, DeadLetter, SetStatus
<1>3. ASSUME Park PROVE IInv'
  BY <1>3 DEF Park, Apply, SetStatus, Reactivated
<1>4. ASSUME Advance PROVE IInv'
  BY <1>4 DEF Advance, Apply, SetStatus, Reactivated
<1>5. ASSUME Complete PROVE IInv'
  BY <1>5 DEF Complete, Apply, SetStatus
<1>6. ASSUME HandOff PROVE IInv'
  BY <1>6 DEF HandOff
<1>7. ASSUME Finalise PROVE IInv'
  <2>1. /\ pc \in {"finalise", "apologise"} /\ EndTurn
        /\ focus' = IF cur \in Terminal THEN None ELSE focus
        /\ UNCHANGED <<status, expired, archive, breaks>>
    BY <1>7 DEF Finalise, Over
  <2>2. breaks' = 0 /\ focus' # None => status'[focus'] # "finished"
    BY <2>1
  <2> HIDE DEF NoRegistry, PhaseInv, LiveInv, AloneInv, SeenInv, CoverInv, FocusInv,
     ArchInv,
              OneOpenPerType
  <2> QED
    BY <2>1, <2>2, TurnEnds
<1>8. ASSUME Break PROVE IInv'
  <2>1. /\ EndTurn /\ breaks < MaxBreaks /\ breaks' = breaks + 1
        /\ UNCHANGED <<status, expired, focus, archive>>
    BY <1>8 DEF Break
  <2>2. breaks' \in 0..MaxBreaks /\ breaks' # 0
    BY <2>1
  <2> HIDE DEF NoRegistry, PhaseInv, LiveInv, AloneInv, SeenInv, CoverInv, FocusInv,
     ArchInv,
              OneOpenPerType
  <2> QED
    BY <2>1, <2>2, TurnEnds
<1> QED
  BY <1>1, <1>2, <1>3, <1>4, <1>5, <1>6, <1>7, <1>8

\* Expiry: a sweep only shuts rows, and forgets what it had found.
LEMMA ExpiryStep ==
    ASSUME IInv,
           \/ \E i \in Id : Expire(i)
           \/ \E p \in Sweeper : FindExpired(p) \/ Archive(p) \/ AbandonSweep(p)
    PROVE  IInv'
<1> USE WorkflowAssumption DEF Status, Terminal, Open, OpenRows, Unused, Reusable,
      MayHandOff, InLoop, rowVars, turnVars, sweepVars, NoRegistry, TypeOK, IInv, PhaseInv,
      Live, Handed, LiveInv, AloneInv, SeenInv, Needed, CoverInv, FocusInv, ArchInv,
      OneOpenPerType
<1>1. ASSUME NEW i \in Id, Expire(i) PROVE IInv'
  BY <1>1 DEF Expire
<1>2. ASSUME NEW p \in Sweeper, FindExpired(p) PROVE IInv'
  BY <1>2 DEF FindExpired, Due
<1>3. ASSUME NEW p \in Sweeper, Archive(p) PROVE IInv'
  BY <1>3 DEF Archive, SetStatus
<1>4. ASSUME NEW p \in Sweeper, AbandonSweep(p) PROVE IInv'
  BY <1>4 DEF AbandonSweep
<1> QED
  BY <1>1, <1>2, <1>3, <1>4

-----------------------------------------------------------------------------
\* The inductive invariant holds throughout, whatever the schedule of turns and
\* sweeps and wherever they break off.
THEOREM WorkflowInvariance == Spec => []IInv
<1>1. ASSUME Init PROVE IInv
  <2>1. TypeOK
    <3>1. NoRegistry \in [Id -> Status]
      BY NoRegistryType
    <3>2. MaxSteps \in Nat /\ MaxBreaks \in Nat /\ 0 \in 0..MaxSteps /\ 0 \in 0..MaxBreaks
      BY WorkflowAssumption
    <3>3. archive \in [Sweeper -> SUBSET Id]
      BY <1>1 DEF Init
    <3> QED
      BY <1>1, <3>1, <3>2, <3>3 DEF Init, TypeOK, Status
  <2>2. /\ \A i \in Id : status[i] = "none" /\ seen[i] = "none"
        /\ \A p \in Sweeper : archive[p] = {}
    BY <1>1 DEF Init, NoRegistry
  <2>3. pc = "idle" /\ PhaseInv
    BY <1>1 DEF Init, PhaseInv
  <2> QED
    BY <1>1, <2>1, <2>2, <2>3 DEF Init, IInv, LiveInv, AloneInv, SeenInv, CoverInv,
       FocusInv,
                    ArchInv, OneOpenPerType, Live, Handed, Needed, InLoop, OpenRows, Open
<1>2. ASSUME IInv, [Next]_vars PROVE IInv'
  <2>1. CASE UNCHANGED vars
    BY <1>2, <2>1 DEF vars, rowVars, turnVars, sweepVars, IInv, TypeOK, PhaseInv, LiveInv,
              AloneInv, SeenInv, CoverInv, FocusInv, ArchInv, OneOpenPerType, Live, Handed,
              Needed, InLoop, OpenRows, Unused, Reusable, MayHandOff
  <2> QED
    BY <1>2, <2>1, RoutingStep, CarryingOutStep, EngineRunStep, ExpiryStep DEF Next,
       TurnStep
<1> QED
  BY <1>1, <1>2, PTL DEF Spec

\* Every variable of the workflow model keeps its type.
THEOREM WorkflowTypeCorrect == Spec => []TypeOK
BY WorkflowInvariance, PTL DEF IInv

\* A type that allows no concurrent instances has one open instance at most,
\* however turns, sweeps, hand-overs and crashes interleave: start, reuse and
\* applyHandoff decide from the registry loaded at the beginning of the turn.
THEOREM OneOpen == Spec => []OneOpenPerType
BY WorkflowInvariance, PTL DEF IInv

\* Between turns the focus is on no workflow that was finished, unless a turn
\* broke off between that write and the next (finalise, applyRouting).
THEOREM FocusLeavesFinished == Spec => []FocusNotFinished
<1>1. IInv => FocusNotFinished
  BY DEF IInv, PhaseInv, FocusInv, FocusNotFinished
<1> QED
  BY <1>1, WorkflowInvariance, PTL

\* A workflow that was completed, cancelled or failed never opens again: the
\* writes that wake, restart, park or reactivate a row do not look at it, but
\* the row they are about is not finished.
THEOREM ShutForGood == Spec => FinishedStaysShut
<1> DEFINE Shut == \A i \in Id : status[i] = "finished" => status'[i] \notin Open
<1>1. ASSUME IInv, Next PROVE Shut
  <2> USE DEF Shut, Open, Terminal, Status, SetStatus
  <2>1. status \in [Id -> Status] /\ (Live => status[inst] # "finished")
    BY <1>1 DEF IInv, TypeOK, LiveInv
  <2>2. CASE Route
    BY <2>1, <2>2 DEF Route, RouteResume, RouteRestart, RouteCancel, RouteStart, rowVars
  <2>3. CASE UNCHANGED status
    BY <2>3
  <2>4. CASE Wake \/ Restart \/ Suspend
    BY <2>1, <2>4 DEF Wake, Restart, Suspend, Live
  <2>5. CASE Create
    <3>1. inst' \in Unused(want)
      <4> HIDE DEF Status
      <4> QED
        BY <1>1, <2>5 DEF Create, IInv, PhaseInv
    <3> QED
      BY <2>1, <2>5, <3>1 DEF Create, Unused
  <2>6. CASE Trim
    BY <2>1, <2>6 DEF Trim
  <2>7. CASE HandlerThrows \/ HandlerFails \/ Complete
    BY <2>1, <2>7 DEF HandlerThrows, HandlerFails, Complete, DeadLetter, Apply, Live
  <2>8. CASE Park \/ Advance
    <3>1. InLoop /\ status' = [status EXCEPT ![inst] = Reactivated]
      BY <2>8, <1>1, WorkflowAssumption DEF Park, Advance, Apply, InLoop, IInv, TypeOK
    <3>2. inst \in Id => status[inst] # "finished"
      BY <2>1, <3>1 DEF Live
    <3> QED
      BY <2>1, <3>1, <3>2
  <2>9. CASE \E p \in Sweeper : Archive(p)
    BY <2>1, <2>9 DEF Archive
  <2> QED
    BY <1>1, <2>2, <2>3, <2>4, <2>5, <2>6, <2>7, <2>8, <2>9
    DEF Next, TurnStep, Resume, Refocus, Unfocus, Reuse, Focus, HandOff, Finalise, Break,
        Expire, FindExpired, AbandonSweep, rowVars
<1>2. IInv /\ [Next]_vars => [Shut]_vars
  BY <1>1
<1> QED
  BY <1>2, WorkflowInvariance, PTL DEF Spec, FinishedStaysShut, Shut
=============================================================================
