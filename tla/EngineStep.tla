------------------------------ MODULE EngineStep ------------------------------
(***************************************************************************)
(* One step of WorkflowEngine.execute as it concerns a definition: what it *)
(* makes of the result of a state handler                                  *)
(* (src/src/domain/workflows/workflow-engine.ts).  A result r says the     *)
(* state to move to (its own when the handler names none), whether it asks *)
(* for status completed, and whether it has a response.  Used by           *)
(* VendorOnboarding and SearchWorkflow; what the engine does to the rows   *)
(* of a conversation is WorkflowLifecycle's.                               *)
(***************************************************************************)
EXTENDS Integers

Open == {"active", "suspended"}

\* IllegalTransitionError: a target the state does not declare.
Undeclared(allowed, state, r) == r.to # state /\ r.to \notin allowed[state]

\* resolveStatus: what the result asks for, else final completes, else
\* running reactivates.
StatusAfter(final, status, r) ==
    IF r.completes \/ r.to \in final THEN "completed"
    ELSE IF status = "suspended" THEN "active" ELSE status

\* The loop breaks on a terminal status, when nothing moved, and on reaching
\* a state that waits for input once its question is asked.
Stops(final, waits, state, r) ==
    \/ r.completes \/ r.to \in final
    \/ r.to = state
    \/ r.to \in waits /\ r.reply
=============================================================================
