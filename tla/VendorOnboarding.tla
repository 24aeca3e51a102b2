--------------------------- MODULE VendorOnboarding ---------------------------
(***************************************************************************)
(* The onboarding workflow of one seller                                   *)
(* (src/src/domain/workflows/definitions/vendor-onboarding.workflow.ts),   *)
(* run by the engine (EngineStep), with the services it calls: the vendor  *)
(* row and seller.onboarded (vendor-onboarding.service.ts), what a message *)
(* is taken to say (onboarding-extraction.service.ts, vendor.ts) and the   *)
(* statements that reach the Capability DNA.                               *)
(*                                                                         *)
(* One turn at a time, one open row: a turn runs the open onboarding or    *)
(* starts one.  What the model extracts from a message is a choice, and so *)
(* is whether discovery suggests a question; a statement is generic ("I    *)
(* want to sell"), contentless or neither.  data.vendorId is left out:     *)
(* every turn has ensured the vendor.  MaxBreaks bounds the handlers that  *)
(* throw and the turns that die.                                           *)
(***************************************************************************)
EXTENDS EngineStep, FiniteSets

CONSTANTS Statement,   \* capability statements
          Generic,     \* those isGenericIntentStatement knows
          Contentless, \* those of low or very low information density
          None, MaxSteps, MaxBreaks

ASSUME OnboardingAssumption ==
    /\ Generic \subseteq Statement /\ Contentless \subseteq Statement
    /\ None \notin Statement
    /\ MaxSteps \in Nat \ {0} /\ MaxBreaks \in Nat

Detail == {"city", "state", "name"}
Waiting == {"AwaitCapability", "AwaitClarification", "AwaitLocation", "ConfirmState",
            "AwaitBusinessName"}
State == Waiting \cup {"AskCapability", "CreateProfile", "Complete"}
Final == {"Complete"}

\* Mutant: only the entry state and CreateProfile may complete.
AllowedBeforeReturning ==
    [s \in State |-> CASE s = "AskCapability" -> Waiting \cup {"CreateProfile", "Complete"}
                       [] s \in Waiting -> Waiting \cup {"CreateProfile"}
                       [] s = "CreateProfile" -> {"Complete"}
                       [] OTHER -> {}]

\* allowedTransitions.
Allowed ==
    [s \in State |-> CASE s \in Waiting \cup {"AskCapability"} ->
                              Waiting \cup {"CreateProfile", "Complete"}
                       [] s = "CreateProfile" -> {"Complete"}
                       [] OTHER -> {}]

VARIABLES state, status, \* of the instance
          data,          \* its data
          vendor,        \* status of the vendor row; "none": no such row
          profile,       \* what finalizeProfile has written to it
          phase,         \* "idle", "exec" a handler, "commit" its result
          result,        \* the result of the handler that ran last
          steps,         \* transitions this turn
          said,          \* responses of the turn
          observed,      \* statements in the Capability DNA
          announced,     \* seller.onboarded events recorded
          breaks,
          cut            \* a CreateProfile broke between its effects and its update

rowVars == <<state, status, data>>
vendorVars == <<vendor, profile, observed, announced>>
turnVars == <<phase, result, steps, said>>
ghostVars == <<breaks, cut>>
onboardingVars == <<rowVars, vendorVars, turnVars, ghostVars>>

Data == [capability : Statement \cup {None}, details : SUBSET Detail,
         clarificationAsked : BOOLEAN, proposedState : BOOLEAN,
         statements : SUBSET Statement, returningGreeted : BOOLEAN]

\* initialData.
InitialData == [capability |-> None, details |-> {}, clarificationAsked |-> FALSE,
                proposedState |-> FALSE, statements |-> {}, returningGreeted |-> FALSE]

Result == [to : State, completes : BOOLEAN, reply : BOOLEAN, data : Data]

NoResult == [to |-> "AskCapability", completes |-> FALSE, reply |-> FALSE,
             data |-> InitialData]

OnboardingTypeOK ==
    /\ state \in State
    /\ status \in Open \cup {"none", "completed", "failed", "archived"}
    /\ data \in Data
    /\ vendor \in {"none", "onboarding", "active"}
    /\ profile \subseteq Detail
    /\ phase \in {"idle", "exec", "commit"}
    /\ result \in Result
    /\ steps \in 0..MaxSteps /\ said \in Nat
    /\ observed \subseteq Statement
    /\ announced \in Nat /\ breaks \in 0..MaxBreaks
    /\ cut \in BOOLEAN

OnboardingInit ==
    /\ state = "AskCapability" /\ status = "none" /\ data = InitialData
    /\ vendor = "none" /\ profile = {} /\ observed = {} /\ announced = 0
    /\ phase = "idle" /\ result = NoResult /\ steps = 0 /\ said = 0
    /\ breaks = 0 /\ cut = FALSE

\* A row at its beginning: created, or restarted.
FreshRow ==
    state' = "AskCapability" /\ status' = "active" /\ data' = InitialData

EndTurn == phase' = "idle" /\ result' = NoResult /\ steps' = 0
-----------------------------------------------------------------------------
(* The conversation: messages routed to onboarding, and what ends a row.   *)

\* A turn: the open row goes on (or is restarted), or a new one starts.
BeginTurn ==
    /\ phase = "idle"
    /\ phase' = "exec" /\ said' = 0
    /\ \/ status \in Open /\ UNCHANGED rowVars
       \/ FreshRow
    /\ UNCHANGED <<vendorVars, result, steps, breaks, cut>>

\* The expiry sweep, the ceiling on suspended rows, a cancel.
Abandon ==
    /\ phase = "idle" /\ status \in Open
    /\ status' = "archived" /\ data' = InitialData /\ state' = "AskCapability"
    /\ UNCHANGED <<vendorVars, turnVars, ghostVars>>
-----------------------------------------------------------------------------
(* handleTurn, the handler of the entry state and of every waiting state.  *)

\* What the extraction returns.  A state inferred from the city is proposed
\* and not accepted, and a failed extraction is empty.
Extraction == {x \in [statement : Statement \cup {None}, details : SUBSET Detail,
                      inferred : BOOLEAN, no : BOOLEAN, question : BOOLEAN] :
                 /\ x.inferred => "state" \notin x.details
                 /\ x.question => x.statement # None
                 /\ x.no => state = "ConfirmState"}

\* ensureVendor.
EnsuredVendor == IF vendor = "none" THEN "onboarding" ELSE vendor

\* A returning vendor is recognised first, and nothing is read into the message.
MustGreet == vendor = "active" /\ ~data.returningGreeted

GreetReturning ==
    [to |-> "AwaitCapability", completes |-> FALSE, reply |-> TRUE,
     data |-> [data EXCEPT !.returningGreeted = TRUE]]

\* A statement the instance has not passed to discovery yet.
IsNew(x) == x.statement # None /\ x.statement \notin data.statements

\* mergeFields, first value wins, and a generic statement is no capability.
MergedCapability(x) ==
    LET c == IF data.capability # None THEN data.capability ELSE x.statement
    IN  IF c \in Generic THEN None ELSE c

\* Anything but a no confirms the state that was proposed.
Confirms(x) == state = "ConfirmState" /\ data.proposedState /\ ~x.no

MergedDetails(x) == data.details \cup x.details \cup IF Confirms(x) THEN {"state"} ELSE {}

ProposedAfter(x) ==
    \/ x.inferred /\ "state" \notin MergedDetails(x)
    \/ data.proposedState /\ ~(state = "ConfirmState")

Patched(x) ==
    [data EXCEPT !.capability = MergedCapability(x), !.details = MergedDetails(x),
                 !.proposedState = ProposedAfter(x),
                 !.statements = @ \cup (IF IsNew(x) THEN {x.statement} ELSE {})]

\* The one clarification.
ShouldClarify(x) ==
    /\ ~data.clarificationAsked
    /\ IsNew(x) /\ x.question /\ x.statement \in Contentless
    /\ MergedCapability(x) # None

\* Mutant: the capability is taken for known.
NextStateForDetails(d) ==
    IF "city" \notin d.details THEN "AwaitLocation"
    ELSE IF "state" \notin d.details
         THEN IF d.proposedState THEN "ConfirmState" ELSE "AwaitLocation"
    ELSE IF "name" \notin d.details THEN "AwaitBusinessName"
    ELSE "CreateProfile"

\* nextStateFor: the first field still missing.
NextStateFor(d) ==
    IF d.capability = None THEN "AwaitCapability"
    ELSE IF "city" \notin d.details THEN "AwaitLocation"
    ELSE IF "state" \notin d.details
         THEN IF d.proposedState THEN "ConfirmState" ELSE "AwaitLocation"
    ELSE IF "name" \notin d.details THEN "AwaitBusinessName"
    ELSE "CreateProfile"

\* Mutant: only a vendor that was greeted this turn is returning.
IsReturningNever == FALSE

IsReturning == vendor = "active"

\* The result of handleTurn past the greeting.
TurnResult(x) ==
    LET d == Patched(x)
        to == IF ShouldClarify(x) THEN "AwaitClarification"
              ELSE IF IsReturning THEN "Complete" ELSE NextStateFor(d)
    IN  [to |-> to, completes |-> to = "Complete", reply |-> to # "CreateProfile",
         data |-> IF ShouldClarify(x) THEN [d EXCEPT !.clarificationAsked = TRUE] ELSE d]

Handling == phase = "exec" /\ state \in Waiting \cup {"AskCapability"}

Greet ==
    /\ Handling /\ MustGreet
    /\ result' = GreetReturning /\ phase' = "commit"
    /\ UNCHANGED <<rowVars, vendorVars, steps, said, ghostVars>>

HandleTurn(x) ==
    /\ Handling /\ ~MustGreet
    /\ vendor' = EnsuredVendor
    /\ observed' = observed \cup (IF IsNew(x) THEN {x.statement} ELSE {})
    /\ result' = TurnResult(x) /\ phase' = "commit"
    /\ UNCHANGED <<rowVars, profile, announced, steps, said, ghostVars>>
-----------------------------------------------------------------------------
(* The other handlers. *)

\* The result of createProfile: the last word of the onboarding.
ProfileResult == [to |-> "Complete", completes |-> TRUE, reply |-> TRUE, data |-> data]

\* createProfile: finalizeProfile updates the vendor row, then publishes.
CreateProfile ==
    /\ phase = "exec" /\ state = "CreateProfile"
    /\ vendor' = "active" /\ profile' = data.details
    /\ announced' = announced + 1
    /\ result' = ProfileResult
    /\ phase' = "commit"
    /\ UNCHANGED <<rowVars, observed, steps, said, ghostVars>>
-----------------------------------------------------------------------------
(* The engine. *)

\* The dead letter: the row keeps its state and its data, and the turn
\* answers with the fallback.
DeadLetter(s) ==
    /\ status' = s /\ said' = said + 1
    /\ EndTurn
    /\ UNCHANGED <<state, data>>

\* The update of the row, with the patch; on the last permitted step the row
\* is dead-lettered after it, whatever the step was.
Commit ==
    /\ phase = "commit"
    /\ LET over == steps + 1 = MaxSteps IN
       IF Undeclared(Allowed, state, result) THEN DeadLetter("failed")
       ELSE /\ state' = result.to /\ data' = result.data
            /\ status' = IF over THEN "failed" ELSE StatusAfter(Final, status, result)
            /\ said' = said + (IF result.reply THEN 1 ELSE 0) + (IF over THEN 1 ELSE 0)
            /\ IF over \/ Stops(Final, Waiting, state, result) THEN EndTurn
               ELSE phase' = "exec" /\ result' = NoResult /\ steps' = steps + 1
    /\ UNCHANGED <<vendorVars, breaks, cut>>

\* A handler throws with some of its effects in the database: discovery may
\* have taken the statement, the profile may be written and unannounced.
HandlerThrows ==
    /\ phase = "exec" /\ breaks < MaxBreaks
    /\ breaks' = breaks + 1
    /\ \/ /\ state = "CreateProfile"
          /\ \/ UNCHANGED <<vendorVars, cut>>
             \/ /\ vendor' = "active" /\ profile' = data.details /\ cut' = TRUE
                /\ UNCHANGED <<observed, announced>>
       \/ /\ Handling
          /\ \/ vendor' \in {vendor, EnsuredVendor} /\ UNCHANGED observed
             \/ /\ vendor' = EnsuredVendor /\ ~MustGreet
                /\ \E x \in Extraction : IsNew(x) /\ observed' = observed \cup {x.statement}
          /\ UNCHANGED <<profile, announced, cut>>
    /\ DeadLetter("suspended")

\* The pod dies, or the update fails and the turn apologises.
TurnDies ==
    /\ phase = "commit" /\ breaks < MaxBreaks
    /\ breaks' = breaks + 1
    /\ cut' = (cut \/ state = "CreateProfile")
    /\ said' \in {said, said + 1}
    /\ EndTurn
    /\ UNCHANGED <<rowVars, vendorVars>>

OnboardingNext ==
    \/ BeginTurn \/ Abandon
    \/ Greet \/ \E x \in Extraction : HandleTurn(x)
    \/ CreateProfile
    \/ Commit \/ HandlerThrows \/ TurnDies

OnboardingSpec == OnboardingInit /\ [][OnboardingNext]_onboardingVars
-----------------------------------------------------------------------------
\* Whoever is searchable can be found: the profile is complete, and discovery
\* has had a statement that is more than an intent to sell.
ListedHasEvidence ==
    vendor = "active" => profile = Detail /\ observed \ Generic # {}

\* A listing is announced exactly once (the announcement is what the wallet
\* grants credits for), unless CreateProfile broke between its effects and
\* its update.
AnnouncedOnce == vendor = "active" /\ announced # 1 => cut

\* No turn asks for a move its state does not declare, nor for a profile
\* before the location is known, nor runs into the step cap: the registered
\* definition fits its handlers on every path.
NeverFailed ==
    /\ status # "failed"
    /\ phase = "exec" /\ state = "CreateProfile" => {"city", "state"} \subseteq data.details

\* A turn that is over has answered once, no turn answers twice, and none
\* answers with the engine's fallback for a definition that does not fit.
AnswersOnce ==
    /\ NeverFailed
    /\ said <= 1 /\ (phase = "idle" /\ status # "none" /\ breaks = 0 => said = 1)
=============================================================================
