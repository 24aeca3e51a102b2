---------------------------- MODULE SearchWorkflow ----------------------------
(***************************************************************************)
(* Triage, buyer search and credit recharge of one conversation            *)
(* (src/src/domain/workflows/definitions/), run by the engine (EngineStep) *)
(* and joined by the hand-off of the turn processor; what a search leaves  *)
(* behind: the request, the suppliers put before the buyer, those that     *)
(* accepted.  VendorOnboarding models the fourth definition, which a       *)
(* hand-off may also reach.                                                *)
(*                                                                         *)
(* One turn at a time, one row of each type at a time (a buyer may really  *)
(* keep several searches).  What a message means and what a query resolves *)
(* to are choices, whom it finds is CapabilityMatching's; a text is a bare *)
(* wish to buy ("generic") or names something.  MaxBreaks bounds the       *)
(* handlers that throw and the turns that die, MaxRequests the requests.   *)
(***************************************************************************)
EXTENDS EngineStep, CapabilityMatching

CONSTANTS MaxSteps, MaxAttempts, MaxBreaks, MaxRequests

ASSUME SearchAssumption ==
    /\ MaxSteps \in Nat \ {0} /\ MaxAttempts \in Nat \ {0}
    /\ MaxBreaks \in Nat /\ MaxRequests \in Nat

Type == {"triage", "search", "recharge"}

InitialState == [triage |-> "Classify", search |-> "ResolveDemand", recharge |-> "ShowAccount"]

Waiting == {"AwaitDetail", "AwaitClarification", "AwaitResponses"}
Final == {"Complete"}
State == Waiting \cup Final \cup {"Classify", "ResolveDemand", "PresentImmediate",
                                  "PresentResponders", "ShowAccount"}

\* allowedTransitions of the three definitions.
Allowed ==
    [s \in State |-> CASE s \in {"Classify", "AwaitDetail"} -> {"AwaitDetail", "Complete"}
                       [] s = "ResolveDemand" -> {"AwaitClarification", "AwaitResponses",
                                                  "PresentImmediate", "Complete"}
                       [] s = "AwaitClarification" -> {"ResolveDemand"}
                       [] s = "AwaitResponses" -> {"PresentResponders", "AwaitResponses", "Complete"}
                       [] s = "PresentImmediate" -> {"AwaitResponses"}
                       [] s = "PresentResponders" -> {"AwaitResponses", "Complete"}
                       [] s = "ShowAccount" -> {"Complete"}
                       [] OTHER -> {}]

VARIABLES row,       \* per type: state and status of its instance
          attempts,  \* triage's clarificationAttempts
          data,      \* the search's data
          delivered, \* vendors the search's latest request went to
          accepted,  \* those whose delivery of it is revealed
          pc,        \* "idle", "exec", "commit", "handoff", "send"
          run,       \* the type this turn executes
          result,    \* of the handler that ran last
          steps, said,
          told,      \* how many accepted, by the last message that said how many
          requests,  \* customer requests of this search
          selections,\* vendor.selected events of this search
          breaks,
          cut        \* the search or the turn broke where something was half done

dataVars == <<row, attempts, data>>
turnVars == <<pc, run, result, steps, said>>
ghostVars == <<told, requests, selections>>
breakVars == <<breaks, cut>>
requestVars == <<delivered, accepted>>
vars == <<dataVars, requestVars, turnVars, ghostVars, breakVars>>

Query == {"", "generic", "text"}
Data == [query : Query, clarificationAsked : BOOLEAN, request : BOOLEAN, presented : SUBSET Vendor]
Intent == {"none", "search", "onboarding", "recharge"}

NoCount == -1
Nobody == [asked |-> {}, blind |-> FALSE, cards |-> {}]

Result == [to : State, completes : BOOLEAN, reply : BOOLEAN, handoff : Intent,
           found : Outcomes \cup {Nobody}, count : Nat \cup {NoCount},
           attempts : 0..MaxAttempts, data : Data]

NoData == [query |-> "", clarificationAsked |-> FALSE, request |-> FALSE, presented |-> {}]

\* A result that moves to state s with a response, which states no count, and
\* no patch.
Say(s) == [to |-> s, completes |-> FALSE, reply |-> TRUE, handoff |-> "none",
           found |-> Nobody, count |-> NoCount, attempts |-> attempts, data |-> data]

NoResult == [to |-> "Classify", completes |-> FALSE, reply |-> FALSE,
             handoff |-> "none", found |-> Nobody, count |-> NoCount,
             attempts |-> 0, data |-> NoData]

TypeOK ==
    /\ row \in [Type -> [state : State,
                         status : Open \cup {"none", "completed", "failed", "archived"}]]
    /\ attempts \in 0..MaxAttempts
    /\ data \in Data
    /\ accepted \subseteq delivered /\ delivered \subseteq Vendor
    /\ pc \in {"idle", "exec", "commit", "handoff", "send"}
    /\ run \in Type
    /\ result \in Result
    /\ steps \in 0..MaxSteps /\ said \in Nat
    /\ told \in Nat
    /\ requests \in 0..MaxRequests /\ selections \in Nat
    /\ breaks \in 0..MaxBreaks /\ cut \in BOOLEAN

Init ==
    /\ row = [ty \in Type |-> [state |-> InitialState[ty], status |-> "none"]]
    /\ attempts = 0 /\ data = NoData /\ delivered = {} /\ accepted = {}
    /\ pc = "idle" /\ run = "triage" /\ result = NoResult /\ steps = 0 /\ said = 0
    /\ told = 0 /\ requests = 0 /\ selections = 0
    /\ breaks = 0 /\ cut = FALSE

EndTurn == pc' = "idle" /\ run' = "triage" /\ result' = NoResult /\ steps' = 0

\* A row of type ty at its beginning; the text of the message is its query.
FreshRow(ty) ==
    /\ row' = [row EXCEPT ![ty] = [state |-> InitialState[ty], status |-> "active"]]
    /\ attempts' = IF ty = "triage" THEN 0 ELSE attempts
    /\ IF ty = "search"
       THEN /\ data' \in {[NoData EXCEPT !.query = q] : q \in {"generic", "text"}}
            /\ told' = 0 /\ delivered' = {} /\ accepted' = {}
            /\ requests' = 0 /\ selections' = 0 /\ cut' = FALSE
       ELSE UNCHANGED <<data, requestVars, ghostVars, cut>>

\* A turn: an open row of the type goes on (or is restarted), or one starts.
BeginTurn(ty) ==
    /\ pc = "idle"
    /\ pc' = "exec" /\ run' = ty /\ said' = 0
    /\ \/ /\ row[ty].status \in Open
          /\ UNCHANGED <<dataVars, requestVars, ghostVars, cut>>
       \/ FreshRow(ty)
    /\ UNCHANGED <<result, steps, breaks>>

\* A vendor accepts the request (Fulfilment): their delivery is revealed.
Accept(v) ==
    /\ v \in delivered \ accepted
    /\ accepted' = accepted \cup {v}
    /\ UNCHANGED <<dataVars, delivered, turnVars, ghostVars, breakVars>>

\* A handler's result, when all it has done is decide.
Return(r) ==
    /\ result' = r /\ pc' = "commit"
    /\ UNCHANGED <<dataVars, requestVars, run, steps, said, ghostVars, breakVars>>

At(s) == pc = "exec" /\ row[run].state = s
-----------------------------------------------------------------------------
(* Triage. *)

\* Mutant: the closing response is given whether or not another workflow
\* will answer.
ConcludeSaying(i) == [Say("Complete") EXCEPT !.handoff = i]

\* concludeWith: a known intent is handed off in silence, a complaint answered.
ConcludeWith(i) == [Say("Complete") EXCEPT !.handoff = i, !.reply = i = "none"]

\* classify.
Classify ==
    /\ At("Classify")
    /\ \/ \E i \in Intent : Return(ConcludeWith(i))
       \/ Return([Say("AwaitDetail") EXCEPT !.attempts = 0])

GivesUp == attempts + 1 >= MaxAttempts

\* awaitDetail: a choice, or one more unclear reply.
AwaitDetail ==
    /\ At("AwaitDetail")
    /\ \/ \E i \in {"search", "onboarding"} : Return(ConcludeWith(i))
       \/ /\ GivesUp
          /\ Return([Say("Complete") EXCEPT !.completes = TRUE, !.attempts = attempts + 1])
       \/ /\ ~GivesUp
          /\ Return([Say("AwaitDetail") EXCEPT !.attempts = attempts + 1])
-----------------------------------------------------------------------------
(* Buyer search. *)

\* resolveDemand on a bare wish to buy, the first time.
AskWhat ==
    /\ At("ResolveDemand")
    /\ data.query = "generic" /\ ~data.clarificationAsked
    /\ Return([Say("AwaitClarification") EXCEPT
                   !.data = [data EXCEPT !.query = "", !.clarificationAsked = TRUE]])

Matching == At("ResolveDemand") /\ (data.query = "generic" => data.clarificationAsked)

\* The matching engine finds the query ambiguous; the budget is not looked at.
AskWhich ==
    /\ Matching
    /\ Return([Say("AwaitClarification") EXCEPT
                   !.data = [data EXCEPT !.clarificationAsked = TRUE]])

\* No capability, or no vendor has it.
FindNobody(found) ==
    /\ Matching /\ found.cards = {}
    /\ Return([Say("Complete") EXCEPT !.completes = TRUE, !.found = found])

\* Mutant: the search goes on from where it is.
ResolvedStaying(found) ==
    [Say("ResolveDemand") EXCEPT !.found = found, !.data.request = TRUE, !.data.presented = {}]

Resolved(found) ==
    [Say("AwaitResponses") EXCEPT !.found = found, !.data.request = TRUE, !.data.presented = {}]

\* The request is distributed to those of the ranked vendors that it can
\* resolve, up to its limit, and all of them are rendered as cards, contact and
\* all, since distribute returns no immediate ones.
Distribute(found) ==
    /\ Matching /\ found.cards # {} /\ requests < MaxRequests
    /\ requests' = requests + 1
    /\ delivered' \in SUBSET found.cards /\ accepted' = {}
    /\ result' = Resolved(found)
    /\ pc' = "commit"
    /\ UNCHANGED <<dataVars, run, steps, said, told, selections, breakVars>>

\* The query and the answer, joined.
Clarified(text) == IF data.query = "" THEN text ELSE "text"

AwaitClarification ==
    /\ At("AwaitClarification")
    /\ \E text \in {"generic", "text"} :
         Return([Say("ResolveDemand") EXCEPT !.reply = FALSE,
                                             !.data = [data EXCEPT !.query = Clarified(text)]])

Fresh == accepted \ data.presented

\* awaitResponses: a tap on a card.
Select ==
    /\ At("AwaitResponses") /\ data.request
    /\ selections' = selections + 1
    /\ result' = [Say("Complete") EXCEPT !.completes = TRUE]
    /\ pc' = "commit"
    /\ UNCHANGED <<dataVars, requestVars, run, steps, said, told, requests, breakVars>>

Presented == data.presented \cup Fresh

\* Mutant: those who accepted are marked presented and the search waits on.
RespondersMarked ==
    [Say("AwaitResponses") EXCEPT !.data = [data EXCEPT !.presented = Presented]]

\* Those who accepted since are marked presented; the next state will say so.
RespondersArrived ==
    [Say("PresentResponders") EXCEPT !.reply = FALSE,
                                     !.data = [data EXCEPT !.presented = Presented]]

\* Anything else while waiting.
AwaitResponses ==
    /\ At("AwaitResponses")
    /\ \/ /\ ~data.request
          /\ Return([Say("Complete") EXCEPT !.completes = TRUE, !.reply = FALSE])
       \/ /\ data.request /\ Fresh = {}
          /\ Return(Say("AwaitResponses"))
       \/ /\ data.request /\ Fresh # {}
          /\ Return(RespondersArrived)

\* The response says how many confirmed, and no names.
PresentResponders ==
    /\ At("PresentResponders")
    /\ Return([Say("AwaitResponses") EXCEPT !.count = Cardinality(data.presented)])
-----------------------------------------------------------------------------
(* Credit recharge, and the engine. *)

ShowAccount ==
    /\ At("ShowAccount")
    /\ Return([Say("Complete") EXCEPT !.completes = TRUE])

DeadLetter(s) ==
    /\ row' = [row EXCEPT ![run].status = s]
    /\ said' = said + 1 /\ pc' = "send"
    /\ result' = NoResult /\ steps' = 0
    /\ UNCHANGED <<attempts, data, run>>

\* The update of the row, with the patch; on the last permitted step the row
\* is dead-lettered after it, and a hand-off forgotten.
Commit ==
    /\ pc = "commit"
    /\ LET state == row[run].state
           over == steps + 1 = MaxSteps
       IN
       IF Undeclared(Allowed, state, result) THEN DeadLetter("failed")
       ELSE /\ row' = [row EXCEPT ![run] =
                  [state |-> result.to,
                   status |-> IF over THEN "failed" ELSE StatusAfter(Final, @.status, result)]]
            /\ attempts' = IF run = "triage" THEN result.attempts ELSE attempts
            /\ data' = IF run = "search" THEN result.data ELSE data
            /\ said' = said + (IF result.reply THEN 1 ELSE 0) + (IF over THEN 1 ELSE 0)
            /\ IF over \/ Stops(Final, Waiting, state, result)
               THEN /\ pc' = IF ~over /\ result.handoff # "none" THEN "handoff" ELSE "send"
                    /\ UNCHANGED result /\ steps' = 0
               ELSE pc' = "exec" /\ result' = NoResult /\ steps' = steps + 1
            /\ UNCHANGED run
    /\ UNCHANGED <<requestVars, ghostVars, breakVars>>

\* applyHandoff: one hop, to an open row of that type or a new one.  Onboarding
\* takes the turn over and answers.
Handoff ==
    /\ pc = "handoff"
    /\ \/ /\ result.handoff = "onboarding"
          /\ said' = said + 1 /\ pc' = "send"
          /\ UNCHANGED <<dataVars, requestVars, run, ghostVars, cut>>
       \/ /\ result.handoff # "onboarding"
          /\ run' = result.handoff /\ pc' = "exec"
          /\ \/ /\ row[run'].status \in Open /\ run' = "recharge"
                /\ UNCHANGED <<dataVars, requestVars, ghostVars, cut>>
             \/ /\ ~(row[run'].status \in Open /\ run' = "recharge")
                /\ FreshRow(run')
          /\ UNCHANGED said
    /\ result' = NoResult /\ UNCHANGED <<steps, breaks>>

\* What the buyer knows once a result is sent.
Known(r) == IF r.count = NoCount THEN told ELSE r.count

\* compose and finalise: the responses are sent.
Send ==
    /\ pc = "send"
    /\ told' = Known(result)
    /\ EndTurn
    /\ UNCHANGED <<dataVars, requestVars, said, requests, selections, breakVars>>

\* A handler throws; resolveDemand may have distributed the request and a tap
\* may have been recorded.
HandlerThrows ==
    /\ pc = "exec" /\ breaks < MaxBreaks
    /\ breaks' = breaks + 1
    /\ \/ UNCHANGED <<requestVars, requests, selections, cut>>
       \/ /\ Matching /\ requests < MaxRequests
          /\ \E found \in Outcomes : \E sent \in (SUBSET found.cards) \ {{}} : delivered' = sent
          /\ accepted' = {}
          /\ requests' = requests + 1 /\ cut' = TRUE /\ UNCHANGED selections
       \/ /\ At("AwaitResponses") /\ data.request
          /\ selections' = selections + 1 /\ cut' = TRUE /\ UNCHANGED <<requestVars, requests>>
    /\ DeadLetter("suspended")
    /\ UNCHANGED told

\* The pod dies, or a write fails and the turn apologises, instead of what was
\* to be said or after it: what the handler did stays done.
TurnDies ==
    /\ pc \in {"commit", "handoff", "send"} /\ breaks < MaxBreaks
    /\ breaks' = breaks + 1
    /\ cut' = TRUE /\ said' \in {said, said + 1}
    /\ EndTurn
    /\ UNCHANGED <<dataVars, requestVars, ghostVars>>

Abandon(ty) ==
    /\ pc = "idle" /\ row[ty].status \in Open
    /\ row' = [row EXCEPT ![ty] = [state |-> InitialState[ty], status |-> "archived"]]
    /\ UNCHANGED <<attempts, data, requestVars, turnVars, ghostVars, breakVars>>

Next ==
    \/ \E ty \in Type : BeginTurn(ty) \/ Abandon(ty)
    \/ \E v \in Vendor : Accept(v)
    \/ Classify \/ AwaitDetail
    \/ AskWhat \/ AskWhich
    \/ \E found \in Outcomes : FindNobody(found) \/ Distribute(found)
    \/ AwaitClarification \/ Select \/ AwaitResponses \/ PresentResponders
    \/ ShowAccount
    \/ Commit \/ Handoff \/ Send \/ HandlerThrows \/ TurnDies

Spec == Init /\ [][Next]_vars
-----------------------------------------------------------------------------
\* No turn asks for an undeclared move, runs into the step cap, or waits for
\* the responses to a request that was never made.
NeverFailed ==
    /\ \A ty \in Type : row[ty].status # "failed"
    /\ row["search"].state \in {"AwaitResponses", "PresentResponders"} => data.request

\* A turn answers exactly once, handed over or not, but for the apology of one
\* that broke, and never with the engine's fallback for a definition that does
\* not fit.
AnswersOnce ==
    /\ NeverFailed
    /\ pc = "send" => said = 1
    /\ said > 1 => pc = "idle" /\ cut

\* One request per search and one selection, unless a turn broke between the
\* effect and the row's update.
EffectsOnce == requests > 1 \/ selections > 1 => cut

\* Whoever the search counts as presented has accepted, and by the time the
\* search waits again the last count the buyer was given is theirs, unless the
\* search or a turn broke where something was half done.
RespondersTold ==
    /\ data.presented \subseteq accepted
    /\ pc = "idle" /\ row["search"].state = "AwaitResponses" /\ ~cut
          => told = Cardinality(data.presented)

\* A listed vendor that holds what was asked, however weakly, and that the
\* graph connects to all of it, is found whatever lookup failed, unless the
\* cards are full or more vendors than one lookup returns hold it as much.
HoldersFound ==
    LET found == result.found IN
    \A v \in Listed : Holds(v, found.asked) /\ Connected(v, found.asked) =>
        v \in found.cards \/ Cardinality(found.cards) >= Limit

\* What the graph's own comments say (hybrid-knowledge-graph.ts:130-131,
\* 247-253): whoever it does not connect to anything asked is never found, if
\* the segment can be looked up.  The code finds who weakly holds what was asked.
UnconnectedSuppressed ==
    LET found == result.found IN
    found.asked # {} /\ ~found.blind =>
        \A v \in found.cards : \E b \in found.asked : GraphMatches(v, b)
=============================================================================
