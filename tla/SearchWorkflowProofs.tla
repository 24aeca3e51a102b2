------------------------ MODULE SearchWorkflowProofs ------------------------
(***************************************************************************)
(* For any marketplace, bounds and faults: who holds what was asked is     *)
(* found; a search makes one request and one selection and tells the buyer *)
(* how many it counts as presented; and with room for three transitions    *)
(* every turn answers once.                                                *)
(*                                                                         *)
(* The first half is about CapabilityMatching alone.  In the second, a     *)
(* turn is followed through handler and commit: what a handler returns     *)
(* fits the state it ran in, and the engine turns what fits into the next  *)
(* state, into one answer, or into silence and one more step.              *)
(***************************************************************************)
EXTENDS SearchWorkflow, FiniteSetTheorems, TLAPS

\* The states of each definition.
StatesOf ==
    [triage |-> {"Classify", "AwaitDetail", "Complete"},
     search |-> {"ResolveDemand", "AwaitClarification", "AwaitResponses",
                 "PresentResponders", "Complete"},
     recharge |-> {"ShowAccount", "Complete"}]

\* States that a turn passes through without a word.
Silent == {"ResolveDemand", "PresentResponders"}

\* States before the request is made.
Early == {"ResolveDemand", "AwaitClarification"}

Live(ty) == row[ty].status \in Open

\* A row is in a state of its definition, and closed when that is final.
RowInv ==
    \A ty \in Type : /\ row[ty].state \in StatesOf[ty]
                     /\ row[ty].state = "Complete" => ~Live(ty)

\* A result fits the state that returned it: the move is declared, and speaks
\* unless it is silent or hands over, and silence leads to no other silence.
Fits(r) ==
    /\ ~Undeclared(Allowed, row[run].state, r) /\ r.to \in StatesOf[run]
    /\ r.reply <=> r.to \notin Silent /\ r.handoff = "none"
    /\ r.completes => r.to = "Complete"
    /\ r.handoff # "none" => run = "triage" /\ r.to = "Complete"
    /\ r.count # NoCount => run = "search" /\ r.to = "AwaitResponses"
    /\ row[run].state \in Silent => r.to \notin Silent

\* The row a turn runs is open, and its second step starts in a silent state.
RunInv ==
    /\ pc \in {"exec", "commit"} =>
          /\ Live(run)
          /\ steps = 0 \/ (steps = 1 /\ row[run].state \in Silent)
    /\ pc \notin {"exec", "commit"} => steps = 0
    /\ pc = "commit" => Fits(result)
    /\ pc = "handoff" => result.handoff # "none"

\* An open triage has attempts left, or is about to close.
AttemptInv ==
    /\ Live("triage") => attempts < MaxAttempts
    /\ pc = "commit" /\ run = "triage" /\ result.to # "Complete"
       => result.attempts < MaxAttempts

\* A result that the search may take its data from: a search that waits for
\* responses has a request, and has presented none but those that accepted it;
\* before the request it has presented nobody.
Sound(r) ==
    /\ r.data.presented \subseteq accepted
    /\ r.to \in {"AwaitResponses", "PresentResponders"} => r.data.request
    /\ r.to \in Early => r.data.presented = {}

\* The engine is to patch the data of the search.
Patching == pc = "commit" /\ run = "search"

\* So is the data it has, as long as it is open.
DataInv ==
    /\ row["search"].state \in {"AwaitResponses", "PresentResponders"} => data.request
    /\ data.presented \subseteq accepted
    /\ Live("search") /\ row["search"].state \in Early => data.presented = {}
    /\ Patching => Sound(result)

\* Unless cut, an open search has made its request when its state or the
\* result to be committed says so, and a selection closes it.
EffectInv ==
    ~cut =>
        /\ requests <= 1 /\ selections <= 1
        /\ Live("search") /\ row["search"].state \in Early
              /\ ~(Patching /\ result.to = "AwaitResponses") => requests = 0
        /\ Live("search") /\ ~(Patching /\ result.to = "Complete") => selections = 0

\* What the buyer knows once the responses at hand are sent.
Knows == IF pc = "send" THEN Known(result) ELSE told

\* A count is only given by a search that goes on to wait.  Unless cut, it is
\* the count of those presented, an open search before its request has given
\* none, and one that waits, or is about to, has given the last.
ToldInv ==
    /\ pc = "send" /\ result.count # NoCount => row["search"].state = "AwaitResponses"
    /\ ~cut =>
          /\ Live("search") /\ row["search"].state \in Early => told = 0
          /\ row["search"].state = "AwaitResponses" => Knows = Cardinality(data.presented)
          /\ Patching /\ result.to = "AwaitResponses" =>
                Known(result) = Cardinality(result.data.presented)

\* A turn has nothing said before it is to send, and then one answer, after
\* which only a broken turn says more.
SaidInv ==
    /\ \A ty \in Type : row[ty].status # "failed"
    /\ said > 1 => pc = "idle" /\ cut
    /\ pc \in {"exec", "commit", "handoff"} => said = 0
    /\ pc = "send" => said = 1

SearchInv ==
    /\ TypeOK /\ RowInv /\ RunInv /\ AttemptInv /\ DataInv /\ EffectInv /\ ToldInv
    /\ MaxSteps > 2 => SaidInv
-----------------------------------------------------------------------------
(* The matching engine. *)

\* A cut leaves nobody out unless it is full, and never one than whom fewer
\* rank as high as there is room for.
LEMMA FirstsAre ==
    ASSUME NEW S, IsFiniteSet(S), NEW rank, NEW n \in Nat, NEW first \in Firsts(S, rank, n)
    PROVE  /\ first \subseteq S /\ IsFiniteSet(first)
           /\ \A v \in S \ first : /\ Cardinality(first) = n
                                   /\ \A w \in first : rank[v] <= rank[w]
<1>1. first \subseteq S
  BY DEF Firsts
<1>2. IsFiniteSet(first)
  BY <1>1, FS_Subset
<1> QED
  BY <1>1, <1>2 DEF Firsts

\* Among the vendors that any lookup of a code returns is everyone whom no more
\* than it returns are believed to hold it as much as, however ties fall.
LEMMA HolderRetrieved ==
    ASSUME NEW v \in Vendor, NEW b \in Brick, Belief[v][b] >= MinConfidence,
           Cardinality({w \in Vendor : Belief[w][b] >= Belief[v][b]}) <= PerCapability,
           NEW got \in FindByCapability(b)
    PROVE  v \in got
<1> SUFFICES ASSUME v \notin got PROVE FALSE
  OBVIOUS
<1> DEFINE peers == {w \in Vendor : Belief[w][b] >= Belief[v][b]}
           rank == [w \in Vendor |-> Belief[w][b]]
<1>1. \A w \in Vendor : Belief[w][b] \in 0..100
  BY MatchingAssumption DEF Code
<1>2. IsFiniteSet(Holders(b)) /\ Holders(b) \subseteq Vendor /\ v \in Holders(b)
  <2>1. Holders(b) \subseteq Vendor /\ v \in Holders(b)
    BY DEF Holders
  <2> QED
    BY <2>1, MatchingAssumption, FS_Subset
<1>3. got \in Firsts(Holders(b), rank, PerCapability) /\ PerCapability \in Nat
  BY MatchingAssumption DEF FindByCapability
<1>4. /\ got \subseteq Holders(b) /\ Cardinality(got) = PerCapability
      /\ \A w \in got : rank[v] <= rank[w]
  BY <1>2, <1>3, FirstsAre
<1>5. got \subseteq peers \ {v} /\ v \in peers
  <2>1. v \in peers
    BY <1>1
  <2>2. ASSUME NEW w \in got PROVE w \in peers \ {v}
    <3>1. w \in Vendor /\ w # v /\ rank[v] <= rank[w]
      BY <1>2, <1>4
    <3>2. Belief[w][b] \in Int /\ Belief[v][b] \in Int
      BY <1>1, <3>1
    <3> QED
      BY <3>1, <3>2
  <2> QED
    BY <2>1, <2>2
<1>6. IsFiniteSet(peers) /\ IsFiniteSet(peers \ {v})
  <2>1. peers \subseteq Vendor /\ peers \ {v} \subseteq Vendor
    OBVIOUS
  <2> QED
    BY <2>1, MatchingAssumption, FS_Subset
<1>7. Cardinality(peers \ {v}) = Cardinality(peers) - 1
  BY <1>5, <1>6, FS_RemoveElement
<1>8. Cardinality(got) <= Cardinality(peers \ {v}) /\ IsFiniteSet(got)
  BY <1>5, <1>6, FS_Subset
<1>9. Cardinality(got) \in Nat /\ Cardinality(peers) \in Nat
  BY <1>6, <1>8, FS_CardinalityType
<1>10. Cardinality(peers) <= PerCapability
  OBVIOUS
<1> HIDE DEF peers
<1> QED
  BY <1>3, <1>4, <1>7, <1>8, <1>9, <1>10

\* A listed vendor that holds what was asked is a candidate that nothing
\* suppresses, so that only a full ranking leaves it out.
LEMMA HolderRanked ==
    ASSUME NEW asked \in SUBSET Brick, NEW expanded, NEW subject, NEW located, NEW blind,
           NEW got \in Lookups(Targets(asked, expanded, located)),
           NEW cards \in Rankings(asked, expanded, subject, got, blind),
           NEW v \in Listed, Holds(v, asked)
    PROVE  v \in cards \/ Cardinality(cards) >= Limit
<1>1. PICK b \in asked :
          /\ Belief[v][b] >= MinConfidence
          /\ Cardinality({w \in Vendor : Belief[w][b] >= Belief[v][b]}) <= PerCapability
  BY DEF Holds
<1>2. v \in Vendor /\ b \in Brick
  BY MatchingAssumption
<1>3. v \in Candidates(got)
  <2>1. b \in Targets(asked, expanded, located)
    BY DEF Targets
  <2>2. b \in DOMAIN got /\ got[b] \in FindByCapability(b)
    BY <2>1 DEF Lookups
  <2>3. v \in got[b]
    BY <1>1, <1>2, <2>2, HolderRetrieved
  <2> QED
    BY <2>2, <2>3 DEF Candidates
<1>4. ~IsSuppressed(v, asked, subject, blind)
  BY <1>1 DEF IsSuppressed, MinConfidence
<1> DEFINE scored == {w \in Candidates(got) : ~IsSuppressed(w, asked, subject, blind)}
           rank == [w \in scored |-> Score(w, asked, expanded, subject, blind)]
<1>5. cards \in Firsts(scored, rank, Limit) /\ Limit \in Nat
  BY MatchingAssumption DEF Rankings
<1>6. IsFiniteSet(scored)
  <2>1. scored \subseteq Vendor
    BY MatchingAssumption DEF Candidates
  <2> QED
    BY <2>1, MatchingAssumption, FS_Subset
<1>7. v \in scored
  BY <1>3, <1>4
<1> HIDE DEF scored, rank
<1> QED
  BY <1>5, <1>6, <1>7, FirstsAre

\* An outcome is nothing, or a ranking of what was asked and looked up.
LEMMA OutcomeIs ==
    ASSUME NEW found \in Outcomes
    PROVE  \/ found.asked = {} /\ found.cards = {}
           \/ /\ found.asked \in SUBSET Brick
              /\ \E expanded \in SUBSET Brick, located \in SUBSET found.asked :
                 \E subject \in Subjects(found.asked, expanded),
                    got \in Lookups(Targets(found.asked, expanded, located)) :
                       found.cards \in
                          Rankings(found.asked, expanded, subject, got, found.blind)
<1>1. CASE found = [asked |-> {}, blind |-> FALSE, cards |-> {}]
  BY <1>1
<1>2. ASSUME NEW demand \in Demands, NEW blind \in BOOLEAN,
             NEW cards \in Matches(demand, blind),
             found = [asked |-> demand.asked, blind |-> blind, cards |-> cards]
      PROVE  /\ found.asked \in SUBSET Brick
             /\ \E expanded \in SUBSET Brick, located \in SUBSET found.asked :
                \E subject \in Subjects(found.asked, expanded),
                   got \in Lookups(Targets(found.asked, expanded, located)) :
                      found.cards \in
                         Rankings(found.asked, expanded, subject, got, found.blind)
  <2>1. demand.asked \in SUBSET Brick /\ demand.expanded \in SUBSET Brick
    BY DEF Demands, Understood, Expansion
  <2>2. PICK located \in SUBSET demand.asked,
             subject \in Subjects(demand.asked, demand.expanded) :
             \E got \in Lookups(Targets(demand.asked, demand.expanded, located)) :
                cards \in Rankings(demand.asked, demand.expanded, subject, got, blind)
    BY <1>2 DEF Matches
  <2> QED
    BY <1>2, <2>1, <2>2
<1> QED
  BY <1>1, <1>2 DEF Outcomes

\* Whoever an outcome holds is a vendor.
LEMMA OutcomeCards == ASSUME NEW found \in Outcomes PROVE found.cards \subseteq Vendor
<1>1. CASE found.cards = {}
  BY <1>1
<1>2. ASSUME NEW asked, NEW expanded, NEW subject, NEW got, NEW blind
      PROVE  \A cards \in Rankings(asked, expanded, subject, got, blind) :
                cards \subseteq Vendor
  BY MatchingAssumption DEF Rankings, Firsts, Candidates
<1> QED
  BY <1>1, <1>2, OutcomeIs

\* What HoldersFound says holds of every outcome, connected or not.
LEMMA OutcomesHolders ==
    ASSUME NEW found \in Outcomes, NEW v \in Listed, Holds(v, found.asked)
    PROVE  v \in found.cards \/ Cardinality(found.cards) >= Limit
<1>1. found.asked # {}
  BY DEF Holds
<1>2. PICK expanded \in SUBSET Brick, located \in SUBSET found.asked :
          \E subject \in Subjects(found.asked, expanded),
             got \in Lookups(Targets(found.asked, expanded, located)) :
                found.cards \in Rankings(found.asked, expanded, subject, got, found.blind)
  BY <1>1, OutcomeIs
<1>3. found.asked \in SUBSET Brick
  BY <1>1, OutcomeIs
<1> QED
  BY <1>2, <1>3, HolderRanked
-----------------------------------------------------------------------------
(* The turns. *)

\* Which states the definitions have; each but the last is of one type.
LEMMA StatesAre ==
    /\ State = {"AwaitDetail", "AwaitClarification", "AwaitResponses", "Complete",
       "Classify",
                "ResolveDemand", "PresentImmediate", "PresentResponders", "ShowAccount"}
    /\ StatesOf["triage"] = {"Classify", "AwaitDetail", "Complete"}
    /\ StatesOf["search"] = {"ResolveDemand", "AwaitClarification", "AwaitResponses",
                             "PresentResponders", "Complete"}
    /\ StatesOf["recharge"] = {"ShowAccount", "Complete"}
    /\ \A ty \in Type : StatesOf[ty] \subseteq State
BY DEF State, Waiting, Final, StatesOf, Type

\* Where each definition begins.
LEMMA BeginningsAre ==
    /\ InitialState["search"] = "ResolveDemand"
    /\ \A ty \in Type : /\ InitialState[ty] \in StatesOf[ty] /\ InitialState[ty] \in State
                        /\ InitialState[ty] # "Complete"
BY DEF InitialState, StatesOf, Type, State, Waiting, Final

\* The states that the definitions let follow each other.
LEMMA AllowedIs ==
    /\ Allowed["Classify"] = {"AwaitDetail", "Complete"}
    /\ Allowed["AwaitDetail"] = {"AwaitDetail", "Complete"}
    /\ Allowed["ResolveDemand"] = {"AwaitClarification", "AwaitResponses",
       "PresentImmediate",
                                   "Complete"}
    /\ Allowed["AwaitClarification"] = {"ResolveDemand"}
    /\ Allowed["AwaitResponses"] = {"PresentResponders", "AwaitResponses", "Complete"}
    /\ Allowed["PresentResponders"] = {"AwaitResponses", "Complete"}
    /\ Allowed["ShowAccount"] = {"Complete"}
    /\ \A s \in State : Allowed[s] \cap {"Classify", "ShowAccount"} = {}
BY StatesAre DEF Allowed

\* Nothing has been found, said or learnt.
LEMMA BlanksAre ==
    /\ NoData \in Data /\ NoData.presented = {}
    /\ NoResult \in Result /\ NoResult.handoff = "none" /\ NoResult.count = NoCount
    /\ \A q \in Query : [NoData EXCEPT !.query = q] \in Data
                        /\ [NoData EXCEPT !.query = q].presented = {}
<1>1. NoData \in Data /\ NoData.presented = {}
  BY DEF NoData, Data, Query
<1>2. NoResult \in Result /\ NoResult.handoff = "none" /\ NoResult.count = NoCount
  <2>1. 0 \in 0..MaxAttempts /\ "none" \in Intent
    BY SearchAssumption DEF Intent
  <2> QED
    BY <1>1, <2>1, StatesAre DEF NoResult, Result
<1>3. ASSUME NEW q \in Query
      PROVE  [NoData EXCEPT !.query = q] \in Data
         /\ [NoData EXCEPT !.query = q].presented = {}
  BY <1>1 DEF Data, Query
<1> QED
  BY <1>1, <1>2, <1>3

\* A result that says something and patches nothing.
LEMMA SayIs ==
    ASSUME TypeOK, NEW s \in State
    PROVE  /\ Say(s) \in Result
           /\ Say(s).to = s /\ ~Say(s).completes /\ Say(s).reply /\ Say(s).handoff = "none"
           /\ Say(s).attempts = attempts /\ Say(s).data = data /\ Say(s).count = NoCount
BY DEF Say, Result, Intent, TypeOK

\* How many are presented, and that it is a count.
LEMMA CountIs ==
    ASSUME TypeOK
    PROVE  /\ \A d \in Data : Cardinality(d.presented) \in Nat
           /\ NoCount \notin Nat /\ Cardinality({}) = 0
<1>1. ASSUME NEW d \in Data PROVE Cardinality(d.presented) \in Nat
  <2>1. d.presented \subseteq Vendor
    BY DEF Data
  <2>2. IsFiniteSet(d.presented)
    BY <2>1, MatchingAssumption, FS_Subset
  <2> QED
    BY <2>2, FS_CardinalityType
<1> QED
  BY <1>1, FS_EmptySet DEF NoCount

\* A handler that only returns a result leaves all as it is, and its result is
\* committed later.
LEMMA ReturnStep ==
    ASSUME SearchInv, pc = "exec", NEW r \in Result, Return(r), Fits(r),
           run = "triage" /\ r.to # "Complete" => r.attempts < MaxAttempts,
           run = "search" => Sound(r),
           ~cut /\ run = "search" /\ r.to = "AwaitResponses" =>
              Known(r) = Cardinality(r.data.presented)
    PROVE  SearchInv'
<1> USE DEF SearchInv, Return, dataVars, requestVars, ghostVars, breakVars
<1>1. TypeOK'
  BY DEF TypeOK
<1>2. RowInv' /\ RunInv'
  BY DEF RowInv, RunInv, Live, Fits
<1>3. AttemptInv' /\ DataInv'
  BY DEF AttemptInv, DataInv, Live, Sound, Patching
<1>4. EffectInv' /\ ToldInv'
  BY DEF EffectInv, ToldInv, Knows, Known, Live, Patching
<1>5. MaxSteps > 2 => SaidInv'
  BY DEF SaidInv
<1> QED
  BY <1>1, <1>2, <1>3, <1>4, <1>5

\* Where a turn is says which definition it runs.
LEMMA AtIs ==
    ASSUME SearchInv
    PROVE  /\ At("Classify") \/ At("AwaitDetail") => run = "triage"
           /\ At("ShowAccount") => run = "recharge"
           /\ \A s \in {"ResolveDemand", "AwaitClarification", "AwaitResponses",
                        "PresentResponders"} : At(s) => run = "search"
BY StatesAre DEF SearchInv, TypeOK, RowInv, At, Type

\* Triage's handlers: a hand-over is silent, and attempts run out in silence
\* only when the row closes.
LEMMA TriageStep == ASSUME SearchInv, Classify \/ AwaitDetail PROVE SearchInv'
<1> USE StatesAre, AllowedIs
<1>1. TypeOK /\ AttemptInv /\ RunInv
  BY DEF SearchInv
<1>2. pc = "exec" /\ run = "triage" /\ row[run].state \in {"Classify", "AwaitDetail"}
  BY AtIs DEF Classify, AwaitDetail, At
<1>3. attempts \in 0..MaxAttempts /\ attempts < MaxAttempts /\ MaxAttempts \in Nat
  BY <1>1, <1>2, SearchAssumption DEF AttemptInv, RunInv, TypeOK
<1>4. ASSUME NEW i \in Intent, Return(ConcludeWith(i)) PROVE SearchInv'
  <2>1. /\ ConcludeWith(i) \in Result /\ ConcludeWith(i).to = "Complete"
        /\ ~ConcludeWith(i).completes /\ (ConcludeWith(i).reply <=> i = "none")
        /\ ConcludeWith(i).handoff = i /\ ConcludeWith(i).count = NoCount
    BY <1>1, SayIs DEF ConcludeWith, Result
  <2>2. Fits(ConcludeWith(i))
    BY <1>2, <2>1 DEF Fits, Undeclared, Silent
  <2> QED
    BY <1>2, <1>4, <2>1, <2>2, ReturnStep
<1>5. ASSUME NEW n \in Nat, n < MaxAttempts,
      Return([Say("AwaitDetail") EXCEPT !.attempts = n])
      PROVE  SearchInv'
  <2> DEFINE r == [Say("AwaitDetail") EXCEPT !.attempts = n]
  <2>1. /\ r \in Result /\ r.to = "AwaitDetail" /\ ~r.completes /\ r.reply
        /\ r.handoff = "none" /\ r.attempts = n /\ r.count = NoCount
    BY <1>1, <1>3, <1>5, SayIs DEF Result
  <2> HIDE DEF r
  <2>2. Fits(r)
    BY <1>2, <2>1 DEF Fits, Undeclared, Silent
  <2>3. Return(r)
    BY <1>5 DEF r
  <2> QED
    BY <1>2, <1>5, <2>1, <2>2, <2>3, ReturnStep
<1>6. ASSUME Return([Say("Complete") EXCEPT !.completes = TRUE, !.attempts = attempts + 1])
      PROVE  SearchInv'
  <2> DEFINE r == [Say("Complete") EXCEPT !.completes = TRUE, !.attempts = attempts + 1]
  <2>1. r \in Result /\ r.to = "Complete" /\ r.reply /\ r.handoff = "none"
        /\ r.count = NoCount
    <3>1. attempts + 1 \in 0..MaxAttempts
      BY <1>3
    <3> DEFINE n == attempts + 1
    <3>2. n \in 0..MaxAttempts
          /\ r = [Say("Complete") EXCEPT !.completes = TRUE, !.attempts = n]
      BY <3>1
    <3> HIDE DEF n, r
    <3> QED
      BY <1>1, <3>2, SayIs DEF Result
  <2> HIDE DEF r
  <2>2. Fits(r)
    BY <1>2, <2>1 DEF Fits, Undeclared, Silent
  <2>3. Return(r)
    BY <1>6 DEF r
  <2> QED
    BY <1>2, <2>1, <2>2, <2>3, ReturnStep
<1>7. 0 \in Nat /\ 0 < MaxAttempts /\ attempts + 1 \in Nat /\ (~GivesUp
      => attempts + 1 < MaxAttempts)
  BY <1>3 DEF GivesUp
<1>8. CASE Classify
  BY <1>4, <1>5, <1>7, <1>8 DEF Classify
<1>9. CASE AwaitDetail
  <2>1. {"search", "onboarding"} \subseteq Intent
    BY DEF Intent
  <2> QED
    BY <1>4, <1>5, <1>6, <1>7, <1>9, <2>1 DEF AwaitDetail
<1> QED
  BY <1>8, <1>9

\* What an open search that is being run has and lacks.
LEMMA SearchData ==
    ASSUME SearchInv, pc = "exec", run = "search"
    PROVE  /\ data \in Data /\ data.presented \subseteq accepted
           /\ row["search"].state \in Early => data.presented = {}
           /\ row["search"].state \in {"AwaitResponses", "PresentResponders"}
              => data.request
BY DEF SearchInv, TypeOK, DataInv, RunInv

\* The handlers of the search that only decide.
LEMMA DecideStep ==
    ASSUME SearchInv,
           \/ AskWhat \/ AskWhich \/ \E found \in Outcomes : FindNobody(found)
           \/ AwaitClarification \/ AwaitResponses \/ PresentResponders
    PROVE  SearchInv'
<1> USE StatesAre, AllowedIs
<1>1. TypeOK
  BY DEF SearchInv
<1>2. pc = "exec" /\ run = "search"
  BY AtIs DEF AskWhat, AskWhich, FindNobody, Matching, AwaitClarification, AwaitResponses,
              PresentResponders, At
<1>3. /\ data \in Data /\ data.presented \subseteq accepted
      /\ row[run].state \in Early => data.presented = {}
      /\ row[run].state \in {"AwaitResponses", "PresentResponders"} => data.request
  BY <1>2, SearchData
<1>4. ASSUME NEW r \in Result, Return(r), r.reply <=> r.to \notin Silent,
      r.handoff = "none",
             r.completes => r.to = "Complete", ~Undeclared(Allowed, row[run].state, r),
             r.to \in StatesOf[run], row[run].state \in Silent
                => r.to \notin Silent, Sound(r),
             r.count # NoCount => r.to = "AwaitResponses",
             ~cut /\ r.to = "AwaitResponses" => Known(r) = Cardinality(r.data.presented)
      PROVE  SearchInv'
  BY <1>2, <1>4, ReturnStep DEF Fits
<1>5. CASE AskWhat
  <2> DEFINE d == [data EXCEPT !.query = "", !.clarificationAsked = TRUE]
             r == [Say("AwaitClarification") EXCEPT !.data = d]
  <2>1. d \in Data /\ d.presented = data.presented
    BY <1>3 DEF Data, Query
  <2> HIDE DEF d
  <2>2. r \in Result /\ r.to = "AwaitClarification" /\ r.reply /\ ~r.completes
        /\ r.handoff = "none" /\ r.data = d /\ r.count = NoCount
    BY <1>1, <2>1, SayIs DEF Result
  <2> HIDE DEF r
  <2>3. Return(r) /\ row[run].state = "ResolveDemand"
    BY <1>5 DEF AskWhat, At, r, d
  <2>4. Sound(r)
    BY <1>3, <2>1, <2>2, <2>3 DEF Sound, Early
  <2> QED
    BY <1>2, <1>4, <2>2, <2>3, <2>4 DEF Undeclared, Silent
<1>6. CASE AskWhich
  <2> DEFINE d == [data EXCEPT !.clarificationAsked = TRUE]
             r == [Say("AwaitClarification") EXCEPT !.data = d]
  <2>1. d \in Data /\ d.presented = data.presented
    BY <1>3 DEF Data
  <2> HIDE DEF d
  <2>2. r \in Result /\ r.to = "AwaitClarification" /\ r.reply /\ ~r.completes
        /\ r.handoff = "none" /\ r.data = d /\ r.count = NoCount
    BY <1>1, <2>1, SayIs DEF Result
  <2> HIDE DEF r
  <2>3. Return(r) /\ row[run].state = "ResolveDemand"
    BY <1>6 DEF AskWhich, Matching, At, r, d
  <2>4. Sound(r)
    BY <1>3, <2>1, <2>2, <2>3 DEF Sound, Early
  <2> QED
    BY <1>2, <1>4, <2>2, <2>3, <2>4 DEF Undeclared, Silent
<1>7. ASSUME NEW found \in Outcomes, FindNobody(found) PROVE SearchInv'
  <2> DEFINE r == [Say("Complete") EXCEPT !.completes = TRUE, !.found = found]
  <2>1. r \in Result /\ r.to = "Complete" /\ r.reply /\ r.handoff = "none" /\ r.data = data
        /\ r.count = NoCount
    BY <1>1, SayIs DEF Result
  <2> HIDE DEF r
  <2>2. Return(r) /\ row[run].state = "ResolveDemand"
    BY <1>7 DEF FindNobody, Matching, At, r
  <2>3. Sound(r)
    BY <1>3, <2>1 DEF Sound, Early
  <2> QED
    BY <1>2, <1>4, <2>1, <2>2, <2>3 DEF Undeclared, Silent
<1>8. CASE AwaitClarification
  <2>1. PICK text \in {"generic", "text"} :
            Return([Say("ResolveDemand") EXCEPT !.reply = FALSE,
                                    !.data = [data EXCEPT !.query = Clarified(text)]])
    BY <1>8 DEF AwaitClarification
  <2> DEFINE d == [data EXCEPT !.query = Clarified(text)]
             r == [Say("ResolveDemand") EXCEPT !.reply = FALSE, !.data = d]
  <2>2. Clarified(text) \in Query
    BY <2>1 DEF Clarified, Query
  <2>3. d \in Data /\ d.presented = data.presented
    BY <1>3, <2>2 DEF Data
  <2> HIDE DEF d
  <2>4. r \in Result /\ r.to = "ResolveDemand" /\ ~r.reply /\ ~r.completes
        /\ r.handoff = "none" /\ r.data = d /\ r.count = NoCount
    BY <1>1, <2>3, SayIs DEF Result
  <2> HIDE DEF r
  <2>5. Return(r) /\ row[run].state = "AwaitClarification"
    BY <1>8, <2>1 DEF AwaitClarification, At, r, d
  <2>6. Sound(r)
    BY <1>3, <2>3, <2>4, <2>5 DEF Sound, Early
  <2> QED
    BY <1>2, <1>4, <2>4, <2>5, <2>6 DEF Undeclared, Silent
<1>9. CASE AwaitResponses
  <2>1. row[run].state = "AwaitResponses" /\ data.request
    BY <1>3, <1>9 DEF AwaitResponses, At
  <2>2. CASE Return(Say("AwaitResponses"))
    <3>1. /\ Say("AwaitResponses") \in Result /\ Say("AwaitResponses").to = "AwaitResponses"
          /\ Say("AwaitResponses").reply /\ ~Say("AwaitResponses").completes
          /\ Say("AwaitResponses").handoff = "none" /\ Say("AwaitResponses").data = data
          /\ Say("AwaitResponses").count = NoCount
      BY <1>1, SayIs
    <3>2. Sound(Say("AwaitResponses"))
      BY <1>3, <2>1, <3>1 DEF Sound, Early
    <3>3. ~cut => told = Cardinality(data.presented)
      BY <1>2, <2>1 DEF SearchInv, ToldInv, Knows
    <3>4. ~cut => Known(Say("AwaitResponses")) = Cardinality(data.presented)
      BY <3>1, <3>3 DEF Known
    <3> QED
      BY <1>2, <1>4, <2>1, <2>2, <3>1, <3>2, <3>4 DEF Undeclared, Silent
  <2> DEFINE d == [data EXCEPT !.presented = Presented]
             r == [Say("PresentResponders") EXCEPT !.reply = FALSE, !.data = d]
  <2>3. CASE Return(r)
    <3>1. Presented \subseteq accepted /\ Presented \subseteq Vendor
      BY <1>1, <1>3 DEF Presented, Fresh, TypeOK
    <3>2. d \in Data /\ d.presented = Presented /\ d.request
      BY <1>3, <2>1, <3>1 DEF Data
    <3> HIDE DEF d
    <3>3. r \in Result /\ r.to = "PresentResponders" /\ ~r.reply /\ ~r.completes
          /\ r.handoff = "none" /\ r.data = d /\ r.count = NoCount
      BY <1>1, <3>2, SayIs DEF Result
    <3> HIDE DEF r
    <3>4. Sound(r)
      BY <3>1, <3>2, <3>3 DEF Sound, Early
    <3> QED
      BY <1>2, <1>4, <2>1, <2>3, <3>3, <3>4 DEF Undeclared, Silent
  <2> QED
    BY <1>9, <2>1, <2>2, <2>3 DEF AwaitResponses, RespondersArrived
<1>10. CASE PresentResponders
  <2> DEFINE n == Cardinality(data.presented)
             r == [Say("AwaitResponses") EXCEPT !.count = n]
  <2>1. row[run].state = "PresentResponders" /\ Return(r)
    BY <1>10 DEF PresentResponders, At
  <2>2. n \in Nat /\ NoCount \notin Nat
    BY <1>1, <1>3, CountIs
  <2> HIDE DEF n
  <2>3. r \in Result /\ r.to = "AwaitResponses" /\ r.reply /\ ~r.completes
        /\ r.handoff = "none" /\ r.data = data /\ r.count = n
    BY <1>1, <2>2, SayIs DEF Result
  <2> HIDE DEF r
  <2>4. Sound(r)
    BY <1>3, <2>1, <2>3 DEF Sound, Early
  <2>5. Known(r) = Cardinality(r.data.presented)
    BY <2>2, <2>3 DEF Known, n
  <2> QED
    BY <1>2, <1>4, <2>1, <2>3, <2>4, <2>5 DEF Undeclared, Silent
<1> QED
  BY <1>5, <1>6, <1>7, <1>8, <1>9, <1>10

\* The account is shown, and the recharge is over.
LEMMA ShowStep == ASSUME SearchInv, ShowAccount PROVE SearchInv'
<1> USE StatesAre, AllowedIs
<1> DEFINE r == [Say("Complete") EXCEPT !.completes = TRUE]
<1>1. pc = "exec" /\ run = "recharge" /\ row[run].state = "ShowAccount"
  BY AtIs DEF ShowAccount, At
<1>2. r \in Result /\ r.to = "Complete" /\ r.reply /\ r.handoff = "none"
      /\ r.count = NoCount
  BY SayIs DEF Result, SearchInv
<1>3. Return(r)
  BY DEF ShowAccount
<1> HIDE DEF r
<1>4. Fits(r)
  BY <1>1, <1>2 DEF Fits, Undeclared, Silent
<1> QED
  BY <1>1, <1>2, <1>3, <1>4, ReturnStep

\* The request is made while none was, unless cut, and nobody is presented
\* before or by it.
LEMMA DistributeStep ==
    ASSUME SearchInv, NEW found \in Outcomes, Distribute(found)
    PROVE  SearchInv'
<1> USE StatesAre, AllowedIs DEF SearchInv, dataVars, breakVars
<1> DEFINE d == [[data EXCEPT !.request = TRUE] EXCEPT !.presented = {}]
           r == [[Say("AwaitResponses") EXCEPT !.found = found] EXCEPT !.data = d]
<1>1. pc = "exec" /\ run = "search" /\ row["search"].state = "ResolveDemand"
      /\ Live("search")
  BY AtIs DEF Distribute, Matching, At, RunInv
<1>2. d \in Data /\ d.presented = {} /\ d.request /\ data.presented = {}
  BY <1>1, SearchData DEF Data, Early
<1>3. Resolved(found) = r
  BY <1>1, SayIs DEF Resolved, Result, Data
<1> HIDE DEF d
<1>4. r \in Result /\ r.to = "AwaitResponses" /\ ~r.completes /\ r.reply
      /\ r.handoff = "none"
      /\ r.data = d /\ r.count = NoCount
  BY <1>2, SayIs DEF Result
<1> HIDE DEF r
<1>5. /\ result' = r /\ pc' = "commit" /\ requests < MaxRequests /\ requests' = requests + 1
      /\ delivered' \in SUBSET found.cards /\ accepted' = {}
      /\ UNCHANGED <<dataVars, run, steps, said, told, selections, breakVars>>
  BY <1>3 DEF Distribute
<1>6. found.cards \subseteq Vendor
  BY OutcomeCards
<1>7. TypeOK'
  <2>1. requests' \in 0..MaxRequests
    BY <1>5, SearchAssumption DEF TypeOK
  <2> QED
    BY <1>4, <1>5, <1>6, <2>1 DEF TypeOK
<1>8. /\ result'.to = "AwaitResponses" /\ ~result'.completes /\ result'.reply
      /\ result'.handoff = "none" /\ result'.data.presented = {} /\ result'.data.request
      /\ result'.count = NoCount
  BY <1>2, <1>4, <1>5
<1> HIDE DEF dataVars
<1>9. RowInv' /\ RunInv'
  BY <1>1, <1>5, <1>8 DEF RowInv, RunInv, Live, Fits, Undeclared, Silent, dataVars
<1>10. AttemptInv' /\ DataInv'
  BY <1>1, <1>2, <1>5, <1>8 DEF AttemptInv, DataInv, Live, Sound, Patching, Early, dataVars
<1>11. EffectInv'
  BY <1>1, <1>5, <1>8 DEF EffectInv, Live, Patching, Early, TypeOK, dataVars
<1>12. ToldInv' /\ (MaxSteps > 2 => SaidInv')
  <2>1. ~cut => told = 0
    BY <1>1 DEF ToldInv, Early
  <2>2. Cardinality({}) = 0
    BY CountIs
  <2>3. ToldInv'
    BY <1>1, <1>5, <1>8, <2>1, <2>2 DEF ToldInv, Knows, Known, Live, Patching, dataVars
  <2>4. MaxSteps > 2 => SaidInv'
    BY <1>1, <1>5 DEF SaidInv, dataVars
  <2> QED
    BY <2>3, <2>4
<1> QED
  BY <1>7, <1>9, <1>10, <1>11, <1>12

\* A tap is recorded while none was, unless cut, and its result ends the
\* search.
LEMMA SelectStep == ASSUME SearchInv, Select PROVE SearchInv'
<1> USE StatesAre, AllowedIs DEF SearchInv, dataVars, requestVars, breakVars
<1> DEFINE r == [Say("Complete") EXCEPT !.completes = TRUE]
<1>1. pc = "exec" /\ run = "search" /\ row["search"].state = "AwaitResponses"
      /\ Live("search")
  BY AtIs DEF Select, At, RunInv
<1>2. r \in Result /\ r.to = "Complete" /\ r.reply /\ r.handoff = "none" /\ r.data = data
      /\ r.count = NoCount
  BY SayIs DEF Result
<1>3. result' = r
  BY DEF Select
<1> HIDE DEF r
<1>4. /\ pc' = "commit" /\ selections' = selections + 1
      /\ UNCHANGED <<dataVars, requestVars, run, steps, said, told, requests, breakVars>>
  BY DEF Select
<1>5. TypeOK'
  BY <1>2, <1>3, <1>4 DEF TypeOK
<1>6. Fits(r) /\ Sound(r)
  BY <1>1, <1>2, SearchData DEF Fits, Undeclared, Silent, Sound, Early
<1>7. RowInv' /\ RunInv'
  BY <1>1, <1>3, <1>4, <1>6 DEF RowInv, RunInv, Live, Fits
<1>8. AttemptInv' /\ DataInv'
  BY <1>1, <1>3, <1>4, <1>6 DEF AttemptInv, DataInv, Live, Sound, Patching
<1>9. EffectInv'
  BY <1>1, <1>2, <1>3, <1>4 DEF EffectInv, Live, Patching, Early, TypeOK
<1>10. ToldInv' /\ (MaxSteps > 2 => SaidInv')
  BY <1>1, <1>2, <1>3, <1>4 DEF ToldInv, Knows, Live, Patching, Early, SaidInv
<1> QED
  BY <1>5, <1>7, <1>8, <1>9, <1>10

\* A run starts on a row that is open or begins: a search that begins has
\* requested, presented and told nothing.
LEMMA StartStep ==
    ASSUME SearchInv, NEW ty \in Type, pc \in {"idle", "handoff"},
           \/ Live(ty) /\ UNCHANGED <<dataVars, requestVars, ghostVars, cut>>
           \/ FreshRow(ty),
           pc' = "exec", run' = ty, result' \in Result, steps' = 0, breaks' = breaks,
           said' \in Nat, MaxSteps > 2 => said' = 0
    PROVE  SearchInv'
<1> USE DEF SearchInv, dataVars, requestVars, ghostVars, Live, Open
<1>1. steps' \in 0..MaxSteps
  BY SearchAssumption
<1>2. CASE Live(ty) /\ UNCHANGED <<dataVars, requestVars, ghostVars, cut>>
  <2>1. TypeOK'
    BY <1>1, <1>2 DEF TypeOK
  <2>2. RowInv' /\ RunInv' /\ AttemptInv'
    BY <1>2 DEF RowInv, RunInv, AttemptInv
  <2>3. DataInv' /\ EffectInv' /\ ToldInv'
    BY <1>2 DEF DataInv, EffectInv, ToldInv, Knows, Patching
  <2>4. MaxSteps > 2 => SaidInv'
    BY <1>2 DEF SaidInv
  <2> QED
    BY <2>1, <2>2, <2>3, <2>4
<1>3. CASE FreshRow(ty)
  <2>1. /\ row' \in [Type -> [state : State,
                              status : Open \cup {"none", "completed", "failed",
                                 "archived"}]]
        /\ row'[ty].state = InitialState[ty] /\ row'[ty].status = "active"
        /\ \A u \in Type : u # ty => row'[u] = row[u]
    BY <1>3, BeginningsAre DEF FreshRow, TypeOK
  <2>2. /\ attempts' \in 0..MaxAttempts
        /\ IF ty = "triage" THEN attempts' < MaxAttempts ELSE attempts' = attempts
    BY <1>3, SearchAssumption DEF FreshRow, TypeOK
  <2>3. CASE ty = "search"
    <3>1. /\ data' \in Data /\ data'.presented = {}
          /\ told' = 0 /\ delivered' = {} /\ accepted' = {}
          /\ requests' = 0 /\ selections' = 0 /\ cut' = FALSE
      <4>1. PICK q \in {"generic", "text"} : data' = [NoData EXCEPT !.query = q]
        BY <1>3, <2>3 DEF FreshRow
      <4>2. q \in Query
        BY <4>1 DEF Query
      <4> QED
        BY <1>3, <2>3, <4>1, <4>2, BlanksAre DEF FreshRow
    <3>2. TypeOK'
      <4>1. 0 \in 0..MaxRequests
        BY SearchAssumption
      <4>2. cut' \in BOOLEAN
        BY <3>1
      <4> QED
        BY <1>1, <2>1, <2>2, <3>1, <4>1, <4>2 DEF TypeOK
    <3>3. RowInv' /\ RunInv' /\ AttemptInv'
      BY <2>1, <2>2, <2>3, BeginningsAre DEF RowInv, RunInv, AttemptInv, Type
    <3>4. DataInv' /\ EffectInv' /\ ToldInv'
      BY <2>1, <2>3, <3>1, BeginningsAre DEF DataInv, EffectInv, ToldInv, Patching, Early
    <3>5. MaxSteps > 2 => SaidInv'
      BY <2>1 DEF SaidInv
    <3> QED
      BY <3>2, <3>3, <3>4, <3>5
  <2>4. CASE ty # "search"
    <3>1. UNCHANGED <<data, requestVars, ghostVars, cut>> /\ row'["search"] = row["search"]
      BY <1>3, <2>1, <2>4 DEF FreshRow, Type
    <3>2. TypeOK'
      BY <1>1, <2>1, <2>2, <3>1 DEF TypeOK
    <3>3. RowInv' /\ RunInv' /\ AttemptInv'
      BY <2>1, <2>2, BeginningsAre DEF RowInv, RunInv, AttemptInv, Type
    <3>4. DataInv' /\ EffectInv' /\ ToldInv'
      BY <2>4, <3>1 DEF DataInv, EffectInv, ToldInv, Knows, Patching
    <3>5. MaxSteps > 2 => SaidInv'
      BY <2>1 DEF SaidInv
    <3> QED
      BY <3>2, <3>3, <3>4, <3>5
  <2> QED
    BY <2>3, <2>4
<1> QED
  BY <1>2, <1>3

\* A message starts a turn, and a hand-over starts another run in it.
LEMMA BeginStep ==
    ASSUME SearchInv, Handoff \/ \E ty \in Type : BeginTurn(ty)
    PROVE  SearchInv'
<1> USE DEF SearchInv
<1>1. ASSUME NEW ty \in Type, BeginTurn(ty) PROVE SearchInv'
  <2>1. /\ pc = "idle" /\ pc' = "exec" /\ run' = ty /\ said' = 0
        /\ UNCHANGED <<result, steps, breaks>>
        /\ \/ Live(ty) /\ UNCHANGED <<dataVars, requestVars, ghostVars, cut>>
           \/ FreshRow(ty)
    BY <1>1 DEF BeginTurn, Live
  <2>2. steps' = 0 /\ result' \in Result
    BY <2>1 DEF RunInv, TypeOK
  <2> HIDE DEF SearchInv
  <2> QED
    BY <2>1, <2>2, StartStep
<1>2. CASE Handoff
  <2>1. pc = "handoff" /\ steps = 0 /\ result.handoff \in Intent /\ result.handoff # "none"
        /\ said \in Nat /\ (MaxSteps > 2 => said = 0) /\ run \in Type
    BY <1>2 DEF Handoff, RunInv, TypeOK, Result, SaidInv
  <2>2. CASE result.handoff = "onboarding"
    <3>1. /\ said' = said + 1 /\ pc' = "send" /\ result' = NoResult /\ steps' = 0
          /\ UNCHANGED <<dataVars, requestVars, run, ghostVars, cut, breaks>>
      BY <1>2, <2>1, <2>2 DEF Handoff
    <3>2. TypeOK'
      BY <2>1, <3>1, BlanksAre DEF TypeOK, dataVars, requestVars, ghostVars
    <3>3. RowInv' /\ RunInv' /\ AttemptInv'
      BY <3>1 DEF RowInv, RunInv, AttemptInv, Live, dataVars
    <3>4. DataInv' /\ EffectInv' /\ ToldInv'
      BY <2>1, <3>1, BlanksAre
      DEF DataInv, EffectInv, ToldInv, Knows, Known, Patching, Live, dataVars, requestVars,
          ghostVars
    <3>5. MaxSteps > 2 => SaidInv'
      BY <2>1, <3>1 DEF SaidInv, dataVars
    <3> QED
      BY <3>2, <3>3, <3>4, <3>5
  <2>3. CASE result.handoff # "onboarding"
    <3>1. /\ run' = result.handoff /\ pc' = "exec" /\ said' = said /\ result' = NoResult
          /\ UNCHANGED <<steps, breaks>>
          /\ \/ Live(run') /\ UNCHANGED <<dataVars, requestVars, ghostVars, cut>>
             \/ FreshRow(run')
      BY <1>2, <2>3 DEF Handoff, Live
    <3>2. result.handoff \in Type
      BY <2>1, <2>3 DEF Intent, Type
    <3> DEFINE ty == result.handoff
    <3>3. /\ ty \in Type /\ run' = ty
          /\ \/ Live(ty) /\ UNCHANGED <<dataVars, requestVars, ghostVars, cut>>
             \/ FreshRow(ty)
      BY <3>1, <3>2
    <3> HIDE DEF SearchInv, ty
    <3>4. steps' = 0 /\ result' \in Result
      BY <2>1, <3>1, BlanksAre
    <3> QED
      BY <2>1, <3>1, <3>3, <3>4, StartStep
  <2> QED
    BY <2>2, <2>3
<1> QED
  BY <1>1, <1>2

\* Between turns, a row is put back to its beginning and closed; at any time, a
\* vendor accepts.
LEMMA AroundStep ==
    ASSUME SearchInv,
           (\E ty \in Type : Abandon(ty)) \/ (\E v \in Vendor : Accept(v))
    PROVE  SearchInv'
<1> USE DEF SearchInv, dataVars, requestVars, turnVars, ghostVars, breakVars, Live, Open
<1>1. ASSUME NEW ty \in Type, Abandon(ty) PROVE SearchInv'
  <2>1. /\ row' \in [Type -> [state : State,
                              status : Open \cup {"none", "completed", "failed",
                                 "archived"}]]
        /\ row'[ty].state = InitialState[ty] /\ row'[ty].status = "archived"
        /\ \A u \in Type : u # ty => row'[u] = row[u]
        /\ pc = "idle"
        /\ UNCHANGED <<attempts, data, requestVars, turnVars, ghostVars, breakVars>>
    BY <1>1, BeginningsAre DEF Abandon, TypeOK
  <2>2. TypeOK'
    BY <2>1 DEF TypeOK
  <2>3. RowInv' /\ RunInv' /\ AttemptInv'
    BY <2>1, BeginningsAre DEF RowInv, RunInv, AttemptInv, Type
  <2>4. DataInv' /\ EffectInv' /\ ToldInv'
    BY <2>1, BeginningsAre DEF DataInv, EffectInv, ToldInv, Knows, Patching, Type
  <2>5. MaxSteps > 2 => SaidInv'
    BY <2>1 DEF SaidInv
  <2> QED
    BY <2>2, <2>3, <2>4, <2>5
<1>2. ASSUME NEW v \in Vendor, Accept(v) PROVE SearchInv'
  <2>1. /\ accepted' = accepted \cup {v} /\ v \in delivered
        /\ UNCHANGED <<dataVars, delivered, turnVars, ghostVars, breakVars>>
    BY <1>2 DEF Accept
  <2>2. TypeOK'
    BY <2>1 DEF TypeOK
  <2>3. RowInv' /\ RunInv' /\ AttemptInv'
    BY <2>1 DEF RowInv, RunInv, AttemptInv, Fits, Undeclared
  <2>4. DataInv' /\ EffectInv' /\ ToldInv'
    BY <2>1 DEF DataInv, EffectInv, ToldInv, Knows, Known, Patching, Sound
  <2>5. MaxSteps > 2 => SaidInv'
    BY <2>1 DEF SaidInv
  <2> QED
    BY <2>2, <2>3, <2>4, <2>5
<1> QED
  BY <1>1, <1>2

\* The engine turns a result that fits into the next state: a silent one goes
\* on with a second step, any other ends the run with one answer or hands over.
LEMMA CommitStep == ASSUME SearchInv, Commit PROVE SearchInv'
<1> USE StatesAre DEF SearchInv
<1> DEFINE from == row[run].state
           over == steps + 1 = MaxSteps
           after == IF over THEN "failed" ELSE StatusAfter(Final, row[run].status, result)
<1>1. /\ pc = "commit" /\ run \in Type /\ result \in Result /\ Fits(result) /\ Live(run)
      /\ steps = 0 \/ (steps = 1 /\ from \in Silent)
      /\ from \in State
  BY DEF Commit, RunInv, TypeOK
<1>2. /\ row' = [row EXCEPT ![run] = [state |-> result.to, status |-> after]]
      /\ attempts' = (IF run = "triage" THEN result.attempts ELSE attempts)
      /\ data' = (IF run = "search" THEN result.data ELSE data)
      /\ said' = said + (IF result.reply THEN 1 ELSE 0) + (IF over THEN 1 ELSE 0)
      /\ IF over \/ Stops(Final, Waiting, from, result)
         THEN /\ pc' = IF ~over /\ result.handoff # "none" THEN "handoff" ELSE "send"
              /\ UNCHANGED result /\ steps' = 0
         ELSE pc' = "exec" /\ result' = NoResult /\ steps' = steps + 1
      /\ UNCHANGED <<run, requestVars, ghostVars, breakVars>>
  <2>1. ~Undeclared(Allowed, from, result)
    BY <1>1 DEF Fits
  <2> QED
    BY <2>1 DEF Commit, TypeOK
<1> HIDE DEF from
<1>3. Stops(Final, Waiting, from, result) <=> result.to \notin Silent
  <2>1. from \in Silent => result.to \notin Silent
    BY <1>1 DEF Fits, from
  <2>2. from # result.to \/ result.to \notin Silent
    BY <2>1
  <2>3. result.to \in StatesOf[run] /\ (result.handoff # "none" => result.to = "Complete")
        /\ (result.reply <=> result.to \notin Silent /\ result.handoff = "none")
        /\ (result.completes => result.to = "Complete")
    BY <1>1 DEF Fits
  <2>4. result.to \in {"Classify", "ShowAccount"} => result.to = from
    BY <1>1, AllowedIs DEF Fits, Undeclared, from
  <2>5. /\ result.to \in {"Complete", "Classify", "AwaitDetail", "AwaitClarification",
                           "AwaitResponses", "ShowAccount"} \cup Silent
    BY <1>1, <2>3 DEF Type, Silent
  <2> QED
    BY <2>2, <2>3, <2>4, <2>5 DEF Stops, Final, Waiting, Silent
<1>4. /\ after \in Open \cup {"completed", "failed"}
      /\ result.to = "Complete" => after \notin Open
      /\ ~over /\ result.to # "Complete" => after = "active"
      /\ ~over => after # "failed"
  <2>1. row[run].status \in {"active", "suspended"} /\ (result.completes
        => result.to = "Complete")
    BY <1>1 DEF Live, Open, Fits
  <2> QED
    BY <2>1 DEF StatusAfter, Final, Open
<1>5. /\ result.to \in Silent => ~result.reply /\ steps = 0 /\ result.handoff = "none"
      /\ result.to \notin Silent => (result.reply <=> result.handoff = "none")
  BY <1>1 DEF Fits, Silent, from
<1>6. MaxSteps > 2 => ~over
  BY <1>1
<1>7. /\ row' \in [Type -> [state : State,
                            status : Open \cup {"none", "completed", "failed", "archived"}]]
      /\ row'[run].state = result.to /\ row'[run].status = after
      /\ \A u \in Type : u # run => row'[u] = row[u]
  <2>1. result.to \in State
    BY <1>1 DEF Result
  <2> HIDE DEF after
  <2> QED
    BY <1>1, <1>2, <1>4, <2>1 DEF TypeOK
<1> HIDE DEF after
<1>8. TypeOK'
  <2>1. attempts' \in 0..MaxAttempts /\ data' \in Data
    BY <1>1, <1>2 DEF TypeOK, Result
  <2>2. said' \in Nat
    BY <1>2 DEF TypeOK
  <2>3. steps' \in 0..MaxSteps /\ result' \in Result
    <3>1. steps' \in {0, 1}
      BY <1>2, <1>3, <1>5
    <3>2. result' \in {result, NoResult}
      BY <1>2
    <3> QED
      BY <1>1, <3>1, <3>2, BlanksAre, SearchAssumption
  <2>4. pc' \in {"idle", "exec", "commit", "handoff", "send"}
    BY <1>2
  <2> QED
    BY <1>1, <1>2, <1>7, <2>1, <2>2, <2>3, <2>4 DEF TypeOK, requestVars, ghostVars,
       breakVars
<1>9. RowInv'
  BY <1>1, <1>2, <1>4, <1>7 DEF RowInv, Live, Fits
<1>10. RunInv'
  <2>1. CASE over \/ Stops(Final, Waiting, from, result)
    BY <1>2, <2>1 DEF RunInv
  <2>2. CASE ~over /\ result.to \in Silent
    <3>1. pc' = "exec" /\ steps' = 1 /\ after = "active" /\ run' = run
      BY <1>2, <1>3, <1>4, <1>5, <2>2 DEF Silent
    <3> QED
      BY <1>1, <1>7, <2>2, <3>1 DEF RunInv, Live, Open
  <2> QED
    BY <1>3, <2>1, <2>2
<1>11. AttemptInv'
  <2>1. pc' # "commit"
    BY <1>2
  <2>2. CASE run = "triage"
    BY <1>1, <1>2, <1>4, <1>7, <2>1, <2>2 DEF AttemptInv, Live
  <2>3. CASE run # "triage"
    BY <1>1, <1>2, <1>7, <2>1, <2>3 DEF AttemptInv, Live, Type
  <2> QED
    BY <2>2, <2>3
<1>12. DataInv' /\ EffectInv' /\ ToldInv'
  <2>1. pc' # "commit" /\ run' = run
    BY <1>2
  <2>2. CASE run = "search"
    <3>1. /\ row'["search"].state = result.to /\ row'["search"].status = after
          /\ data' = result.data /\ Sound(result)
          /\ UNCHANGED <<requestVars, ghostVars, breakVars>>
      BY <1>1, <1>2, <1>7, <2>2 DEF DataInv, Patching
    <3>2. DataInv'
      BY <2>1, <3>1 DEF DataInv, Sound, Patching, requestVars
    <3>3. row["search"].state \notin Early => result.to \notin Early
      BY <1>1, <2>2, AllowedIs DEF Fits, Undeclared, Early, RowInv, Type, Silent
    <3>4. EffectInv'
      BY <1>1, <1>4, <2>1, <2>2, <3>1, <3>3
      DEF EffectInv, Patching, Live, Early, ghostVars, breakVars
    <3>5. ToldInv'
      <4>1. result.to = "AwaitResponses" => pc' = "send" /\ result' = result
        BY <1>1, <1>2, <1>3 DEF Fits, Silent
      <4>2. pc' = "send" => result' = result
        BY <1>2
      <4>3. result.count # NoCount => result.to = "AwaitResponses"
        BY <1>1 DEF Fits
      <4>4. ~cut /\ result.to = "AwaitResponses" =>
               Known(result) = Cardinality(result.data.presented)
        BY <1>1, <2>2 DEF ToldInv, Patching
      <4>5. told' = told /\ cut' = cut
        BY <3>1 DEF ghostVars, breakVars
      <4>6. Live("search")' /\ result.to \in Early /\ ~cut => told = 0
        BY <1>1, <2>2, <3>3 DEF ToldInv
      <4> QED
        BY <2>1, <2>2, <3>1, <4>1, <4>2, <4>3, <4>4, <4>5, <4>6
        DEF ToldInv, Knows, Known, Patching
    <3> QED
      BY <3>2, <3>4, <3>5
  <2>3. CASE run # "search"
    <3>1. row'["search"] = row["search"] /\ data' = data
          /\ UNCHANGED <<requestVars, ghostVars, breakVars>>
      BY <1>2, <1>7, <2>3 DEF Type
    <3>2. pc' = "send" => result' = result
      BY <1>2
    <3>3. result.count = NoCount /\ pc # "send"
      BY <1>1, <2>3 DEF Fits
    <3> QED
      BY <1>1, <2>1, <2>3, <3>1, <3>2, <3>3
      DEF DataInv, EffectInv, ToldInv, Knows, Known, Patching, Live, requestVars,
          ghostVars, breakVars
  <2> QED
    BY <2>2, <2>3
<1>13. MaxSteps > 2 => SaidInv'
  <2> SUFFICES ASSUME MaxSteps > 2 PROVE SaidInv'
    OBVIOUS
  <2>1. ~over /\ said = 0 /\ \A ty \in Type : row[ty].status # "failed"
    BY <1>1, <1>6 DEF SaidInv
  <2>2. \A ty \in Type : row'[ty].status # "failed"
    BY <1>4, <1>7, <2>1
  <2>3. said' = IF result.reply THEN 1 ELSE 0
    BY <1>2, <2>1
  <2>4. pc' = IF result.to \in Silent THEN "exec"
              ELSE IF result.handoff # "none" THEN "handoff" ELSE "send"
    BY <1>2, <1>3, <2>1
  <2> QED
    BY <1>5, <2>2, <2>3, <2>4 DEF SaidInv
<1> QED
  BY <1>8, <1>9, <1>10, <1>11, <1>12, <1>13

\* Once the turn has answered, the buyer knows what it stated.
LEMMA SendStep == ASSUME SearchInv, Send PROVE SearchInv'
<1> USE DEF SearchInv, dataVars, requestVars, breakVars
<1>1. /\ pc = "send" /\ pc' = "idle" /\ run' = "triage" /\ result' = NoResult /\ steps' = 0
      /\ told' = Known(result)
      /\ UNCHANGED <<dataVars, requestVars, said, requests, selections, breakVars>>
  BY DEF Send, EndTurn
<1>2. TypeOK'
  <2>1. 0 \in 0..MaxSteps /\ run' \in Type
    BY <1>1, SearchAssumption DEF Type
  <2>2. told' \in Nat
    BY <1>1 DEF TypeOK, Known, Result
  <2> QED
    BY <1>1, <2>1, <2>2, BlanksAre DEF TypeOK
<1>3. RowInv' /\ RunInv' /\ AttemptInv'
  BY <1>1 DEF RowInv, RunInv, AttemptInv, Live
<1>4. DataInv' /\ EffectInv'
  BY <1>1 DEF DataInv, EffectInv, Patching, Live
<1>5. ToldInv'
  <2>1. told' # told => row["search"].state = "AwaitResponses"
    BY <1>1 DEF ToldInv, Known
  <2>2. told' = Knows
    BY <1>1 DEF Knows
  <2>3. "AwaitResponses" \notin Early
    BY DEF Early
  <2> QED
    BY <1>1, <2>1, <2>2, <2>3 DEF ToldInv, Knows, Patching, Live
<1>6. MaxSteps > 2 => SaidInv'
  BY <1>1 DEF SaidInv
<1> QED
  BY <1>2, <1>3, <1>4, <1>5, <1>6

\* A handler that throws suspends its row where it is, and has cut the search
\* short if it did anything.
LEMMA ThrowStep == ASSUME SearchInv, HandlerThrows PROVE SearchInv'
<1> USE DEF SearchInv
<1>1. /\ pc = "exec" /\ pc' = "send" /\ result' = NoResult /\ steps' = 0
      /\ breaks < MaxBreaks /\ breaks' = breaks + 1 /\ said' = said + 1
      /\ UNCHANGED <<attempts, data, run, told>>
      /\ run \in Type /\ Live(run) /\ said \in Nat /\ (MaxSteps > 2 => said = 0)
  BY DEF HandlerThrows, DeadLetter, RunInv, TypeOK, SaidInv
<1>2. /\ row' \in [Type -> [state : State,
                            status : Open \cup {"none", "completed", "failed", "archived"}]]
      /\ row'[run].status = "suspended"
      /\ \A u \in Type : row'[u].state = row[u].state
      /\ \A u \in Type : u # run => row'[u] = row[u]
  <2>1. row' = [row EXCEPT ![run].status = "suspended"]
    BY DEF HandlerThrows, DeadLetter
  <2> QED
    BY <1>1, <2>1 DEF TypeOK, Open
<1>3. \A u \in Type : Live(u)' <=> Live(u)
  BY <1>1, <1>2 DEF Live, Open
<1>4. \/ UNCHANGED <<requestVars, requests, selections, cut>>
      \/ /\ run = "search" /\ row["search"].state = "ResolveDemand"
         /\ requests < MaxRequests /\ requests' = requests + 1 /\ cut' = TRUE
         /\ delivered' \subseteq Vendor /\ accepted' = {} /\ UNCHANGED selections
      \/ /\ selections' = selections + 1 /\ cut' = TRUE
         /\ UNCHANGED <<requestVars, requests>>
  <2>1. ASSUME Matching, requests < MaxRequests, NEW found \in Outcomes,
               NEW sent \in (SUBSET found.cards) \ {{}}, delivered' = sent, accepted' = {},
               requests' = requests + 1, cut' = TRUE, UNCHANGED selections
        PROVE  /\ run = "search" /\ row["search"].state = "ResolveDemand"
               /\ delivered' \subseteq Vendor
    <3>1. found.cards \subseteq Vendor
      BY OutcomeCards
    <3> QED
      BY <2>1, <3>1, AtIs DEF Matching, At
  <2> QED
    BY <2>1 DEF HandlerThrows
<1>5. TypeOK'
  <2>1. breaks' \in 0..MaxBreaks /\ 0 \in 0..MaxSteps /\ said' \in Nat
    BY <1>1, SearchAssumption DEF TypeOK
  <2>2. requests' \in 0..MaxRequests /\ selections' \in Nat
    BY <1>4, SearchAssumption DEF TypeOK, requestVars
  <2>3. accepted' \subseteq delivered' /\ delivered' \subseteq Vendor
    BY <1>4 DEF TypeOK, requestVars
  <2>4. cut' \in BOOLEAN
    BY <1>4 DEF TypeOK
  <2> QED
    BY <1>1, <1>2, <2>1, <2>2, <2>3, <2>4, BlanksAre DEF TypeOK
<1>6. RowInv' /\ RunInv' /\ AttemptInv'
  <2>1. "triage" \in Type
    BY DEF Type
  <2> QED
    BY <1>1, <1>2, <1>3, <2>1 DEF RowInv, RunInv, AttemptInv
<1>7. DataInv' /\ EffectInv' /\ ToldInv'
  <2>1. "search" \in Type /\ row'["search"].state = row["search"].state
        /\ (Live("search")' <=> Live("search"))
    BY <1>2, <1>3 DEF Type
  <2>2. DataInv'
    BY <1>1, <1>4, <2>1 DEF DataInv, Patching, Early, requestVars
  <2>3. EffectInv' /\ ToldInv'
    BY <1>1, <1>4, <2>1, BlanksAre DEF EffectInv, ToldInv, Knows, Known, Patching
  <2> QED
    BY <2>2, <2>3
<1>8. MaxSteps > 2 => SaidInv'
  BY <1>1, <1>2 DEF SaidInv
<1> QED
  BY <1>5, <1>6, <1>7, <1>8

\* A turn that dies leaves what its handlers did, and has cut the search.
LEMMA DieStep == ASSUME SearchInv, TurnDies PROVE SearchInv'
<1> USE DEF SearchInv, dataVars, requestVars, ghostVars
<1>1. /\ pc \in {"commit", "handoff", "send"} /\ breaks < MaxBreaks /\ breaks' = breaks + 1
      /\ cut' = TRUE /\ pc' = "idle" /\ run' = "triage" /\ result' = NoResult /\ steps' = 0
      /\ said' \in {said, said + 1} /\ said \in Nat
      /\ UNCHANGED <<dataVars, requestVars, ghostVars>>
  BY DEF TurnDies, EndTurn, TypeOK
<1>2. TypeOK'
  <2>1. 0 \in 0..MaxSteps /\ run' \in Type /\ breaks' \in 0..MaxBreaks
    BY <1>1, SearchAssumption DEF Type, TypeOK
  <2>2. cut' \in BOOLEAN
    BY <1>1
  <2> QED
    BY <1>1, <2>1, <2>2, BlanksAre DEF TypeOK
<1>3. RowInv' /\ RunInv' /\ AttemptInv'
  BY <1>1 DEF RowInv, RunInv, AttemptInv, Live
<1>4. DataInv' /\ EffectInv' /\ ToldInv'
  BY <1>1 DEF DataInv, EffectInv, ToldInv, Patching, Live
<1>5. MaxSteps > 2 => SaidInv'
  BY <1>1 DEF SaidInv
<1> QED
  BY <1>2, <1>3, <1>4, <1>5
-----------------------------------------------------------------------------
\* The inductive invariant of triage, search and recharge holds throughout.
THEOREM SearchInvariance == Spec => []SearchInv
<1>1. Init => SearchInv
  <2> SUFFICES ASSUME Init PROVE SearchInv
    OBVIOUS
  <2>1. /\ row \in [Type -> [state : State,
                             status : Open \cup {"none", "completed", "failed",
                                "archived"}]]
        /\ \A ty \in Type : row[ty].state = InitialState[ty] /\ row[ty].status = "none"
    BY BeginningsAre DEF Init
  <2>2. "search" \in Type /\ "triage" \in Type
    BY DEF Type
  <2>3. TypeOK
    <3>1. /\ 0 \in 0..MaxSteps /\ 0 \in 0..MaxBreaks /\ 0 \in 0..MaxRequests
          /\ 0 \in 0..MaxAttempts
      BY SearchAssumption
    <3> QED
      BY <2>1, <2>2, <3>1, BlanksAre DEF Init, TypeOK
  <2>4. RowInv /\ RunInv /\ AttemptInv
    BY <2>1, <2>2, BeginningsAre DEF Init, RowInv, RunInv, AttemptInv, Live, Open
  <2>5. DataInv /\ EffectInv /\ ToldInv
    BY <2>1, <2>2, BeginningsAre, BlanksAre
    DEF Init, DataInv, EffectInv, ToldInv, Patching, Live, Open
  <2>6. SaidInv
    BY <2>1 DEF Init, SaidInv
  <2> QED
    BY <2>3, <2>4, <2>5, <2>6 DEF SearchInv
<1>2. SearchInv /\ [Next]_vars => SearchInv'
  <2> SUFFICES ASSUME SearchInv, [Next]_vars PROVE SearchInv'
    OBVIOUS
  <2>1. CASE UNCHANGED vars
    BY <2>1 DEF vars, dataVars, requestVars, turnVars, ghostVars, breakVars, SearchInv,
       TypeOK,
                RowInv, RunInv, AttemptInv, DataInv, EffectInv, ToldInv, Knows, Known, SaidInv,
                Live, Fits, Sound, Patching
  <2> QED
    BY <2>1, TriageStep, DecideStep, ShowStep, DistributeStep, SelectStep, BeginStep,
       AroundStep, CommitStep, SendStep, ThrowStep, DieStep DEF Next
<1> QED
  BY <1>1, <1>2, PTL DEF Spec

\* Every variable of the search model keeps its type; in particular a result
\* only ever carries an outcome of the matching engine.
THEOREM SearchTypeCorrect == Spec => []TypeOK
BY SearchInvariance, PTL DEF SearchInv

\* One request per search and one selection, unless a turn broke between the
\* effect and the row's update: resolveDemand and awaitResponses act before
\* the engine saves the state that keeps them from acting again.
THEOREM EffectsAreOnce == Spec => []EffectsOnce
<1>1. SearchInv => EffectsOnce
  BY DEF SearchInv, TypeOK, EffectInv, EffectsOnce
<1> QED
  BY <1>1, SearchInvariance, PTL

\* Whoever the search counts as presented has accepted, and by the time the
\* search waits again the last count the buyer was given is theirs, unless the
\* search or a turn broke where something was half done.
THEOREM PresentedAreTold == Spec => []RespondersTold
<1>1. SearchInv => RespondersTold
  BY DEF SearchInv, DataInv, ToldInv, Knows, RespondersTold
<1> QED
  BY <1>1, SearchInvariance, PTL

\* With room for three transitions (the code has room for twelve), no turn of
\* the three definitions fails, and each answers exactly once, handed over or
\* not, but for the apology of one that broke: two transitions are the most a
\* run takes.
THEOREM SearchAnswers == ASSUME MaxSteps > 2 PROVE Spec => []AnswersOnce
<1>1. SearchInv => AnswersOnce
  BY DEF SearchInv, DataInv, SaidInv, AnswersOnce, NeverFailed
<1> QED
  BY <1>1, SearchInvariance, PTL

\* A result carries nobody, or an outcome of the matching engine.
LEMMA FoundIs == ASSUME TypeOK PROVE result.found \in Outcomes \/ result.found = Nobody
BY DEF TypeOK, Result

\* A listed vendor that holds what was asked, however weakly, and that the
\* graph connects to all of it, is found, unless the cards are full or more
\* vendors than one lookup returns hold it as much: no lookup failure, no tie
\* and no score of others keeps it out.
THEOREM HoldersAreFound == Spec => []HoldersFound
<1>1. TypeOK => HoldersFound
  <2> SUFFICES ASSUME TypeOK PROVE HoldersFound
    OBVIOUS
  <2>1. CASE result.found \in Outcomes
    BY <2>1, OutcomesHolders DEF HoldersFound
  <2>2. CASE result.found = Nobody
    BY <2>2 DEF HoldersFound, Holds, Nobody
  <2> QED
    BY <2>1, <2>2, FoundIs
<1> QED
  BY <1>1, SearchTypeCorrect, PTL
=============================================================================
