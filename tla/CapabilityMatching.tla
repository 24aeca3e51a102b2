-------------------------- MODULE CapabilityMatching --------------------------
(***************************************************************************)
(* Which vendors a search finds: retrieval, the graph match, the score and *)
(* the cut of the capability matching engine                               *)
(* (src/src/application/matching/capability-matching.service.ts,           *)
(* src/src/domain/models/demand.ts, hybrid-knowledge-graph.ts), as a       *)
(* function of the marketplace, of what the demand resolved to, and of the *)
(* lookups that failed.  SearchWorkflow takes one of its Outcomes whenever *)
(* a query is resolved.                                                    *)
(*                                                                         *)
(* What the language models make of a query (demand-understanding,         *)
(* capability-resolver) is any two disjoint sets of bricks: both stages    *)
(* answer something whatever fails.  A vendor's DNA holds bricks and their *)
(* segments; the level in between, families, is left out, and so are       *)
(* service capabilities, which a demand is never resolved to.  Beliefs and *)
(* scores are percentages.                                                 *)
(***************************************************************************)
EXTENDS Integers, FiniteSets, FiniteSetsExt

CONSTANTS Vendor, Brick, Segment,
          SegmentOf,     \* the taxonomy's: a brick's segment
          PrefixOf,      \* the segment that the first two digits of a code name
          Belief,        \* per vendor and code: confidence in the DNA, 0 for none
          Listed,        \* vendors whose status is active
          Near,          \* those in the customer's city
          Overall,       \* the subject of a vendor's overall record
          Record,        \* per vendor: [score, confidence] of the subjects it has a record on
          PerCapability, \* CANDIDATES_PER_CAPABILITY
          Limit          \* DEFAULT_RESULT_LIMIT

Code == Brick \cup Segment

ASSUME MatchingAssumption ==
    /\ IsFiniteSet(Vendor)
    /\ SegmentOf \in [Brick -> Segment]
    /\ PrefixOf \in [Code -> Segment] /\ \A s \in Segment : PrefixOf[s] = s
    /\ Belief \in [Vendor -> [Code -> 0..100]]
    /\ Listed \subseteq Vendor /\ Near \subseteq Vendor
    /\ Overall \notin Brick
    /\ \A v \in Vendor : /\ DOMAIN Record[v] \subseteq Brick \cup {Overall}
                         /\ \A s \in DOMAIN Record[v] :
                               Record[v][s] \in [score : 0..100, confidence : 0..100]
    /\ PerCapability \in Nat \ {0} /\ Limit \in Nat \ {0}

MinConfidence == 15

\* The n first of a set by falling rank: all of it when it is no larger, and
\* whoever is left out ranks no higher.  Ties fall either way.
Firsts(S, rank, n) ==
    {first \in SUBSET S :
        /\ Cardinality(first) <= n
        /\ first = S \/ Cardinality(first) = n
        /\ \A v \in first, w \in S \ first : rank[w] <= rank[v]}

\* findByCapability: the most convincing of those who hold it, whether they
\* are listed or not.
Holders(c) == {v \in Vendor : Belief[v][c] >= MinConfidence}
FindByCapability(c) == Firsts(Holders(c), [v \in Vendor |-> Belief[v][c]], PerCapability)

\* Mutant: a capability whose ancestors cannot be looked up is not looked up.
TargetsLookedUp(asked, expanded, located) ==
    located \cup {SegmentOf[b] : b \in located} \cup expanded

\* What is looked up: what was asked, the ancestors of the part of it that the
\* taxonomy located, and what it expands to.
Targets(asked, expanded, located) ==
    asked \cup {SegmentOf[b] : b \in located} \cup expanded

\* The answers that the lookups of some targets may give.
Lookups(targets) ==
    {got \in [targets -> UNION {FindByCapability(c) : c \in targets}] :
        \A c \in targets : got[c] \in FindByCapability(c)}

\* retrieveCandidates: whoever a lookup returns and is listed.
Candidates(got) == Listed \cap UNION {got[c] : c \in DOMAIN got}

\* The mean belief over a set of capabilities.
Coverage(v, codes) ==
    IF codes = {} THEN 0
    ELSE MapThenSumSet(LAMBDA c : Belief[v][c], codes) \div Cardinality(codes)

\* inferArchetype: the segments that the codes of the confident beliefs begin
\* with.  All brick codes begin alike, whatever segment the brick is in.
Affinities(v) == {PrefixOf[c] : c \in {d \in Code : Belief[v][d] >= 25}}

\* evaluateGraphMatch against one brick.
IsDirect(v, subject) == Belief[v][subject] >= 30
HasEdge(v, subject) == SegmentOf[subject] \in Affinities(v)
GraphMatches(v, subject) == IsDirect(v, subject) \/ HasEdge(v, subject)

ArchetypeMatch(v, subject, blind) ==
    IF ~blind /\ ~IsDirect(v, subject) /\ HasEdge(v, subject) THEN 75 ELSE 0

\* getEvidenceScores: the vendor's record on the subject, else half the trust
\* in its overall record, else the neutral score, trusted not at all.
EvidenceOn(v, subject) ==
    IF subject \in DOMAIN Record[v] THEN Record[v][subject]
    ELSE IF Overall \in DOMAIN Record[v]
         THEN [Record[v][Overall] EXCEPT !.confidence = @ \div 2]
         ELSE [score |-> 50, confidence |-> 0]

Proximity(v) == IF v \in Near THEN 100 ELSE 50

\* combineRanking with DEFAULT_RANKING_WEIGHTS, which add up to 100; missions
\* never contribute, since the graph match is against one brick.
CombineRanking(v, asked, expanded, evidence, archetype) ==
    LET evidenceWeight == (27 * evidence.confidence) \div 100 IN
    (   Coverage(v, asked) * (35 + 27 - evidenceWeight)
      + Coverage(v, expanded) * 8
      + evidence.score * evidenceWeight
      + Proximity(v) * 12
      + 100 * 5
      + archetype * 8) \div 100

\* Cross-domain protection, of a vendor none of whose beliefs is in what was
\* asked; without the target's segment there is none.
IsSuppressed(v, asked, subject, blind) ==
    (\A c \in asked : Belief[v][c] = 0) /\ ~blind /\ ~GraphMatches(v, subject)

Score(v, asked, expanded, subject, blind) ==
    CombineRanking(v, asked, expanded, EvidenceOn(v, subject),
                   ArchetypeMatch(v, subject, blind))

\* rank: of the candidates with a score, the Limit highest.  A candidate is
\* listed, and scores for that alone unless it is suppressed.
Rankings(asked, expanded, subject, got, blind) ==
    LET scored == {v \in Candidates(got) : ~IsSuppressed(v, asked, subject, blind)}
    IN  Firsts(scored, [v \in scored |-> Score(v, asked, expanded, subject, blind)], Limit)

\* The evidence subject is the first of what was asked, else of the expansion.
Subjects(asked, expanded) == IF asked # {} THEN asked ELSE expanded

\* understand: the products the model extracts, or the query itself when it
\* fails, resolve to any bricks; the query is never lost.
Understood == SUBSET Brick

\* expand: so do the capabilities that usually serve them, and a failed
\* expansion is an empty one.
Expansion == SUBSET Brick

\* What was asked and what it expands to: a capability reached both ways is
\* one that was asked.
Demands == {demand \in [asked : Understood, expanded : Expansion] :
                demand.asked \cap demand.expanded = {}}

\* Every outcome of match on a demand: a ranking of what some of its lookups
\* found.  The lookup of each ancestor may fail, and that of the segment.
Matches(demand, blind) ==
    UNION {Rankings(demand.asked, demand.expanded, subject, got, blind) :
              subject \in Subjects(demand.asked, demand.expanded),
              got \in UNION {Lookups(Targets(demand.asked, demand.expanded, located)) :
                                 located \in SUBSET demand.asked}}

\* Every outcome of match on a query that needs no clarification: no
\* capability, nobody, or a ranking.
Outcomes ==
    {[asked |-> {}, blind |-> FALSE, cards |-> {}]} \cup
    UNION {{[asked |-> demand.asked, blind |-> blind, cards |-> cards] :
               cards \in Matches(demand, blind)} :
           demand \in Demands, blind \in BOOLEAN}
-----------------------------------------------------------------------------
\* Vendor v holds one of the capabilities asked, and no more vendors than a
\* lookup returns are believed to hold it as much.
Holds(v, asked) ==
    \E b \in asked : /\ Belief[v][b] >= MinConfidence
                     /\ Cardinality({w \in Vendor : Belief[w][b] >= Belief[v][b]}) <= PerCapability

\* The graph connects vendor v to everything asked.
Connected(v, asked) == \A b \in asked : GraphMatches(v, b)
=============================================================================
