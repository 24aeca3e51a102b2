------------------------ MODULE EvidenceBacklogProofs ------------------------
(***************************************************************************)
(* Theorems about EvidenceBacklog, for every set of events and pods, every *)
(* batch size and any number of broken sweeps.                             *)
(*                                                                         *)
(* No property is inductive.  AppendedInv says that what a sweep is        *)
(* about to mark has its records.  OriginInv says where records come from: *)
(* those of an event that is not yet processed belong to a sweep about to  *)
(* mark it or to one that broke; two sweeps that have the same event are   *)
(* known to share it; a sweep about to append an event that has records    *)
(* already is one of the explained cases.  StaleInv, at the end, says      *)
(* which sweep will yet refresh a stale aggregate.                         *)
(*                                                                         *)
(* The second half is about LlmFailover, the calls that the vision pass    *)
(* and everything else make of the models, for every number of calls,      *)
(* every chain of providers and every threshold.  OneProbe is not          *)
(* inductive: that a second call is turned away rests on the breaker's     *)
(* flag, which any report on the provider resets.  ProbeInv adds that the  *)
(* flag and the half-open circuit last as long as a probe is out and       *)
(* nobody else has reported.                                               *)
(***************************************************************************)
EXTENDS EvidenceBacklog, LlmFailover, TLAPS

\* A batch is of captured events.
BatchInv == \A p \in Pod : batch[p] \subseteq raw

\* What is about to be marked has its records.
AppendedInv ==
    \A p \in Pod : at[p] = "mark" =>
        \A e \in batch[p] : Touched(e) # {} => records[e] > 0

\* Sweep p has a batch it has not marked.
InHand(p) == at[p] \in {"append", "mark"}

\* Where records come from.
OriginInv ==
    /\ \A e \in Event : records[e] > 0 /\ e \notin processed =>
           e \in cut \/ \E q \in Pod : at[q] = "mark" /\ e \in batch[q]
    /\ \A p, q \in Pod : p # q /\ InHand(p) /\ InHand(q)
       => batch[p] \cap batch[q] \subseteq shared
    /\ \A p \in Pod : at[p] = "append" =>
           \A e \in batch[p] : records[e] > 0 => e \in shared \cup cut

IInv == TypeOK /\ BatchInv /\ ProcessedHasRecords /\ DuplicatesExplained /\ AppendedInv
   /\ OriginInv

\* What reads the types of a sweep that has ended.
LEMMA EndSweepType ==
    ASSUME TypeOK, NEW p \in Pod, EndSweep(p)
    PROVE  /\ at' \in [Pod -> {"idle", "append", "mark", "pairs", "load", "save"}]
           /\ batch' \in [Pod -> SUBSET Event] /\ todo' \in [Pod -> SUBSET Subject]
           /\ loaded' \in [Pod -> Copies] /\ subject' \in [Pod -> Subject]
BY DEF EndSweep, TypeOK, Copies, NoCopies, Subject

\* The subjects of events and the history of a subject have their types.
LEMMA DataTypes ==
    ASSUME TypeOK
    PROVE  /\ \A s : History(s) \in Copies
           /\ \A B : Pairs(B) \subseteq Subject
           /\ Oldest \subseteq raw \ processed
           /\ NoCopies \in Copies
BY DEF TypeOK, History, Copies, NoCopies, Pairs, Touched, SubjectsFor, Subject, Oldest,
       Unprocessed

\* Initially the invariant holds.
LEMMA InitInv == Init => IInv
<1> SUFFICES ASSUME Init PROVE IInv
  OBVIOUS
<1>1. TypeOK
  BY EvidenceAssumption DEF Init, TypeOK, Copies, NoCopies, Subject
<1>2. BatchInv /\ ProcessedHasRecords /\ DuplicatesExplained /\ AppendedInv
  BY DEF Init, BatchInv, ProcessedHasRecords, DuplicatesExplained, AppendedInv, NoCopies
<1>3. OriginInv
  BY DEF Init, OriginInv, InHand, NoCopies
<1> QED
  BY <1>1, <1>2, <1>3 DEF IInv

\* Every step keeps the types, and batches within what was captured.
LEMMA TypeStep == TypeOK /\ BatchInv /\ [Next]_vars => TypeOK' /\ BatchInv'
<1> SUFFICES ASSUME TypeOK, BatchInv, [Next]_vars PROVE TypeOK' /\ BatchInv'
  OBVIOUS
<1>1. ASSUME NEW e \in Event, Capture(e) PROVE TypeOK' /\ BatchInv'
  BY <1>1 DEF Capture, sweepVars, ghostVars, TypeOK, BatchInv
<1>2. ASSUME NEW p \in Pod, FindUnprocessed(p) PROVE TypeOK' /\ BatchInv'
  BY <1>2, DataTypes DEF FindUnprocessed, rawVars, TypeOK, BatchInv
<1>3. ASSUME NEW p \in Pod, AppendRecords(p) PROVE TypeOK' /\ BatchInv'
  BY <1>3 DEF AppendRecords, rawVars, ghostVars, TypeOK, Copies, BatchInv
<1>4. ASSUME NEW p \in Pod, MarkProcessed(p) PROVE TypeOK' /\ BatchInv'
  BY <1>4 DEF MarkProcessed, ghostVars, TypeOK, BatchInv
<1>5. ASSUME NEW p \in Pod, FindPairs(p) PROVE TypeOK' /\ BatchInv'
  <2>1. CASE EndSweep(p)
    BY <1>5, <2>1, EndSweepType DEF FindPairs, EndSweep, rawVars, ghostVars, TypeOK,
       BatchInv
  <2>2. CASE ~EndSweep(p)
    BY <1>5, <2>2, DataTypes DEF FindPairs, rawVars, ghostVars, TypeOK, BatchInv
  <2> QED
    BY <2>1, <2>2
<1>6. ASSUME NEW p \in Pod, NEW s \in Subject, LoadRecords(p, s) PROVE TypeOK' /\ BatchInv'
  BY <1>6, DataTypes DEF LoadRecords, rawVars, ghostVars, TypeOK, BatchInv
<1>7. ASSUME NEW p \in Pod, SaveAggregate(p) PROVE TypeOK' /\ BatchInv'
  <2>1. /\ aggregate' \in [Subject -> Copies] /\ unsafe' \subseteq Subject
        /\ UNCHANGED <<rawVars, records, breaks, cut, shared>>
    BY <1>7 DEF SaveAggregate, TypeOK
  <2>2. CASE todo[p] = {subject[p]}
    <3>1. EndSweep(p)
      BY <1>7, <2>2 DEF SaveAggregate
    <3> QED
      BY <2>1, <3>1, EndSweepType DEF EndSweep, rawVars, TypeOK, BatchInv
  <2>3. CASE todo[p] # {subject[p]}
    BY <1>7, <2>1, <2>3, DataTypes DEF SaveAggregate, rawVars, TypeOK, BatchInv, Subject
  <2> QED
    BY <2>2, <2>3
<1>8. ASSUME NEW p \in Pod, ScoreRejected(p) PROVE TypeOK' /\ BatchInv'
  <2>1. LeftStale(p) \subseteq Subject
    BY DataTypes DEF LeftStale, TypeOK
  <2>2. EndSweep(p)
    BY <1>8 DEF ScoreRejected
  <2> QED
    BY <1>8, <2>1, <2>2, EndSweepType DEF ScoreRejected, EndSweep, rawVars, TypeOK, BatchInv
<1>9. ASSUME NEW p \in Pod, Break(p) PROVE TypeOK' /\ BatchInv'
  <2>1. LeftStale(p) \subseteq Subject /\ LeftUnmarked(p) \subseteq Event
    BY DataTypes DEF LeftStale, LeftUnmarked, TypeOK
  <2>2. EndSweep(p)
    BY <1>9 DEF Break
  <2>3. breaks' \in 0..MaxBreaks
    BY <1>9, EvidenceAssumption DEF Break, TypeOK
  <2> QED
    BY <1>9, <2>1, <2>2, <2>3, EndSweepType DEF Break, EndSweep, rawVars, TypeOK, BatchInv
<1>10. CASE UNCHANGED vars
  BY <1>10 DEF vars, rawVars, sweepVars, ghostVars, TypeOK, BatchInv
<1> QED
  BY <1>1, <1>2, <1>3, <1>4, <1>5, <1>6, <1>7, <1>8, <1>9, <1>10 DEF Next, Sweep

\* A step that appends nothing and begins no sweep keeps what explains the
\* records, if batches only disappear with their sweep.
LEMMA Quiet ==
    ASSUME TypeOK, OriginInv, DuplicatesExplained, ProcessedHasRecords, AppendedInv,
           records' = records, processed' = processed, shared' = shared, cut \subseteq cut',
           \A q \in Pod : InHand(q)' => InHand(q) /\ at'[q] = at[q] /\ batch'[q] = batch[q],
           \A q \in Pod : at[q] = "mark" =>
               (at'[q] = "mark" /\ batch'[q] = batch[q]) \/ batch[q] \subseteq cut'
    PROVE  OriginInv' /\ DuplicatesExplained' /\ ProcessedHasRecords' /\ AppendedInv'
<1>1. ProcessedHasRecords' /\ DuplicatesExplained'
  BY DEF ProcessedHasRecords, DuplicatesExplained
<1>2. AppendedInv'
  BY DEF AppendedInv, InHand
<1>3. ASSUME NEW e \in Event, records'[e] > 0, e \notin processed'
      PROVE  e \in cut' \/ \E q \in Pod : at'[q] = "mark" /\ e \in batch'[q]
  BY <1>3 DEF OriginInv
<1>4. ASSUME NEW p \in Pod, NEW q \in Pod, p # q, InHand(p)', InHand(q)'
      PROVE  batch'[p] \cap batch'[q] \subseteq shared'
  BY <1>4 DEF OriginInv
<1>5. ASSUME NEW p \in Pod, at'[p] = "append", NEW e \in batch'[p], records'[e] > 0
      PROVE  e \in shared' \cup cut'
  BY <1>5 DEF OriginInv, InHand
<1> QED
  BY <1>1, <1>2, <1>3, <1>4, <1>5 DEF OriginInv

\* Every step keeps the rest of the invariant.
LEMMA OriginStep ==
    IInv /\ [Next]_vars => OriginInv' /\ DuplicatesExplained' /\ ProcessedHasRecords'
       /\ AppendedInv'
<1> DEFINE Kept == OriginInv' /\ DuplicatesExplained' /\ ProcessedHasRecords'
   /\ AppendedInv'
<1> SUFFICES ASSUME IInv, [Next]_vars PROVE Kept
  OBVIOUS
<1>0. TypeOK /\ BatchInv /\ OriginInv /\ DuplicatesExplained /\ ProcessedHasRecords
      /\ AppendedInv
  BY DEF IInv
<1>1. ASSUME NEW e \in Event, Capture(e) PROVE Kept
  BY <1>0, <1>1, Quiet DEF Capture, sweepVars, ghostVars, InHand
<1>2. ASSUME NEW p \in Pod, FindUnprocessed(p) PROVE Kept
  <2>1. /\ at[p] = "idle" /\ at' = [at EXCEPT ![p] = "append"]
        /\ batch' = [batch EXCEPT ![p] = Oldest]
        /\ shared' = shared \cup (Oldest \cap Taken(p))
        /\ records' = records /\ processed' = processed /\ cut' = cut
    BY <1>2 DEF FindUnprocessed, rawVars
  <2>2. \A q \in Pod : q # p /\ InHand(q) => Oldest \cap batch[q] \subseteq shared'
    BY <2>1 DEF Taken, InHand
  <2>3. \A q \in Pod : at'[q] = "mark" <=> at[q] = "mark"
    BY <1>0, <2>1 DEF TypeOK
  <2>4. ProcessedHasRecords' /\ DuplicatesExplained' /\ AppendedInv'
    BY <1>0, <2>1, <2>3 DEF ProcessedHasRecords, DuplicatesExplained, AppendedInv, TypeOK
  <2>5. ASSUME NEW e \in Event, records'[e] > 0, e \notin processed'
        PROVE  e \in cut' \/ \E q \in Pod : at'[q] = "mark" /\ e \in batch'[q]
    BY <1>0, <2>1, <2>3, <2>5 DEF OriginInv, TypeOK
  <2>6. ASSUME NEW q \in Pod, NEW r \in Pod, q # r, InHand(q)', InHand(r)'
        PROVE  batch'[q] \cap batch'[r] \subseteq shared'
    <3>1. CASE q # p /\ r # p
      BY <1>0, <2>1, <2>6, <3>1 DEF OriginInv, InHand, TypeOK
    <3>2. CASE q = p
      BY <1>0, <2>1, <2>2, <2>6, <3>2 DEF InHand, TypeOK
    <3>3. CASE r = p
      BY <1>0, <2>1, <2>2, <2>6, <3>3 DEF InHand, TypeOK
    <3> QED
      BY <3>1, <3>2, <3>3
  <2>7. ASSUME NEW q \in Pod, at'[q] = "append", NEW e \in batch'[q], records'[e] > 0
        PROVE  e \in shared' \cup cut'
    <3>1. CASE q # p
      BY <1>0, <2>1, <2>7, <3>1 DEF OriginInv, TypeOK
    <3>2. CASE q = p
      <4>1. e \in Oldest /\ e \in Event /\ e \notin processed
        BY <1>0, <2>1, <2>7, <3>2, DataTypes DEF TypeOK
      <4>2. e \in cut \/ \E r \in Pod : at[r] = "mark" /\ e \in batch[r]
        BY <1>0, <2>1, <2>7, <4>1 DEF OriginInv
      <4> QED
        BY <2>1, <2>2, <4>1, <4>2 DEF InHand
    <3> QED
      BY <3>1, <3>2
  <2> QED
    BY <2>4, <2>5, <2>6, <2>7 DEF OriginInv
<1>3. ASSUME NEW p \in Pod, AppendRecords(p) PROVE Kept
  <2>1. /\ at[p] = "append" /\ at' = [at EXCEPT ![p] = "mark"]
        /\ records' = [e \in Event |-> IF e \in batch[p] /\ Touched(e) # {}
                                       THEN records[e] + 1 ELSE records[e]]
        /\ batch' = batch /\ processed' = processed /\ shared' = shared /\ cut' = cut
    BY <1>3 DEF AppendRecords, rawVars, ghostVars
  <2>2. /\ records \in [Event -> Nat] /\ batch \in [Pod -> SUBSET Event]
        /\ processed \subseteq Event
    BY <1>0 DEF TypeOK, Copies
  <2>3. \A q \in Pod : q # p => at'[q] = at[q]
    BY <1>0, <2>1 DEF TypeOK
  <2>4. at'[p] = "mark"
    BY <1>0, <2>1 DEF TypeOK
  <2>5. \A e \in Event : /\ records[e] > 0 => records'[e] > 0
                         /\ e \in batch[p] /\ Touched(e) # {} => records'[e] > 0
                         /\ e \notin batch[p] => records'[e] = records[e]
    <3> SUFFICES ASSUME NEW e \in Event
                 PROVE  /\ records[e] > 0 => records'[e] > 0
                        /\ e \in batch[p] /\ Touched(e) # {} => records'[e] > 0
                        /\ e \notin batch[p] => records'[e] = records[e]
      OBVIOUS
    <3>1. records[e] \in Nat
      BY <2>2
    <3>2. CASE e \in batch[p] /\ Touched(e) # {}
      <4>1. records'[e] = records[e] + 1
        BY <2>1, <3>2
      <4> QED
        BY <3>1, <3>2, <4>1
    <3>3. CASE ~(e \in batch[p] /\ Touched(e) # {})
      BY <2>1, <3>3
    <3> QED
      BY <3>2, <3>3
  <2>6. ProcessedHasRecords'
    <3>1. ASSUME NEW e \in processed, Touched(e) # {} PROVE records'[e] > 0
      <4>1. e \in Event /\ records[e] > 0
        BY <1>0, <2>2, <3>1 DEF ProcessedHasRecords
      <4>2. records'[e] = IF e \in batch[p]
            /\ Touched(e) # {} THEN records[e] + 1 ELSE records[e]
        BY <2>1, <4>1
      <4>3. records[e] \in Nat
        BY <2>2, <4>1
      <4> QED
        BY <4>1, <4>2, <4>3
    <3> QED
      BY <2>1, <3>1 DEF ProcessedHasRecords, Touched, SubjectsFor
  <2>7. ASSUME NEW e \in Event, records'[e] > 1 PROVE e \in shared' \cup cut'
    <3>0. records[e] > 1 \/ (e \in batch[p] /\ records[e] > 0)
      <4>1. records[e] \in Nat
        BY <2>2
      <4>2. (records'[e] = records[e] + 1 /\ e \in batch[p]) \/ records'[e] = records[e]
        BY <2>1
      <4> QED
        BY <2>7, <4>1, <4>2
    <3>1. CASE records[e] > 1
      BY <1>0, <2>1, <3>1 DEF DuplicatesExplained
    <3>2. CASE e \in batch[p] /\ records[e] > 0
      BY <1>0, <2>1, <3>2 DEF OriginInv
    <3> QED
      BY <3>0, <3>1, <3>2
  <2>8. AppendedInv'
    BY <1>0, <2>1, <2>2, <2>3, <2>5 DEF AppendedInv, Touched, SubjectsFor
  <2>9. ASSUME NEW e \in Event, records'[e] > 0, e \notin processed'
        PROVE  e \in cut' \/ \E q \in Pod : at'[q] = "mark" /\ e \in batch'[q]
    <3>1. CASE e \in batch[p]
      BY <2>1, <2>4, <3>1
    <3>2. CASE e \notin batch[p]
      BY <1>0, <2>1, <2>3, <2>5, <2>9, <3>2 DEF OriginInv
    <3> QED
      BY <3>1, <3>2
  <2>10. ASSUME NEW q \in Pod, NEW r \in Pod, q # r, InHand(q)', InHand(r)'
         PROVE  batch'[q] \cap batch'[r] \subseteq shared'
    BY <1>0, <2>1, <2>3, <2>10 DEF OriginInv, InHand
  <2>11. ASSUME NEW q \in Pod, at'[q] = "append", NEW e \in batch'[q], records'[e] > 0
         PROVE  e \in shared' \cup cut'
    <3>1. q # p /\ at[q] = "append" /\ e \in Event
      BY <2>1, <2>2, <2>3, <2>4, <2>11
    <3>2. CASE e \in batch[p]
      BY <1>0, <2>1, <2>11, <3>1, <3>2 DEF OriginInv, InHand
    <3>3. CASE e \notin batch[p]
      BY <1>0, <2>1, <2>5, <2>11, <3>1, <3>3 DEF OriginInv
    <3> QED
      BY <3>2, <3>3
  <2> QED
    BY <2>6, <2>7, <2>8, <2>9, <2>10, <2>11 DEF OriginInv, DuplicatesExplained
<1>4. ASSUME NEW p \in Pod, MarkProcessed(p) PROVE Kept
  <2>1. /\ at[p] = "mark" /\ at' = [at EXCEPT ![p] = "pairs"]
        /\ processed' = processed \cup batch[p]
        /\ batch' = batch /\ records' = records /\ shared' = shared /\ cut' = cut
    BY <1>4 DEF MarkProcessed, ghostVars
  <2>2. \A q \in Pod : q # p => at'[q] = at[q]
    BY <1>0, <2>1 DEF TypeOK
  <2>3. at'[p] = "pairs"
    BY <1>0, <2>1 DEF TypeOK
  <2>4. ProcessedHasRecords'
    BY <1>0, <2>1 DEF ProcessedHasRecords, AppendedInv, Touched, SubjectsFor
  <2>5. DuplicatesExplained' /\ AppendedInv'
    BY <1>0, <2>1, <2>2, <2>3 DEF DuplicatesExplained, AppendedInv, Touched, SubjectsFor
  <2>6. OriginInv'
    BY <1>0, <2>1, <2>2, <2>3 DEF OriginInv, InHand
  <2> QED
    BY <2>4, <2>5, <2>6
<1>5. ASSUME NEW p \in Pod, FindPairs(p) PROVE Kept
  <2>1. /\ at[p] = "pairs" /\ \A q \in Pod : q # p => at'[q] = at[q] /\ batch'[q] = batch[q]
        /\ at'[p] \in {"idle", "load"}
        /\ records' = records /\ processed' = processed /\ shared' = shared /\ cut' = cut
    BY <1>0, <1>5 DEF FindPairs, EndSweep, rawVars, ghostVars, TypeOK
  <2> QED
    BY <1>0, <2>1, Quiet DEF InHand
<1>6. ASSUME NEW p \in Pod, NEW s \in Subject, LoadRecords(p, s) PROVE Kept
  <2>1. /\ at[p] = "load" /\ \A q \in Pod : q # p => at'[q] = at[q]
        /\ at'[p] = "save" /\ batch' = batch
        /\ records' = records /\ processed' = processed /\ shared' = shared /\ cut' = cut
    BY <1>0, <1>6 DEF LoadRecords, rawVars, ghostVars, TypeOK
  <2> QED
    BY <1>0, <2>1, Quiet DEF InHand
<1>7. ASSUME NEW p \in Pod, SaveAggregate(p) PROVE Kept
  <2>1. /\ at[p] = "save" /\ \A q \in Pod : q # p => at'[q] = at[q] /\ batch'[q] = batch[q]
        /\ at'[p] \in {"idle", "load"}
        /\ records' = records /\ processed' = processed /\ shared' = shared /\ cut' = cut
    BY <1>0, <1>7 DEF SaveAggregate, EndSweep, rawVars, TypeOK
  <2> QED
    BY <1>0, <2>1, Quiet DEF InHand
<1>8. ASSUME NEW p \in Pod, ScoreRejected(p) PROVE Kept
  <2>1. /\ at[p] = "save" /\ \A q \in Pod : q # p => at'[q] = at[q] /\ batch'[q] = batch[q]
        /\ at'[p] = "idle"
        /\ records' = records /\ processed' = processed /\ shared' = shared /\ cut' = cut
    BY <1>0, <1>8 DEF ScoreRejected, EndSweep, rawVars, TypeOK
  <2> QED
    BY <1>0, <2>1, Quiet DEF InHand
<1>9. ASSUME NEW p \in Pod, Break(p) PROVE Kept
  <2>1. /\ \A q \in Pod : q # p => at'[q] = at[q] /\ batch'[q] = batch[q]
        /\ at'[p] = "idle" /\ (at[p] = "mark" => batch[p] \subseteq cut')
        /\ records' = records /\ processed' = processed /\ shared' = shared
           /\ cut \subseteq cut'
    BY <1>0, <1>9 DEF Break, EndSweep, LeftUnmarked, rawVars, TypeOK
  <2> QED
    BY <1>0, <2>1, Quiet DEF InHand
<1>10. CASE UNCHANGED vars
  BY <1>0, <1>10, Quiet DEF vars, rawVars, sweepVars, ghostVars, InHand
<1> QED
  BY <1>1, <1>2, <1>3, <1>4, <1>5, <1>6, <1>7, <1>8, <1>9, <1>10 DEF Next, Sweep

\* The inductive invariant holds in every behaviour.
THEOREM Invariance == Spec => []IInv
<1>1. IInv /\ [Next]_vars => IInv'
  BY TypeStep, OriginStep DEF IInv
<1> QED
  BY InitInv, <1>1, PTL DEF Spec

\* Type correctness of the evidence backlog.
THEOREM TypeCorrect == Spec => []TypeOK
<1>1. IInv => TypeOK
  BY DEF IInv
<1> QED
  BY Invariance, <1>1, PTL

\* No event is marked processed before its records are stored, whatever
\* breaks, and however many pods sweep.
THEOREM NothingLost == Spec => []ProcessedHasRecords
<1>1. IInv => ProcessedHasRecords
  BY DEF IInv
<1> QED
  BY Invariance, <1>1, PTL

\* What is counted twice was shared by two sweeps or cut off by a break, for
\* any number of pods.
THEOREM TwiceForCause == Spec => []DuplicatesExplained
<1>1. IInv => DuplicatesExplained
  BY DEF IInv
<1> QED
  BY Invariance, <1>1, PTL
-----------------------------------------------------------------------------
(* An aggregate and the records behind it.  AggregateExplained is not      *)
(* inductive: a sweep about to save what it loaded before another append   *)
(* does not refresh anything.  Shows leaves such a sweep out; that its     *)
(* save is seen to be overtaken follows from what it loaded being no more  *)
(* than there is now.                                                      *)

\* Sweep p will yet make the aggregate of s what the history of s is now.
Shows(p, s) ==
    \/ at[p] \in {"mark", "pairs"} /\ s \in Pairs(batch[p])
    \/ /\ at[p] \in {"load", "save"} /\ s \in todo[p]
       /\ at[p] = "save" /\ subject[p] = s => loaded[p] = History(s)

\* What a sweep has loaded is of a subject it has yet to save, and records
\* have only been added since.
LoadInv ==
    \A p \in Pod : at[p] = "save" =>
        /\ subject[p] \in todo[p]
        /\ \A e \in Event : loaded[p][e] <= History(subject[p])[e]

\* An aggregate that is not the history has a sweep that shows it, or a reason.
StaleInv ==
    \A s \in Subject :
        aggregate[s] # History(s) => s \in unsafe \/ \E p \in Pod : Shows(p, s)

\* The records about a subject only grow.
LEMMA HistoryGrows ==
    ASSUME TypeOK, [Next]_vars, NEW s
    PROVE  \A e \in Event : /\ History(s)[e] \in Nat /\ History(s)'[e] \in Nat
                            /\ History(s)[e] <= History(s)'[e]
<1>1. /\ records \in [Event -> Nat]
      /\ records' = records \/ \E p \in Pod :
            records' = [e \in Event |-> IF e \in batch[p] /\ Touched(e) # {}
                                        THEN records[e] + 1 ELSE records[e]]
  BY DEF TypeOK, Copies, Next, Sweep, Capture, FindUnprocessed, AppendRecords,
         MarkProcessed,
         FindPairs, LoadRecords, SaveAggregate, ScoreRejected, Break, vars
<1>2. \A e \in Event : /\ records[e] \in Nat /\ records'[e] \in Nat
                       /\ records[e] <= records'[e]
  BY <1>1
<1>3. \A e \in Event : Touched(e)' = Touched(e)
  BY DEF Touched, SubjectsFor
<1> QED
  BY <1>2, <1>3 DEF History

\* While records stay, so do histories, and a sweep that stays shows what it did.
LEMMA ShowsSame ==
    ASSUME records' = records
    PROVE  /\ \A s : History(s)' = History(s)
           /\ \A q, s : /\ at'[q] = at[q] /\ batch'[q] = batch[q] /\ todo'[q] = todo[q]
                        /\ loaded'[q] = loaded[q] /\ subject'[q] = subject[q]
                        => (Shows(q, s)' <=> Shows(q, s))
<1>1. \A s : History(s)' = History(s)
  BY DEF History, Touched, SubjectsFor
<1>2. ASSUME NEW q, NEW s,
             /\ at'[q] = at[q] /\ batch'[q] = batch[q] /\ todo'[q] = todo[q]
             /\ loaded'[q] = loaded[q] /\ subject'[q] = subject[q]
      PROVE  Shows(q, s)' <=> Shows(q, s)
  <2>1. Pairs(batch[q])' = Pairs(batch[q])
    BY <1>2 DEF Pairs, Touched, SubjectsFor
  <2> QED
    BY <1>1, <1>2, <2>1 DEF Shows
<1> QED
  BY <1>1, <1>2

\* Only the pod that takes a step moves.
LEMMA OthersStay ==
    ASSUME TypeOK, NEW p \in Pod, Sweep(p) \/ Break(p)
    PROVE  \A q \in Pod \ {p} :
               /\ at'[q] = at[q] /\ batch'[q] = batch[q] /\ todo'[q] = todo[q]
               /\ loaded'[q] = loaded[q] /\ subject'[q] = subject[q]
BY DEF TypeOK, Sweep, FindUnprocessed, AppendRecords, MarkProcessed, FindPairs, LoadRecords,
       SaveAggregate, ScoreRejected, Break, EndSweep

\* A sweep never holds more than the history of a subject it has yet to save.
LEMMA LoadStep == ASSUME TypeOK, LoadInv, [Next]_vars PROVE LoadInv'
<1>1. ASSUME NEW q \in Pod, at'[q] = "save", at[q] = "save",
             todo'[q] = todo[q], loaded'[q] = loaded[q], subject'[q] = subject[q]
      PROVE  /\ subject'[q] \in todo'[q]
             /\ \A e \in Event : loaded'[q][e] <= History(subject[q])'[e]
  <2>1. subject[q] \in todo[q] /\ \A e \in Event : loaded[q][e] <= History(subject[q])[e]
    BY <1>1 DEF LoadInv
  <2>2. PICK s : s = subject[q] /\ s = subject'[q]
    BY <1>1
  <2>3. \A e \in Event : /\ History(s)[e] \in Nat /\ History(s)'[e] \in Nat
                         /\ History(s)[e] <= History(s)'[e]
    BY HistoryGrows
  <2>4. \A e \in Event : loaded[q][e] \in Nat
    BY DEF TypeOK, Copies
  <2>5. \A e \in Event : loaded[q][e] <= History(s)'[e]
    BY <2>1, <2>2, <2>3, <2>4
  <2>6. History(s)' = History(subject[q])'
    BY <2>2
  <2> QED
    BY <1>1, <2>1, <2>5, <2>6
<1>2. ASSUME NEW p \in Pod, Sweep(p) \/ Break(p), NEW q \in Pod \ {p}, at'[q] = "save"
      PROVE  /\ subject'[q] \in todo'[q]
             /\ \A e \in Event : loaded'[q][e] <= History(subject[q])'[e]
  BY <1>1, <1>2, OthersStay
<1>3. ASSUME NEW p \in Pod, NEW s \in Subject, LoadRecords(p, s) PROVE LoadInv'
  <2>1. /\ subject'[p] = s /\ todo'[p] = todo[p] /\ s \in todo[p]
        /\ loaded'[p] = History(s) /\ records' = records
    BY <1>3 DEF LoadRecords, TypeOK
  <2>2. History(s)' = History(s)
    BY <2>1, ShowsSame
  <2>3. \A e \in Event : History(s)[e] \in Nat
    BY HistoryGrows
  <2>4. History(subject[p])' = History(s)'
    BY <2>1
  <2>5. /\ subject'[p] \in todo'[p]
        /\ \A e \in Event : loaded'[p][e] <= History(subject[p])'[e]
    BY <2>1, <2>2, <2>3, <2>4
  <2> QED
    BY <1>2, <1>3, <2>5 DEF LoadInv, Sweep
<1>4. ASSUME NEW p \in Pod, Sweep(p) \/ Break(p), at'[p] # "save" PROVE LoadInv'
  BY <1>2, <1>4 DEF LoadInv
<1>5. ASSUME NEW p \in Pod, Sweep(p) \/ Break(p), \A s \in Subject : ~LoadRecords(p, s)
      PROVE  at'[p] # "save"
  BY <1>5 DEF TypeOK, Sweep, FindUnprocessed, AppendRecords, MarkProcessed, FindPairs,
              SaveAggregate, ScoreRejected, Break, EndSweep
<1>6. CASE UNCHANGED <<at, todo, loaded, subject>>
  BY <1>1, <1>6 DEF LoadInv
<1> QED
  BY <1>3, <1>4, <1>5, <1>6 DEF Next, Capture, vars, sweepVars

\* Every step keeps an aggregate that has drifted accounted for.
LEMMA StaleStep == ASSUME TypeOK, LoadInv, StaleInv, [Next]_vars PROVE StaleInv'
<1> DEFINE Good(s) == aggregate'[s] # History(s)'
   => s \in unsafe' \/ \E q \in Pod : Shows(q, s)'
<1> SUFFICES ASSUME NEW s \in Subject PROVE Good(s)
  BY DEF StaleInv
<1>i. aggregate[s] # History(s) => s \in unsafe \/ \E q \in Pod : Shows(q, s)
  BY DEF StaleInv
<1>1. ASSUME aggregate' = aggregate, records' = records, unsafe \subseteq unsafe',
             \A q \in Pod : Shows(q, s) => s \in unsafe' \/ Shows(q, s)'
      PROVE  Good(s)
  BY <1>i, <1>1, ShowsSame
<1>2. ASSUME NEW p \in Pod, Sweep(p) \/ Break(p), records' = records,
      aggregate' = aggregate,
             unsafe \subseteq unsafe', Shows(p, s) => s \in unsafe' \/ Shows(p, s)'
      PROVE  Good(s)
  <2>1. \A q \in Pod \ {p} : Shows(q, s)' <=> Shows(q, s)
    BY <1>2, ShowsSame, OthersStay
  <2> QED
    BY <1>1, <1>2, <2>1
<1>3. ASSUME NEW p \in Pod, FindUnprocessed(p) PROVE Good(s)
  <2>1. ~Shows(p, s)
    BY <1>3 DEF FindUnprocessed, Shows
  <2> QED
    BY <1>2, <1>3, <2>1 DEF FindUnprocessed, Sweep
<1>4. ASSUME NEW p \in Pod, AppendRecords(p) PROVE Good(s)
  <2>1. at'[p] = "mark" /\ batch' = batch
        /\ UNCHANGED <<aggregate, unsafe, todo, loaded, subject>>
    BY <1>4 DEF AppendRecords, ghostVars, TypeOK
  <2>2. CASE s \in Pairs(batch[p])
    <3>1. Pairs(batch[p])' = Pairs(batch[p])
      BY <2>1 DEF Pairs, Touched, SubjectsFor
    <3>2. Shows(p, s)'
      BY <2>1, <2>2, <3>1 DEF Shows
    <3> QED
      BY <3>2
  <2>3. CASE s \notin Pairs(batch[p])
    <3>1. History(s)' = History(s)
      <4>1. \A e \in Event : s \in Touched(e) => e \notin batch[p]
        BY <2>3 DEF Pairs
      <4>2. \A e \in Event : s \in Touched(e) => records'[e] = records[e]
        BY <1>4, <4>1 DEF AppendRecords
      <4>3. \A e \in Event : Touched(e)' = Touched(e)
        BY DEF Touched, SubjectsFor
      <4> QED
        BY <4>2, <4>3 DEF History
    <3>2. \A q \in Pod : Shows(q, s) => Shows(q, s)'
      <4>1. ~Shows(p, s)
        BY <1>4 DEF AppendRecords, Shows
      <4>2. ASSUME NEW q \in Pod, q # p, Shows(q, s) PROVE Shows(q, s)'
        <5>1. at'[q] = at[q]
          BY <1>4, <4>2 DEF AppendRecords, TypeOK
        <5>2. Pairs(batch[q])' = Pairs(batch[q])
          BY <2>1 DEF Pairs, Touched, SubjectsFor
        <5> QED
          BY <2>1, <3>1, <4>2, <5>1, <5>2 DEF Shows
      <4> QED
        BY <4>1, <4>2
    <3> QED
      BY <1>i, <2>1, <3>1, <3>2
  <2> QED
    BY <2>2, <2>3
<1>5. ASSUME NEW p \in Pod, MarkProcessed(p) PROVE Good(s)
  <2>1. Shows(p, s) => Shows(p, s)'
    <3>1. Pairs(batch[p])' = Pairs(batch[p])
      BY <1>5 DEF MarkProcessed, Pairs, Touched, SubjectsFor
    <3>2. at[p] = "mark" /\ at'[p] = "pairs"
      BY <1>5 DEF MarkProcessed, TypeOK
    <3> QED
      BY <3>1, <3>2 DEF Shows
  <2> QED
    BY <1>2, <1>5, <2>1 DEF MarkProcessed, Sweep, ghostVars
<1>6. ASSUME NEW p \in Pod, FindPairs(p) PROVE Good(s)
  <2>1. Shows(p, s) => Shows(p, s)'
    <3>1. at[p] = "pairs"
      BY <1>6 DEF FindPairs
    <3>2. CASE Pairs(batch[p]) = {}
      BY <3>1, <3>2 DEF Shows
    <3>3. CASE Pairs(batch[p]) # {}
      <4>1. at'[p] = "load" /\ todo'[p] = Pairs(batch[p])
        BY <1>6, <3>3 DEF FindPairs, TypeOK
      <4> QED
        BY <3>1, <4>1 DEF Shows
    <3> QED
      BY <3>2, <3>3
  <2> QED
    BY <1>2, <1>6, <2>1 DEF FindPairs, Sweep, ghostVars
<1>7. ASSUME NEW p \in Pod, NEW t \in Subject, LoadRecords(p, t) PROVE Good(s)
  <2>1. /\ at[p] = "load" /\ at'[p] = "save" /\ todo'[p] = todo[p]
        /\ loaded'[p] = History(t) /\ subject'[p] = t /\ records' = records
    BY <1>7 DEF LoadRecords, TypeOK
  <2>2. History(t)' = History(t) /\ History(s)' = History(s)
    BY <2>1, ShowsSame
  <2>3. Shows(p, s) => Shows(p, s)'
    BY <2>1, <2>2 DEF Shows
  <2> QED
    BY <1>2, <1>7, <2>3 DEF LoadRecords, Sweep, ghostVars
<1>8. ASSUME NEW p \in Pod, SaveAggregate(p) PROVE Good(s)
  <2>1. /\ at[p] = "save" /\ records' = records /\ unsafe \subseteq unsafe'
        /\ aggregate' = [aggregate EXCEPT ![subject[p]] = loaded[p]]
        /\ Overtaken(subject[p], loaded[p]) => subject[p] \in unsafe'
    BY <1>8 DEF SaveAggregate
  <2>2. History(s)' = History(s)
    BY <2>1, ShowsSame
  <2>3. \A q \in Pod \ {p} : Shows(q, s)' <=> Shows(q, s)
    BY <1>8, <2>1, ShowsSame, OthersStay DEF Sweep
  <2>4. CASE s = subject[p]
    <3>1. aggregate'[s] = loaded[p]
      BY <2>1, <2>4 DEF TypeOK
    <3>2. CASE loaded[p] = History(s)
      BY <2>2, <3>1, <3>2
    <3>3. CASE loaded[p] # History(s) /\ aggregate[s] = History(s)
      <4>1. PICK e \in Event : loaded[p][e] # History(s)[e]
        BY <3>3 DEF TypeOK, Copies, History
      <4>2. loaded[p][e] <= History(s)[e] /\ loaded[p][e] \in Nat /\ History(s)[e] \in Nat
        BY <2>1, <2>4, HistoryGrows DEF LoadInv, TypeOK, Copies
      <4>3. aggregate[s][e] > loaded[p][e]
        BY <3>3, <4>1, <4>2
      <4>4. s \in unsafe'
        BY <2>1, <2>4, <4>3 DEF Overtaken
      <4> QED
        BY <4>4
    <3>4. CASE loaded[p] # History(s) /\ aggregate[s] # History(s)
      <4>1. ~Shows(p, s)
        BY <2>1, <2>4, <3>4 DEF Shows
      <4> QED
        BY <1>i, <2>1, <2>3, <3>4, <4>1
    <3> QED
      BY <3>2, <3>3, <3>4
  <2>5. CASE s # subject[p]
    <3>1. aggregate'[s] = aggregate[s]
      BY <2>1, <2>5 DEF TypeOK
    <3>2. Shows(p, s) => Shows(p, s)'
      <4>1. CASE s \in todo[p]
        <5>1. at'[p] = "load" /\ s \in todo'[p]
          BY <1>8, <2>5, <4>1 DEF SaveAggregate, TypeOK
        <5> QED
          BY <5>1 DEF Shows
      <4>2. CASE s \notin todo[p]
        BY <2>1, <4>2 DEF Shows
      <4> QED
        BY <4>1, <4>2
    <3> QED
      BY <1>i, <2>1, <2>2, <2>3, <3>1, <3>2
  <2> QED
    BY <2>4, <2>5
<1>9. ASSUME NEW p \in Pod, ScoreRejected(p) \/ Break(p) PROVE Good(s)
  <2>1. Shows(p, s) => s \in LeftStale(p)
    BY DEF Shows, LeftStale
  <2>2. unsafe' = unsafe \cup LeftStale(p) /\ records' = records /\ aggregate' = aggregate
    BY <1>9 DEF ScoreRejected, Break
  <2> QED
    BY <1>2, <1>9, <2>1, <2>2 DEF Sweep
<1>10. CASE UNCHANGED <<records, aggregate, unsafe, at, batch, todo, loaded, subject>>
  BY <1>1, <1>10, ShowsSame
<1> QED
  BY <1>3, <1>4, <1>5, <1>6, <1>7, <1>8, <1>9, <1>10
     DEF Next, Sweep, Capture, vars, sweepVars, ghostVars

\* A score never drifts from the records behind it unnoticed, for any number
\* of pods, batch size and breaks.
THEOREM ScoresFollowRecords == Spec => []AggregateExplained
<1>1. Init => LoadInv /\ StaleInv
  <2> SUFFICES ASSUME Init PROVE LoadInv /\ StaleInv
    OBVIOUS
  <2>1. \A s : History(s) = NoCopies
    BY DEF Init, History, NoCopies
  <2> QED
    BY <2>1 DEF Init, LoadInv, StaleInv
<1>2. TypeOK /\ LoadInv /\ StaleInv /\ [Next]_vars => (LoadInv /\ StaleInv)'
  BY LoadStep, StaleStep
<1>3. LoadInv /\ StaleInv => AggregateExplained
  <2> SUFFICES ASSUME LoadInv, StaleInv, NEW s \in Subject, aggregate[s] # History(s)
               PROVE  s \in unsafe \/ \E p \in Pod : WillRefresh(p, s)
    BY DEF AggregateExplained
  <2>1. \A p \in Pod : Shows(p, s) => WillRefresh(p, s)
    BY DEF Shows, WillRefresh
  <2> QED
    BY <2>1 DEF StaleInv
<1> QED
  BY TypeCorrect, <1>1, <1>2, <1>3, PTL DEF Spec
-----------------------------------------------------------------------------
(* Model providers and failover. *)

\* A call that is at a provider is calling, and only such a call is a probe.
CallInv ==
    \A c \in Call : /\ status[c] = "calling" => place[c] \in Place /\ attempt[c] # 0
                    /\ status[c] # "calling" => place[c] = 0 /\ ~probing[c]

\* While probes are out and nobody else has reported, the circuit is half-open
\* and says so.
ProbeInv ==
    \A p \in Place : Probes(p) # {} /\ ~straggled[p] => probe[p] /\ circuit[p] = "elapsed"

\* The inductive invariant of the failover.
ChainInv == FailoverTypeOK /\ CallInv /\ ProbeInv /\ OneProbe

\* The places of the chain are natural numbers above 0, and each names a
\* provider.
LEMMA Places ==
    /\ Len(Chain) \in Nat
    /\ \A p \in Place :
          p \in Nat /\ p # 0 /\ p \in 0..Len(Chain) /\ Chain[p] \in Provider
BY FailoverAssumption DEF Place

\* Initially the invariant holds.
LEMMA FailoverInitInv == FailoverInit => ChainInv
<1> SUFFICES ASSUME FailoverInit PROVE ChainInv
  OBVIOUS
<1>1. FailoverTypeOK
  BY Places, FailoverAssumption DEF FailoverInit, FailoverTypeOK
<1>2. CallInv
  BY DEF FailoverInit, CallInv
<1>3. ProbeInv /\ OneProbe
  BY DEF FailoverInit, ProbeInv, OneProbe, Probes
<1> QED
  BY <1>1, <1>2, <1>3 DEF ChainInv

\* Where a call goes on to keeps the types, given that the flags have theirs.
LEMMA GoOnType ==
    ASSUME FailoverTypeOK,
           NEW c \in Call, NEW i, NEW flag \in [Place -> BOOLEAN], GoOn(c, i, flag)
    PROVE  /\ place' \in [Call -> 0..Len(Chain)] /\ attempt' \in [Call -> 0..MaxAttempts]
           /\ status' \in [Call -> {"none", "calling", "answered", "failed"}]
           /\ refused' \in [Call -> SUBSET Place]
           /\ probing' \in [Call -> BOOLEAN] /\ probe' \in [Place -> BOOLEAN]
<1>1. CASE Admit(c, i, flag)
  BY <1>1, Places, FailoverAssumption DEF Admit, FailoverTypeOK
<1>2. CASE Fail(c, i, flag)
  BY <1>2, Places, FailoverAssumption DEF Fail, FailoverTypeOK
<1> QED
  BY <1>1, <1>2 DEF GoOn

\* Where a call goes on to keeps the shape of the calls.
LEMMA GoOnCall ==
    ASSUME FailoverTypeOK, CallInv,
           NEW c \in Call, NEW i, NEW flag \in [Place -> BOOLEAN], GoOn(c, i, flag)
    PROVE  CallInv'
<1>1. CASE Admit(c, i, flag)
  BY <1>1, Places DEF Admit, FailoverTypeOK, CallInv
<1>2. CASE Fail(c, i, flag)
  BY <1>2, Places DEF Fail, FailoverTypeOK, CallInv
<1> QED
  BY <1>1, <1>2 DEF GoOn

\* Every step keeps the types.
LEMMA FailoverTypeStep == ChainInv /\ [FailoverNext]_failoverVars => FailoverTypeOK'
<1> SUFFICES ASSUME ChainInv, [FailoverNext]_failoverVars PROVE FailoverTypeOK'
  OBVIOUS
<1> USE Places, FailoverAssumption
<1>0. FailoverTypeOK /\ CallInv
  BY DEF ChainInv
<1>1. ASSUME NEW c \in Call, Begin(c) PROVE FailoverTypeOK'
  <2>1. probe \in [Place -> BOOLEAN]
    BY <1>0 DEF FailoverTypeOK
  <2> QED
    BY <1>0, <1>1, <2>1, GoOnType DEF Begin, FailoverTypeOK
<1>2. ASSUME NEW c \in Call, Answer(c) PROVE FailoverTypeOK'
  BY <1>0, <1>2 DEF Answer, Straggle, FailoverTypeOK, CallInv
<1>3. ASSUME NEW c \in Call, Retry(c) PROVE FailoverTypeOK'
  BY <1>0, <1>3 DEF Retry, HasAttempts, breakerVars, FailoverTypeOK
<1>4. ASSUME NEW c \in Call, GiveUp(c) PROVE FailoverTypeOK'
  <2>1. place[c] \in Place
    BY <1>0, <1>4 DEF GiveUp, CallInv
  <2>2. AfterFailure(place[c]) \in [Place -> BOOLEAN]
    BY <1>0, <2>1 DEF AfterFailure, FailoverTypeOK
  <2>3. GoOn(c, place[c], AfterFailure(place[c]))
    BY <1>4 DEF GiveUp
  <2>4. failures' \in [Place -> 0..Threshold]
    BY <1>0, <1>4, <2>1 DEF GiveUp, FailoverTypeOK
  <2>5. circuit' \in [Place -> {"closed", "open", "elapsed"}]
    BY <1>0, <1>4, <2>1 DEF GiveUp, FailoverTypeOK
  <2>6. straggled' \in [Place -> BOOLEAN]
    BY <1>0, <1>4, <2>1 DEF GiveUp, Straggle, FailoverTypeOK
  <2>7. up' = up
    BY <1>4 DEF GiveUp
  <2> QED
    BY <1>0, <2>2, <2>3, <2>4, <2>5, <2>6, <2>7, GoOnType DEF FailoverTypeOK
<1>5. ASSUME NEW c \in Call, Return(c) PROVE FailoverTypeOK'
  BY <1>0, <1>5 DEF Return, breakerVars, FailoverTypeOK
<1>6. ASSUME NEW p \in Place, Elapse(p) PROVE FailoverTypeOK'
  BY <1>0, <1>6 DEF Elapse, callVars, FailoverTypeOK
<1>7. ASSUME NEW p \in Place, Turn(p) PROVE FailoverTypeOK'
  BY <1>0, <1>7 DEF Turn, breakerVars, callVars, FailoverTypeOK
<1>8. CASE UNCHANGED failoverVars
  BY <1>0, <1>8 DEF failoverVars, breakerVars, callVars, FailoverTypeOK
<1> QED
  BY <1>1, <1>2, <1>3, <1>4, <1>5, <1>6, <1>7, <1>8 DEF FailoverNext

\* Every step keeps the shape of the calls.
LEMMA CallStep == ChainInv /\ [FailoverNext]_failoverVars => CallInv'
<1> SUFFICES ASSUME ChainInv, [FailoverNext]_failoverVars PROVE CallInv'
  OBVIOUS
<1> USE Places, FailoverAssumption
<1>0. FailoverTypeOK /\ CallInv
  BY DEF ChainInv
<1>1. ASSUME NEW c \in Call, Begin(c) PROVE CallInv'
  <2>1. probe \in [Place -> BOOLEAN]
    BY <1>0 DEF FailoverTypeOK
  <2> QED
    BY <1>0, <1>1, <2>1, GoOnCall DEF Begin
<1>2. ASSUME NEW c \in Call, Answer(c) PROVE CallInv'
  BY <1>0, <1>2 DEF Answer, FailoverTypeOK, CallInv
<1>3. ASSUME NEW c \in Call, Retry(c) PROVE CallInv'
  BY <1>0, <1>3 DEF Retry, FailoverTypeOK, CallInv
<1>4. ASSUME NEW c \in Call, GiveUp(c) PROVE CallInv'
  <2>1. place[c] \in Place
    BY <1>0, <1>4 DEF GiveUp, CallInv
  <2>2. AfterFailure(place[c]) \in [Place -> BOOLEAN]
    BY <1>0, <2>1 DEF AfterFailure, FailoverTypeOK
  <2>3. GoOn(c, place[c], AfterFailure(place[c]))
    BY <1>4 DEF GiveUp
  <2> QED
    BY <1>0, <2>2, <2>3, GoOnCall
<1>5. ASSUME NEW c \in Call, Return(c) PROVE CallInv'
  BY <1>0, <1>5 DEF Return, FailoverTypeOK, CallInv
<1>6. ASSUME NEW p \in Place, Elapse(p) PROVE CallInv'
  BY <1>0, <1>6 DEF Elapse, callVars, CallInv
<1>7. ASSUME NEW p \in Place, Turn(p) PROVE CallInv'
  BY <1>0, <1>7 DEF Turn, callVars, CallInv
<1>8. CASE UNCHANGED failoverVars
  BY <1>0, <1>8 DEF failoverVars, callVars, CallInv
<1> QED
  BY <1>1, <1>2, <1>3, <1>4, <1>5, <1>6, <1>7, <1>8 DEF FailoverNext

\* What one provider's part of the invariant says.
ProbeInvAt(p) ==
    /\ Probes(p) # {} /\ ~straggled[p] => probe[p] /\ circuit[p] = "elapsed"
    /\ \A c, d \in Probes(p) : c # d => straggled[p]

\* A call that goes on from place i leaves a provider that is not i alone, or
\* is admitted by it.
LEMMA GoOnElsewhere ==
    ASSUME FailoverTypeOK, CallInv,
           NEW c \in Call, NEW i, NEW flag \in [Place -> BOOLEAN],
           GoOn(c, i, flag), NEW p \in Place, place[c] # p,
           flag[p] = probe[p], ProbeInvAt(p),
           circuit'[p] = circuit[p], straggled'[p] = straggled[p]
    PROVE  ProbeInvAt(p)'
<1>1. CASE Admit(c, i, flag)
  <2>1. PICK t \in Place :
           /\ AllowRequest(t)
           /\ place' = [place EXCEPT ![c] = t]
           /\ probing' = [probing EXCEPT ![c] = circuit[t] # "closed"]
           /\ probe' = [flag EXCEPT ![t] = @ \/ circuit[t] # "closed"]
    BY <1>1 DEF Admit
  <2>2. CASE t # p
    <3>1. probe'[p] = probe[p]
      BY <2>1, <2>2
    <3>2. Probes(p)' = Probes(p)
      BY <2>1, <2>2 DEF Probes, FailoverTypeOK
    <3> QED
      BY <3>1, <3>2 DEF ProbeInvAt
  <2>3. CASE t = p /\ circuit[p] = "closed"
    <3>1. probe'[p] = probe[p]
      BY <2>1, <2>3 DEF FailoverTypeOK
    <3>2. Probes(p)' = Probes(p)
      BY <2>1, <2>3 DEF Probes, FailoverTypeOK
    <3> QED
      BY <3>1, <3>2 DEF ProbeInvAt
  <2>4. CASE t = p /\ circuit[p] # "closed"
    <3>1. circuit[p] = "elapsed" /\ ~probe[p]
      BY <2>1, <2>4 DEF AllowRequest
    <3>2. probe'[p]
      BY <2>1, <2>4
    <3>3. Probes(p)' = Probes(p) \cup {c}
      BY <2>1, <2>4 DEF Probes, FailoverTypeOK
    <3>4. Probes(p) = {} \/ straggled[p]
      BY <3>1 DEF ProbeInvAt
    <3> QED
      BY <3>1, <3>2, <3>3, <3>4 DEF ProbeInvAt
  <2> QED
    BY <2>2, <2>3, <2>4
<1>2. CASE Fail(c, i, flag)
  <2>1. probe'[p] = probe[p]
    BY <1>2 DEF Fail
  <2>2. Probes(p)' = Probes(p)
    BY <1>2, Places DEF Fail, Probes, FailoverTypeOK
  <2> QED
    BY <2>1, <2>2 DEF ProbeInvAt
<1> QED
  BY <1>1, <1>2 DEF GoOn

\* When a call reports on its provider and leaves it, either no probe is left
\* there, or somebody has reported before the probes that are left.
LEMMA Leaves ==
    ASSUME NEW c \in Call, NEW p \in Place, CallInv,
       straggled \in [Place -> BOOLEAN],
           probing \in [Call -> BOOLEAN],
           place[c] = p, ProbeInvAt(p), Straggle(c, p),
              Probes(p)' = Probes(p) \ {c}
    PROVE  ProbeInvAt(p)'
<1>1. straggled'[p] = (Probes(p) \ {c} # {} /\ (straggled[p] \/ ~probing[c]))
  BY DEF Straggle
<1>2. CASE Probes(p) \ {c} = {}
  BY <1>2 DEF ProbeInvAt
<1>3. CASE Probes(p) \ {c} # {} /\ probing[c]
  <2>1. c \in Probes(p)
    BY <1>3 DEF Probes
  <2>2. straggled[p]
    BY <1>3, <2>1 DEF ProbeInvAt
  <2> QED
    BY <1>1, <1>3, <2>2 DEF ProbeInvAt
<1>4. CASE Probes(p) \ {c} # {} /\ ~probing[c]
  BY <1>1, <1>4 DEF ProbeInvAt
<1> QED
  BY <1>2, <1>3, <1>4

\* Every step keeps what the flags and the probes say of each other.
LEMMA ProbeStep == ChainInv /\ [FailoverNext]_failoverVars => ProbeInv' /\ OneProbe'
<1> SUFFICES ASSUME ChainInv, [FailoverNext]_failoverVars, NEW p \in Place PROVE ProbeInvAt(p)'
  BY DEF ProbeInv, OneProbe, ProbeInvAt, Place
<1> USE Places
<1>0. FailoverTypeOK /\ CallInv /\ ProbeInvAt(p)
  BY DEF ChainInv, ProbeInv, OneProbe, ProbeInvAt
<1>1. ASSUME NEW c \in Call, Begin(c) PROVE ProbeInvAt(p)'
  <2>1. place[c] # p
    BY <1>0, <1>1 DEF Begin, CallInv
  <2>2. GoOn(c, 0, probe) /\ circuit' = circuit /\ straggled' = straggled
    BY <1>1 DEF Begin
  <2>3. probe \in [Place -> BOOLEAN]
    BY <1>0 DEF FailoverTypeOK
  <2> QED
    BY <1>0, <2>1, <2>2, <2>3, GoOnElsewhere
<1>2. ASSUME NEW c \in Call, Answer(c) PROVE ProbeInvAt(p)'
  <2>1. place[c] \in Place
    BY <1>0, <1>2 DEF Answer, CallInv
  <2>2. CASE place[c] = p
    <3>1. Probes(p)' = Probes(p) \ {c}
      BY <1>0, <1>2, <2>2 DEF Answer, Probes, FailoverTypeOK
    <3>2. Straggle(c, p)
      BY <1>2, <2>2 DEF Answer
    <3> QED
      BY <1>0, <2>2, <3>1, <3>2, Leaves DEF FailoverTypeOK
  <2>3. CASE place[c] # p
    <3>1. Probes(p)' = Probes(p)
      BY <1>0, <1>2, <2>3 DEF Answer, Probes, FailoverTypeOK
    <3>2. probe'[p] = probe[p] /\ circuit'[p] = circuit[p] /\ straggled'[p] = straggled[p]
      BY <1>0, <1>2, <2>1, <2>3 DEF Answer, Straggle, FailoverTypeOK
    <3> QED
      BY <1>0, <3>1, <3>2 DEF ProbeInvAt
  <2> QED
    BY <2>2, <2>3
<1>3. ASSUME NEW c \in Call, Retry(c) PROVE ProbeInvAt(p)'
  BY <1>0, <1>3 DEF Retry, breakerVars, ProbeInvAt, Probes
<1>4. ASSUME NEW c \in Call, GiveUp(c) PROVE ProbeInvAt(p)'
  <2> DEFINE from == place[c]
  <2>1. from \in Place
    BY <1>0, <1>4 DEF GiveUp, CallInv
  <2>2. GoOn(c, from, AfterFailure(from)) /\ Straggle(c, from)
    BY <1>4 DEF GiveUp
  <2>3. CASE from = p
    <3>1. Probes(p)' = Probes(p) \ {c}
      <4>1. CASE Admit(c, from, AfterFailure(from))
        BY <1>0, <2>3, <4>1 DEF Admit, Probes, FailoverTypeOK
      <4>2. CASE Fail(c, from, AfterFailure(from))
        BY <1>0, <2>3, <4>2 DEF Fail, Probes, FailoverTypeOK
      <4> QED
        BY <2>2, <4>1, <4>2 DEF GoOn
    <3> QED
      BY <1>0, <2>2, <2>3, <3>1, Leaves DEF FailoverTypeOK
  <2>4. CASE from # p
    <3>1. AfterFailure(from) \in [Place -> BOOLEAN]
          /\ AfterFailure(from)[p] = probe[p]
      BY <1>0, <2>1, <2>4 DEF AfterFailure, FailoverTypeOK
    <3>2. circuit'[p] = circuit[p] /\ straggled'[p] = straggled[p]
      BY <1>0, <1>4, <2>1, <2>4 DEF GiveUp, Straggle, FailoverTypeOK
    <3> QED
      BY <1>0, <2>2, <2>4, <3>1, <3>2, GoOnElsewhere
  <2> QED
    BY <2>3, <2>4
<1>5. ASSUME NEW c \in Call, Return(c) PROVE ProbeInvAt(p)'
  BY <1>0, <1>5 DEF Return, breakerVars, ProbeInvAt, Probes
<1>6. ASSUME NEW q \in Place, Elapse(q) PROVE ProbeInvAt(p)'
  BY <1>0, <1>6 DEF Elapse, callVars, ProbeInvAt, Probes, FailoverTypeOK
<1>7. ASSUME NEW q \in Place, Turn(q) PROVE ProbeInvAt(p)'
  BY <1>0, <1>7 DEF Turn, breakerVars, callVars, ProbeInvAt, Probes
<1>8. CASE UNCHANGED failoverVars
  BY <1>0, <1>8 DEF failoverVars, breakerVars, callVars, ProbeInvAt, Probes
<1> QED
  BY <1>1, <1>2, <1>3, <1>4, <1>5, <1>6, <1>7, <1>8 DEF FailoverNext

\* The inductive invariant of the failover model holds in every behaviour.
THEOREM FailoverInvariance == FailoverSpec => []ChainInv
<1>1. ChainInv /\ [FailoverNext]_failoverVars => ChainInv'
  BY FailoverTypeStep, CallStep, ProbeStep DEF ChainInv
<1> QED
  BY FailoverInitInv, <1>1, PTL DEF FailoverSpec

\* Type correctness of the failover model.
THEOREM FailoverTypeCorrect == FailoverSpec => []FailoverTypeOK
<1>1. ChainInv => FailoverTypeOK
  BY DEF ChainInv
<1> QED
  BY FailoverInvariance, <1>1, PTL

\* A half-open circuit has one probe out at a time, for any number of calls,
\* unless a call admitted before the circuit opened reports in between.
THEOREM ProbedOnce == FailoverSpec => []OneProbe
<1>1. ChainInv => OneProbe
  BY DEF ChainInv
<1> QED
  BY FailoverInvariance, <1>1, PTL
=============================================================================
