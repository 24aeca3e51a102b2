-------------------------- MODULE MCSearchWorkflow --------------------------
(***************************************************************************)
(* Four vendors: one that barely holds b1 and b3, is settled in their      *)
(* segment and has a record on b1; one settled in the other segment that   *)
(* barely holds b3 and is known overall; one convincing in b3; and one     *)
(* convincing in b1 and not listed yet.  Two cards and two holders per     *)
(* lookup, so that both limits bite, that of b3 among equals; two          *)
(* requests, so that what a search half did can be done again.  Segment s0 *)
(* is the one that every brick code begins with.                           *)
(***************************************************************************)
EXTENDS SearchWorkflow, TLC

CONSTANTS weak, other, near, unlisted

MCVendor == {weak, other, near, unlisted}
MCSegmentOf == "b1" :> "s1" @@ "b2" :> "s2" @@ "b3" :> "s1"
MCPrefixOf == [c \in Code |-> IF c \in Segment THEN c ELSE "s0"]

MCBelief ==
    LET none == [c \in Code |-> 0] IN
       weak :> [none EXCEPT !["b1"] = 20, !["b3"] = 20, !["s1"] = 30]
    @@ other :> [none EXCEPT !["b2"] = 60, !["s2"] = 40, !["b3"] = 20]
    @@ near :> [none EXCEPT !["b3"] = 80]
    @@ unlisted :> [none EXCEPT !["b1"] = 90, !["s1"] = 60]

MCRecord ==
       weak :> ("b1" :> [score |-> 60, confidence |-> 50])
    @@ other :> ("overall" :> [score |-> 80, confidence |-> 60])
    @@ near :> <<>> @@ unlisted :> <<>>
=============================================================================
