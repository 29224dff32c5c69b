-------------------------------- MODULE MCCompare --------------------------------
(***************************************************************************)
(* Compare on every plan of a few comparisons and a few items each.        *)
(***************************************************************************)
EXTENDS Compare, Functions

CONSTANTS MaxItems,  \* the items of one plan
          MaxTotal   \* the items of all plans

\* Incomparable nodes are compared no further.
ItemLists ==
  {<<[kind |-> "incomparable"]>>} \cup
  UNION {[1 .. n -> {[kind |-> "node diff"]}
                      \cup [kind : {"one-sided"}, to : OneSided]
                      \cup [kind : {"compare"}, to : Comparison]] : n \in 0 .. MaxItems}

Total(p) == SumFunction([c \in Comparison |-> Len(p[c].items)])

MCPlans == {p \in [Comparison -> [holds : {TRUE}, items : ItemLists]] :
              Total(p) <= MaxTotal}
================================================================================
