--------------------------- MODULE MCMemoryStore ---------------------------
(***************************************************************************)
(* Three facts that meet in every way: two wordings of one favourite, firm *)
(* and casual, and a relationship.                                         *)
(***************************************************************************)
EXTENDS MemoryStore

MCFacts == {"pizza", "sushi", "mother"}

MCTypeOf == [f \in MCFacts |-> IF f = "mother" THEN "relationship" ELSE "favorite"]
MCWords  == [f \in MCFacts |-> IF f = "mother" THEN {"mother"} ELSE {"food"}]
MCTier   == [f \in MCFacts |-> IF f = "pizza" THEN 99 ELSE IF f = "sushi" THEN 40 ELSE 60]
MCPrecedence ==
    [f \in MCFacts |-> IF f = "mother" THEN 3 ELSE IF f = "pizza" THEN 14 ELSE 15]
=============================================================================
