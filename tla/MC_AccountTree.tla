--------------------------- MODULE MC_AccountTree ---------------------------
(***************************************************************************)
(* A book with two default expense roots and one default income root, and  *)
(* mutations that move the roots under each other, create children and     *)
(* carry bad payloads.                                                     *)
(***************************************************************************)
EXTENDS AccountTree, TLC

MCBody(id, op, type, parent, parse) ==
    [id |-> id, op |-> op, type |-> type, parent |-> parent, parse |-> parse]

MCDefaults ==
    [food   |-> [type |-> "expense", parent |-> Root],
     travel |-> [type |-> "expense", parent |-> Root],
     salary |-> [type |-> "income", parent |-> Root]]

MCMutations ==
    [foodUnderTravel |-> MCBody("food", "update", "expense", "travel", "OK"),
     travelUnderFood |-> MCBody("travel", "update", "expense", "food", "OK"),
     foodUnderSalary |-> MCBody("food", "update", "income", "salary", "OK"),
     teaUnderFood    |-> MCBody("tea", "create", "expense", "food", "OK"),
     teaUnderTravel  |-> MCBody("tea", "update", "income", "travel", "OK"),
     renameTea       |-> MCBody("tea", "update", "expense", Keep, "OK"),
     foodToRoot      |-> MCBody("food", "update", "expense", Root, "OK"),
     noName          |-> MCBody("tea", "create", "expense", Root,
                                "INVALID_PAYLOAD")]

MCMutationIds == DOMAIN MCMutations

MCSymmetry == Permutations(Handlers)
=============================================================================
