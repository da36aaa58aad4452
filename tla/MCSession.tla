------------------------------ MODULE MCSession ------------------------------
(* Instance of Session for TLC.                                             *)
EXTENDS Session, TLC

CONSTANTS ann, bob, tab1, tab2

Budget(opens, sends, faults) == [opens |-> opens, sends |-> sends, faults |-> faults]

(* Two tabs with a login each and two more requests; a reload or two and a  *)
(* fault.                                                                   *)
SomeBudgets == {Budget(2, 4, 0), Budget(3, 3, 0), Budget(2, 3, 1)}

Symmetric == Permutations({ann, bob}) \cup Permutations({tab1, tab2})

=============================================================================
