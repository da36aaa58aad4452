---------------------------- MODULE AccessControl ----------------------------
(***************************************************************************)
(* What tstlan/configs promises of its grants, without requests, rows or    *)
(* keys: each config has one owner and one access list, every operation on  *)
(* the list is a single step, and a config that was deleted stays deleted.  *)
(***************************************************************************)
CONSTANTS Users, ConfigIds, Absent

VARIABLES
    acl,   \* of each config its owner and the permission of every user
    used   \* the config ids handed out so far

vars == <<acl, used>>

Init ==
    /\ acl = [c \in ConfigIds |-> Absent]
    /\ used = {}

Create(c, u) ==
    /\ c \notin used
    /\ acl' = [acl EXCEPT ![c] =
          [owner |-> u, grants |-> [g \in Users |-> "none"]]]
    /\ used' = used \cup {c}

Delete(c) ==
    /\ acl[c] # Absent
    /\ acl' = [acl EXCEPT ![c] = Absent]
    /\ UNCHANGED used

(* A new grant, or another permission for one already given. *)
Grant(c, g, permission) ==
    /\ acl[c] # Absent
    /\ g # acl[c].owner
    /\ acl' = [acl EXCEPT ![c].grants[g] = permission]
    /\ UNCHANGED used

Revoke(c, g) ==
    /\ acl[c] # Absent
    /\ acl' = [acl EXCEPT ![c].grants[g] = "none"]
    /\ UNCHANGED used

Next ==
    \E c \in ConfigIds :
        \/ Delete(c)
        \/ \E u \in Users :
            \/ Create(c, u)
            \/ \E p \in {"read", "write"} : Grant(c, u, p)
            \/ Revoke(c, u)

Spec == Init /\ [][Next]_vars

=============================================================================
