------------------------------ MODULE MCConfigs ------------------------------
(* Instances of Configs for TLC.                                            *)
EXTENDS Configs, TLC

CONSTANTS ana, bob, cat, n1, n2, p1, p2, r1, r2

(* ana may publish, bob and cat may not. *)
DevAndUsers == ana :> "dev" @@ bob :> "user" @@ cat :> "user"

DevAndUser == ana :> "dev" @@ bob :> "user"

Update(n, p, v) == [kind |-> "update", name |-> n, payload |-> p, visibility |-> v]
Share(g, p) == [kind |-> "share", grantee |-> g, permission |-> p]
Unshare(g) == [kind |-> "unshare", grantee |-> g]
Delete == [kind |-> "delete"]


(* The two accounts grant each other; edits of single fields, publication,  *)
(* withdrawal and deletion run beside the grants.                           *)
OpsConcurrent ==
    {Update(n2, Keep, Keep), Update(Keep, p2, Keep), Update(Keep, Keep, "public"),
     Update(Keep, Keep, "private"), Delete,
     Share(bob, "write"), Share(bob, "read"), Share(ana, "read"), Unshare(bob)}

(* Every operation on two grantees, a request at a time. *)
OpsSerial ==
    {Update(Keep, p2, Keep), Update(Keep, Keep, "public"),
     Update(Keep, Keep, "private"), Delete,
     Share(bob, "write"), Share(cat, "read"), Unshare(bob), Unshare(cat)}

(* Grants to two users and their withdrawal, for the keys SQLite reuses. *)
OpsOnGrants ==
    {Share(bob, "write"), Share(cat, "read"), Unshare(bob), Unshare(cat), Delete}

(* The request slots are interchangeable. *)
RequestSymmetry == Permutations({r1, r2})

=============================================================================
