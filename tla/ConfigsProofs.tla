----------------------------- MODULE ConfigsProofs -----------------------------
(* Theorems about Configs for every set of users, keys, requests and ops.     *)
EXTENDS Configs, TLAPS

----------------------------------------------------------------------------
(* What the helpers return. *)

(* The session's row is again a config row. *)
LEMMA WantedType ==
    ASSUME NEW q \in Request
    PROVE  Wanted(q) \in ConfigRow
<1>1. q.op \in Op /\ q.row \in ConfigRow
    BY ConfigsAssumption DEF Request
<1>2. ASSUME NEW row \in ConfigRow, NEW b \in BOOLEAN
      PROVE  Normalized(row, b) \in ConfigRow
    BY <1>2 DEF Normalized, NormalizedVisibility, ConfigRow, Visibilities
<1>3. CASE q.op.kind = "update"
    <2>1. q.op \in UpdateOp
        BY <1>1, <1>3 DEF Op, UpdateOp, DeleteOp, ShareOp, UnshareOp
    <2>2. Updated(q.op, q.row, q.grants) \in ConfigRow
        BY <1>1, <2>1
        DEF Updated, NormalizedVisibility, UpdateOp, ConfigRow, Visibilities
    <2> QED BY <1>3, <2>2 DEF Wanted
<1>4. CASE q.op.kind = "delete"
    BY <1>1, <1>4 DEF Wanted
<1>5. CASE q.op.kind = "share"
    BY <1>1, <1>2, <1>5 DEF Wanted
<1>6. CASE q.op.kind = "unshare"
    BY <1>1, <1>2, <1>6 DEF Wanted
<1>7. q.op.kind \in {"update", "delete", "share", "unshare"}
    BY <1>1 DEF Op, UpdateOp, DeleteOp, ShareOp, UnshareOp
<1> QED BY <1>3, <1>4, <1>5, <1>6, <1>7

(* A commit writes a well-formed row over a well-formed row, and never its   *)
(* owner.                                                                    *)
LEMMA MergedType ==
    ASSUME NEW q \in Request, NEW stored \in ConfigRow
    PROVE  /\ Merged(stored, q.row, Wanted(q)) \in ConfigRow
           /\ Merged(stored, q.row, Wanted(q)).owner = stored.owner
BY WantedType DEF Merged, Column, ConfigRow

(* A SELECT returns grants. *)
LEMMA GrantsOfType ==
    ASSUME shares \in Grants, NEW c
    PROVE  GrantsOf(c) \in Grants
BY DEF GrantsOf, Grants

(* The commits of a typed request keep the table of configs typed. *)
LEMMA WriteRowType ==
    ASSUME TypeOK, NEW q \in Request, RowWritable(q), WriteRow(q)
    PROVE  configs' \in [ConfigIds -> ConfigRow \cup {NoRow}]
<1>1. CASE Wanted(q) = q.row
    BY <1>1 DEF WriteRow, TypeOK
<1>2. CASE Wanted(q) # q.row
    <2>1. q.config \in ConfigIds /\ configs[q.config] \in ConfigRow
        BY <1>2 DEF RowWritable, Request, TypeOK
    <2>2. configs' = [configs EXCEPT
                ![q.config] = Merged(configs[q.config], q.row, Wanted(q))]
        BY <1>2 DEF WriteRow
    <2> QED BY <2>1, <2>2, MergedType DEF TypeOK
<1> QED BY <1>1, <1>2

----------------------------------------------------------------------------
(* Every reachable state is well typed: in particular a visibility is never  *)
(* the Keep of a request and a request commits only typed rows.              *)
LEMMA TypeStep ==
    ASSUME TypeOK, [Next]_vars
    PROVE  TypeOK'
<1> USE ConfigsAssumption
<1>0. ASSUME NEW r \in Requests, requests[r] # Idle
      PROVE  requests[r] \in Request
    BY <1>0 DEF TypeOK
<1>a. ASSUME NEW r \in Requests, Finish(r)
      PROVE  requests' \in [Requests -> Request \cup {Idle}]
    BY <1>a DEF Finish, TypeOK
<1>1. ASSUME NEW u \in Users, NEW n \in Names, NEW p \in Payloads,
             NEW v \in Visibilities, Create(u, n, p, v)
      PROVE  TypeOK'
    BY <1>1 DEF Create, TypeOK, Advanced, ConfigRow, Visibilities
<1>2. ASSUME NEW r \in Requests, NEW u \in Users, NEW op \in Ops,
             NEW c \in ConfigIds, LoadRow(r, u, op, c)
      PROVE  TypeOK'
    <2>1. configs[c] \in ConfigRow
        BY <1>2 DEF LoadRow, TypeOK
    <2>2. NoGrants \in Grants
        BY DEF NoGrants, Grants
    <2>3. [pc |-> "row", user |-> u, op |-> op, config |-> c,
           row |-> configs[c], grants |-> NoGrants] \in Request
        BY <2>1, <2>2 DEF Request
    <2> QED BY <1>2, <2>3 DEF LoadRow, TypeOK
<1>3. ASSUME NEW r \in Requests, LoadShares(r)
      PROVE  TypeOK'
    <2> DEFINE q == requests[r]
    <2>1. q \in Request
        BY <1>0, <1>3 DEF LoadShares
    <2>2. GrantsOf(q.config) \in Grants
        BY GrantsOfType DEF TypeOK
    <2>3. [q EXCEPT !.pc = "commit", !.grants = GrantsOf(q.config)] \in Request
        BY <2>1, <2>2 DEF Request
    <2> QED BY <1>3, <2>3 DEF LoadShares, TypeOK
<1>4. ASSUME NEW r \in Requests, CommitUpdate(r)
      PROVE  TypeOK'
    BY <1>0, <1>a, <1>4, WriteRowType DEF CommitUpdate, Committing, TypeOK
<1>5. ASSUME NEW r \in Requests, CommitDelete(r)
      PROVE  TypeOK'
    BY <1>0, <1>a, <1>5 DEF CommitDelete, Committing, TypeOK, Grants
<1>6. ASSUME NEW r \in Requests, CommitRegrant(r)
      PROVE  TypeOK'
    <2> DEFINE q == requests[r]
    <2>1. q \in Request /\ q.op \in ShareOp
        BY <1>0, <1>6
        DEF CommitRegrant, Committing, Request, Op, UpdateOp, DeleteOp, ShareOp,
            UnshareOp
    <2>2. shares' \in Grants
        BY <1>6, <2>1 DEF CommitRegrant, GrantWritable, WriteGrant, TypeOK,
            Grants, ShareRow, ShareOp, Permissions, Of
    <2> QED BY <1>6, <1>a, <2>1, <2>2, WriteRowType DEF CommitRegrant, TypeOK
<1>7. ASSUME NEW r \in Requests, CommitGrant(r)
      PROVE  TypeOK'
    <2> DEFINE q == requests[r]
    <2>1. q \in Request /\ q.op \in ShareOp
        BY <1>0, <1>7
        DEF CommitGrant, Committing, Request, Op, UpdateOp, DeleteOp, ShareOp,
            UnshareOp
    <2>2. [config |-> q.config, grantee |-> q.op.grantee,
           permission |-> q.op.permission] \in ShareRow
        BY <2>1 DEF Request, ShareOp, ShareRow
    <2>3. shares' \in Grants /\ lastShareId' \in Nat
        BY <1>7, <2>2 DEF CommitGrant, TypeOK, Grants, Advanced
    <2>4. RowWritable(q)
        BY <1>7 DEF CommitGrant, GrantInsertable, RowWritable
    <2> QED BY <1>7, <1>a, <2>1, <2>3, <2>4, WriteRowType DEF CommitGrant, TypeOK
<1>8. ASSUME NEW r \in Requests, CommitUnshare(r)
      PROVE  TypeOK'
    <2>1. requests[r] \in Request
        BY <1>0, <1>8 DEF CommitUnshare, Committing
    <2>2. shares' \in Grants
        BY <1>8 DEF CommitUnshare, TypeOK, Grants
    <2> QED BY <1>8, <1>a, <2>1, <2>2, WriteRowType DEF CommitUnshare, TypeOK
<1>9. ASSUME NEW r \in Requests, Rollback(r)
      PROVE  TypeOK'
    BY <1>9, <1>a DEF Rollback, TypeOK
<1>10. CASE UNCHANGED vars
    BY <1>10 DEF vars, TypeOK
<1> QED
    BY <1>1, <1>2, <1>3, <1>4, <1>5, <1>6, <1>7, <1>8, <1>9, <1>10 DEF Next

(* TypeOK holds in every reachable state. *)
THEOREM TypeCorrect == Spec => []TypeOK
<1>1. Init => TypeOK
    BY ConfigsAssumption DEF Init, TypeOK, Grants
<1>2. TypeOK /\ [Next]_vars => TypeOK'
    BY TypeStep
<1> QED BY <1>1, <1>2, PTL DEF Spec

----------------------------------------------------------------------------
(* Grants are unique and belong to a config, on either database.             *)

(* A commit that writes the config row neither makes nor removes a config.   *)
LEMMA WriteRowKeepsConfigs ==
    ASSUME TypeOK, NEW q \in Request, RowWritable(q), WriteRow(q)
    PROVE  \A c \in ConfigIds :
              /\ configs'[c] = NoRow <=> configs[c] = NoRow
              /\ configs[c] # NoRow => configs'[c].owner = configs[c].owner
<1>1. CASE Wanted(q) = q.row
    BY <1>1 DEF WriteRow
<1>2. CASE Wanted(q) # q.row
    <2>1. q.config \in ConfigIds /\ configs[q.config] \in ConfigRow
        BY <1>2 DEF RowWritable, Request, TypeOK
    <2>2. configs' = [configs EXCEPT
                ![q.config] = Merged(configs[q.config], q.row, Wanted(q))]
        BY <1>2 DEF WriteRow
    <2> QED BY <2>1, <2>2, MergedType, ConfigsAssumption DEF TypeOK
<1> QED BY <1>1, <1>2

(* The two constraints of config_shares. *)
GrantsInv == UniqueGrant /\ NoOrphanShare

LEMMA GrantsStep ==
    ASSUME TypeOK, GrantsInv, [Next]_vars
    PROVE  GrantsInv'
<1> USE ConfigsAssumption
<1>0. ASSUME NEW r \in Requests, requests[r] # Idle
      PROVE  /\ requests[r] \in Request
             /\ requests[r].config \in ConfigIds
             /\ requests[r].grants \in Grants
    BY <1>0 DEF TypeOK, Request
<1>a. ASSUME NEW r \in Requests, requests[r] # Idle, RowWritable(requests[r]),
             WriteRow(requests[r])
      PROVE  \A c \in ConfigIds : configs'[c] = NoRow <=> configs[c] = NoRow
    BY <1>a, <1>0, WriteRowKeepsConfigs
<1>t. \A i \in ShareIds : shares[i] # NoRow => shares[i].config \in ConfigIds
    BY DEF TypeOK, Grants, ShareRow
(* A step that adds no grant keeps the invariant if it keeps the configs of  *)
(* the grants it leaves.                                                     *)
<1>f. ASSUME \A i \in ShareIds : shares'[i] # NoRow =>
                /\ shares[i] # NoRow
                /\ shares'[i].config = shares[i].config
                /\ shares'[i].grantee = shares[i].grantee,
             \A i \in ShareIds : shares'[i] # NoRow
                => configs'[shares[i].config] # NoRow
      PROVE  GrantsInv'
    <2>1. ASSUME NEW i \in Rows', NEW j \in Rows',
                 shares'[i].config = shares'[j].config,
                 shares'[i].grantee = shares'[j].grantee
          PROVE  i = j
        <3>1. i \in Rows /\ j \in Rows
            BY <1>f, <2>1 DEF Rows
        <3> QED BY <1>f, <2>1, <3>1 DEF GrantsInv, UniqueGrant, Rows
    <2>2. ASSUME NEW i \in Rows'
          PROVE  configs'[shares'[i].config] # NoRow
        BY <1>f, <2>2 DEF Rows
    <2> QED BY <2>1, <2>2 DEF GrantsInv, UniqueGrant, NoOrphanShare
<1>h. \A i \in ShareIds : shares[i] # NoRow => configs[shares[i].config] # NoRow
    BY DEF GrantsInv, NoOrphanShare, Rows
<1>1. ASSUME NEW u \in Users, NEW n \in Names, NEW p \in Payloads,
             NEW v \in Visibilities, Create(u, n, p, v)
      PROVE  GrantsInv'
    <2>1. PICK c \in ConfigIds :
             configs' = [configs EXCEPT ![c] =
                [owner |-> u, name |-> n, payload |-> p,
                 visibility |-> IF v = "public" THEN "public" ELSE "private"]]
        BY <1>1 DEF Create
    <2>2. configs'[c] \in ConfigRow
        BY <2>1 DEF ConfigRow, Visibilities, TypeOK
    <2>3. \A d \in ConfigIds : configs[d] # NoRow => configs'[d] # NoRow
        BY <2>1, <2>2 DEF TypeOK
    <2>4. shares' = shares
        BY <1>1 DEF Create
    <2> QED BY <1>f, <1>h, <1>t, <2>3, <2>4
<1>4. ASSUME NEW r \in Requests, CommitUpdate(r)
      PROVE  GrantsInv'
    BY <1>4, <1>a, <1>f, <1>h, <1>t DEF CommitUpdate, Committing
<1>5. ASSUME NEW r \in Requests, CommitDelete(r)
      PROVE  GrantsInv'
    <2> DEFINE q == requests[r]
    <2>1. q.config \in ConfigIds
        BY <1>5, <1>0 DEF CommitDelete, Committing
    <2>2. \A i \in ShareIds : shares'[i] # NoRow =>
             /\ shares'[i] = shares[i]
             /\ shares[i].config # q.config
        BY <1>5 DEF CommitDelete, RemovedWith, GrantsOf
    <2>3. \A c \in ConfigIds : c # q.config => configs'[c] = configs[c]
        BY <1>5 DEF CommitDelete, TypeOK
    <2> QED BY <1>f, <1>h, <1>t, <2>1, <2>2, <2>3
<1>6. ASSUME NEW r \in Requests, CommitRegrant(r)
      PROVE  GrantsInv'
    <2> DEFINE q == requests[r]
    <2>1. PICK j \in Of(q.grants, q.op.grantee) :
             GrantWritable(q, j) /\ WriteGrant(q, j)
        BY <1>6 DEF CommitRegrant
    <2>2. \A i \in ShareIds :
             /\ shares'[i] = NoRow <=> shares[i] = NoRow
             /\ shares[i] # NoRow =>
                   /\ shares'[i].config = shares[i].config
                   /\ shares'[i].grantee = shares[i].grantee
        <3>1. CASE q.grants[j].permission = q.op.permission
            BY <2>1, <3>1 DEF WriteGrant
        <3>2. CASE q.grants[j].permission # q.op.permission
            <4>1. q.op.permission \in Permissions
                BY <1>0, <1>6
                DEF CommitRegrant, Committing, Request, Op, UpdateOp, DeleteOp,
                    ShareOp, UnshareOp
            <4>2. j \in ShareIds /\ shares[j] \in ShareRow
                BY <2>1, <3>2 DEF Of, GrantWritable, TypeOK, Grants
            <4>3. shares' = [shares EXCEPT ![j].permission = q.op.permission]
                BY <2>1, <3>2 DEF WriteGrant
            <4>4. /\ shares'[j] \in ShareRow
                  /\ shares'[j].config = shares[j].config
                  /\ shares'[j].grantee = shares[j].grantee
                BY <4>1, <4>2, <4>3 DEF ShareRow, TypeOK, Grants
            <4>5. \A i \in ShareIds : i # j => shares'[i] = shares[i]
                BY <4>3 DEF TypeOK, Grants
            <4> QED BY <4>2, <4>4, <4>5
        <3> QED BY <3>1, <3>2
    <2>3. \A c \in ConfigIds : configs'[c] = NoRow <=> configs[c] = NoRow
        BY <1>6, <1>a DEF CommitRegrant, Committing
    <2> QED BY <1>f, <1>h, <1>t, <2>2, <2>3
<1>7. ASSUME NEW r \in Requests, CommitGrant(r)
      PROVE  GrantsInv'
    <2> DEFINE q == requests[r]
               new == [config |-> q.config, grantee |-> q.op.grantee,
                       permission |-> q.op.permission]
    <2>1. PICK k \in ShareIds :
             shares[k] = NoRow /\ shares' = [shares EXCEPT ![k] = new]
        BY <1>7 DEF CommitGrant, NewId
    <2>2. q.config \in ConfigIds /\ configs[q.config] # NoRow
        BY <1>7, <1>0 DEF CommitGrant, Committing, GrantInsertable
    <2>3. \A i \in ShareIds :
             ~(/\ shares[i] # NoRow
               /\ shares[i].config = q.config
               /\ shares[i].grantee = q.op.grantee)
        BY <1>7 DEF CommitGrant, GrantInsertable, Of, GrantsOf
    <2>4. \A c \in ConfigIds : configs'[c] = NoRow <=> configs[c] = NoRow
        BY <1>7, <1>a, <2>2 DEF CommitGrant, Committing, RowWritable
    <2>5. /\ shares'[k] = new
          /\ \A i \in ShareIds : i # k => shares'[i] = shares[i]
        BY <2>1 DEF TypeOK, Grants
    <2>6. ASSUME NEW i \in Rows', NEW j \in Rows',
                 shares'[i].config = shares'[j].config,
                 shares'[i].grantee = shares'[j].grantee
          PROVE  i = j
        <3>1. i \in ShareIds /\ j \in ShareIds
            BY <2>6 DEF Rows
        <3>2. CASE i = k \/ j = k
            BY <2>3, <2>5, <2>6, <3>1, <3>2 DEF Rows
        <3>3. CASE i # k /\ j # k
            <4>1. shares[i] = shares'[i] /\ shares[j] = shares'[j]
                BY <2>5, <3>1, <3>3
            <4> QED BY <2>6, <4>1 DEF GrantsInv, UniqueGrant, Rows
        <3> QED BY <3>2, <3>3
    <2>7. ASSUME NEW i \in Rows'
          PROVE  configs'[shares'[i].config] # NoRow
        <3>1. i \in ShareIds
            BY <2>7 DEF Rows
        <3>2. CASE i = k
            <4>1. shares'[i].config = q.config
                BY <2>5, <3>2
            <4> QED BY <2>2, <2>4, <4>1
        <3>3. CASE i # k
            <4>1. shares[i] # NoRow /\ shares'[i].config = shares[i].config
                BY <2>5, <2>7, <3>1, <3>3 DEF Rows
            <4> QED BY <1>h, <1>t, <2>4, <3>1, <4>1
        <3> QED BY <3>2, <3>3
    <2> QED BY <2>6, <2>7 DEF GrantsInv, UniqueGrant, NoOrphanShare
<1>8. ASSUME NEW r \in Requests, CommitUnshare(r)
      PROVE  GrantsInv'
    <2>1. \A i \in ShareIds : shares'[i] # NoRow => shares'[i] = shares[i]
        BY <1>8 DEF CommitUnshare, TypeOK, Grants, Of
    <2>2. \A c \in ConfigIds : configs'[c] = NoRow <=> configs[c] = NoRow
        BY <1>8, <1>a DEF CommitUnshare, Committing
    <2> QED BY <1>f, <1>h, <1>t, <2>1, <2>2
<1>9. ASSUME UNCHANGED <<configs, shares>>
      PROVE  GrantsInv'
    BY <1>9, <1>f, <1>h
<1>10. ASSUME NEW r \in Requests, LoadShares(r) \/ Rollback(r)
       PROVE  GrantsInv'
    BY <1>9, <1>10 DEF LoadShares, Rollback
<1>11. ASSUME NEW r \in Requests, NEW u \in Users, NEW op \in Ops,
              NEW c \in ConfigIds, LoadRow(r, u, op, c)
       PROVE  GrantsInv'
    BY <1>9, <1>11 DEF LoadRow
<1>12. CASE UNCHANGED vars
    BY <1>9, <1>12 DEF vars
<1> QED
    BY <1>1, <1>4, <1>5, <1>6, <1>7, <1>8, <1>10, <1>11, <1>12 DEF Next

LEMMA GrantsInvariant == Spec => []GrantsInv
<1>1. Init => GrantsInv
    BY DEF Init, GrantsInv, UniqueGrant, NoOrphanShare, Rows
<1>2. TypeOK /\ GrantsInv /\ [Next]_vars => GrantsInv'
    BY GrantsStep
<1> QED BY <1>1, <1>2, TypeCorrect, PTL DEF Spec

(* Two grants on one config never have the same grantee, on SQLite and on    *)
(* PostgreSQL, for any number of requests in flight.                         *)
THEOREM GrantsAreUnique == Spec => []UniqueGrant
<1>1. GrantsInv => UniqueGrant
    BY DEF GrantsInv
<1> QED BY <1>1, GrantsInvariant, PTL

(* No grant outlives its config, whichever of a share and a delete commits   *)
(* first.                                                                    *)
THEOREM GrantsHaveConfigs == Spec => []NoOrphanShare
<1>1. GrantsInv => NoOrphanShare
    BY DEF GrantsInv
<1> QED BY <1>1, GrantsInvariant, PTL

(* Types, one grant for a user and no grant without its config, whatever    *)
(* requests overlap, on either database.                                    *)
THEOREM RowsAreSound == Spec => []RowsSound
<1>1. TypeOK /\ UniqueGrant /\ NoOrphanShare => RowsSound
    BY DEF RowsSound
<1> QED BY <1>1, TypeCorrect, GrantsAreUnique, GrantsHaveConfigs, PTL

-----------------------------------------------------------------------------
(* On PostgreSQL, where a key is never handed out twice, Configs implements   *)
(* AccessControl for any number of requests in flight.                        *)

Sequenced == Database = "postgresql"

(* The keys in use were handed out. *)
KeysIssued ==
    /\ \A c \in ConfigIds : configs[c] # NoRow => c <= lastConfigId
    /\ \A i \in ShareIds : shares[i] # NoRow => i <= lastShareId

(* What holds of a request in flight: the keys it loaded were handed out,    *)
(* what is left under them is what it loaded, and if it is about to commit   *)
(* it passed its checks.                                                     *)
Consistent(q) ==
    /\ q.config <= lastConfigId
    /\ configs[q.config] # NoRow => configs[q.config].owner = q.row.owner
    /\ \A i \in ShareIds : q.grants[i] # NoRow =>
          /\ i <= lastShareId
          /\ shares[i] # NoRow => /\ shares[i].config = q.config
                                  /\ shares[i].grantee = q.grants[i].grantee
    /\ q.pc = "commit" => Permitted(q.user, q.op, q.row, q.grants)

RequestsConsistent ==
    \A r \in Requests : requests[r] # Idle => Consistent(requests[r])

SnapshotInv == KeysIssued /\ RequestsConsistent /\ OwnerNeverGrantee

(* How one step may change the tables. *)
ConfigMoves ==
    /\ lastConfigId <= lastConfigId'
    /\ \A c \in ConfigIds : configs'[c] # NoRow =>
          \/ configs[c] # NoRow /\ configs'[c].owner = configs[c].owner
          \/ lastConfigId < c /\ c <= lastConfigId'

ShareMoves ==
    /\ lastShareId <= lastShareId'
    /\ \A i \in ShareIds : shares'[i] # NoRow =>
          \/ /\ shares[i] # NoRow
             /\ shares'[i].config = shares[i].config
             /\ shares'[i].grantee = shares[i].grantee
          \/ lastShareId < i /\ i <= lastShareId'

----------------------------------------------------------------------------
(* An UPDATE of a grant changes its permission and nothing else.             *)
LEMMA WriteGrantKeepsRow ==
    ASSUME TypeOK, NEW q \in Request, q.op \in ShareOp, NEW j \in ShareIds,
           GrantWritable(q, j), WriteGrant(q, j)
    PROVE  /\ \A i \in ShareIds : i # j => shares'[i] = shares[i]
           /\ shares'[j] = NoRow <=> shares[j] = NoRow
           /\ shares[j] # NoRow =>
                 /\ shares'[j].config = shares[j].config
                 /\ shares'[j].grantee = shares[j].grantee
           /\ shares' # shares => shares[j] # NoRow
                                  /\ shares'[j].permission = q.op.permission
<1>1. CASE q.grants[j].permission = q.op.permission
    BY <1>1 DEF WriteGrant
<1>2. CASE q.grants[j].permission # q.op.permission
    <2>1. shares[j] \in ShareRow
        BY <1>2 DEF GrantWritable, TypeOK, Grants
    <2>2. shares' = [shares EXCEPT ![j].permission = q.op.permission]
        BY <1>2 DEF WriteGrant
    <2>3. q.op.permission \in Permissions
        BY DEF ShareOp
    <2>4. /\ shares'[j] \in ShareRow
          /\ shares'[j].config = shares[j].config
          /\ shares'[j].grantee = shares[j].grantee
          /\ shares'[j].permission = q.op.permission
        BY <2>1, <2>2, <2>3 DEF ShareRow, TypeOK, Grants
    <2>5. \A i \in ShareIds : i # j => shares'[i] = shares[i]
        BY <2>2 DEF TypeOK, Grants
    <2> QED BY <2>1, <2>4, <2>5, ConfigsAssumption
<1> QED BY <1>1, <1>2

(* The request that a slot holds, and its op by kind. *)
LEMMA RequestType ==
    ASSUME TypeOK, NEW r \in Requests, requests[r] # Idle
    PROVE  /\ requests[r] \in Request
           /\ requests[r].config \in ConfigIds
           /\ requests[r].row \in ConfigRow
           /\ requests[r].grants \in Grants
           /\ requests[r].op.kind = "share" => requests[r].op \in ShareOp
           /\ requests[r].op.kind = "unshare" => requests[r].op \in UnshareOp
<1>1. requests[r] \in Request
    BY DEF TypeOK
<1>2. requests[r].op \in Op
    BY <1>1, ConfigsAssumption DEF Request
<1> QED BY <1>1, <1>2 DEF Request, Op, UpdateOp, DeleteOp, ShareOp, UnshareOp

LEMMA StepMoves ==
    ASSUME TypeOK, Sequenced, [Next]_vars
    PROVE  ConfigMoves /\ ShareMoves
<1> USE ConfigsAssumption
<1>0. /\ ConfigIds \subseteq Nat /\ ShareIds \subseteq Nat
      /\ lastConfigId \in Nat /\ lastShareId \in Nat
    BY DEF TypeOK
<1>c. ASSUME UNCHANGED lastConfigId,
             \A c \in ConfigIds : configs'[c] # NoRow =>
                configs[c] # NoRow /\ configs'[c].owner = configs[c].owner
      PROVE  ConfigMoves
    BY <1>c, <1>0 DEF ConfigMoves
<1>s. ASSUME UNCHANGED lastShareId,
             \A i \in ShareIds : shares'[i] # NoRow =>
                /\ shares[i] # NoRow
                /\ shares'[i].config = shares[i].config
                /\ shares'[i].grantee = shares[i].grantee
      PROVE  ShareMoves
    BY <1>s, <1>0 DEF ShareMoves
<1>w. ASSUME NEW r \in Requests, requests[r] # Idle, RowWritable(requests[r]),
             WriteRow(requests[r]), UNCHANGED lastConfigId
      PROVE  ConfigMoves
    BY <1>w, <1>c, RequestType, WriteRowKeepsConfigs
<1>1. ASSUME NEW u \in Users, NEW n \in Names, NEW p \in Payloads,
             NEW v \in Visibilities, Create(u, n, p, v)
      PROVE  ConfigMoves /\ ShareMoves
    <2>1. PICK c \in ConfigIds :
            /\ c = lastConfigId + 1
            /\ configs' = [configs EXCEPT ![c] =
                [owner |-> u, name |-> n, payload |-> p,
                 visibility |-> IF v = "public" THEN "public" ELSE "private"]]
            /\ lastConfigId' = c
        BY <1>1 DEF Create, NewId, Advanced, Sequenced
    <2>2. \A d \in ConfigIds : d # c => configs'[d] = configs[d]
        BY <2>1 DEF TypeOK
    <2>3. ConfigMoves
        BY <1>0, <2>1, <2>2 DEF ConfigMoves
    <2> QED BY <2>3, <1>1, <1>s DEF Create
<1>4. ASSUME NEW r \in Requests, CommitUpdate(r)
      PROVE  ConfigMoves /\ ShareMoves
    BY <1>4, <1>w, <1>s DEF CommitUpdate, Committing
<1>5. ASSUME NEW r \in Requests, CommitDelete(r)
      PROVE  ConfigMoves /\ ShareMoves
    <2>1. \A c \in ConfigIds : configs'[c] # NoRow => configs'[c] = configs[c]
        BY <1>5 DEF CommitDelete, TypeOK
    <2>2. \A i \in ShareIds : shares'[i] # NoRow => shares'[i] = shares[i]
        BY <1>5 DEF CommitDelete
    <2> QED BY <1>5, <2>1, <2>2, <1>c, <1>s DEF CommitDelete
<1>6. ASSUME NEW r \in Requests, CommitRegrant(r)
      PROVE  ConfigMoves /\ ShareMoves
    <2> DEFINE q == requests[r]
    <2>1. q \in Request /\ q.op \in ShareOp
        BY <1>6, RequestType DEF CommitRegrant, Committing
    <2>2. PICK j \in ShareIds : GrantWritable(q, j) /\ WriteGrant(q, j)
        BY <1>6 DEF CommitRegrant, Of
    <2>3. ShareMoves
        BY <1>6, <1>s, <2>1, <2>2, WriteGrantKeepsRow DEF CommitRegrant
    <2> QED BY <1>6, <1>w, <2>3 DEF CommitRegrant, Committing
<1>7. ASSUME NEW r \in Requests, CommitGrant(r)
      PROVE  ConfigMoves /\ ShareMoves
    <2>1. PICK k \in ShareIds :
            /\ k = lastShareId + 1
            /\ lastShareId' = k
            /\ \E row : shares' = [shares EXCEPT ![k] = row]
        BY <1>7 DEF CommitGrant, NewId, Advanced, Sequenced
    <2>2. \A i \in ShareIds : i # k => shares'[i] = shares[i]
        BY <2>1 DEF TypeOK, Grants
    <2>3. ShareMoves
        BY <1>0, <2>1, <2>2 DEF ShareMoves
    <2> QED BY <1>7, <1>w, <2>3
            DEF CommitGrant, Committing, GrantInsertable, RowWritable
<1>8. ASSUME NEW r \in Requests, CommitUnshare(r)
      PROVE  ConfigMoves /\ ShareMoves
    <2>1. \A i \in ShareIds : shares'[i] # NoRow => shares'[i] = shares[i]
        BY <1>8 DEF CommitUnshare, TypeOK, Grants, Of
    <2> QED BY <1>8, <1>w, <1>s, <2>1 DEF CommitUnshare, Committing
<1>9. ASSUME UNCHANGED <<configs, shares, lastConfigId, lastShareId>>
      PROVE  ConfigMoves /\ ShareMoves
    BY <1>9, <1>c, <1>s
<1>10. ASSUME NEW r \in Requests, LoadShares(r) \/ Rollback(r)
       PROVE  ConfigMoves /\ ShareMoves
    BY <1>9, <1>10 DEF LoadShares, Rollback
<1>11. ASSUME NEW r \in Requests, NEW u \in Users, NEW op \in Ops,
              NEW c \in ConfigIds, LoadRow(r, u, op, c)
       PROVE  ConfigMoves /\ ShareMoves
    BY <1>9, <1>11 DEF LoadRow
<1>12. CASE UNCHANGED vars
    BY <1>9, <1>12 DEF vars
<1> QED
    BY <1>1, <1>4, <1>5, <1>6, <1>7, <1>8, <1>10, <1>11, <1>12 DEF Next

----------------------------------------------------------------------------
(* A request stays consistent while others change the tables.                *)
LEMMA ConsistentStep ==
    ASSUME TypeOK, TypeOK', ConfigMoves, ShareMoves
    PROVE  \A q \in Request : Consistent(q) => Consistent(q)'
<1> SUFFICES ASSUME NEW q \in Request, Consistent(q)
             PROVE  Consistent(q)'
    OBVIOUS
<1>0. /\ q.config \in ConfigIds /\ q.config \in Nat
      /\ ConfigIds \subseteq Nat /\ ShareIds \subseteq Nat
      /\ lastConfigId \in Nat /\ lastShareId \in Nat
      /\ lastConfigId' \in Nat /\ lastShareId' \in Nat
    BY ConfigsAssumption DEF TypeOK, Request
<1>1. q.config <= lastConfigId'
    <2>1. q.config <= lastConfigId /\ lastConfigId <= lastConfigId'
        BY DEF Consistent, ConfigMoves
    <2> QED BY <1>0, <2>1
<1>2. ASSUME configs'[q.config] # NoRow
      PROVE  configs'[q.config].owner = q.row.owner
    <2>1. ~(lastConfigId < q.config)
        BY <1>0 DEF Consistent
    <2>2. /\ configs[q.config] # NoRow
          /\ configs'[q.config].owner = configs[q.config].owner
        BY <1>0, <1>2, <2>1 DEF ConfigMoves
    <2> QED BY <2>2 DEF Consistent
<1>3. ASSUME NEW i \in ShareIds, q.grants[i] # NoRow
      PROVE  /\ i <= lastShareId'
             /\ shares'[i] # NoRow => /\ shares'[i].config = q.config
                                      /\ shares'[i].grantee = q.grants[i].grantee
    BY <1>0, <1>3 DEF Consistent, ShareMoves
<1> QED BY <1>1, <1>2, <1>3 DEF Consistent

LEMMA RequestsStep ==
    ASSUME TypeOK, TypeOK', SnapshotInv, Sequenced, [Next]_vars
    PROVE  RequestsConsistent'
<1> SUFFICES ASSUME NEW s \in Requests, requests'[s] # Idle
             PROVE  Consistent(requests[s])'
    BY DEF RequestsConsistent
<1>0. \A q \in Request : Consistent(q) => Consistent(q)'
    BY StepMoves, ConsistentStep
<1>k. ASSUME requests'[s] = requests[s]
      PROVE  Consistent(requests[s])'
    <2>1. PICK q \in Request : q = requests[s]
        BY <1>k, RequestType
    <2>2. Consistent(q)
        BY <1>k, <2>1 DEF SnapshotInv, RequestsConsistent
    <2> QED BY <1>0, <1>k, <2>1, <2>2 DEF Consistent
<1>f. ASSUME NEW r \in Requests, Finish(r)
      PROVE  requests'[s] = requests[s]
    BY <1>f DEF Finish, TypeOK
<1>1. ASSUME NEW u \in Users, NEW n \in Names, NEW p \in Payloads,
             NEW v \in Visibilities, Create(u, n, p, v)
      PROVE  Consistent(requests[s])'
    BY <1>1, <1>k DEF Create
<1>2. ASSUME NEW r \in Requests, NEW u \in Users, NEW op \in Ops,
             NEW c \in ConfigIds, LoadRow(r, u, op, c)
      PROVE  Consistent(requests[s])'
    <2>1. CASE s = r
        <3>1. requests'[s] = [pc |-> "row", user |-> u, op |-> op, config |-> c,
                              row |-> configs[c], grants |-> NoGrants]
            BY <1>2, <2>1 DEF LoadRow, TypeOK
        <3>2. /\ requests'[s].pc = "row"
              /\ requests'[s].config = c
              /\ requests'[s].row = configs[c]
              /\ \A i \in ShareIds : requests'[s].grants[i] = NoRow
            BY <3>1 DEF NoGrants
        <3>3. /\ UNCHANGED <<configs, shares, lastConfigId, lastShareId>>
              /\ c <= lastConfigId
            BY <1>2 DEF LoadRow, SnapshotInv, KeysIssued
        <3> QED BY <3>2, <3>3 DEF Consistent
    <2>2. CASE s # r
        BY <1>2, <1>k, <2>2 DEF LoadRow, TypeOK
    <2> QED BY <2>1, <2>2
<1>3. ASSUME NEW r \in Requests, LoadShares(r)
      PROVE  Consistent(requests[s])'
    <2> DEFINE q == requests[r]
               grants == GrantsOf(q.config)
    <2>1. CASE s = r
        <3>1. /\ Permitted(q.user, q.op, q.row, grants)
              /\ requests'[s] = [q EXCEPT !.pc = "commit", !.grants = grants]
            BY <1>3, <2>1 DEF LoadShares, TypeOK
        <3>2. q \in Request
            BY <1>3, RequestType DEF LoadShares
        <3>3. /\ requests'[s].pc = "commit"
              /\ requests'[s].user = q.user
              /\ requests'[s].op = q.op
              /\ requests'[s].config = q.config
              /\ requests'[s].row = q.row
              /\ requests'[s].grants = grants
            BY <3>1, <3>2 DEF Request
        <3>4. UNCHANGED <<configs, shares, lastConfigId, lastShareId>>
            BY <1>3 DEF LoadShares
        <3>5. Consistent(q)
            BY <1>3 DEF LoadShares, SnapshotInv, RequestsConsistent
        <3>6. \A i \in ShareIds : grants[i] # NoRow =>
                 /\ shares[i] # NoRow
                 /\ grants[i] = shares[i]
                 /\ shares[i].config = q.config
            BY DEF GrantsOf
        <3>7. \A i \in ShareIds : grants[i] # NoRow => i <= lastShareId
            BY <3>6 DEF SnapshotInv, KeysIssued
        <3> HIDE DEF q, grants
        <3> QED BY <3>1, <3>3, <3>4, <3>5, <3>6, <3>7 DEF Consistent
    <2>2. CASE s # r
        BY <1>3, <1>k, <2>2 DEF LoadShares, TypeOK
    <2> QED BY <2>1, <2>2
<1>4. ASSUME NEW r \in Requests,
             \/ CommitUpdate(r) \/ CommitDelete(r) \/ CommitRegrant(r)
             \/ CommitGrant(r) \/ CommitUnshare(r) \/ Rollback(r)
      PROVE  Consistent(requests[s])'
    BY <1>4, <1>f, <1>k
    DEF CommitUpdate, CommitDelete, CommitRegrant, CommitGrant, CommitUnshare,
        Rollback
<1>5. CASE UNCHANGED vars
    BY <1>5, <1>k DEF vars
<1> QED BY <1>1, <1>2, <1>3, <1>4, <1>5 DEF Next

LEMMA OwnerStep ==
    ASSUME TypeOK, TypeOK', GrantsInv, SnapshotInv, Sequenced, [Next]_vars
    PROVE  OwnerNeverGrantee'
<1> SUFFICES ASSUME NEW i \in ShareIds, shares'[i] # NoRow,
                    configs'[shares'[i].config] # NoRow
             PROVE  configs'[shares'[i].config].owner # shares'[i].grantee
    BY DEF OwnerNeverGrantee, Rows
<1>0. /\ ConfigMoves /\ ShareMoves
      /\ ConfigIds \subseteq Nat /\ ShareIds \subseteq Nat
      /\ lastConfigId \in Nat /\ lastShareId \in Nat
      /\ lastShareId' \in Nat
    BY StepMoves, ConfigsAssumption DEF TypeOK
<1>1. CASE shares[i] # NoRow /\ i <= lastShareId
    <2>1. /\ shares'[i].config = shares[i].config
          /\ shares'[i].grantee = shares[i].grantee
        BY <1>0, <1>1 DEF ShareMoves
    <2>2. shares[i].config \in ConfigIds /\ configs[shares[i].config] # NoRow
        BY <1>1 DEF TypeOK, Grants, ShareRow, GrantsInv, NoOrphanShare, Rows
    <2>3. shares[i].config <= lastConfigId
        BY <2>2 DEF SnapshotInv, KeysIssued
    <2>4. configs'[shares[i].config].owner = configs[shares[i].config].owner
        <3>1. PICK c \in ConfigIds : c = shares[i].config
            BY <2>2
        <3>2. c <= lastConfigId /\ configs'[c] # NoRow
            BY <2>1, <2>3, <3>1
        <3>3. ~(lastConfigId < c)
            BY <1>0, <3>2
        <3>4. configs'[c].owner = configs[c].owner
            BY <1>0, <3>2, <3>3 DEF ConfigMoves
        <3> QED BY <3>1, <3>4
    <2> QED BY <1>1, <2>1, <2>2, <2>4 DEF SnapshotInv, OwnerNeverGrantee, Rows
<1>2. CASE ~(shares[i] # NoRow /\ i <= lastShareId)
    <2>1. lastShareId' # lastShareId
        BY <1>0, <1>2 DEF ShareMoves, SnapshotInv, KeysIssued
    <2>2. PICK r \in Requests : CommitGrant(r)
        BY <2>1 DEF Next, vars, Create, LoadRow, LoadShares, CommitUpdate,
            CommitDelete, CommitRegrant, CommitUnshare, Rollback
    <2> DEFINE q == requests[r]
    <2>3. PICK k \in ShareIds :
            shares' = [shares EXCEPT ![k] =
                [config |-> q.config, grantee |-> q.op.grantee,
                 permission |-> q.op.permission]]
        BY <2>2 DEF CommitGrant
    <2>4. i = k
        BY <1>2, <2>3 DEF TypeOK, Grants, SnapshotInv, KeysIssued
    <2>5. shares'[i].config = q.config /\ shares'[i].grantee = q.op.grantee
        BY <2>3, <2>4 DEF TypeOK, Grants
    <2>6. q.config \in ConfigIds /\ configs[q.config] # NoRow
        BY <2>2, RequestType DEF CommitGrant, Committing, GrantInsertable
    <2>7. configs'[q.config].owner = configs[q.config].owner
        BY <1>0, <2>5, <2>6 DEF ConfigMoves, SnapshotInv, KeysIssued
    <2>8. Consistent(q) /\ q.pc = "commit" /\ q.op.kind = "share"
        BY <2>2 DEF CommitGrant, Committing, SnapshotInv, RequestsConsistent
    <2>9. q.op.grantee # q.row.owner /\ configs[q.config].owner = q.row.owner
        BY <2>6, <2>8 DEF Consistent, Permitted, MayShare
    <2> QED BY <2>5, <2>7, <2>9
<1> QED BY <1>1, <1>2

LEMMA SnapshotStep ==
    ASSUME TypeOK, TypeOK', GrantsInv, SnapshotInv, Sequenced, [Next]_vars
    PROVE  SnapshotInv'
<1>1. KeysIssued'
    <2>1. /\ ConfigIds \subseteq Nat /\ ShareIds \subseteq Nat
          /\ lastConfigId \in Nat /\ lastShareId \in Nat
          /\ lastConfigId' \in Nat /\ lastShareId' \in Nat
        BY ConfigsAssumption DEF TypeOK
    <2> QED BY <2>1, StepMoves DEF SnapshotInv, KeysIssued, ConfigMoves, ShareMoves
<1> QED BY <1>1, RequestsStep, OwnerStep DEF SnapshotInv

LEMMA SnapshotInvariant == ASSUME Sequenced PROVE Spec => []SnapshotInv
<1>1. Init => SnapshotInv
    BY DEF Init, SnapshotInv, KeysIssued, RequestsConsistent, OwnerNeverGrantee,
        Rows
<1>2. TypeOK /\ TypeOK' /\ GrantsInv /\ SnapshotInv /\ [Next]_vars => SnapshotInv'
    BY SnapshotStep
<1> QED BY <1>1, <1>2, TypeCorrect, GrantsInvariant, PTL DEF Spec

(* What a request loaded is still what its keys name when it commits.        *)
THEOREM SnapshotsMatch == ASSUME Sequenced PROVE Spec => []SnapshotsMatchRows
<1>1. SnapshotInv => SnapshotsMatchRows
    BY DEF SnapshotInv, RequestsConsistent, Consistent, SnapshotsMatchRows, Rows
<1> QED BY <1>1, SnapshotInvariant, PTL

(* The owner of a config never holds a grant on it.                          *)
THEOREM OwnersAreNotGrantees == ASSUME Sequenced PROVE Spec => []OwnerNeverGrantee
<1>1. SnapshotInv => OwnerNeverGrantee
    BY DEF SnapshotInv
<1> QED BY <1>1, SnapshotInvariant, PTL

----------------------------------------------------------------------------
(* The permission that a set of grants gives a user. *)

LEMMA PermissionNone ==
    ASSUME NEW t, NEW u, \A i \in ShareIds : ~(t[i] # NoRow /\ t[i].grantee = u)
    PROVE  SharePermission(u, t) = "none"
BY DEF SharePermission, Of

LEMMA PermissionOne ==
    ASSUME NEW t, NEW u, NEW k \in ShareIds, t[k] # NoRow, t[k].grantee = u,
           \A i \in ShareIds : t[i] # NoRow /\ t[i].grantee = u => i = k
    PROVE  SharePermission(u, t) = t[k].permission
<1>1. Of(t, u) = {k}
    BY DEF Of
<1>2. (CHOOSE i \in Of(t, u) : TRUE) = k
    BY <1>1
<1> QED BY <1>1, <1>2 DEF SharePermission

LEMMA PermissionSame ==
    ASSUME NEW t1, NEW t2, NEW u,
           \A i \in ShareIds :
              \/ t1[i] # NoRow /\ t1[i].grantee = u
              \/ t2[i] # NoRow /\ t2[i].grantee = u
              => t1[i] = t2[i]
    PROVE  SharePermission(u, t1) = SharePermission(u, t2)
<1>1. Of(t1, u) = Of(t2, u)
    BY DEF Of
<1>2. CASE Of(t1, u) = {}
    BY <1>1, <1>2 DEF SharePermission
<1>3. CASE Of(t1, u) # {}
    <2> DEFINE k == CHOOSE i \in Of(t1, u) : TRUE
    <2>1. k \in Of(t1, u) /\ k = CHOOSE i \in Of(t2, u) : TRUE
        BY <1>1, <1>3
    <2>2. t1[k] = t2[k]
        BY <2>1 DEF Of
    <2> HIDE DEF k
    <2>3. SharePermission(u, t1) = t1[k].permission
        BY <1>3 DEF SharePermission, k
    <2>4. SharePermission(u, t2) = t2[k].permission
        BY <1>1, <1>3, <2>1 DEF SharePermission
    <2> QED BY <2>2, <2>3, <2>4
<1> QED BY <1>2, <1>3

(* A config that is there has an access list. *)
LEMMA PresentEntry ==
    ASSUME TypeOK, NEW c \in ConfigIds, configs[c] # NoRow
    PROVE  AccessList[c] # NoRow /\ AccessList[c].owner = configs[c].owner
<1> DEFINE entry == [owner |-> configs[c].owner,
                     grants |-> [u \in Users |-> SharePermission(u, GrantsOf(c))]]
<1>1. AccessList[c] = entry
    BY DEF AccessList
<1>2. ASSUME NEW u \in Users
      PROVE  SharePermission(u, GrantsOf(c)) \in Permissions \cup {"none"}
    <2>1. \A i \in Of(GrantsOf(c), u) :
             i \in ShareIds /\ GrantsOf(c)[i] \in ShareRow
        BY GrantsOfType DEF Of, TypeOK, Grants
    <2>2. CASE Of(GrantsOf(c), u) # {}
        <3>1. (CHOOSE i \in Of(GrantsOf(c), u) : TRUE) \in Of(GrantsOf(c), u)
            BY <2>2
        <3> QED BY <2>1, <2>2, <3>1 DEF SharePermission, ShareRow
    <2>3. CASE Of(GrantsOf(c), u) = {}
        BY <2>3 DEF SharePermission
    <2> QED BY <2>2, <2>3
<1>3. configs[c].owner \in Users
    BY DEF TypeOK, ConfigRow
<1>4. entry \in AccessEntry
    BY <1>2, <1>3 DEF AccessEntry
<1> QED BY <1>1, <1>4, ConfigsAssumption

(* A step that keeps the owners and the grants keeps the access list.        *)
LEMMA SameAccessList ==
    ASSUME TypeOK, shares' = shares,
           \A c \in ConfigIds :
              /\ configs'[c] = NoRow <=> configs[c] = NoRow
              /\ configs[c] # NoRow => configs'[c].owner = configs[c].owner
    PROVE  AccessList' = AccessList
<1>1. ASSUME NEW c \in ConfigIds
      PROVE  GrantsOf(c)' = GrantsOf(c)
    BY <1>1 DEF GrantsOf
<1> QED BY <1>1 DEF AccessList

(* A step that changes the permission of one user on one config.             *)
LEMMA OneEntryChanges ==
    ASSUME TypeOK, NEW c \in ConfigIds, NEW g \in Users, NEW permission,
           configs[c] # NoRow,
           \A d \in ConfigIds :
              /\ configs'[d] = NoRow <=> configs[d] = NoRow
              /\ configs[d] # NoRow => configs'[d].owner = configs[d].owner,
           SharePermission(g, GrantsOf(c)') = permission,
           \A d \in ConfigIds, u \in Users : d # c \/ u # g =>
              SharePermission(u, GrantsOf(d)') = SharePermission(u, GrantsOf(d))
    PROVE  AccessList' = [AccessList EXCEPT ![c].grants[g] = permission]
<1>1. AccessList[c] = [owner |-> configs[c].owner,
                       grants |-> [u \in Users |-> SharePermission(u, GrantsOf(c))]]
    BY DEF AccessList
<1>2. AccessList'[c] = [owner |-> configs[c].owner,
                        grants |-> [AccessList[c].grants EXCEPT ![g] = permission]]
    <2>1. AccessList'[c] = [owner |-> configs'[c].owner,
             grants |-> [u \in Users |-> SharePermission(u, GrantsOf(c)')]]
        BY DEF AccessList
    <2>2. [u \in Users |-> SharePermission(u, GrantsOf(c)')]
          = [AccessList[c].grants EXCEPT ![g] = permission]
        <3> DEFINE before == [u \in Users |-> SharePermission(u, GrantsOf(c))]
                   after == [u \in Users |-> SharePermission(u, GrantsOf(c)')]
        <3>1. AccessList[c].grants = before
            BY <1>1
        <3>2. after = [before EXCEPT ![g] = permission]
            OBVIOUS
        <3> HIDE DEF before
        <3> QED BY <3>1, <3>2
    <2> QED BY <2>1, <2>2
<1>3. ASSUME NEW d \in ConfigIds, d # c
      PROVE  AccessList'[d] = AccessList[d]
    <2>1. [u \in Users |-> SharePermission(u, GrantsOf(d)')]
          = [u \in Users |-> SharePermission(u, GrantsOf(d))]
        BY <1>3
    <2> QED BY <1>3, <2>1 DEF AccessList
<1>4. [AccessList[c] EXCEPT !.grants[g] = permission] = AccessList'[c]
    BY <1>1, <1>2
<1> QED BY <1>3, <1>4 DEF AccessList

----------------------------------------------------------------------------
(* Every step is a step of the access list or leaves it alone. *)

LEMMA CreateRefines ==
    ASSUME TypeOK, GrantsInv, SnapshotInv, Sequenced,
           NEW u \in Users, NEW n \in Names, NEW p \in Payloads,
           NEW v \in Visibilities, Create(u, n, p, v)
    PROVE  \E c \in ConfigIds : AC!Create(c, u)
<1> DEFINE row == [owner |-> u, name |-> n, payload |-> p,
                   visibility |-> IF v = "public" THEN "public" ELSE "private"]
<1>1. PICK c \in ConfigIds :
        /\ configs[c] = NoRow
        /\ c = lastConfigId + 1
        /\ configs' = [configs EXCEPT ![c] = row]
        /\ lastConfigId' = c
    BY DEF Create, NewId, Advanced, Sequenced
<1>2. ConfigIds \subseteq Nat /\ lastConfigId \in Nat
    BY ConfigsAssumption DEF TypeOK
<1>3. c \notin UsedIds /\ UsedIds' = UsedIds \cup {c}
    <2>1. ~(c <= lastConfigId)
        BY <1>1, <1>2
    <2>2. \A d \in ConfigIds : d <= c <=> d <= lastConfigId \/ d = c
        BY <1>1, <1>2
    <2>3. UsedIds' = {d \in ConfigIds : d <= c}
        BY <1>1 DEF UsedIds
    <2>4. UsedIds' = UsedIds \cup {c}
        BY <2>2, <2>3 DEF UsedIds
    <2> QED BY <2>1, <2>4 DEF UsedIds
<1>4. configs'[c] = row /\ row # NoRow
    <2>1. row \in ConfigRow
        BY DEF ConfigRow, Visibilities
    <2> QED BY <1>1, <2>1, ConfigsAssumption DEF TypeOK
<1>5. \A d \in ConfigIds : d # c => configs'[d] = configs[d]
    BY <1>1 DEF TypeOK
<1>6. \A d \in ConfigIds : GrantsOf(d)' = GrantsOf(d)
    BY DEF Create, GrantsOf
<1>7. \A g \in Users : SharePermission(g, GrantsOf(c)) = "none"
    <2>1. \A i \in ShareIds : GrantsOf(c)[i] = NoRow
        BY <1>1 DEF GrantsOf, GrantsInv, NoOrphanShare, Rows
    <2> QED BY <2>1, PermissionNone
<1>8. AccessList'[c] = [owner |-> u, grants |-> [g \in Users |-> "none"]]
    <2>1. AccessList'[c] = [owner |-> configs'[c].owner,
             grants |-> [g \in Users |-> SharePermission(g, GrantsOf(c)')]]
        BY <1>4 DEF AccessList
    <2>2. [g \in Users |-> SharePermission(g, GrantsOf(c)')]
          = [g \in Users |-> "none"]
        BY <1>6, <1>7
    <2> QED BY <1>4, <2>1, <2>2
<1>9. ASSUME NEW d \in ConfigIds, d # c
      PROVE  AccessList'[d] = AccessList[d]
    <2>1. GrantsOf(d)' = GrantsOf(d) /\ configs'[d] = configs[d]
        BY <1>5, <1>6, <1>9
    <2> QED BY <2>1 DEF AccessList
<1>10. AccessList' = [AccessList EXCEPT ![c] =
            [owner |-> u, grants |-> [g \in Users |-> "none"]]]
    BY <1>8, <1>9 DEF AccessList
<1> QED BY <1>3, <1>10 DEF AC!Create

LEMMA DeleteRefines ==
    ASSUME TypeOK, GrantsInv, SnapshotInv, NEW r \in Requests, CommitDelete(r)
    PROVE  AC!Delete(requests[r].config) \/ UNCHANGED <<AccessList, UsedIds>>
<1> DEFINE q == requests[r]
<1>1. q.config \in ConfigIds /\ Consistent(q)
    BY RequestType DEF CommitDelete, Committing, SnapshotInv, RequestsConsistent
<1>2. \A i \in ShareIds : shares[i] # NoRow =>
         IF shares[i].config = q.config
         THEN shares'[i] = NoRow ELSE shares'[i] = shares[i]
    BY <1>1 DEF CommitDelete, RemovedWith, GrantsOf, Consistent
<1>3. \A i \in ShareIds : shares[i] = NoRow => shares'[i] = NoRow
    BY DEF CommitDelete
<1>4. /\ configs'[q.config] = NoRow
      /\ \A d \in ConfigIds : d # q.config => configs'[d] = configs[d]
      /\ UNCHANGED UsedIds
    BY <1>1 DEF CommitDelete, TypeOK, UsedIds
<1>5. ASSUME NEW d \in ConfigIds, d # q.config
      PROVE  AccessList'[d] = AccessList[d]
    <2>1. GrantsOf(d)' = GrantsOf(d)
        BY <1>2, <1>3, <1>5 DEF GrantsOf
    <2> QED BY <1>4, <1>5, <2>1 DEF AccessList
<1>6. AccessList'[q.config] = NoRow
    BY <1>1, <1>4 DEF AccessList
<1>7. AccessList' = [AccessList EXCEPT ![q.config] = NoRow]
    BY <1>1, <1>5, <1>6 DEF AccessList
<1>8. CASE configs[q.config] = NoRow
    <2>1. AccessList[q.config] = NoRow
        BY <1>1, <1>8 DEF AccessList
    <2> QED BY <1>1, <1>4, <1>7, <2>1 DEF AccessList
<1>9. CASE configs[q.config] # NoRow
    BY <1>1, <1>4, <1>7, <1>9, PresentEntry DEF AC!Delete
<1> QED BY <1>8, <1>9

(* A commit that writes at most columns of the row.                          *)
LEMMA UpdateRefines ==
    ASSUME TypeOK, NEW r \in Requests, CommitUpdate(r)
    PROVE  UNCHANGED <<AccessList, UsedIds>>
<1>1. shares' = shares /\ UsedIds' = UsedIds
    BY DEF CommitUpdate, UsedIds
<1>2. \A c \in ConfigIds :
         /\ configs'[c] = NoRow <=> configs[c] = NoRow
         /\ configs[c] # NoRow => configs'[c].owner = configs[c].owner
    BY RequestType, WriteRowKeepsConfigs DEF CommitUpdate, Committing
<1> QED BY <1>1, <1>2, SameAccessList

(* A grant with a new permission, under a key that holds one grant of g on c *)
(* after the step.                                                           *)
LEMMA GrantRefines ==
    ASSUME TypeOK, GrantsInv', NEW c \in ConfigIds, NEW g \in Users,
           NEW permission \in Permissions, NEW k \in ShareIds,
           configs[c] # NoRow, configs[c].owner # g,
           UNCHANGED UsedIds,
           \A d \in ConfigIds :
              /\ configs'[d] = NoRow <=> configs[d] = NoRow
              /\ configs[d] # NoRow => configs'[d].owner = configs[d].owner,
           shares'[k] # NoRow, shares'[k].config = c, shares'[k].grantee = g,
           shares'[k].permission = permission,
           shares[k] # NoRow => shares[k].config = c /\ shares[k].grantee = g,
           \A i \in ShareIds : i # k => shares'[i] = shares[i]
    PROVE  AC!Grant(c, g, permission)
<1>1. SharePermission(g, GrantsOf(c)') = permission
    <2>1. GrantsOf(c)'[k] = shares'[k]
        BY DEF GrantsOf
    <2>2. ASSUME NEW i \in ShareIds, GrantsOf(c)'[i] # NoRow,
                 GrantsOf(c)'[i].grantee = g
          PROVE  i = k
        <3>1. shares'[i] # NoRow /\ shares'[i].config = c /\ shares'[i].grantee = g
            BY <2>2 DEF GrantsOf
        <3> QED BY <3>1 DEF GrantsInv, UniqueGrant, Rows
    <2>3. SharePermission(g, GrantsOf(c)') = GrantsOf(c)'[k].permission
        BY <2>1, <2>2, PermissionOne
    <2> QED BY <2>1, <2>3
<1>2. ASSUME NEW d \in ConfigIds, NEW u \in Users, d # c \/ u # g
      PROVE  SharePermission(u, GrantsOf(d)') = SharePermission(u, GrantsOf(d))
    <2>1. ASSUME NEW i \in ShareIds,
                 \/ GrantsOf(d)'[i] # NoRow /\ GrantsOf(d)'[i].grantee = u
                 \/ GrantsOf(d)[i] # NoRow /\ GrantsOf(d)[i].grantee = u
          PROVE  GrantsOf(d)'[i] = GrantsOf(d)[i]
        <3>1. i # k
            BY <1>2, <2>1 DEF GrantsOf
        <3> QED BY <3>1 DEF GrantsOf
    <2> QED BY <2>1, PermissionSame
<1>3. AccessList' = [AccessList EXCEPT ![c].grants[g] = permission]
    BY <1>1, <1>2, OneEntryChanges
<1> QED BY <1>3, PresentEntry DEF AC!Grant

LEMMA RegrantRefines ==
    ASSUME TypeOK, GrantsInv, GrantsInv', SnapshotInv,
           NEW r \in Requests, CommitRegrant(r)
    PROVE  \/ AC!Grant(requests[r].config, requests[r].op.grantee,
                       requests[r].op.permission)
           \/ UNCHANGED <<AccessList, UsedIds>>
<1> DEFINE q == requests[r]
<1>1. q \in Request /\ q.config \in ConfigIds /\ q.op \in ShareOp
    BY RequestType DEF CommitRegrant, Committing
<1>2. Consistent(q) /\ q.pc = "commit" /\ q.op.kind = "share"
    BY DEF CommitRegrant, Committing, SnapshotInv, RequestsConsistent
<1>3. PICK k \in ShareIds :
        /\ q.grants[k] # NoRow /\ q.grants[k].grantee = q.op.grantee
        /\ GrantWritable(q, k) /\ WriteGrant(q, k)
    BY DEF CommitRegrant, Of
<1>4. \A c \in ConfigIds :
         /\ configs'[c] = NoRow <=> configs[c] = NoRow
         /\ configs[c] # NoRow => configs'[c].owner = configs[c].owner
    BY <1>1, WriteRowKeepsConfigs DEF CommitRegrant
<1>5. UNCHANGED UsedIds
    BY DEF CommitRegrant, UsedIds
<1>6. CASE shares' = shares
    BY <1>4, <1>5, <1>6, SameAccessList
<1>7. CASE shares' # shares
    <2>1. /\ \A i \in ShareIds : i # k => shares'[i] = shares[i]
          /\ shares[k] # NoRow /\ shares'[k] # NoRow
          /\ shares'[k].config = shares[k].config
          /\ shares'[k].grantee = shares[k].grantee
          /\ shares'[k].permission = q.op.permission
        BY <1>1, <1>3, <1>7, WriteGrantKeepsRow
    <2>2. shares[k].config = q.config /\ shares[k].grantee = q.op.grantee
        BY <1>2, <1>3, <2>1 DEF Consistent
    <2>3. configs[q.config] # NoRow
        BY <2>1, <2>2 DEF GrantsInv, NoOrphanShare, Rows
    <2>4. configs[q.config].owner # q.op.grantee
        BY <2>1, <2>2, <2>3 DEF SnapshotInv, OwnerNeverGrantee, Rows
    <2>5. q.op.grantee \in Users /\ q.op.permission \in Permissions
        BY <1>1 DEF ShareOp
    <2> HIDE DEF q
    <2>6. AC!Grant(q.config, q.op.grantee, q.op.permission)
        BY <1>1, <1>4, <1>5, <2>1, <2>2, <2>3, <2>4, <2>5, GrantRefines
    <2> QED BY <2>6 DEF q
<1> QED BY <1>6, <1>7

LEMMA FirstGrantRefines ==
    ASSUME TypeOK, GrantsInv', SnapshotInv, NEW r \in Requests, CommitGrant(r)
    PROVE  AC!Grant(requests[r].config, requests[r].op.grantee,
                    requests[r].op.permission)
<1> DEFINE q == requests[r]
           new == [config |-> q.config, grantee |-> q.op.grantee,
                   permission |-> q.op.permission]
<1>1. q \in Request /\ q.config \in ConfigIds /\ q.op \in ShareOp
    BY RequestType DEF CommitGrant, Committing
<1>2. Consistent(q) /\ q.pc = "commit" /\ q.op.kind = "share"
    BY DEF CommitGrant, Committing, SnapshotInv, RequestsConsistent
<1>3. PICK k \in ShareIds :
        shares[k] = NoRow /\ shares' = [shares EXCEPT ![k] = new]
    BY DEF CommitGrant, NewId
<1>4. configs[q.config] # NoRow
    BY DEF CommitGrant, GrantInsertable
<1>5. \A c \in ConfigIds :
         /\ configs'[c] = NoRow <=> configs[c] = NoRow
         /\ configs[c] # NoRow => configs'[c].owner = configs[c].owner
    BY <1>1, <1>4, WriteRowKeepsConfigs DEF CommitGrant, RowWritable
<1>6. UNCHANGED UsedIds
    BY DEF CommitGrant, UsedIds
<1>7. q.op.grantee \in Users /\ q.op.permission \in Permissions
    BY <1>1 DEF ShareOp
<1>8. configs[q.config].owner # q.op.grantee
    BY <1>2, <1>4 DEF Consistent, Permitted, MayShare
<1>9. new \in ShareRow
    BY <1>1, <1>7 DEF ShareRow
<1>10. /\ shares'[k] = new
       /\ \A i \in ShareIds : i # k => shares'[i] = shares[i]
    BY <1>3 DEF TypeOK, Grants
<1>11. /\ shares'[k] # NoRow
       /\ shares'[k].config = q.config
       /\ shares'[k].grantee = q.op.grantee
       /\ shares'[k].permission = q.op.permission
    BY <1>9, <1>10, ConfigsAssumption
<1> HIDE DEF q
<1>12. AC!Grant(q.config, q.op.grantee, q.op.permission)
    BY <1>1, <1>3, <1>4, <1>5, <1>6, <1>7, <1>8, <1>10, <1>11, GrantRefines
<1> QED BY <1>12 DEF q

LEMMA UnshareRefines ==
    ASSUME TypeOK, GrantsInv, SnapshotInv, NEW r \in Requests, CommitUnshare(r)
    PROVE  \/ AC!Revoke(requests[r].config, requests[r].op.grantee)
           \/ UNCHANGED <<AccessList, UsedIds>>
<1> DEFINE q == requests[r]
<1>1. q \in Request /\ q.config \in ConfigIds /\ q.op \in UnshareOp
    BY RequestType DEF CommitUnshare, Committing
<1>2. Consistent(q)
    BY DEF CommitUnshare, Committing, SnapshotInv, RequestsConsistent
<1>c. PICK c \in ConfigIds : c = q.config
    BY <1>1
<1>g. PICK g \in Users : g = q.op.grantee
    BY <1>1 DEF UnshareOp
<1>3. PICK k \in ShareIds :
        /\ q.grants[k] # NoRow /\ q.grants[k].grantee = g
        /\ shares' = [shares EXCEPT ![k] = NoRow]
    BY <1>g DEF CommitUnshare, Of
<1>4. \A d \in ConfigIds :
         /\ configs'[d] = NoRow <=> configs[d] = NoRow
         /\ configs[d] # NoRow => configs'[d].owner = configs[d].owner
    BY <1>1, WriteRowKeepsConfigs DEF CommitUnshare
<1>5. UNCHANGED UsedIds
    BY DEF CommitUnshare, UsedIds
<1>6. /\ shares'[k] = NoRow
      /\ \A i \in ShareIds : i # k => shares'[i] = shares[i]
    BY <1>3 DEF TypeOK, Grants
<1>7. CASE shares[k] = NoRow
    <2>1. shares' = shares
        BY <1>3, <1>7 DEF TypeOK, Grants
    <2> QED BY <1>4, <1>5, <2>1, SameAccessList
<1>8. CASE shares[k] # NoRow
    <2>1. shares[k].config = c /\ shares[k].grantee = g
        BY <1>2, <1>3, <1>8, <1>c DEF Consistent
    <2>2. configs[c] # NoRow
        BY <1>8, <2>1 DEF GrantsInv, NoOrphanShare, Rows
    <2>3. \A i \in ShareIds :
             ~(/\ shares'[i] # NoRow
               /\ shares'[i].config = c
               /\ shares'[i].grantee = g)
        BY <1>6, <1>8, <2>1 DEF GrantsInv, UniqueGrant, Rows
    <2>4. SharePermission(g, GrantsOf(c)') = "none"
        <3>1. \A i \in ShareIds : ~(/\ GrantsOf(c)'[i] # NoRow
                                    /\ GrantsOf(c)'[i].grantee = g)
            BY <2>3 DEF GrantsOf
        <3> QED BY <3>1, PermissionNone
    <2>5. ASSUME NEW d \in ConfigIds, NEW u \in Users, d # c \/ u # g
          PROVE  SharePermission(u, GrantsOf(d)') = SharePermission(u, GrantsOf(d))
        <3>1. ASSUME NEW i \in ShareIds,
                     \/ GrantsOf(d)'[i] # NoRow /\ GrantsOf(d)'[i].grantee = u
                     \/ GrantsOf(d)[i] # NoRow /\ GrantsOf(d)[i].grantee = u
              PROVE  GrantsOf(d)'[i] = GrantsOf(d)[i]
            <4>1. i # k
                BY <1>6, <2>1, <2>5, <3>1 DEF GrantsOf
            <4> QED BY <1>6, <4>1 DEF GrantsOf
        <3> QED BY <3>1, PermissionSame
    <2>6. AccessList' = [AccessList EXCEPT ![c].grants[g] = "none"]
        BY <1>4, <2>2, <2>4, <2>5, OneEntryChanges
    <2>7. AC!Revoke(c, g)
        BY <1>5, <2>2, <2>6, PresentEntry DEF AC!Revoke
    <2> QED BY <2>7, <1>c, <1>g DEF AC!Revoke
<1> QED BY <1>7, <1>8

LEMMA StepRefines ==
    ASSUME TypeOK, GrantsInv, GrantsInv', SnapshotInv, Sequenced, [Next]_vars
    PROVE  [AC!Next]_(AC!vars)
<1>u. ASSUME UNCHANGED <<AccessList, UsedIds>>
      PROVE  [AC!Next]_(AC!vars)
    BY <1>u DEF AC!vars
<1>s. ASSUME UNCHANGED <<configs, shares, lastConfigId>>
      PROVE  UNCHANGED <<AccessList, UsedIds>>
    BY <1>s DEF AccessList, UsedIds, GrantsOf
<1>0. ASSUME NEW r \in Requests, requests[r] # Idle
      PROVE  /\ requests[r].config \in ConfigIds
             /\ requests[r].op.kind = "share" =>
                  /\ requests[r].op.grantee \in Users
                  /\ requests[r].op.permission \in {"read", "write"}
             /\ requests[r].op.kind = "unshare" => requests[r].op.grantee \in Users
    BY <1>0, RequestType DEF ShareOp, UnshareOp, Permissions
<1>1. ASSUME NEW u \in Users, NEW n \in Names, NEW p \in Payloads,
             NEW v \in Visibilities, Create(u, n, p, v)
      PROVE  [AC!Next]_(AC!vars)
    BY <1>1, CreateRefines DEF AC!Next
<1>2. ASSUME NEW r \in Requests, NEW u \in Users, NEW op \in Ops,
             NEW c \in ConfigIds, LoadRow(r, u, op, c)
      PROVE  [AC!Next]_(AC!vars)
    BY <1>2, <1>s, <1>u DEF LoadRow
<1>3. ASSUME NEW r \in Requests, LoadShares(r) \/ Rollback(r)
      PROVE  [AC!Next]_(AC!vars)
    BY <1>3, <1>s, <1>u DEF LoadShares, Rollback
<1>4. ASSUME NEW r \in Requests, CommitUpdate(r)
      PROVE  [AC!Next]_(AC!vars)
    BY <1>4, <1>u, UpdateRefines
<1>5. ASSUME NEW r \in Requests, CommitDelete(r)
      PROVE  [AC!Next]_(AC!vars)
    <2>1. requests[r].config \in ConfigIds
        BY <1>0, <1>5 DEF CommitDelete, Committing
    <2> QED BY <1>5, <1>u, <2>1, DeleteRefines DEF AC!Next
<1>6. ASSUME NEW r \in Requests, CommitRegrant(r)
      PROVE  [AC!Next]_(AC!vars)
    <2>1. /\ requests[r].config \in ConfigIds
          /\ requests[r].op.grantee \in Users
          /\ requests[r].op.permission \in {"read", "write"}
        BY <1>0, <1>6 DEF CommitRegrant, Committing
    <2> QED BY <1>6, <1>u, <2>1, RegrantRefines DEF AC!Next
<1>7. ASSUME NEW r \in Requests, CommitGrant(r)
      PROVE  [AC!Next]_(AC!vars)
    <2>1. /\ requests[r].config \in ConfigIds
          /\ requests[r].op.grantee \in Users
          /\ requests[r].op.permission \in {"read", "write"}
        BY <1>0, <1>7 DEF CommitGrant, Committing
    <2> QED BY <1>7, <2>1, FirstGrantRefines DEF AC!Next
<1>8. ASSUME NEW r \in Requests, CommitUnshare(r)
      PROVE  [AC!Next]_(AC!vars)
    <2>1. /\ requests[r].config \in ConfigIds
          /\ requests[r].op.grantee \in Users
        BY <1>0, <1>8 DEF CommitUnshare, Committing
    <2> QED BY <1>8, <1>u, <2>1, UnshareRefines DEF AC!Next
<1>9. CASE UNCHANGED vars
    BY <1>9, <1>s, <1>u DEF vars
<1> QED BY <1>1, <1>2, <1>3, <1>4, <1>5, <1>6, <1>7, <1>8, <1>9 DEF Next

LEMMA InitRefines == Init => AC!Init
<1> SUFFICES ASSUME Init
             PROVE  AC!Init
    OBVIOUS
<1>1. AccessList = [c \in ConfigIds |-> NoRow]
    BY DEF Init, AccessList
<1>2. UsedIds = {}
    <2>1. \A c \in ConfigIds : ~(c <= 0)
        BY ConfigsAssumption
    <2> QED BY <2>1 DEF Init, UsedIds
<1> QED BY <1>1, <1>2 DEF AC!Init

(* On PostgreSQL the two tables, written by any number of interleaved        *)
(* requests, behave as one access list per config.                           *)
THEOREM Refinement == ASSUME Sequenced PROVE Spec => ImplementsAccessControl
<1>1. TypeOK /\ GrantsInv /\ GrantsInv' /\ SnapshotInv /\ [Next]_vars
         => [AC!Next]_(AC!vars)
    BY StepRefines
<1> QED
    BY <1>1, InitRefines, TypeCorrect, GrantsInvariant, SnapshotInvariant, PTL
    DEF Spec, ImplementsAccessControl, AC!Spec

----------------------------------------------------------------------------
(* The list of configs and the access to one of them.                        *)

(* A user who holds a grant has the permission of one of them.               *)
LEMMA GrantedPermission ==
    ASSUME NEW t \in Grants, NEW u, Of(t, u) # {}
    PROVE  SharePermission(u, t) \in Permissions
<1> DEFINE k == CHOOSE i \in Of(t, u) : TRUE
<1>1. k \in Of(t, u)
    OBVIOUS
<1>2. t[k] \in ShareRow
    BY <1>1 DEF Of, Grants
<1> QED BY <1>2 DEF SharePermission, ShareRow

(* GET /configs hides no config from a user who has access to it and shows   *)
(* none without, for any tables a database can hold: the WHERE clause and    *)
(* effective_access agree.                                                   *)
THEOREM ListShowsTheAccessible == Spec => []ListAgrees
<1>1. ASSUME TypeOK, NEW u \in Users, NEW c \in ConfigIds, configs[c] # NoRow
      PROVE  c \in Listed(u)
                <=> EffectiveAccess(u, configs[c], GrantsOf(c)) # "none"
    <2>1. Of(GrantsOf(c), u) =
             {i \in ShareIds : /\ shares[i] # NoRow
                               /\ shares[i].config = c
                               /\ shares[i].grantee = u}
        BY DEF Of, GrantsOf
    <2>2. CASE RoleOf[u] = "admin" \/ configs[c].owner = u
        BY <1>1, <2>2 DEF Listed, EffectiveAccess
    <2>3. CASE ~(RoleOf[u] = "admin" \/ configs[c].owner = u)
        <3>1. CASE Of(GrantsOf(c), u) # {}
            <4>1. SharePermission(u, GrantsOf(c)) # "none"
                BY <1>1, <3>1, GrantsOfType, GrantedPermission
                DEF TypeOK, Permissions
            <4> QED BY <1>1, <2>1, <2>3, <3>1, <4>1 DEF Listed, EffectiveAccess
        <3>2. CASE Of(GrantsOf(c), u) = {}
            BY <1>1, <2>1, <2>3, <3>2 DEF Listed, EffectiveAccess
        <3> QED BY <3>1, <3>2
    <2> QED BY <2>2, <2>3
<1>2. ASSUME NEW u \in Users, NEW c \in ConfigIds, configs[c] = NoRow
      PROVE  c \notin Listed(u)
    BY <1>2 DEF Listed
<1>3. TypeOK => ListAgrees
    BY <1>1, <1>2 DEF ListAgrees
<1> QED BY <1>3, TypeCorrect, PTL

----------------------------------------------------------------------------
(* What the commit of a request changes, on either database.                 *)

(* The session's row differs from the loaded one only as the op asks; the    *)
(* label of publication changes only with an update.                         *)
LEMMA WantedChanges ==
    ASSUME NEW q \in Request
    PROVE  /\ Wanted(q).name # q.row.name =>
                 q.op.kind = "update" /\ Wanted(q).name = q.op.name
           /\ Wanted(q).payload # q.row.payload =>
                 /\ q.op.kind = "update"
                 /\ Wanted(q).payload = q.op.payload
                 /\ q.op.payload # Keep
           /\ Wanted(q).visibility = "public" /\ q.row.visibility # "public" =>
                 q.op.kind = "update" /\ q.op.visibility = "public"
           /\ Wanted(q).visibility # "public" /\ q.row.visibility = "public" =>
                 /\ q.op.kind = "update"
                 /\ q.op.visibility \in {"private", "shared"}
<1>1. q.op \in Op /\ q.row \in ConfigRow
    BY ConfigsAssumption DEF Request
<1>2. ASSUME NEW granted \in BOOLEAN
      PROVE  /\ Normalized(q.row, granted).name = q.row.name
             /\ Normalized(q.row, granted).payload = q.row.payload
             /\ Normalized(q.row, granted).visibility = "public"
                   <=> q.row.visibility = "public"
    BY <1>1 DEF Normalized, NormalizedVisibility, ConfigRow, Visibilities
<1>3. CASE q.op.kind = "update"
    <2>1. q.op \in UpdateOp
        BY <1>1, <1>3 DEF Op, UpdateOp, DeleteOp, ShareOp, UnshareOp
    <2>2. q.op.visibility \in Visibilities \cup {Keep}
        BY <2>1 DEF UpdateOp
    <2>3. Wanted(q) = Updated(q.op, q.row, q.grants)
        BY <1>3 DEF Wanted
    <2>4. /\ Wanted(q).name = IF q.op.name = Keep THEN q.row.name ELSE q.op.name
          /\ Wanted(q).payload =
                IF q.op.payload = Keep THEN q.row.payload ELSE q.op.payload
          /\ q.op.visibility = Keep => Wanted(q).visibility = q.row.visibility
          /\ q.op.visibility \notin {Keep, "public"} =>
                Wanted(q).visibility
                    = NormalizedVisibility("private", q.grants # NoGrants)
          /\ q.op.visibility = "public" => Wanted(q).visibility = "public"
        BY <1>1, <2>2, <2>3, ConfigsAssumption DEF Updated, ConfigRow, Visibilities
    <2>5. NormalizedVisibility("private", q.grants # NoGrants) # "public"
        BY DEF NormalizedVisibility
    <2> QED BY <1>3, <2>2, <2>4, <2>5 DEF Visibilities
<1>4. CASE q.op.kind = "delete"
    BY <1>4 DEF Wanted
<1>5. CASE q.op.kind = "share"
    BY <1>2, <1>5 DEF Wanted
<1>6. CASE q.op.kind = "unshare"
    BY <1>2, <1>6 DEF Wanted
<1>7. q.op.kind \in {"update", "delete", "share", "unshare"}
    BY <1>1 DEF Op, UpdateOp, DeleteOp, ShareOp, UnshareOp
<1> QED BY <1>3, <1>4, <1>5, <1>6, <1>7

(* A row that is there before and after a step is what it was, or what the   *)
(* commit of one request made of it.                                         *)
CommitsTo(r, c) ==
    /\ requests[r] # Idle
    /\ requests[r].pc = "commit"
    /\ requests[r].config = c
    /\ requests'[r] = Idle
    /\ Wanted(requests[r]) # requests[r].row
    /\ configs'[c] = Merged(configs[c], requests[r].row, Wanted(requests[r]))

LEMMA RowSteps ==
    ASSUME TypeOK, [Next]_vars, NEW c \in ConfigIds,
           configs[c] # NoRow, configs'[c] # NoRow, configs'[c] # configs[c]
    PROVE  \E r \in Requests : CommitsTo(r, c)
<1>a. ASSUME NEW r \in Requests, requests[r] # Idle, requests[r].pc = "commit",
             WriteRow(requests[r]), Finish(r)
      PROVE  CommitsTo(r, c)
    <2>1. requests'[r] = Idle
        BY <1>a DEF Finish, TypeOK
    <2>2. requests[r].config \in ConfigIds
        BY <1>a, RequestType
    <2>3. Wanted(requests[r]) # requests[r].row
        BY <1>a DEF WriteRow
    <2>4. configs' = [configs EXCEPT ![requests[r].config] =
                         Merged(@, requests[r].row, Wanted(requests[r]))]
        BY <1>a, <2>3 DEF WriteRow
    <2> QED BY <1>a, <2>1, <2>2, <2>3, <2>4 DEF CommitsTo, TypeOK
<1>1. ASSUME NEW u \in Users, NEW n \in Names, NEW p \in Payloads,
             NEW v \in Visibilities, Create(u, n, p, v)
      PROVE  FALSE
    <2>1. PICK d \in ConfigIds :
             configs[d] = NoRow /\ \E row : configs' = [configs EXCEPT ![d] = row]
        BY <1>1 DEF Create, NewId
    <2> QED BY <2>1 DEF TypeOK
<1>2. ASSUME NEW r \in Requests, CommitDelete(r)
      PROVE  FALSE
    BY <1>2 DEF CommitDelete, TypeOK
<1>3. configs' # configs
    OBVIOUS
<1>4. ASSUME NEW r \in Requests,
             \/ CommitUpdate(r) \/ CommitRegrant(r) \/ CommitGrant(r)
             \/ CommitUnshare(r)
      PROVE  CommitsTo(r, c)
    BY <1>4, <1>a
    DEF CommitUpdate, CommitRegrant, CommitGrant, CommitUnshare, Committing
<1>5. ASSUME NEW r \in Requests,
             \/ LoadShares(r) \/ Rollback(r)
             \/ \E u \in Users, op \in Ops, d \in ConfigIds : LoadRow(r, u, op, d)
      PROVE  FALSE
    BY <1>3, <1>5 DEF LoadShares, Rollback, LoadRow
<1> QED BY <1>1, <1>2, <1>3, <1>4, <1>5 DEF Next, vars

(* A name or a payload changes only by an update that carries it, on either  *)
(* database and whatever requests overlap: no commit writes back a column    *)
(* it only loaded.                                                           *)
THEOREM EditsAreAskedFor == Spec => EditsFollowRequests
<1>1. ASSUME TypeOK, [Next]_vars, NEW c \in ConfigIds,
             configs[c] # NoRow, configs'[c] # NoRow
      PROVE  /\ configs[c].name # configs'[c].name =>
                   \E r \in Requests : Ends(r, "update") /\ requests[r].config = c
                                       /\ requests[r].op.name = configs'[c].name
             /\ configs[c].payload # configs'[c].payload =>
                   \E r \in Requests : Ends(r, "update") /\ requests[r].config = c
                                       /\ requests[r].op.payload = configs'[c].payload
    <2>1. CASE configs'[c] = configs[c]
        BY <2>1
    <2>2. CASE configs'[c] # configs[c]
        <3>1. PICK r \in Requests : CommitsTo(r, c)
            BY <1>1, <2>2, RowSteps
        <3> DEFINE q == requests[r]
        <3>2. q \in Request
            BY <1>1, <3>1, RequestType DEF CommitsTo
        <3>3. /\ configs'[c].name
                    = Column(configs[c].name, q.row.name, Wanted(q).name)
              /\ configs'[c].payload
                    = Column(configs[c].payload, q.row.payload, Wanted(q).payload)
            BY <3>1 DEF CommitsTo, Merged
        <3>4. q.op.kind = "update" => Ends(r, "update") /\ q.config = c
            BY <3>1 DEF CommitsTo, Ends, Committing
        <3>5. ASSUME configs[c].name # configs'[c].name
              PROVE  Ends(r, "update") /\ q.config = c /\ q.op.name = configs'[c].name
            BY <3>2, <3>3, <3>4, <3>5, WantedChanges DEF Column
        <3>6. ASSUME configs[c].payload # configs'[c].payload
              PROVE  /\ Ends(r, "update") /\ q.config = c
                     /\ q.op.payload = configs'[c].payload
            BY <3>2, <3>3, <3>4, <3>6, WantedChanges DEF Column
        <3> QED BY <3>5, <3>6
    <2> QED BY <2>1, <2>2
<1>2. TypeOK /\ [Next]_vars =>
         [\A c \in ConfigIds :
            configs[c] # NoRow /\ configs'[c] # NoRow =>
            /\ configs[c].name # configs'[c].name =>
                  \E r \in Requests : Ends(r, "update") /\ requests[r].config = c
                                      /\ requests[r].op.name = configs'[c].name
            /\ configs[c].payload # configs'[c].payload =>
                  \E r \in Requests : Ends(r, "update") /\ requests[r].config = c
                                      /\ requests[r].op.payload = configs'[c].payload
         ]_vars
    BY <1>1
<1> QED BY <1>2, TypeCorrect, PTL DEF Spec, EditsFollowRequests

(* A request about to commit has passed the checks of its handler.           *)
ChecksPassed ==
    \A r \in Requests : requests[r] # Idle /\ requests[r].pc = "commit" =>
        Permitted(requests[r].user, requests[r].op, requests[r].row,
                  requests[r].grants)

LEMMA ChecksStep ==
    ASSUME TypeOK, ChecksPassed, [Next]_vars
    PROVE  ChecksPassed'
<1> SUFFICES ASSUME NEW s \in Requests, requests'[s] # Idle,
                    requests'[s].pc = "commit"
             PROVE  Permitted(requests'[s].user, requests'[s].op,
                              requests'[s].row, requests'[s].grants)
    BY DEF ChecksPassed, Permitted, MayUpdate, MayShare, EffectiveAccess,
           SharePermission, Of, CanPublish
<1>k. CASE requests'[s] = requests[s]
    BY <1>k DEF ChecksPassed
<1>1. ASSUME NEW r \in Requests, NEW u \in Users, NEW op \in Ops,
             NEW c \in ConfigIds, LoadRow(r, u, op, c)
      PROVE  requests'[s] = requests[s]
    BY <1>1 DEF LoadRow, TypeOK
<1>2. ASSUME NEW r \in Requests, LoadShares(r), requests'[s] # requests[s]
      PROVE  Permitted(requests'[s].user, requests'[s].op,
                       requests'[s].row, requests'[s].grants)
    <2> DEFINE q == requests[r]
               grants == GrantsOf(q.config)
    <2>1. s = r
        BY <1>2 DEF LoadShares, TypeOK
    <2>2. q \in Request
        BY <1>2, RequestType DEF LoadShares
    <2>3. /\ Permitted(q.user, q.op, q.row, grants)
          /\ requests'[s] = [q EXCEPT !.pc = "commit", !.grants = grants]
        BY <1>2, <2>1 DEF LoadShares, TypeOK
    <2>4. /\ requests'[s].user = q.user
          /\ requests'[s].op = q.op
          /\ requests'[s].row = q.row
          /\ requests'[s].grants = grants
        BY <2>2, <2>3 DEF Request
    <2> HIDE DEF q, grants
    <2> QED BY <2>3, <2>4
<1>3. ASSUME NEW r \in Requests, Finish(r)
      PROVE  requests'[s] = requests[s]
    BY <1>3 DEF Finish, TypeOK
<1>4. ASSUME NEW r \in Requests,
             \/ CommitUpdate(r) \/ CommitDelete(r) \/ CommitRegrant(r)
             \/ CommitGrant(r) \/ CommitUnshare(r) \/ Rollback(r)
      PROVE  requests'[s] = requests[s]
    BY <1>3, <1>4
    DEF CommitUpdate, CommitDelete, CommitRegrant, CommitGrant, CommitUnshare,
        Rollback
<1>5. ASSUME NEW u \in Users, NEW n \in Names, NEW p \in Payloads,
             NEW v \in Visibilities, Create(u, n, p, v)
      PROVE  requests'[s] = requests[s]
    BY <1>5 DEF Create
<1>6. CASE UNCHANGED vars
    BY <1>6, <1>k DEF vars
<1> QED BY <1>k, <1>1, <1>2, <1>4, <1>5, <1>6 DEF Next

LEMMA ChecksInvariant == Spec => []ChecksPassed
<1>1. Init => ChecksPassed
    BY DEF Init, ChecksPassed
<1>2. TypeOK /\ ChecksPassed /\ [Next]_vars => ChecksPassed'
    BY ChecksStep
<1> QED BY <1>1, <1>2, TypeCorrect, PTL DEF Spec

(* A config becomes public only by an update that asks for it, of an account *)
(* that may publish, on either database and whatever requests overlap.       *)
THEOREM OnlyPublishersPublish == Spec => PublishedByPublisher
<1>1. ASSUME TypeOK, ChecksPassed, [Next]_vars, NEW c \in ConfigIds,
             configs[c] # NoRow, configs'[c] # NoRow,
             configs[c].visibility # "public", configs'[c].visibility = "public"
      PROVE  \E r \in Requests : /\ Ends(r, "update")
                                 /\ requests[r].config = c
                                 /\ requests[r].op.visibility = "public"
                                 /\ CanPublish(requests[r].user)
    <2>1. PICK r \in Requests : CommitsTo(r, c)
        BY <1>1, RowSteps
    <2> DEFINE q == requests[r]
    <2>2. q \in Request
        BY <1>1, <2>1, RequestType DEF CommitsTo
    <2>3. configs'[c].visibility
             = Column(configs[c].visibility, q.row.visibility, Wanted(q).visibility)
        BY <2>1 DEF CommitsTo, Merged
    <2>4. Wanted(q).visibility = "public" /\ q.row.visibility # "public"
        BY <1>1, <2>3 DEF Column
    <2>5. q.op.kind = "update" /\ q.op.visibility = "public"
        BY <2>2, <2>4, WantedChanges
    <2>6. Permitted(q.user, q.op, q.row, q.grants)
        BY <1>1, <2>1 DEF CommitsTo, ChecksPassed
    <2>7. CanPublish(q.user)
        BY <2>5, <2>6 DEF Permitted, MayUpdate
    <2> QED BY <2>1, <2>5, <2>7 DEF CommitsTo, Ends, Committing
<1>2. TypeOK /\ ChecksPassed /\ [Next]_vars =>
         [\A c \in ConfigIds :
            configs[c] # NoRow /\ configs'[c] # NoRow
            /\ configs[c].visibility # "public" /\ configs'[c].visibility = "public"
            => \E r \in Requests : /\ Ends(r, "update")
                                   /\ requests[r].config = c
                                   /\ requests[r].op.visibility = "public"
                                   /\ CanPublish(requests[r].user)
         ]_vars
    BY <1>1
<1> QED BY <1>2, TypeCorrect, ChecksInvariant, PTL DEF Spec, PublishedByPublisher

----------------------------------------------------------------------------
(* A grant changes only as a request asks: part of what a key that is never  *)
(* handed out twice gives.                                                   *)
GrantAsked(i) ==
    IF shares'[i] # NoRow
    THEN \E r \in Requests :
            /\ Ends(r, "share")
            /\ shares'[i] = [config |-> requests[r].config,
                             grantee |-> requests[r].op.grantee,
                             permission |-> requests[r].op.permission]
    ELSE \/ configs'[shares[i].config] = NoRow
         \/ \E r \in Requests : /\ Ends(r, "unshare")
                                /\ requests[r].config = shares[i].config
                                /\ requests[r].op.grantee = shares[i].grantee

LEMMA GrantSteps ==
    ASSUME TypeOK, SnapshotInv, [Next]_vars, NEW i \in ShareIds,
           shares'[i] # shares[i]
    PROVE  GrantAsked(i)
<1> USE ConfigsAssumption
<1>0. ASSUME NEW r \in Requests, requests[r] # Idle
      PROVE  /\ requests[r] \in Request
             /\ requests[r].config \in ConfigIds
             /\ Consistent(requests[r])
             /\ Finish(r) => requests'[r] = Idle
    BY <1>0, RequestType DEF SnapshotInv, RequestsConsistent, Finish, TypeOK
<1>1. ASSUME NEW r \in Requests, CommitDelete(r)
      PROVE  GrantAsked(i)
    <2> DEFINE q == requests[r]
    <2>1. i \in RemovedWith(q) /\ shares'[i] = NoRow /\ shares[i] # NoRow
        BY <1>1 DEF CommitDelete
    <2>2. q.config \in ConfigIds /\ Consistent(q)
        BY <1>0, <1>1 DEF CommitDelete, Committing
    <2>3. shares[i].config = q.config
        BY <2>1, <2>2 DEF RemovedWith, GrantsOf, Consistent
    <2>4. configs'[q.config] = NoRow
        BY <1>1, <2>2 DEF CommitDelete, TypeOK
    <2> QED BY <2>1, <2>3, <2>4 DEF GrantAsked
<1>2. ASSUME NEW r \in Requests, CommitRegrant(r)
      PROVE  GrantAsked(i)
    <2> DEFINE q == requests[r]
    <2>1. /\ q \in Request /\ q.op \in ShareOp /\ Consistent(q)
          /\ Ends(r, "share")
        BY <1>0, <1>2, RequestType DEF CommitRegrant, Committing, Ends
    <2>2. PICK k \in ShareIds :
            /\ q.grants[k] # NoRow /\ q.grants[k].grantee = q.op.grantee
            /\ GrantWritable(q, k) /\ WriteGrant(q, k)
        BY <1>2 DEF CommitRegrant, Of
    <2> HIDE DEF q
    <2>3. /\ i = k /\ shares[k] # NoRow
          /\ shares'[k] # NoRow
          /\ shares'[k].config = shares[k].config
          /\ shares'[k].grantee = shares[k].grantee
          /\ shares'[k].permission = q.op.permission
        BY <2>1, <2>2, WriteGrantKeepsRow
    <2>4. shares[k].config = q.config /\ shares[k].grantee = q.op.grantee
        BY <2>1, <2>2, <2>3 DEF Consistent
    <2>5. TypeOK'
        BY TypeStep
    <2>6. shares'[i] \in ShareRow
        BY <2>3, <2>5 DEF TypeOK, Grants
    <2>7. shares'[i] = [config |-> q.config, grantee |-> q.op.grantee,
                        permission |-> q.op.permission]
        BY <2>3, <2>4, <2>6 DEF ShareRow
    <2> QED BY <2>1, <2>3, <2>7 DEF GrantAsked, q
<1>3. ASSUME NEW r \in Requests, CommitGrant(r)
      PROVE  GrantAsked(i)
    <2> DEFINE q == requests[r]
               new == [config |-> q.config, grantee |-> q.op.grantee,
                       permission |-> q.op.permission]
    <2>1. /\ q \in Request /\ q.op \in ShareOp /\ Ends(r, "share")
        BY <1>0, <1>3, RequestType DEF CommitGrant, Committing, Ends
    <2>2. PICK k \in ShareIds : shares' = [shares EXCEPT ![k] = new]
        BY <1>3 DEF CommitGrant
    <2>3. shares'[i] = new
        BY <2>2 DEF TypeOK, Grants
    <2>4. new \in ShareRow
        BY <2>1 DEF ShareRow, ShareOp, Request
    <2> QED BY <2>1, <2>3, <2>4 DEF GrantAsked
<1>4. ASSUME NEW r \in Requests, CommitUnshare(r)
      PROVE  GrantAsked(i)
    <2> DEFINE q == requests[r]
    <2>1. q \in Request /\ Consistent(q) /\ Ends(r, "unshare")
        BY <1>0, <1>4, RequestType DEF CommitUnshare, Committing, Ends
    <2>2. PICK k \in ShareIds :
            /\ q.grants[k] # NoRow /\ q.grants[k].grantee = q.op.grantee
            /\ shares' = [shares EXCEPT ![k] = NoRow]
        BY <1>4 DEF CommitUnshare, Of
    <2>3. i = k /\ shares'[i] = NoRow /\ shares[i] # NoRow
        BY <2>2 DEF TypeOK, Grants
    <2>4. shares[i].config = q.config /\ shares[i].grantee = q.op.grantee
        BY <2>1, <2>2, <2>3 DEF Consistent
    <2> QED BY <2>1, <2>3, <2>4 DEF GrantAsked
<1>5. shares' # shares
    OBVIOUS
<1> QED
    BY <1>1, <1>2, <1>3, <1>4, <1>5
    DEF Next, vars, Create, LoadRow, LoadShares, CommitUpdate, Rollback

(* On PostgreSQL a grant appears or changes only by a share of that config   *)
(* to that user, and goes only with its config or by an unshare of that      *)
(* user, whatever requests overlap.                                          *)
THEOREM GrantsAreAskedFor == ASSUME Sequenced PROVE Spec => GrantsFollowRequests
<1>1. TypeOK /\ SnapshotInv /\ [Next]_vars =>
         [\A i \in ShareIds : shares'[i] # shares[i] => GrantAsked(i)]_vars
    BY GrantSteps
<1> QED
    BY <1>1, TypeCorrect, SnapshotInvariant, PTL
    DEF Spec, GrantsFollowRequests, GrantAsked

----------------------------------------------------------------------------
(* Requests that do not overlap.  What a request loaded is then what is      *)
(* stored when it commits, on either database.                               *)

Serial ==
    \A r, s \in Requests : requests[r] # Idle /\ requests[s] # Idle => r = s

(* The request in flight holds what is stored. *)
Fresh(q) ==
    /\ configs[q.config] = q.row
    /\ q.pc = "commit" => q.grants = GrantsOf(q.config)

RequestsFresh == \A r \in Requests : requests[r] # Idle => Fresh(requests[r])

SerialInv == RequestsFresh /\ DerivedVisibility

LEMMA FreshStep ==
    ASSUME TypeOK, SerialInv, Serial, Serial', [Next]_vars
    PROVE  RequestsFresh'
<1> SUFFICES ASSUME NEW s \in Requests, requests'[s] # Idle
             PROVE  Fresh(requests[s])'
    BY DEF RequestsFresh
<1>1. ASSUME NEW u \in Users, NEW n \in Names, NEW p \in Payloads,
             NEW v \in Visibilities, Create(u, n, p, v)
      PROVE  Fresh(requests[s])'
    <2> DEFINE q == requests[s]
    <2>1. PICK c \in ConfigIds :
            configs[c] = NoRow /\ \E row : configs' = [configs EXCEPT ![c] = row]
        BY <1>1 DEF Create, NewId
    <2>2. requests'[s] = q /\ shares' = shares
        BY <1>1 DEF Create
    <2>3. q.config \in ConfigIds /\ q.row \in ConfigRow /\ Fresh(q)
        BY <2>2, RequestType DEF SerialInv, RequestsFresh
    <2>4. configs'[q.config] = configs[q.config]
        BY <2>1, <2>3, ConfigsAssumption DEF Fresh, TypeOK
    <2> QED BY <2>2, <2>3, <2>4 DEF Fresh, GrantsOf
<1>2. ASSUME NEW r \in Requests, NEW u \in Users, NEW op \in Ops,
             NEW c \in ConfigIds, LoadRow(r, u, op, c)
      PROVE  Fresh(requests[s])'
    <2> DEFINE new == [pc |-> "row", user |-> u, op |-> op, config |-> c,
                       row |-> configs[c], grants |-> NoGrants]
    <2>1. requests' = [requests EXCEPT ![r] = new] /\ configs' = configs
        BY <1>2 DEF LoadRow
    <2>2. CASE s = r
        <3>1. requests'[s] = new
            BY <2>1, <2>2 DEF TypeOK
        <3>2. /\ requests'[s].pc = "row"
              /\ requests'[s].config = c
              /\ requests'[s].row = configs[c]
            BY <3>1
        <3> QED BY <2>1, <3>2 DEF Fresh
    <2>3. CASE s # r
        <3>1. requests'[s] = requests[s] /\ UNCHANGED <<configs, shares>>
            BY <1>2, <2>1, <2>3 DEF LoadRow, TypeOK
        <3>2. Fresh(requests[s])
            BY <3>1 DEF SerialInv, RequestsFresh
        <3> QED BY <3>1, <3>2 DEF Fresh, GrantsOf
    <2> QED BY <2>2, <2>3
<1>3. ASSUME NEW r \in Requests, LoadShares(r)
      PROVE  Fresh(requests[s])'
    <2> DEFINE q == requests[r]
               grants == GrantsOf(q.config)
    <2>1. s = r
        BY <1>3 DEF LoadShares, TypeOK, Serial
    <2>2. requests'[s] = [q EXCEPT !.pc = "commit", !.grants = grants]
        BY <1>3, <2>1 DEF LoadShares, TypeOK
    <2>3. q \in Request /\ Fresh(q)
        BY <1>3, RequestType DEF LoadShares, SerialInv, RequestsFresh
    <2>4. /\ requests'[s].config = q.config
          /\ requests'[s].row = q.row
          /\ requests'[s].grants = grants
        BY <2>2, <2>3 DEF Request
    <2>5. UNCHANGED <<configs, shares>>
        BY <1>3 DEF LoadShares
    <2>6. PICK c \in ConfigIds : c = q.config
        BY <2>3 DEF Request
    <2>7. grants = GrantsOf(c)'
        BY <2>5, <2>6 DEF GrantsOf
    <2>8. configs'[c] = requests'[s].row /\ requests'[s].config = c
        BY <2>3, <2>4, <2>5, <2>6 DEF Fresh
    <2>9. requests'[s].grants = GrantsOf(c)'
        BY <2>4, <2>7
    <2> QED BY <2>8, <2>9 DEF Fresh, GrantsOf
<1>4. ASSUME NEW r \in Requests,
             \/ CommitUpdate(r) \/ CommitDelete(r) \/ CommitRegrant(r)
             \/ CommitGrant(r) \/ CommitUnshare(r) \/ Rollback(r)
      PROVE  FALSE
    <2>1. requests[r] # Idle /\ Finish(r)
        BY <1>4
        DEF CommitUpdate, CommitDelete, CommitRegrant, CommitGrant,
            CommitUnshare, Rollback, Committing
    <2>2. s # r /\ requests[s] # Idle
        BY <2>1 DEF Finish, TypeOK
    <2> QED BY <2>1, <2>2 DEF Serial
<1>5. CASE UNCHANGED vars
    <2>1. UNCHANGED <<configs, shares, requests>> /\ Fresh(requests[s])
        BY <1>5 DEF vars, SerialInv, RequestsFresh
    <2> QED BY <2>1 DEF Fresh, GrantsOf
<1> QED BY <1>1, <1>2, <1>3, <1>4, <1>5 DEF Next

(* What a fresh request writes is what it holds. *)
LEMMA FreshWrite ==
    ASSUME TypeOK, NEW q \in Request, configs[q.config] = q.row, WriteRow(q)
    PROVE  /\ configs'[q.config] = Wanted(q)
           /\ \A c \in ConfigIds : c # q.config => configs'[c] = configs[c]
<1>1. q.row \in ConfigRow /\ Wanted(q) \in ConfigRow /\ q.config \in ConfigIds
    BY WantedType DEF Request
<1>2. Merged(q.row, q.row, Wanted(q)) = Wanted(q)
    <2>1. Wanted(q).owner = q.row.owner
        <3>1. q.op \in Op
            BY ConfigsAssumption DEF Request
        <3>2. q.op.kind \in {"update", "delete", "share", "unshare"}
            BY <3>1 DEF Op, UpdateOp, DeleteOp, ShareOp, UnshareOp
        <3> QED BY <1>1, <3>2 DEF Wanted, Updated, Normalized, ConfigRow
    <2> QED BY <1>1, <2>1 DEF Merged, Column, ConfigRow
<1> QED BY <1>1, <1>2 DEF WriteRow, TypeOK

(* A config is labelled as its grants say. *)
Granted(c) == \E i \in ShareIds : shares[i] # NoRow /\ shares[i].config = c

Labelled(c) ==
    configs[c] # NoRow /\ configs[c].visibility # "public"
        => configs[c].visibility = IF Granted(c) THEN "shared" ELSE "private"

LEMMA GrantsOfGranted ==
    ASSUME TypeOK, NEW c
    PROVE  GrantsOf(c) # NoGrants <=> Granted(c)
BY DEF GrantsOf, NoGrants, Granted

LEMMA LabelledIsDerived ==
    ASSUME TypeOK
    PROVE  DerivedVisibility <=> \A c \in ConfigIds : Labelled(c)
BY GrantsOfGranted DEF DerivedVisibility, Labelled

(* The labels after the commit of a fresh request that changes the grants of *)
(* its own config only.                                                      *)
LEMMA CommitLabels ==
    ASSUME TypeOK, DerivedVisibility, NEW q \in Request, Fresh(q), WriteRow(q),
           q.pc = "commit", q.op.kind # "delete",
           \A d \in ConfigIds : d # q.config => (Granted(d)' <=> Granted(d)),
           q.op.kind = "update" => (Granted(q.config)' <=> Granted(q.config)),
           q.op.kind = "share" => Granted(q.config)',
           q.op.kind = "unshare" =>
              (Granted(q.config)' <=> Without(q.grants, q.op.grantee) # NoGrants)
    PROVE  \A c \in ConfigIds : Labelled(c)'
<1> SUFFICES Labelled(q.config)'
    BY LabelledIsDerived, FreshWrite DEF Labelled, Fresh
<1>0. Labelled(q.config)
    BY LabelledIsDerived DEF Request
<1> USE ConfigsAssumption
<1>1. /\ configs'[q.config] = Wanted(q)
      /\ q.row \in ConfigRow /\ configs[q.config] = q.row /\ q.op \in Op
    BY FreshWrite DEF Fresh, Request
<1>2. CASE q.op.kind = "update"
    <2>1. q.op \in UpdateOp
        BY <1>1, <1>2 DEF Op, UpdateOp, DeleteOp, ShareOp, UnshareOp
    <2>2. q.op.visibility \in Visibilities \cup {Keep}
        BY <2>1 DEF UpdateOp
    <2>3. Wanted(q) = Updated(q.op, q.row, q.grants)
        BY <1>2 DEF Wanted
    <2>4. /\ q.op.visibility = Keep => Wanted(q).visibility = q.row.visibility
          /\ q.op.visibility \notin {Keep, "public"} =>
                Wanted(q).visibility
                    = NormalizedVisibility("private", q.grants # NoGrants)
          /\ q.op.visibility = "public" => Wanted(q).visibility = "public"
        BY <1>1, <2>2, <2>3 DEF Updated, ConfigRow, Visibilities
    <2>5. q.grants # NoGrants <=> Granted(q.config)
        BY GrantsOfGranted DEF Fresh
    <2>6. q.row # NoRow
        BY <1>1
    <2> QED BY <1>0, <1>1, <1>2, <2>4, <2>5, <2>6 DEF Labelled, NormalizedVisibility
<1>3. CASE q.op.kind = "share"
    <2>1. Wanted(q).visibility = NormalizedVisibility(q.row.visibility, TRUE)
        BY <1>1, <1>3 DEF Wanted, Normalized, ConfigRow
    <2> QED BY <1>1, <1>3, <2>1 DEF Labelled, NormalizedVisibility
<1>4. CASE q.op.kind = "unshare"
    <2> DEFINE left == Without(q.grants, q.op.grantee) # NoGrants
    <2>1. Wanted(q).visibility = NormalizedVisibility(q.row.visibility, left)
        BY <1>1, <1>4 DEF Wanted, Normalized, ConfigRow
    <2>2. Granted(q.config)' <=> left
        BY <1>4
    <2> QED BY <1>1, <2>1, <2>2 DEF Labelled, NormalizedVisibility
<1>5. q.op.kind \in {"update", "delete", "share", "unshare"}
    BY <1>1 DEF Op, UpdateOp, DeleteOp, ShareOp, UnshareOp
<1> QED BY <1>2, <1>3, <1>4, <1>5

LEMMA DerivedStep ==
    ASSUME TypeOK, GrantsInv, SerialInv, [Next]_vars
    PROVE  \A c \in ConfigIds : Labelled(c)'
<1> USE ConfigsAssumption
<1>0. DerivedVisibility /\ \A d \in ConfigIds : Labelled(d)
    BY LabelledIsDerived DEF SerialInv
<1>r. ASSUME NEW r \in Requests, requests[r] # Idle
      PROVE  \E q \in Request : q = requests[r] /\ Fresh(q)
    BY <1>r, RequestType DEF SerialInv, RequestsFresh
<1>g. ASSUME NEW q \in Request, Fresh(q), q.pc = "commit"
      PROVE  /\ q.config \in ConfigIds
             /\ \A i \in ShareIds :
                   q.grants[i] = IF shares[i] # NoRow /\ shares[i].config = q.config
                                 THEN shares[i] ELSE NoRow
    BY <1>g DEF Fresh, GrantsOf, Request
<1>1. ASSUME NEW u \in Users, NEW n \in Names, NEW p \in Payloads,
             NEW v \in Visibilities, Create(u, n, p, v), NEW c \in ConfigIds
      PROVE  Labelled(c)'
    <2> DEFINE row == [owner |-> u, name |-> n, payload |-> p,
                       visibility |-> IF v = "public" THEN "public"
                                      ELSE "private"]
    <2>1. PICK d \in ConfigIds :
            configs[d] = NoRow /\ configs' = [configs EXCEPT ![d] = row]
        BY <1>1 DEF Create, NewId
    <2>2. Granted(c)' <=> Granted(c)
        BY <1>1 DEF Create, Granted
    <2>3. CASE c = d
        <3>1. ~Granted(c)
            BY <2>1, <2>3 DEF Granted, GrantsInv, NoOrphanShare, Rows
        <3>2. configs'[c] = row
            BY <2>1, <2>3 DEF TypeOK
        <3> QED BY <2>2, <3>1, <3>2 DEF Labelled
    <2>4. CASE c # d
        <3>1. configs'[c] = configs[c]
            BY <2>1, <2>4 DEF TypeOK
        <3> QED BY <1>0, <2>2, <3>1 DEF Labelled
    <2> QED BY <2>3, <2>4
<1>2. ASSUME UNCHANGED <<configs, shares>>
      PROVE  \A c \in ConfigIds : Labelled(c)'
    BY <1>0, <1>2 DEF Labelled, Granted
<1>3. ASSUME NEW r \in Requests,
             \/ LoadShares(r) \/ Rollback(r)
             \/ \E u \in Users, op \in Ops, d \in ConfigIds : LoadRow(r, u, op, d)
      PROVE  \A c \in ConfigIds : Labelled(c)'
    BY <1>2, <1>3 DEF LoadShares, Rollback, LoadRow
<1>4. ASSUME NEW r \in Requests, CommitUpdate(r)
      PROVE  \A c \in ConfigIds : Labelled(c)'
    <2>1. PICK q \in Request : q = requests[r] /\ Fresh(q)
        BY <1>4, <1>r DEF CommitUpdate, Committing
    <2>2. \A c \in ConfigIds : Granted(c)' <=> Granted(c)
        BY <1>4 DEF CommitUpdate, Granted
    <2>3. q.pc = "commit" /\ q.op.kind = "update" /\ WriteRow(q)
        BY <1>4, <2>1 DEF CommitUpdate, Committing
    <2> QED BY <1>0, <1>g, <2>1, <2>2, <2>3, CommitLabels
<1>5. ASSUME NEW r \in Requests, CommitDelete(r), NEW c \in ConfigIds
      PROVE  Labelled(c)'
    <2>1. PICK q \in Request : q = requests[r] /\ Fresh(q)
        BY <1>5, <1>r DEF CommitDelete, Committing
    <2>2. q.pc = "commit"
        BY <1>5, <2>1 DEF CommitDelete, Committing
    <2>3. CASE c = q.config
        BY <1>5, <2>1, <2>3 DEF CommitDelete, TypeOK, Labelled
    <2>4. CASE c # q.config
        <3>1. \A i \in ShareIds : shares[i] # NoRow /\ shares[i].config = c
                 => shares'[i] = shares[i]
            BY <1>5, <1>g, <2>1, <2>2, <2>4 DEF CommitDelete, RemovedWith, GrantsOf
        <3>2. \A i \in ShareIds : shares'[i] # NoRow => shares'[i] = shares[i]
            BY <1>5 DEF CommitDelete
        <3>3. Granted(c)' <=> Granted(c)
            BY <3>1, <3>2 DEF Granted
        <3>4. configs'[c] = configs[c]
            BY <1>5, <2>1, <2>4 DEF CommitDelete, TypeOK
        <3> QED BY <1>0, <3>3, <3>4 DEF Labelled
    <2> QED BY <2>3, <2>4
<1>6. ASSUME NEW r \in Requests, CommitRegrant(r)
      PROVE  \A c \in ConfigIds : Labelled(c)'
    <2>1. PICK q \in Request : q = requests[r] /\ Fresh(q)
        BY <1>6, <1>r DEF CommitRegrant, Committing
    <2>2. /\ q.pc = "commit" /\ q.op.kind = "share" /\ WriteRow(q)
          /\ q.op \in ShareOp
        BY <1>6, <2>1, RequestType DEF CommitRegrant, Committing
    <2>3. PICK k \in ShareIds :
            q.grants[k] # NoRow /\ GrantWritable(q, k) /\ WriteGrant(q, k)
        BY <1>6, <2>1 DEF CommitRegrant, Of
    <2>4. shares[k] # NoRow /\ shares[k].config = q.config
        BY <1>g, <2>1, <2>2, <2>3
    <2>5. \A i \in ShareIds :
             /\ shares'[i] = NoRow <=> shares[i] = NoRow
             /\ shares[i] # NoRow => shares'[i].config = shares[i].config
        BY <2>2, <2>3, WriteGrantKeepsRow
    <2>6. \A c \in ConfigIds : Granted(c)' <=> Granted(c)
        BY <2>5 DEF Granted
    <2>7. Granted(q.config)'
        BY <2>4, <2>5 DEF Granted
    <2> QED BY <1>0, <2>1, <2>2, <2>6, <2>7, CommitLabels
<1>7. ASSUME NEW r \in Requests, CommitGrant(r)
      PROVE  \A c \in ConfigIds : Labelled(c)'
    <2>1. PICK q \in Request : q = requests[r] /\ Fresh(q)
        BY <1>7, <1>r DEF CommitGrant, Committing
    <2>2. /\ q.pc = "commit" /\ q.op.kind = "share" /\ WriteRow(q)
          /\ q.op \in ShareOp /\ q.config \in ConfigIds
        BY <1>7, <2>1, RequestType DEF CommitGrant, Committing
    <2> DEFINE new == [config |-> q.config, grantee |-> q.op.grantee,
                       permission |-> q.op.permission]
    <2>3. PICK k \in ShareIds :
            shares[k] = NoRow /\ shares' = [shares EXCEPT ![k] = new]
        BY <1>7, <2>1 DEF CommitGrant, NewId
    <2>4. new \in ShareRow /\ new # NoRow
        BY <2>2 DEF ShareRow, ShareOp
    <2>5. /\ shares'[k] = new
          /\ \A i \in ShareIds : i # k => shares'[i] = shares[i]
        BY <2>3 DEF TypeOK, Grants
    <2>6. \A c \in ConfigIds : c # q.config => (Granted(c)' <=> Granted(c))
        BY <2>3, <2>5 DEF Granted
    <2>7. Granted(q.config)'
        BY <2>4, <2>5 DEF Granted
    <2> QED BY <1>0, <2>1, <2>2, <2>6, <2>7, CommitLabels
<1>8. ASSUME NEW r \in Requests, CommitUnshare(r)
      PROVE  \A c \in ConfigIds : Labelled(c)'
    <2>1. PICK q \in Request : q = requests[r] /\ Fresh(q)
        BY <1>8, <1>r DEF CommitUnshare, Committing
    <2>2. q.pc = "commit" /\ q.op.kind = "unshare" /\ WriteRow(q)
        BY <1>8, <2>1 DEF CommitUnshare, Committing
    <2>3. PICK k \in ShareIds :
            /\ q.grants[k] # NoRow /\ q.grants[k].grantee = q.op.grantee
            /\ shares' = [shares EXCEPT ![k] = NoRow]
        BY <1>8, <2>1 DEF CommitUnshare, Of
    <2>4. /\ shares[k] # NoRow /\ shares[k].config = q.config
          /\ shares[k].grantee = q.op.grantee
        BY <1>g, <2>1, <2>2, <2>3
    <2>5. /\ shares'[k] = NoRow
          /\ \A i \in ShareIds : i # k => shares'[i] = shares[i]
        BY <2>3 DEF TypeOK, Grants
    <2>6. \A c \in ConfigIds : c # q.config => (Granted(c)' <=> Granted(c))
        BY <2>4, <2>5 DEF Granted
    <2>7. Of(q.grants, q.op.grantee) = {k}
        <3>1. \A i \in Of(q.grants, q.op.grantee) :
                 /\ i \in ShareIds /\ shares[i] # NoRow
                 /\ shares[i].config = q.config
                 /\ shares[i].grantee = q.op.grantee
            BY <1>g, <2>1, <2>2 DEF Of
        <3> QED BY <2>3, <2>4, <3>1 DEF Of, GrantsInv, UniqueGrant, Rows
    <2>8. Granted(q.config)' <=> \E i \in ShareIds : i # k /\ q.grants[i] # NoRow
        BY <1>g, <2>1, <2>2, <2>5 DEF Granted
    <2>9. Without(q.grants, q.op.grantee) # NoGrants
             <=> \E i \in ShareIds : i # k /\ q.grants[i] # NoRow
        BY <2>7 DEF Without, NoGrants
    <2> QED BY <1>0, <2>1, <2>2, <2>6, <2>8, <2>9, CommitLabels
<1>9. CASE UNCHANGED vars
    BY <1>2, <1>9 DEF vars
<1> QED BY <1>1, <1>3, <1>4, <1>5, <1>6, <1>7, <1>8, <1>9 DEF Next

LEMMA SerialStep ==
    ASSUME TypeOK, TypeOK', GrantsInv, SerialInv, Serial, Serial', [Next]_vars
    PROVE  SerialInv'
<1>1. \A c \in ConfigIds : Granted(c)' <=> (GrantsOf(c) # NoGrants)'
    BY DEF GrantsOf, NoGrants, Granted
<1>2. DerivedVisibility'
    BY <1>1, DerivedStep DEF DerivedVisibility, Labelled
<1> QED BY <1>2, FreshStep DEF SerialInv

LEMMA SerialInvariant == Spec /\ []Serial => []SerialInv
<1>1. Init => SerialInv
    BY DEF Init, SerialInv, RequestsFresh, DerivedVisibility
<1>2. /\ TypeOK /\ TypeOK' /\ GrantsInv /\ SerialInv /\ Serial /\ Serial'
      /\ [Next]_vars
      => SerialInv'
    BY SerialStep
<1> QED BY <1>1, <1>2, TypeCorrect, GrantsInvariant, PTL DEF Spec

(* While requests do not overlap, a config that is not public is shared when *)
(* it has grants and private when it has none, on either database.           *)
THEOREM LabelsFollowGrants == Spec /\ []Serial => []DerivedVisibility
<1>1. SerialInv => DerivedVisibility
    BY DEF SerialInv
<1> QED BY <1>1, SerialInvariant, PTL

(* While requests do not overlap, sharing and editing leave a publication    *)
(* alone: only an update that asks for another label ends it.                *)
THEOREM PublicationsStay == Spec /\ []Serial => PublicUntouched
<1>1. ASSUME TypeOK, SerialInv, [Next]_vars, NEW c \in ConfigIds,
             configs[c] # NoRow, configs'[c] # NoRow,
             configs[c].visibility = "public", configs'[c].visibility # "public"
      PROVE  \E r \in Requests :
                /\ Ends(r, "update")
                /\ requests[r].config = c
                /\ requests[r].op.visibility \in {"private", "shared"}
    <2>1. PICK r \in Requests : CommitsTo(r, c)
        BY <1>1, RowSteps
    <2> DEFINE q == requests[r]
    <2>2. q \in Request /\ configs[c] = q.row
        BY <1>1, <2>1, RequestType DEF CommitsTo, SerialInv, RequestsFresh, Fresh
    <2>3. configs'[c].visibility
             = Column(configs[c].visibility, q.row.visibility, Wanted(q).visibility)
        BY <2>1 DEF CommitsTo, Merged
    <2>4. Wanted(q).visibility # "public" /\ q.row.visibility = "public"
        BY <1>1, <2>2, <2>3 DEF Column
    <2>5. q.op.kind = "update" /\ q.op.visibility \in {"private", "shared"}
        BY <2>2, <2>4, WantedChanges
    <2> QED BY <2>1, <2>5 DEF CommitsTo, Ends, Committing
<1>2. TypeOK /\ SerialInv /\ [Next]_vars =>
         [\A c \in ConfigIds :
            configs[c] # NoRow /\ configs'[c] # NoRow
            /\ configs[c].visibility = "public" /\ configs'[c].visibility # "public"
            => \E r \in Requests :
                  /\ Ends(r, "update")
                  /\ requests[r].config = c
                  /\ requests[r].op.visibility \in {"private", "shared"}
         ]_vars
    BY <1>1
<1> QED BY <1>2, TypeCorrect, SerialInvariant, PTL DEF Spec, PublicUntouched

(* While requests do not overlap, a payload changes only by a caller who has *)
(* OWNER or WRITE access to the config when the change lands.                *)
THEOREM EditorsAreAuthorised == Spec /\ []Serial => EditAuthorised
<1>1. ASSUME TypeOK, ChecksPassed, SerialInv, [Next]_vars, NEW c \in ConfigIds,
             configs[c] # NoRow, configs'[c] # NoRow,
             configs[c].payload # configs'[c].payload
      PROVE  \E r \in Requests :
                /\ Ends(r, "update")
                /\ EffectiveAccess(requests[r].user, configs[c], GrantsOf(c))
                      \in {"owner", "write"}
    <2>1. PICK r \in Requests : CommitsTo(r, c)
        BY <1>1, RowSteps
    <2> DEFINE q == requests[r]
    <2>2. q \in Request /\ configs[c] = q.row /\ q.grants = GrantsOf(c)
        BY <1>1, <2>1, RequestType DEF CommitsTo, SerialInv, RequestsFresh, Fresh
    <2>3. configs'[c].payload
             = Column(configs[c].payload, q.row.payload, Wanted(q).payload)
        BY <2>1 DEF CommitsTo, Merged
    <2>4. q.op.kind = "update" /\ q.op.payload # Keep
        BY <1>1, <2>2, <2>3, WantedChanges DEF Column
    <2>5. Permitted(q.user, q.op, q.row, q.grants)
        BY <1>1, <2>1 DEF CommitsTo, ChecksPassed
    <2>6. EffectiveAccess(q.user, q.row, q.grants) \in {"owner", "write"}
        BY <2>4, <2>5 DEF Permitted, MayUpdate
    <2> QED BY <2>1, <2>2, <2>4, <2>6 DEF CommitsTo, Ends, Committing
<1>2. TypeOK /\ ChecksPassed /\ SerialInv /\ [Next]_vars =>
         [\A c \in ConfigIds :
            configs[c] # NoRow /\ configs'[c] # NoRow
            /\ configs[c].payload # configs'[c].payload
            => \E r \in Requests :
                  /\ Ends(r, "update")
                  /\ EffectiveAccess(requests[r].user, configs[c], GrantsOf(c))
                        \in {"owner", "write"}
         ]_vars
    BY <1>1
<1> QED BY <1>2, TypeCorrect, ChecksInvariant, SerialInvariant, PTL DEF Spec, EditAuthorised

=============================================================================
