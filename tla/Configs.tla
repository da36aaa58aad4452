------------------------------- MODULE Configs -------------------------------
(***************************************************************************)
(* Device configs and their grants: tstlan/configs/service.py over the      *)
(* tables of tstlan/configs/models.py.                                      *)
(*                                                                          *)
(* Every HTTP request owns an AsyncSession.  It loads the config row, then  *)
(* (a second SELECT, "selectin") the grants of the config, decides on what  *)
(* it loaded, and only its commit writes.  Each await in between lets the   *)
(* other requests run, so a request is a small transaction with a snapshot. *)
(* The unit of work of SQLAlchemy writes by primary key and only the        *)
(* columns that differ from the loaded values; an UPDATE that meets no row  *)
(* raises StaleDataError, a DELETE that meets no row is only logged.        *)
(***************************************************************************)
EXTENDS Integers

CONSTANTS
    Users,       \* the accounts; no endpoint removes one or changes its role
    RoleOf,      \* the role of each account
    ConfigIds,   \* bound: the primary keys device_configs may hand out
    ShareIds,    \* bound: the primary keys config_shares may hand out
    Names,       \* config names
    Payloads,    \* config payloads
    Ops,         \* what callers ask of an existing config, a subset of Op
    Requests,    \* bound: the requests the event loop has in flight
    Database,    \* "sqlite" (the default) or "postgresql"
    NoRow,       \* no row under this primary key
    Idle,        \* no request in this slot
    Keep         \* a field ConfigUpdate leaves out (None)

Roles == {"admin", "dev", "user"}
Visibilities == {"private", "shared", "public"}
Permissions == {"read", "write"}

ConfigRow == [owner: Users, name: Names, payload: Payloads,
              visibility: Visibilities]
ShareRow == [config: ConfigIds, grantee: Users, permission: Permissions]

(* A config's access list: its owner and what is granted to each user. *)
AccessEntry == [owner: Users, grants: [Users -> Permissions \cup {"none"}]]

(* What a caller may ask of an existing config. *)
UpdateOp == [kind: {"update"}, name: Names \cup {Keep},
             payload: Payloads \cup {Keep}, visibility: Visibilities \cup {Keep}]
DeleteOp == [kind: {"delete"}]
ShareOp == [kind: {"share"}, grantee: Users, permission: Permissions]
UnshareOp == [kind: {"unshare"}, grantee: Users]
Op == UpdateOp \cup DeleteOp \cup ShareOp \cup UnshareOp

(* The rows of config_shares by primary key, whole or filtered. *)
Grants == [ShareIds -> ShareRow \cup {NoRow}]

(* A request in flight: "row" has loaded the config, "commit" has loaded    *)
(* its grants too, passed the checks and is about to commit.                *)
Request == [pc: {"row", "commit"}, user: Users, op: Ops, config: ConfigIds,
            row: ConfigRow, grants: Grants]

ASSUME ConfigsAssumption ==
    /\ RoleOf \in [Users -> Roles]
    /\ Ops \subseteq Op
    /\ ConfigIds \subseteq Nat \ {0}
    /\ ShareIds \subseteq Nat \ {0}
    /\ Database \in {"sqlite", "postgresql"}
    /\ NoRow \notin ConfigRow \cup ShareRow \cup AccessEntry
    /\ Idle \notin Request
    /\ Keep \notin Names \cup Payloads \cup Visibilities

VARIABLES
    configs,       \* device_configs by primary key
    shares,        \* config_shares by primary key
    lastConfigId,  \* sequence of device_configs.id (postgresql only)
    lastShareId,   \* sequence of config_shares.id (postgresql only)
    requests       \* the requests in flight

vars == <<configs, shares, lastConfigId, lastShareId, requests>>

----------------------------------------------------------------------------
(* Access rules, as functions of a config row and a set of its grants.      *)
(*                                                                          *)
(* Definitions named Slip... are not part of the model: each is a small     *)
(* mistake the code could have made, and the properties tell it from the    *)
(* definition that follows it.                                              *)

(* The first grant of the config, whosever it is. *)
SlipOf(grants, u) == {i \in ShareIds : grants[i] # NoRow}

Of(grants, u) == {i \in ShareIds : grants[i] # NoRow /\ grants[i].grantee = u}

SharePermission(u, grants) ==
    IF Of(grants, u) = {} THEN "none"
    ELSE grants[CHOOSE i \in Of(grants, u) : TRUE].permission

EffectiveAccess(u, row, grants) ==
    IF RoleOf[u] = "admin" \/ row.owner = u THEN "owner"
    ELSE IF Of(grants, u) # {} THEN SharePermission(u, grants)
    ELSE IF row.visibility = "public" THEN "read"
    ELSE "none"

CanPublish(u) == RoleOf[u] \in {"dev", "admin"}

(* A label that is raised by the first grant and never lowered again. *)
SlipLabel(visibility, granted) ==
    IF visibility = "public" THEN "public"
    ELSE IF granted THEN "shared" ELSE visibility

(* A label that follows the grants of public configs too. *)
SlipPublication(visibility, granted) == IF granted THEN "shared" ELSE "private"

(* PRIVATE and SHARED follow from the grants, PUBLIC is left alone. *)
NormalizedVisibility(visibility, granted) ==
    IF visibility = "public" THEN "public"
    ELSE IF granted THEN "shared" ELSE "private"

(* The grants of config c as a SELECT on config_shares returns them. *)
GrantsOf(c) ==
    [i \in ShareIds |->
        IF shares[i] # NoRow /\ shares[i].config = c THEN shares[i] ELSE NoRow]

NoGrants == [i \in ShareIds |-> NoRow]

(* The label taken for the join with config_shares. *)
SlipListed(u) ==
    {c \in ConfigIds : configs[c] # NoRow /\
        \/ RoleOf[u] = "admin"
        \/ configs[c].owner = u
        \/ configs[c].visibility \in {"public", "shared"}}

(* What list_configs' WHERE clause selects for a user who is not admin. *)
Listed(u) ==
    {c \in ConfigIds : configs[c] # NoRow /\
        \/ RoleOf[u] = "admin"
        \/ configs[c].owner = u
        \/ configs[c].visibility = "public"
        \/ \E i \in ShareIds : /\ shares[i] # NoRow
                               /\ shares[i].config = c
                               /\ shares[i].grantee = u}

(* PUT /configs/{id} without the check that the caller may publish. *)
SlipMayPublish(u, op, access) ==
    /\ access # "none"
    /\ (op.name # Keep \/ op.visibility # Keep) => access = "owner"
    /\ op.payload # Keep => access \in {"owner", "write"}

(* PUT /configs/{id} with a payload that any reader may send. *)
SlipMayEdit(u, op, access) ==
    /\ access # "none"
    /\ (op.name # Keep \/ op.visibility # Keep) => access = "owner"
    /\ op.visibility = "public" => CanPublish(u)

MayUpdate(u, op, access) ==
    /\ access # "none"
    /\ (op.name # Keep \/ op.visibility # Keep) => access = "owner"
    /\ op.payload # Keep => access \in {"owner", "write"}
    /\ op.visibility = "public" => CanPublish(u)

(* Without CannotShareWithOwner. *)
SlipMayShare(op, row, access) == access = "owner"

MayShare(op, row, access) == access = "owner" /\ op.grantee # row.owner

(* The checks each handler makes on what it loaded, before it writes. *)
Permitted(u, op, row, grants) ==
    LET access == EffectiveAccess(u, row, grants) IN
    CASE op.kind = "update" -> MayUpdate(u, op, access)
      [] op.kind = "delete" -> access = "owner"
      [] op.kind = "share" -> MayShare(op, row, access)
      [] op.kind = "unshare" -> access = "owner" /\ Of(grants, op.grantee) # {}

----------------------------------------------------------------------------
(* What a commit would write. *)

(* SQLite's rule whatever the database. *)
SlipNewId(table, last, i) ==
    /\ table[i] = NoRow
    /\ \A j \in DOMAIN table : /\ table[j] # NoRow => j < i
                               /\ j = i - 1 => table[j] # NoRow

(* The primary key the database gives a new row.  SQLite's INTEGER PRIMARY  *)
(* KEY is the largest rowid in use plus one, so the key of a deleted last   *)
(* row is used again; a PostgreSQL sequence never goes back.                *)
NewId(table, last, i) ==
    /\ table[i] = NoRow
    /\ IF Database = "sqlite"
       THEN \A j \in DOMAIN table : /\ table[j] # NoRow => j < i
                                    /\ j = i - 1 => table[j] # NoRow
       ELSE i = last + 1

Advanced(last, i) == IF Database = "sqlite" THEN last ELSE i

(* An UPDATE of every column with what the session holds. *)
SlipColumn(stored, loaded, wanted) == wanted

(* A column in an UPDATE: it is written only when it was changed. *)
Column(stored, loaded, wanted) == IF wanted = loaded THEN stored ELSE wanted

Merged(stored, loaded, wanted) ==
    [owner |-> stored.owner,
     name |-> Column(stored.name, loaded.name, wanted.name),
     payload |-> Column(stored.payload, loaded.payload, wanted.payload),
     visibility |-> Column(stored.visibility, loaded.visibility,
                           wanted.visibility)]

(* The config row as update_config leaves it in the session. *)
Updated(op, row, grants) ==
    [row EXCEPT
        !.name = IF op.name = Keep THEN @ ELSE op.name,
        !.payload = IF op.payload = Keep THEN @ ELSE op.payload,
        !.visibility =
            IF op.visibility = Keep THEN @
            ELSE IF op.visibility = "public" THEN "public"
            ELSE NormalizedVisibility("private", grants # NoGrants)]

Normalized(row, granted) ==
    [row EXCEPT !.visibility = NormalizedVisibility(@, granted)]

(* The grants of a request without those of user u. *)
Without(grants, u) ==
    [i \in ShareIds |-> IF i \in Of(grants, u) THEN NoRow ELSE grants[i]]

(* The row a request leaves in its session. *)
Wanted(q) ==
    CASE q.op.kind = "update" -> Updated(q.op, q.row, q.grants)
      [] q.op.kind = "delete" -> q.row
      [] q.op.kind = "share" -> Normalized(q.row, TRUE)
      [] q.op.kind = "unshare" ->
            Normalized(q.row, Without(q.grants, q.op.grantee) # NoGrants)

(* UPDATE device_configs ... WHERE id: an error when no row is left. *)
RowWritable(q) == Wanted(q) = q.row \/ configs[q.config] # NoRow

WriteRow(q) ==
    configs' = IF Wanted(q) = q.row THEN configs
               ELSE [configs EXCEPT ![q.config] = Merged(@, q.row, Wanted(q))]

(* UPDATE config_shares SET permission WHERE id, for a loaded grant. *)
GrantWritable(q, i) ==
    q.grants[i].permission = q.op.permission \/ shares[i] # NoRow

WriteGrant(q, i) ==
    shares' = IF q.grants[i].permission = q.op.permission THEN shares
              ELSE [shares EXCEPT ![i].permission = q.op.permission]

(* Without uq_config_share_grantee. *)
SlipInsertable(q) == configs[q.config] # NoRow

(* INSERT INTO config_shares: the foreign key and the unique constraint. *)
GrantInsertable(q) ==
    /\ configs[q.config] # NoRow
    /\ Of(GrantsOf(q.config), q.op.grantee) = {}

(* The grants that go with a config: the loaded ones by primary key, the    *)
(* rest by ON DELETE CASCADE.                                               *)
RemovedWith(q) ==
    {i \in ShareIds : q.grants[i] # NoRow \/ GrantsOf(q.config)[i] # NoRow}

----------------------------------------------------------------------------
Init ==
    /\ configs = [c \in ConfigIds |-> NoRow]
    /\ shares = [i \in ShareIds |-> NoRow]
    /\ lastConfigId = 0
    /\ lastShareId = 0
    /\ requests = [r \in Requests |-> Idle]

(* POST /configs: nothing is read before the INSERT. *)
Create(u, name, payload, visibility) ==
    /\ visibility = "public" => CanPublish(u)
    /\ \E c \in ConfigIds :
        /\ NewId(configs, lastConfigId, c)
        /\ configs' = [configs EXCEPT ![c] =
              [owner |-> u, name |-> name, payload |-> payload,
               visibility |-> IF visibility = "public" THEN "public"
                              ELSE "private"]]
        /\ lastConfigId' = Advanced(lastConfigId, c)
    /\ UNCHANGED <<shares, lastShareId, requests>>

(* get_config, first SELECT: a missing config answers 404 and ends there. *)
LoadRow(r, u, op, c) ==
    /\ requests[r] = Idle
    /\ configs[c] # NoRow
    /\ requests' = [requests EXCEPT ![r] =
          [pc |-> "row", user |-> u, op |-> op, config |-> c,
           row |-> configs[c], grants |-> NoGrants]]
    /\ UNCHANGED <<configs, shares, lastConfigId, lastShareId>>

(* get_config, second SELECT, and the checks of the handler. *)
LoadShares(r) ==
    /\ requests[r] # Idle
    /\ requests[r].pc = "row"
    /\ LET q == requests[r]
           grants == GrantsOf(q.config) IN
        requests' = [requests EXCEPT ![r] =
            IF Permitted(q.user, q.op, q.row, grants)
            THEN [q EXCEPT !.pc = "commit", !.grants = grants]
            ELSE Idle]
    /\ UNCHANGED <<configs, shares, lastConfigId, lastShareId>>

Committing(r, kind) ==
    /\ requests[r] # Idle
    /\ requests[r].pc = "commit"
    /\ requests[r].op.kind = kind

Finish(r) == requests' = [requests EXCEPT ![r] = Idle]

CommitUpdate(r) ==
    /\ Committing(r, "update")
    /\ RowWritable(requests[r])
    /\ WriteRow(requests[r])
    /\ Finish(r)
    /\ UNCHANGED <<shares, lastConfigId, lastShareId>>

CommitDelete(r) ==
    /\ Committing(r, "delete")
    /\ LET q == requests[r] IN
        /\ configs' = [configs EXCEPT ![q.config] = NoRow]
        /\ shares' = [i \in ShareIds |->
              IF i \in RemovedWith(q) THEN NoRow ELSE shares[i]]
    /\ Finish(r)
    /\ UNCHANGED <<lastConfigId, lastShareId>>

(* share_config when a grant of this grantee was loaded. *)
CommitRegrant(r) ==
    /\ Committing(r, "share")
    /\ LET q == requests[r] IN
        /\ RowWritable(q)
        /\ \E i \in Of(q.grants, q.op.grantee) :
              GrantWritable(q, i) /\ WriteGrant(q, i)
        /\ WriteRow(q)
    /\ Finish(r)
    /\ UNCHANGED <<lastConfigId, lastShareId>>

(* share_config when none was. *)
CommitGrant(r) ==
    /\ Committing(r, "share")
    /\ LET q == requests[r] IN
        /\ Of(q.grants, q.op.grantee) = {}
        /\ GrantInsertable(q)
        /\ \E i \in ShareIds :
            /\ NewId(shares, lastShareId, i)
            /\ shares' = [shares EXCEPT ![i] =
                  [config |-> q.config, grantee |-> q.op.grantee,
                   permission |-> q.op.permission]]
            /\ lastShareId' = Advanced(lastShareId, i)
        /\ WriteRow(q)
    /\ Finish(r)
    /\ UNCHANGED lastConfigId

CommitUnshare(r) ==
    /\ Committing(r, "unshare")
    /\ LET q == requests[r] IN
        /\ RowWritable(q)
        /\ \E i \in Of(q.grants, q.op.grantee) :
              shares' = [shares EXCEPT ![i] = NoRow]
        /\ WriteRow(q)
    /\ Finish(r)
    /\ UNCHANGED <<lastConfigId, lastShareId>>

(* StaleDataError, IntegrityError, or a key past the bound: the request's   *)
(* transaction is rolled back and the caller sees an error.                 *)
Rollback(r) ==
    /\ requests[r] # Idle
    /\ requests[r].pc = "commit"
    /\ LET q == requests[r] IN
        \/ ~RowWritable(q)
        \/ q.op.kind = "share" /\
            \/ \E i \in Of(q.grants, q.op.grantee) : ~GrantWritable(q, i)
            \/ /\ Of(q.grants, q.op.grantee) = {}
               /\ \/ ~GrantInsertable(q)
                  \/ \A i \in ShareIds : ~NewId(shares, lastShareId, i)
    /\ Finish(r)
    /\ UNCHANGED <<configs, shares, lastConfigId, lastShareId>>

Next ==
    \/ \E u \in Users, n \in Names, p \in Payloads, v \in Visibilities :
          Create(u, n, p, v)
    \/ \E r \in Requests :
        \/ \E u \in Users, op \in Ops, c \in ConfigIds : LoadRow(r, u, op, c)
        \/ LoadShares(r)
        \/ CommitUpdate(r)
        \/ CommitDelete(r)
        \/ CommitRegrant(r)
        \/ CommitGrant(r)
        \/ CommitUnshare(r)
        \/ Rollback(r)

Spec == Init /\ [][Next]_vars

----------------------------------------------------------------------------
TypeOK ==
    /\ configs \in [ConfigIds -> ConfigRow \cup {NoRow}]
    /\ shares \in Grants
    /\ lastConfigId \in Nat
    /\ lastShareId \in Nat
    /\ requests \in [Requests -> Request \cup {Idle}]


Rows == {i \in ShareIds : shares[i] # NoRow}

(* A grantee has at most one grant on a config, whatever order two shares   *)
(* of one config commit in (uq_config_share_grantee).                       *)
UniqueGrant ==
    \A i, j \in Rows :
        shares[i].config = shares[j].config /\ shares[i].grantee = shares[j].grantee
            => i = j

(* No grant outlives its config: a share that commits after the config was  *)
(* deleted fails, a delete takes along grants added since it loaded them.   *)
NoOrphanShare == \A i \in Rows : configs[shares[i].config] # NoRow

(* Types and constraints of the tables together, after every commit.        *)
RowsSound == TypeOK /\ UniqueGrant /\ NoOrphanShare

(* The owner is never a grantee (CannotShareWithOwner in share_config).     *)
OwnerNeverGrantee ==
    \A i \in Rows : configs[shares[i].config] # NoRow
        => configs[shares[i].config].owner # shares[i].grantee

(* What a request loaded is, while it exists, still the row it loaded: the  *)
(* config of the same owner, the grant of the same user on the same config. *)
(* Writing by primary key alone is right only as long as this holds.        *)
SnapshotsMatchRows ==
    \A r \in Requests : requests[r] # Idle =>
        LET q == requests[r] IN
        /\ configs[q.config] # NoRow => configs[q.config].owner = q.row.owner
        /\ \A i \in Rows : q.grants[i] # NoRow =>
              /\ shares[i].config = q.config
              /\ shares[i].grantee = q.grants[i].grantee

(* The WHERE clause of list_configs selects exactly the configs whose       *)
(* effective_access is not None, so that GET /configs hides no accessible   *)
(* config and the Python filter after it removes nothing.                   *)
ListAgrees ==
    \A u \in Users, c \in ConfigIds :
        c \in Listed(u) <=>
            configs[c] # NoRow /\ EffectiveAccess(u, configs[c], GrantsOf(c)) # "none"

(* docs/data-model.rst: "shared" is derived; a config that is not public is *)
(* shared when it has grants and private when it has none.                  *)
DerivedVisibility ==
    \A c \in ConfigIds : configs[c] # NoRow /\ configs[c].visibility # "public"
        => configs[c].visibility =
              IF GrantsOf(c) # NoGrants THEN "shared" ELSE "private"

----------------------------------------------------------------------------
(* Action properties relate what a step changes to the request it ends.     *)

Ends(r, kind) == Committing(r, kind) /\ requests'[r] = Idle

(* A public config stays public until a caller sets another visibility or   *)
(* deletes it: sharing and editing leave the publication alone              *)
(* ("PUBLIC не трогаем", _normalize_visibility).                            *)
PublicUntouched ==
    [][\A c \in ConfigIds :
        configs[c] # NoRow /\ configs'[c] # NoRow
        /\ configs[c].visibility = "public" /\ configs'[c].visibility # "public"
        => \E r \in Requests : /\ Ends(r, "update")
                               /\ requests[r].config = c
                               /\ requests[r].op.visibility \in {"private", "shared"}
      ]_vars

(* Only an account that may publish makes a config public, by asking to:    *)
(* no stale commit of anyone else publishes it again.                       *)
PublishedByPublisher ==
    [][\A c \in ConfigIds :
        configs[c] # NoRow /\ configs'[c] # NoRow
        /\ configs[c].visibility # "public" /\ configs'[c].visibility = "public"
        => \E r \in Requests : /\ Ends(r, "update")
                               /\ requests[r].config = c
                               /\ requests[r].op.visibility = "public"
                               /\ CanPublish(requests[r].user)
      ]_vars

(* A name or payload changes only by an update that carries the new value:  *)
(* a commit never writes back what it loaded over a later edit.             *)
EditsFollowRequests ==
    [][\A c \in ConfigIds :
        configs[c] # NoRow /\ configs'[c] # NoRow =>
        /\ configs[c].name # configs'[c].name =>
              \E r \in Requests : Ends(r, "update") /\ requests[r].config = c
                                  /\ requests[r].op.name = configs'[c].name
        /\ configs[c].payload # configs'[c].payload =>
              \E r \in Requests : Ends(r, "update") /\ requests[r].config = c
                                  /\ requests[r].op.payload = configs'[c].payload
      ]_vars

(* A grant appears or changes only by a share of that config to that user   *)
(* with that permission, and goes only with an unshare of that user or with *)
(* the config: no request reaches another user's or config's grant.         *)
GrantsFollowRequests ==
    [][\A i \in ShareIds : shares'[i] # shares[i] =>
        IF shares'[i] # NoRow
        THEN \E r \in Requests :
                /\ Ends(r, "share")
                /\ shares'[i] = [config |-> requests[r].config,
                                 grantee |-> requests[r].op.grantee,
                                 permission |-> requests[r].op.permission]
        ELSE \/ configs'[shares[i].config] = NoRow
             \/ \E r \in Requests : /\ Ends(r, "unshare")
                                    /\ requests[r].config = shares[i].config
                                    /\ requests[r].op.grantee = shares[i].grantee
      ]_vars

(* docs/api.rst, PUT /configs/{id}: a payload is changed only by a caller   *)
(* who has OWNER or WRITE access to the config when the change lands.       *)
EditAuthorised ==
    [][\A c \in ConfigIds :
        configs[c] # NoRow /\ configs'[c] # NoRow
        /\ configs[c].payload # configs'[c].payload
        => \E r \in Requests :
              /\ Ends(r, "update")
              /\ EffectiveAccess(requests[r].user, configs[c], GrantsOf(c))
                    \in {"owner", "write"}
      ]_vars

----------------------------------------------------------------------------
(* The access list that the two tables hold for each config.                *)

AccessList ==
    [c \in ConfigIds |->
        IF configs[c] = NoRow THEN NoRow
        ELSE [owner |-> configs[c].owner,
              grants |-> [u \in Users |-> SharePermission(u, GrantsOf(c))]]]

UsedIds == {c \in ConfigIds : c <= lastConfigId}

AC == INSTANCE AccessControl
        WITH Absent <- NoRow, acl <- AccessList, used <- UsedIds

(* On a database that never hands out a key twice, every commit is one step *)
(* of the access list or leaves it alone, however the requests interleave.  *)
ImplementsAccessControl == AC!Spec

=============================================================================
