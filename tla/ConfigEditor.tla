----------------------------- MODULE ConfigEditor -----------------------------
(***************************************************************************)
(* One user at the pages of a config: app/configs/new/page.tsx and          *)
(* components/config-editor.tsx with its ConfigForm and SharePanel, over    *)
(* one row of the service.                                                  *)
(*                                                                          *)
(* A request is sent, performed by the service and its answer applied by    *)
(* the page in three steps.  The form and the panel each have a request and *)
(* a pending flag of their own, so two may be under way.  How requests      *)
(* interleave inside the service is module Configs; here each is one step.  *)
(*                                                                          *)
(* Slip... definitions are mistakes the properties tell from the model.     *)
(***************************************************************************)
EXTENDS ConfigForm, FiniteSets

CONSTANTS
    Users,      \* the accounts
    Role,       \* the role of every account
    Drafts,     \* what has been or will be saved by whoever saves
    Patches,    \* what the user types, as a field and its new value
    MaxNames,   \* bound: variables in the form
    Budgets     \* bounds: edits, the requests of the form and of the panel,
                \* what others do, faults

Permissions == {"read", "write"}
Grants == [Users -> Permissions \cup {"none"}]
NoGrants == [u \in Users |-> "none"]

ASSUME EditorAssumption ==
    /\ Role \in [Users -> Roles]
    /\ Drafts \subseteq Draft
    /\ \A d \in Drafts : Errors(d) = {}
    /\ \A p \in Patches : p.field \in DOMAIN EmptyDraft \ {"variables"}
                            /\ [EmptyDraft EXCEPT ![p.field] = p.value] \in Draft
    /\ MaxNames \in Nat
    /\ Budgets \subseteq [edits: Nat, saves: Nat, shares: Nat, others: Nat, faults: Nat]

VARIABLES
    me,        \* the account at the page, the same throughout
    row,       \* the config in the service, None when there is none
    grants,    \* its grants
    page,      \* "new", or LoadState of the editor, or "left"
    config,    \* the ConfigDetail the page shows
    draft,     \* the form
    saved,     \* the form says that it is saved
    save,      \* the request of the form, and of the delete button
    share,     \* the request of the panel
    edited,    \* history variable: the form changed while its save was under way
    behind,    \* history variable: the page may not have the last answer
    stored,    \* history variable: the last body a save of this page stored
    created,   \* history variable: rows this page has created
    lost,      \* history variable: answers to a create that were lost
    left       \* what is left of the budget

service == <<me, row, grants>>
form == <<draft, saved, edited>>
ghosts == <<behind, stored, created, lost>>
vars == <<service, page, config, form, save, share, ghosts, left>>

Others == Users \ {me}

Spend(what) == left[what] > 0 /\ left' = [left EXCEPT ![what] = @ - 1]

(* A request: none, sent, or answered with a code and what it carries.      *)
(* "stale" records that the config changed after the answer was made.       *)
NoRequest == [pc |-> "none"]
Sent(kind, body) == [pc |-> "sent", kind |-> kind, body |-> body]
Answered(q, code, detail) ==
    [pc |-> "answered", kind |-> q.kind, code |-> code, detail |-> detail, stale |-> FALSE]
Overtaken(q) == IF q.pc = "answered" THEN [q EXCEPT !.stale = TRUE] ELSE q

(* The button that sends the request is disabled. *)
Pending(q) == q.pc # "none"

----------------------------------------------------------------------------
(* The service: effective_access, ConfigDetail and the rules of a request.  *)

Access(u, r, g) ==
    IF Role[u] = "admin" \/ r.owner = u THEN "owner"
    ELSE IF g[u] # "none" THEN g[u]
    ELSE IF r.visibility = "public" THEN "read" ELSE "none"

MyAccess == IF row = None THEN "none" ELSE Access(me, row, grants)

Given(g) == {u \in Users : g[u] # "none"}

(* ConfigDetail.from_config: the grants are for who manages the config. *)
Detail(r, g, access) ==
    [name |-> r.name, deviceType |-> r.deviceType, owner |-> r.owner,
     visibility |-> r.visibility, payload |-> r.payload, access |-> access,
     shares |-> IF access = "owner" THEN [u \in Given(g) |-> g[u]] ELSE <<>>]

(* "private" and "shared" follow from the grants. *)
Label(visibility, g) ==
    IF visibility = "public" THEN "public"
    ELSE IF Given(g) # {} THEN "shared" ELSE "private"

(* The outcome of PUT /configs/{id}. *)
UpdateCode(body) ==
    LET manages == body.name # None \/ body.visibility # None IN
    IF MyAccess = "none" THEN 404
    ELSE IF manages /\ MyAccess # "owner" THEN 403
    ELSE IF MyAccess = "read" THEN 403
    ELSE IF body.visibility = "public" /\ ~CanPublish(Role[me]) THEN 403
    ELSE 200

UpdatedRow(body) ==
    [row EXCEPT !.payload = body.payload,
                !.name = IF body.name = None THEN @ ELSE body.name,
                !.visibility = IF body.visibility = None THEN @
                               ELSE Label(body.visibility, grants)]

----------------------------------------------------------------------------
Row == [owner: Users, name: Text, deviceType: Text, visibility: Visibilities,
        payload: Payload]

ASSUME RowAssumption == None \notin Row

RowOf(owner, d, g) ==
    [owner |-> owner, name |-> d.name, deviceType |-> d.deviceType,
     visibility |-> Label(d.visibility, g), payload |-> DraftToPayload(d)]

(* The page for a new config, or for one that an account has saved, which a *)
(* publisher may have published and which may be shared with the user.      *)
Init ==
    /\ me \in Users
    /\ \/ page = "new" /\ row = None /\ grants = NoGrants
       \/ /\ page = "loading"
          /\ \E owner \in Users, d \in Drafts, p \in Permissions \cup {"none"} :
                /\ p # "none" => owner # me
                /\ grants = [NoGrants EXCEPT ![me] = p]
                /\ row = RowOf(owner, d, grants)
    /\ config = None
    /\ draft = EmptyDraft /\ saved = FALSE /\ edited = FALSE
    /\ save = NoRequest /\ share = NoRequest
    /\ behind = FALSE /\ stored = None /\ created = 0 /\ lost = 0
    /\ left \in Budgets

(* getConfig answers: 404 and 403 are "notfound", the network an "error".   *)
Load ==
    /\ page = "loading"
    /\ IF MyAccess = "none"
       THEN page' = "notfound" /\ UNCHANGED <<config, form, behind>>
       ELSE /\ page' = "ready"
            /\ config' = Detail(row, grants, MyAccess)
            /\ draft' = ConfigToDraft(config')
            /\ saved' = FALSE /\ edited' = FALSE
            /\ behind' = FALSE
    /\ UNCHANGED <<service, save, share, stored, created, lost, left>>

LoadFails ==
    /\ page = "loading"
    /\ Spend("faults")
    /\ page' = "error"
    /\ UNCHANGED <<service, config, form, save, share, ghosts>>

----------------------------------------------------------------------------
(* The form.                                                                *)

(* ConfigFormMode: MODE_BY_ACCESS, or "create". *)
Mode == IF page = "new" THEN "create" ELSE config.access

(* The field is on the page and enabled. *)
Editable(field) ==
    /\ page \in {"new", "ready"}
    /\ CASE field = "name" -> Mode \in {"create", "owner"}
         [] field = "deviceType" -> Mode = "create"
         [] field = "visibility" -> Mode \in {"create", "owner"} /\ CanPublish(Role[me])
         [] field \in {"ip", "port"} -> Mode # "read" /\ NeedsNetwork(draft.transport)
         [] field = "gpibAddr" -> Mode # "read" /\ draft.transport = "gpib"
         [] field = "comName" -> Mode # "read" /\ draft.transport = "com"
         [] field \in {"ipRequest", "modbus"} -> Mode # "read" /\ IsModbus(draft.transport)
         [] OTHER -> Mode # "read"

(* Without setSaved(false). *)
SlipUpdate(field, value) ==
    /\ Editable(field)
    /\ draft' = [draft EXCEPT ![field] = value]
    /\ edited' = (edited \/ Pending(save))
    /\ Spend("edits")
    /\ UNCHANGED <<service, page, config, saved, save, share, ghosts>>

(* update: any change takes the mark away; it is allowed during a save. *)
Update(field, value) ==
    /\ Editable(field)
    /\ draft' = [draft EXCEPT ![field] = value]
    /\ saved' = FALSE
    /\ edited' = (edited \/ Pending(save))
    /\ Spend("edits")
    /\ UNCHANGED <<service, page, config, save, share, ghosts>>

(* VariablesSection: add, updateAt and removeAt. *)
Added == Append(draft.variables, Written(None))
Renamed(i, text) == [draft.variables EXCEPT ![i] = text]
Removed(i) ==
    [j \in 1..(Len(draft.variables) - 1) |-> draft.variables[IF j < i THEN j ELSE j + 1]]

EditVariables ==
    \/ Len(draft.variables) < MaxNames /\ Update("variables", Added)
    \/ \E i \in DOMAIN draft.variables :
        \/ Update("variables", Removed(i))
        \/ \E p \in Patches : p.field = "name" /\ Update("variables", Renamed(i, p.value))

(* The timer of this save or of an earlier one. *)
Fade ==
    /\ saved
    /\ saved' = FALSE
    /\ UNCHANGED <<service, page, config, draft, edited, save, share, ghosts, left>>

(* The visibility is sent by every owner. *)
SlipBody(d) ==
    [name |-> IF config.access = "owner" THEN d.name ELSE None,
     visibility |-> IF config.access = "owner" THEN d.visibility ELSE None,
     payload |-> DraftToPayload(d)]

(* The body of PUT: an owner also sends the name, a publisher the label. *)
Body(d) ==
    LET owner == config.access = "owner" IN
    [name |-> IF owner THEN d.name ELSE None,
     visibility |-> IF owner /\ CanPublish(Role[me]) THEN d.visibility ELSE None,
     payload |-> DraftToPayload(d)]

(* onFormSubmit, then submit of the page. *)
Submit ==
    /\ page \in {"new", "ready"}
    /\ Mode # "read" /\ ~Pending(save)
    /\ Errors(draft) = {}
    /\ saved' = FALSE /\ edited' = FALSE
    /\ save' = IF page = "new" THEN Sent("create", draft) ELSE Sent("update", Body(draft))
    /\ Spend("saves")
    /\ UNCHANGED <<service, page, config, draft, share, ghosts>>

Remove ==
    /\ page = "ready" /\ config.access = "owner" /\ ~Pending(save)
    /\ save' = Sent("delete", None)
    /\ Spend("saves")
    /\ UNCHANGED <<service, page, config, form, share, ghosts>>

----------------------------------------------------------------------------
(* The service performs a request of the form.                              *)

PerformCreate ==
    /\ save.pc = "sent" /\ save.kind = "create"
    /\ IF save.body.visibility = "public" /\ ~CanPublish(Role[me])
       THEN /\ save' = Answered(save, 403, None)
            /\ UNCHANGED <<service, created>>
       ELSE /\ row' = RowOf(me, save.body, NoGrants)
            /\ grants' = NoGrants
            /\ created' = created + 1
            /\ save' = Answered(save, 201, None)
    /\ UNCHANGED <<me, page, config, form, share, behind, stored, lost, left>>

PerformUpdate ==
    /\ save.pc = "sent" /\ save.kind = "update"
    /\ IF UpdateCode(save.body) = 200
       THEN /\ row' = UpdatedRow(save.body)
            /\ save' = Answered(save, 200,
                  Detail(row', grants, Access(me, row', grants)))
            /\ stored' = save.body
            /\ share' = Overtaken(share)
            /\ behind' = TRUE
       ELSE /\ save' = Answered(save, UpdateCode(save.body), None)
            /\ UNCHANGED <<row, share, stored, behind>>
    /\ UNCHANGED <<me, grants, page, config, form, created, lost, left>>

PerformDelete ==
    /\ save.pc = "sent" /\ save.kind = "delete"
    /\ IF MyAccess = "owner"
       THEN /\ row' = None
            /\ grants' = NoGrants
            /\ save' = Answered(save, 204, None)
            /\ share' = Overtaken(share)
            /\ behind' = TRUE
       ELSE /\ save' = Answered(save, 404, None)
            /\ UNCHANGED <<service, share, behind>>
    /\ UNCHANGED <<me, page, config, form, stored, created, lost, left>>

(* A request that does not arrive, or whose answer does not. *)
SaveLost ==
    /\ save.pc \in {"sent", "answered"}
    /\ save.pc = "answered" => save.code # 0
    /\ Spend("faults")
    /\ save' = Answered(save, 0, None)
    /\ lost' = IF save.pc = "answered" /\ save.code = 201 THEN lost + 1 ELSE lost
    /\ UNCHANGED <<service, page, config, form, share, behind, stored, created>>

(* The button is enabled again before the editor has replaced the page. *)
SlipCreated ==
    /\ save.pc = "answered" /\ save.kind = "create" /\ save.code = 201
    /\ save' = NoRequest
    /\ UNCHANGED <<service, page, config, form, share, ghosts, left>>

(* router.push; the button stays disabled until the editor has replaced it. *)
Created ==
    /\ save.pc = "answered" /\ save.kind = "create" /\ save.code = 201
    /\ page' = "loading"
    /\ save' = NoRequest
    /\ UNCHANGED <<service, config, form, share, ghosts, left>>

(* The page takes the answer for its config; the form keeps its draft. *)
ApplyUpdate ==
    /\ save.pc = "answered" /\ save.kind = "update" /\ save.code = 200
    /\ config' = save.detail
    /\ behind' = save.stale
    /\ saved' = TRUE
    /\ save' = NoRequest
    /\ UNCHANGED <<service, page, draft, edited, share, stored, created, lost, left>>

Leave ==
    /\ save.pc = "answered" /\ save.code = 204
    /\ page' = "left"
    /\ save' = NoRequest
    /\ UNCHANGED <<service, config, form, share, ghosts, left>>

(* describeSaveError: the message is shown and the draft stays. *)
SaveRefused ==
    /\ save.pc = "answered" /\ save.code \in {0, 403, 404}
    /\ save' = NoRequest
    /\ UNCHANGED <<service, page, config, form, share, ghosts, left>>

----------------------------------------------------------------------------
(* The share panel.                                                         *)

(* grant, of a candidate or of a user whose permission changes; revoke. *)
SendShare(u, permission) ==
    /\ page = "ready" /\ config.access = "owner" /\ ~Pending(share)
    /\ \/ permission \in Permissions /\ u \in AvailableGrantees(Users, config.owner, config.shares)
       \/ u \in DOMAIN config.shares /\ permission # config.shares[u]
    /\ share' = Sent("share", [to |-> u, permission |-> permission])
    /\ Spend("shares")
    /\ UNCHANGED <<service, page, config, form, save, ghosts>>

(* A permission "none" is DELETE /shares/{login}. *)
PerformShare ==
    /\ share.pc = "sent"
    /\ LET to == share.body.to
           ok == /\ MyAccess = "owner" /\ to # row.owner
                 /\ share.body.permission = "none" => grants[to] # "none" IN
        IF ok
        THEN /\ grants' = [grants EXCEPT ![to] = share.body.permission]
             /\ row' = [row EXCEPT !.visibility = Label(@, grants')]
             /\ share' = Answered(share, 200, Detail(row', grants', "owner"))
             /\ save' = Overtaken(save)
             /\ behind' = TRUE
        ELSE /\ share' = Answered(share, 404, None)
             /\ UNCHANGED <<service, save, behind>>
    /\ UNCHANGED <<me, page, config, form, stored, created, lost, left>>

ShareLost ==
    /\ share.pc \in {"sent", "answered"}
    /\ share.pc = "answered" => share.code # 0
    /\ Spend("faults")
    /\ share' = Answered(share, 0, None)
    /\ UNCHANGED <<service, page, config, form, save, ghosts>>

(* The page takes only the grants of the answer. *)
SlipTaken(detail) == [config EXCEPT !.shares = detail.shares]

(* onChange of the panel: the page takes the whole answer. *)
Taken(detail) == detail

ApplyShare ==
    /\ share.pc = "answered"
    /\ IF page = "ready" /\ share.code = 200
       THEN config' = Taken(share.detail) /\ behind' = share.stale
       ELSE UNCHANGED <<config, behind>>
    /\ share' = NoRequest
    /\ UNCHANGED <<service, page, form, save, stored, created, lost, left>>

----------------------------------------------------------------------------
(* The other accounts, by whatever the service lets them do.                *)

ByOthers ==
    /\ row # None
    /\ Spend("others")
    /\ save' = Overtaken(save) /\ share' = Overtaken(share)
    /\ behind' = TRUE
    /\ UNCHANGED <<me, page, config, form, stored, created, lost>>

OtherSaves ==
    /\ \E u \in Others, d \in Drafts :
        LET access == IF row = None THEN "none" ELSE Access(u, row, grants) IN
        /\ access \in {"owner", "write"}
        /\ row' = [row EXCEPT !.payload = DraftToPayload(d),
              !.name = IF access = "owner" THEN d.name ELSE @,
              !.visibility = IF access = "owner" /\ CanPublish(Role[u])
                             THEN Label(d.visibility, grants) ELSE @]
    /\ ByOthers
    /\ UNCHANGED grants

(* A grant to this user is given, changed or withdrawn by who may. *)
OtherShares ==
    /\ \E u \in Others, p \in Permissions \cup {"none"} :
        /\ row # None
        /\ Access(u, row, grants) = "owner" /\ row.owner # me /\ p # grants[me]
        /\ grants' = [grants EXCEPT ![me] = p]
        /\ row' = [row EXCEPT !.visibility = Label(@, grants')]
    /\ ByOthers

OtherDeletes ==
    /\ \E u \in Others : row # None /\ Access(u, row, grants) = "owner"
    /\ row' = None
    /\ grants' = NoGrants
    /\ ByOthers

----------------------------------------------------------------------------
Next ==
    \/ Load \/ LoadFails
    \/ \E p \in Patches : Update(p.field, p.value)
    \/ EditVariables \/ Fade \/ Submit \/ Remove
    \/ PerformCreate \/ PerformUpdate \/ PerformDelete \/ SaveLost
    \/ Created \/ ApplyUpdate \/ Leave \/ SaveRefused
    \/ \E u \in Users, p \in Permissions \cup {"none"} : SendShare(u, p)
    \/ PerformShare \/ ShareLost \/ ApplyShare
    \/ OtherSaves \/ OtherShares \/ OtherDeletes

Spec == Init /\ [][Next]_vars

----------------------------------------------------------------------------
TypeOK ==
    /\ me \in Users
    /\ row # None => row \in Row
    /\ grants \in Grants
    /\ page \in {"new", "loading", "ready", "notfound", "error", "left"}
    /\ draft \in Draft
    /\ page = "ready" =>
        /\ config.access \in {"owner", "write", "read"}
        /\ DOMAIN config.shares \subseteq
              IF config.access = "owner" THEN Users \ {config.owner} ELSE {}
    /\ save.pc \in {"none", "sent", "answered"}
    /\ share.pc \in {"none", "sent", "answered"}

(* A config that the form has stored opens without errors, and saving it    *)
(* again without a change stores the same payload: nothing is lost between  *)
(* draftToPayload and configToDraft.                                        *)
ReopensUnchanged ==
    row # None =>
        LET reopened == ConfigToDraft(row) IN
        Errors(reopened) = {} /\ DraftToPayload(reopened) = row.payload

(* One press of "Создать" makes one config: the page makes a second one     *)
(* only after the answer to the first was lost.                             *)
CreatedOnce == created <= 1 + lost

(* While nobody else changes the config and no two answers cross, the page  *)
(* shows the config as the service has it after every save and every grant, *)
(* whichever of the two requests is answered first.                         *)
PageCurrent ==
    (page = "ready" /\ ~behind) => config = Detail(row, grants, MyAccess)

(* The form says "Сохранено" only while it holds what its last save stored, *)
(* unless it was changed before that save was answered.                     *)
SavedMeansStored == (saved /\ ~edited) => Body(draft) = stored

(* A save that the form allows is refused only to a user who has lost       *)
(* access since the page learnt of it: an owner who may not publish can     *)
(* save the rest of a public config (submit of config-editor.tsx).          *)
SaveNotRefused ==
    [][ save.pc = "sent" /\ save'.pc = "answered" /\ save'.code \in {403, 404}
          => save.kind # "create" /\ MyAccess # config.access ]_vars

=============================================================================
