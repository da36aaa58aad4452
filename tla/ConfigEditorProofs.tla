-------------------------- MODULE ConfigEditorProofs --------------------------
(***************************************************************************)
(* The promises of ConfigEditor, for any accounts, any drafts and any       *)
(* number of edits, requests, answers and changes by others.                *)
(*                                                                          *)
(* The invariant says what the page may rely on while a request is under    *)
(* way: what its body was made of, whose config it is, and whether the      *)
(* answer still is what the service has.                                    *)
(***************************************************************************)
EXTENDS ConfigEditor, SequenceTheorems, TLAPS

(* A name and a device type that the form takes. *)
GoodName(text) == text.core \notin TooLong.name \cup {None}
GoodType(text) == text.core \notin TooLong.deviceType \cup {None}

(* What a draft without errors is, field by field. *)
Accepted(d) ==
    /\ GoodName(d.name) /\ GoodType(d.deviceType)
    /\ NeedsNetwork(d.transport) => d.ip.core # None /\ Within(ParseInt(d.port), 1, 65535)
    /\ d.transport = "gpib" => Within(ParseInt(d.gpibAddr), 0, 30)
    /\ d.transport = "com" => d.comName.core # None
    /\ ParseInt(d.pollPeriodMs) # None /\ ~(ParseInt(d.pollPeriodMs) <= 0)
    /\ IsModbus(d.transport) => \A r \in Registers : ParseCount(d.modbus[r]) # None
    /\ BadVariables(d.variables) = {}

LEMMA NoErrors ==
    ASSUME NEW d
    PROVE  Errors(d) = {} <=> Accepted(d)
<1>1. Invalid("name", d) <=> ~GoodName(d.name)
  BY DEF Invalid, GoodName, IsBlank
<1>2. Invalid("deviceType", d) <=> ~GoodType(d.deviceType)
  BY DEF Invalid, GoodType, IsBlank
<1>3. Invalid("ip", d) <=> NeedsNetwork(d.transport) /\ d.ip.core = None
  BY DEF Invalid, IsBlank
<1>4. Invalid("port", d) <=> NeedsNetwork(d.transport) /\ ~Within(ParseInt(d.port), 1, 65535)
  BY DEF Invalid
<1>5. Invalid("gpibAddr", d) <=> d.transport = "gpib" /\ ~Within(ParseInt(d.gpibAddr), 0, 30)
  BY DEF Invalid
<1>6. Invalid("comName", d) <=> d.transport = "com" /\ d.comName.core = None
  BY DEF Invalid, IsBlank
<1>7. Invalid("pollPeriodMs", d) <=>
        (ParseInt(d.pollPeriodMs) = None \/ ParseInt(d.pollPeriodMs) <= 0)
  BY DEF Invalid
<1>8. Invalid("modbus", d) <=>
        IsModbus(d.transport) /\ \E r \in Registers : ParseCount(d.modbus[r]) = None
  BY DEF Invalid
<1>9. Invalid("variables", d) <=> BadVariables(d.variables) # {}
  BY DEF Invalid
<1>10. Errors(d) = {} <=>
        /\ ~Invalid("name", d) /\ ~Invalid("deviceType", d) /\ ~Invalid("ip", d)
        /\ ~Invalid("port", d) /\ ~Invalid("gpibAddr", d) /\ ~Invalid("comName", d)
        /\ ~Invalid("pollPeriodMs", d) /\ ~Invalid("modbus", d) /\ ~Invalid("variables", d)
  BY Zenon DEF Errors, Fields
<1> QED
  BY <1>1, <1>2, <1>3, <1>4, <1>5, <1>6, <1>7, <1>8, <1>9, <1>10 DEF Accepted

----------------------------------------------------------------------------
(* Texts and numbers.                                                       *)

LEMMA WrittenIsText ==
    ASSUME NEW x \in Core
    PROVE  Written(x) \in Text /\ Written(x).core = x
  BY DEF Written, Text

LEMMA ParsedNumber ==
    ASSUME NEW text \in Text
    PROVE  /\ ParseInt(text) \in Int \cup {None}
           /\ ParseInt(Written(ParseInt(text))) = ParseInt(text)
           /\ ParseCount(text) \in Nat \cup {None}
           /\ ParseCount(Written(ParseCount(text))) = ParseCount(text) \/ ParseCount(text) = None
  BY FormAssumption DEF ParseInt, ParseCount, IsBlank, Written, Text, Core

(* The fields of a draft. *)
LEMMA DraftFields ==
    ASSUME NEW d \in Draft
    PROVE  /\ {d.name, d.deviceType, d.ip, d.port, d.gpibAddr, d.comName,
               d.ipRequest, d.pollPeriodMs} \subseteq Text
           /\ d.visibility \in Visibilities /\ d.transport \in Transports
           /\ d.modbus \in [Registers -> Text] /\ d.variables \in Seq(Text)
  BY DEF Draft

LEMMA PayloadFields ==
    ASSUME NEW p \in Payload
    PROVE  /\ p.transport \in Transports /\ {p.ip, p.com, p.ipRequest} \subseteq Core
           /\ {p.port, p.gpib} \subseteq Int \cup {None} /\ p.poll \in Int
           /\ p.modbus \in [Registers -> Nat] \cup {None} /\ p.variables \in Seq(Core)
  BY DEF Payload

----------------------------------------------------------------------------
(* From the form to the service and back.                                   *)

LEMMA CoresOfVariables ==
    ASSUME NEW names \in Seq(Text)
    PROVE  [i \in DOMAIN names |-> names[i].core] \in Seq(Core)
<1>1. Len(names) \in Nat /\ names \in [1..Len(names) -> Text] /\ DOMAIN names = 1..Len(names)
  BY LenProperties
<1>2. [i \in 1..Len(names) |-> names[i].core] \in [1..Len(names) -> Core]
  BY <1>1 DEF Text
<1> QED
  BY <1>1, <1>2, SeqDef

LEMMA TextsOfVariables ==
    ASSUME NEW cores \in Seq(Core)
    PROVE  [i \in DOMAIN cores |-> Written(cores[i])] \in Seq(Text)
<1>1. Len(cores) \in Nat /\ cores \in [1..Len(cores) -> Core] /\ DOMAIN cores = 1..Len(cores)
  BY LenProperties
<1>2. [i \in 1..Len(cores) |-> Written(cores[i])] \in [1..Len(cores) -> Text]
  BY <1>1, WrittenIsText
<1> QED
  BY <1>1, <1>2, SeqDef

(* A draft without errors is sent as a payload. *)
LEMMA SentIsPayload ==
    ASSUME NEW d \in Draft, Errors(d) = {}
    PROVE  DraftToPayload(d) \in Payload
<1> DEFINE p == DraftToPayload(d)
<1>1. Accepted(d)
  BY NoErrors
<1>2. p.ip \in Core /\ p.com \in Core /\ p.ipRequest \in Core
  BY DraftFields DEF DraftToPayload, Text, Core
<1>3. p.port \in Int \cup {None} /\ p.gpib \in Int \cup {None}
  BY DraftFields, ParsedNumber DEF DraftToPayload, Gpib
<1>4. p.poll \in Int
  BY <1>1, DraftFields, ParsedNumber DEF DraftToPayload, Accepted
<1>5. p.modbus \in [Registers -> Nat] \cup {None}
  BY <1>1, DraftFields, ParsedNumber DEF DraftToPayload, Accepted
<1>6. p.variables \in Seq(Core) /\ p.transport \in Transports
  BY DraftFields, CoresOfVariables DEF DraftToPayload
<1>7. p = [transport |-> p.transport, ip |-> p.ip, port |-> p.port, gpib |-> p.gpib,
           com |-> p.com, ipRequest |-> p.ipRequest, poll |-> p.poll, modbus |-> p.modbus,
           variables |-> p.variables]
  BY DEF DraftToPayload
<1> HIDE DEF p
<1>8. [transport |-> p.transport, ip |-> p.ip, port |-> p.port, gpib |-> p.gpib,
       com |-> p.com, ipRequest |-> p.ipRequest, poll |-> p.poll, modbus |-> p.modbus,
       variables |-> p.variables] \in Payload
  BY <1>2, <1>3, <1>4, <1>5, <1>6 DEF Payload
<1> QED
  BY <1>7, <1>8, Zenon DEF p

(* A stored config opens as a draft. *)
LEMMA OpenedIsDraft ==
    ASSUME NEW kept, kept.name \in Text, kept.deviceType \in Text,
           kept.visibility \in Visibilities, kept.payload \in Payload
    PROVE  ConfigToDraft(kept) \in Draft
<1> DEFINE p == kept.payload
           m == [r \in Registers |-> Written(IF p.modbus = None THEN 0 ELSE p.modbus[r])]
           names == [i \in DOMAIN p.variables |-> Written(p.variables[i])]
<1>1. m \in [Registers -> Text]
  BY PayloadFields, WrittenIsText DEF Core
<1>2. names \in Seq(Text)
  BY PayloadFields, TextsOfVariables
<1>3. /\ Written(p.ip) \in Text /\ Written(p.port) \in Text /\ Written(p.gpib) \in Text
      /\ Written(p.com) \in Text /\ Written(p.ipRequest) \in Text /\ Written(p.poll) \in Text
  BY PayloadFields, WrittenIsText DEF Core
<1>4. p.transport \in Transports
  BY PayloadFields
<1>5. ConfigToDraft(kept) =
        [name |-> kept.name, deviceType |-> kept.deviceType,
         visibility |-> kept.visibility, transport |-> p.transport,
         ip |-> Written(p.ip), port |-> Written(p.port), gpibAddr |-> Written(p.gpib),
         comName |-> Written(p.com), ipRequest |-> Written(p.ipRequest),
         pollPeriodMs |-> Written(p.poll), modbus |-> m, variables |-> names]
  BY Zenon DEF ConfigToDraft
<1> HIDE DEF m, names
<1> QED
  BY <1>1, <1>2, <1>3, <1>4, <1>5 DEF Draft

(* A config is as the form stores it. *)
Stored(kept) ==
    /\ GoodName(kept.name) /\ GoodType(kept.deviceType)
    /\ \E d \in Draft : Errors(d) = {} /\ kept.payload = DraftToPayload(d)

(* What the form has stored opens without errors, and saved again without a *)
(* change it is the same payload, for any texts, numbers, registers and     *)
(* variables (draftToPayload and configToDraft of lib/configs.ts).          *)
THEOREM RoundTrip ==
    ASSUME NEW kept, Stored(kept)
    PROVE  /\ Errors(ConfigToDraft(kept)) = {}
           /\ DraftToPayload(ConfigToDraft(kept)) = kept.payload
<1>1. PICK d \in Draft : Errors(d) = {} /\ kept.payload = DraftToPayload(d)
  BY DEF Stored
<1> DEFINE e == ConfigToDraft(kept)
           p == DraftToPayload(d)
           again == DraftToPayload(e)
<1>2. Accepted(d) /\ kept.payload = p
  BY <1>1, NoErrors
<1>3. GoodName(e.name) /\ GoodType(e.deviceType) /\ e.transport = d.transport
  BY <1>2 DEF Stored, ConfigToDraft, DraftToPayload
<1>4. /\ e.ip = Written(p.ip) /\ e.port = Written(p.port) /\ e.gpibAddr = Written(p.gpib)
      /\ e.comName = Written(p.com) /\ e.ipRequest = Written(p.ipRequest)
      /\ e.pollPeriodMs = Written(p.poll)
  BY <1>2 DEF ConfigToDraft
<1>5. NeedsNetwork(d.transport) => /\ e.ip.core = d.ip.core /\ p.ip = d.ip.core
                                   /\ p.port = ParseInt(d.port)
                                   /\ ParseInt(e.port) = ParseInt(d.port)
  <2> SUFFICES ASSUME NeedsNetwork(d.transport)
               PROVE  /\ e.ip.core = d.ip.core /\ p.ip = d.ip.core
                      /\ p.port = ParseInt(d.port) /\ ParseInt(e.port) = ParseInt(d.port)
    OBVIOUS
  <2>1. p.ip = d.ip.core /\ p.port = ParseInt(d.port)
    BY DEF DraftToPayload
  <2>2. d.port \in Text
    BY DraftFields
  <2> HIDE DEF p, e
  <2> QED
    <3>1. e.ip.core = p.ip
      BY <1>4 DEF Written
    <3>2. ParseInt(e.port) = ParseInt(d.port)
      BY <1>4, <2>1, <2>2, ParsedNumber, Zenon
    <3> QED
      BY <2>1, <3>1, <3>2
<1>6. d.transport = "gpib" => p.gpib = ParseInt(d.gpibAddr)
                              /\ ParseInt(e.gpibAddr) = ParseInt(d.gpibAddr)
  BY <1>4, DraftFields, ParsedNumber DEF DraftToPayload, Gpib
<1>7. d.transport = "com" => e.comName.core = d.comName.core /\ p.com = d.comName.core
  BY <1>4 DEF DraftToPayload, Written
<1>8. p.poll = ParseInt(d.pollPeriodMs) /\ ParseInt(e.pollPeriodMs) = ParseInt(d.pollPeriodMs)
  BY <1>4, DraftFields, ParsedNumber DEF DraftToPayload
<1>9. IsModbus(d.transport) =>
        /\ p.modbus = [r \in Registers |-> ParseCount(d.modbus[r])]
        /\ \A r \in Registers : ParseCount(e.modbus[r]) = ParseCount(d.modbus[r])
  <2> SUFFICES ASSUME IsModbus(d.transport)
               PROVE  /\ p.modbus = [r \in Registers |-> ParseCount(d.modbus[r])]
                      /\ \A r \in Registers : ParseCount(e.modbus[r]) = ParseCount(d.modbus[r])
    OBVIOUS
  <2>1. p.modbus = [r \in Registers |-> ParseCount(d.modbus[r])]
    BY DEF DraftToPayload
  <2>2. \A r \in Registers : ParseCount(d.modbus[r]) \in Nat
    BY <1>2, DraftFields, ParsedNumber DEF Accepted
  <2>3. p.modbus \in [Registers -> Nat]
    BY <2>1, <2>2
  <2>4. e.modbus = [r \in Registers |-> Written(p.modbus[r])]
    BY <1>2, <2>3, FormAssumption DEF ConfigToDraft
  <2> HIDE DEF p, e
  <2>5. ASSUME NEW r \in Registers PROVE ParseCount(e.modbus[r]) = ParseCount(d.modbus[r])
    BY <2>1, <2>2, <2>4, FormAssumption DEF ParseCount, ParseInt, IsBlank, Written
  <2> QED
    BY <2>1, <2>5
<1>10. DOMAIN e.variables = DOMAIN d.variables
       /\ \A i \in DOMAIN d.variables : e.variables[i].core = d.variables[i].core
  BY <1>2 DEF ConfigToDraft, DraftToPayload, Written
<1>11. BadVariables(e.variables) = {}
  <2>1. BadVariables(d.variables) = {} /\ DOMAIN d.variables = 1..Len(d.variables)
    BY <1>2, DraftFields, LenProperties DEF Accepted
  <2>2. \A i \in DOMAIN d.variables : \A j \in 1..(i - 1) : j \in DOMAIN d.variables
    BY <2>1, DraftFields, LenProperties
  <2> QED
    BY <1>10, <2>1, <2>2, Zenon DEF BadVariables, IsBlank
<1>12. Accepted(e)
  <2> HIDE DEF e, p
  <2> QED
    BY <1>2, <1>3, <1>5, <1>6, <1>7, <1>8, <1>9, <1>11 DEF Accepted
<1>13. again = p
  <2>1. again.transport = p.transport /\ again.ip = p.ip /\ again.port = p.port
    BY <1>3, <1>4, <1>5 DEF DraftToPayload, Written
  <2>2. again.gpib = p.gpib /\ again.com = p.com
    BY <1>3, <1>4, <1>6, <1>7 DEF DraftToPayload, Gpib, Written
  <2>3. again.ipRequest = p.ipRequest /\ again.poll = p.poll
    BY <1>3, <1>4, <1>8 DEF DraftToPayload, Written
  <2>4. again.modbus = p.modbus
    BY <1>3, <1>9 DEF DraftToPayload
  <2>5. again.variables = p.variables
    BY <1>10 DEF DraftToPayload
  <2> QED
    BY <2>1, <2>2, <2>3, <2>4, <2>5, <1>3 DEF DraftToPayload
<1> QED
  BY <1>2, <1>12, <1>13, NoErrors

-----------------------------------------------------------------------------
Codes == {0, 200, 201, 204, 403, 404}

(* A config as the page shows it: who may manage it, and whose grants. *)
Shown(c) ==
    /\ c.access \in {"owner", "write", "read"}
    /\ c.access = "owner" <=> (Role[me] = "admin" \/ c.owner = me)
    /\ DOMAIN c.shares \subseteq IF c.access = "owner" THEN Users \ {c.owner} ELSE {}

(* The config in the service was stored by the form, and its owner has no   *)
(* grant.                                                                   *)
RowSound ==
    /\ me \in Users /\ grants \in Grants
    /\ row # None => row \in Row /\ Stored(row) /\ grants[row.owner] = "none"

PageSound ==
    /\ page \in {"new", "loading", "ready", "notfound", "error", "left"}
    /\ draft \in Draft
    /\ saved \in BOOLEAN /\ edited \in BOOLEAN /\ behind \in BOOLEAN
    /\ page = "new" => ~saved /\ (draft.visibility = "public" => CanPublish(Role[me]))
    /\ page = "ready" => Shown(config) /\ (row # None => config.owner = row.owner)

Shape(q) ==
    /\ q.pc \in {"none", "sent", "answered"}
    /\ q.pc = "answered" =>
        /\ q = [pc |-> "answered", kind |-> q.kind, code |-> q.code,
                detail |-> q.detail, stale |-> q.stale]
        /\ q.code \in Codes /\ q.stale \in BOOLEAN

(* An answer is of the page's config, and as the service has it unless it   *)
(* is stale.                                                                *)
Current(q) == ~q.stale => row # None /\ q.detail = Detail(row, grants, MyAccess)

GoodBody(body) ==
    /\ body.name # None => body.name \in Text /\ GoodName(body.name)
    /\ body.visibility # None => body.visibility \in Visibilities
    /\ body.visibility = "public" => CanPublish(Role[me])
    /\ \E d \in Draft : Errors(d) = {} /\ body.payload = DraftToPayload(d)

SaveSent ==
    save.pc = "sent" =>
        /\ save.kind = "create" =>
              /\ save.body \in Draft /\ Errors(save.body) = {}
              /\ save.body.visibility = "public" => CanPublish(Role[me])
        /\ save.kind = "update" =>
              /\ GoodBody(save.body)
              /\ config.access # "read"
              /\ (save.body.name # None \/ save.body.visibility # None) => config.access = "owner"
              /\ ~edited => save.body = Body(draft)
        /\ save.kind = "delete" => config.access = "owner"

SaveAnswered ==
    save.pc = "answered" =>
        /\ save.code = 200 => save.kind = "update"
        /\ save.code = 201 => save.kind = "create"
        /\ save.code = 204 => save.kind = "delete"
        /\ save.code = 200 =>
              /\ Shown(save.detail) /\ save.detail.owner = config.owner
              /\ Current(save)
              /\ ~edited => stored = Body(draft)

SaveSound ==
    /\ Shape(save)
    /\ save.pc # "none" =>
        /\ save.kind \in {"create", "update", "delete"}
        /\ page = IF save.kind = "create" THEN "new" ELSE "ready"
        /\ save.kind = "update" => ~saved
    /\ SaveSent
    /\ SaveAnswered

ShareSound ==
    /\ Shape(share)
    /\ share.pc # "none" => page \in {"ready", "left"}
    /\ share.pc = "sent" =>
        share.body.to \in Users /\ share.body.permission \in Permissions \cup {"none"}
    /\ (share.pc = "answered" /\ share.code = 200) =>
        /\ Shown(share.detail) /\ share.detail.access = "owner"
        /\ page = "ready" => share.detail.owner = config.owner
        /\ Current(share)

CountSound ==
    /\ created \in Nat /\ lost \in Nat
    /\ CreatedOnce
    /\ page = "new" =>
        (save.pc = "answered" /\ save.code = 201) \/ created <= lost

(* The inductive invariant. *)
Inv ==
    /\ RowSound /\ PageSound /\ SaveSound /\ ShareSound /\ CountSound
    /\ PageCurrent /\ SavedMeansStored

----------------------------------------------------------------------------
(* The operators of the service.                                            *)

LEMMA LabelType ==
    ASSUME NEW v \in Visibilities, NEW g
    PROVE  Label(v, g) \in Visibilities
  BY DEF Label, Visibilities

LEMMA RowFields ==
    ASSUME NEW r \in Row
    PROVE  /\ r # None /\ r.owner \in Users /\ r.name \in Text /\ r.deviceType \in Text
           /\ r.visibility \in Visibilities /\ r.payload \in Payload
           /\ r = [owner |-> r.owner, name |-> r.name, deviceType |-> r.deviceType,
                   visibility |-> r.visibility, payload |-> r.payload]
  BY RowAssumption DEF Row

(* A row with another name, label and payload. *)
LEMMA RowChanged ==
    ASSUME NEW r \in Row, Stored(r), NEW new,
           new = [owner |-> r.owner, name |-> new.name, deviceType |-> r.deviceType,
                  visibility |-> new.visibility, payload |-> new.payload],
           new.name \in Text, GoodName(new.name), new.visibility \in Visibilities,
           \E d \in Draft : Errors(d) = {} /\ new.payload = DraftToPayload(d)
    PROVE  new \in Row /\ Stored(new) /\ new.owner = r.owner
<1>1. new.payload \in Payload
  BY SentIsPayload
<1>2. new \in Row /\ new.owner = r.owner /\ new.deviceType = r.deviceType
  BY <1>1 DEF Row
<1> QED
  BY <1>2 DEF Stored

LEMMA RowCreated ==
    ASSUME NEW owner \in Users, NEW d \in Draft, Errors(d) = {}, NEW g
    PROVE  LET r == RowOf(owner, d, g) IN r \in Row /\ Stored(r) /\ r.owner = owner
<1> DEFINE r == RowOf(owner, d, g)
<1>1. DraftToPayload(d) \in Payload /\ Label(d.visibility, g) \in Visibilities
  BY SentIsPayload, LabelType, DraftFields
<1>2. d.name \in Text /\ d.deviceType \in Text /\ GoodName(d.name) /\ GoodType(d.deviceType)
  BY NoErrors, DraftFields DEF Accepted
<1>3. r \in Row /\ r.owner = owner
  BY <1>1, <1>2 DEF RowOf, Row
<1>4. r.name = d.name /\ r.deviceType = d.deviceType /\ r.payload = DraftToPayload(d)
  BY DEF RowOf
<1> QED
  BY <1>2, <1>3, <1>4 DEF Stored

LEMMA AccessOf ==
    ASSUME RowSound, NEW r \in Row, NEW g \in Grants
    PROVE  /\ Access(me, r, g) \in {"owner", "write", "read", "none"}
           /\ Access(me, r, g) = "owner" <=> (Role[me] = "admin" \/ r.owner = me)
  BY DEF Access, RowSound, Grants, Permissions

(* What the service answers is a config of the page. *)
LEMMA DetailIsShown ==
    ASSUME RowSound, NEW r \in Row, NEW g \in Grants, g[r.owner] = "none",
           Access(me, r, g) # "none"
    PROVE  LET c == Detail(r, g, Access(me, r, g)) IN
           Shown(c) /\ c.owner = r.owner /\ c.access = Access(me, r, g)
<1> DEFINE a == Access(me, r, g)
           c == Detail(r, g, a)
<1>1. c.owner = r.owner /\ c.access = a
  BY DEF Detail
<1>2. a \in {"owner", "write", "read"} /\ (a = "owner" <=> (Role[me] = "admin" \/ r.owner = me))
  BY AccessOf
<1>3. DOMAIN c.shares = IF a = "owner" THEN Given(g) ELSE {}
  BY DEF Detail
<1>4. Given(g) \subseteq Users \ {r.owner}
  BY DEF Given
<1> HIDE DEF a, c
<1>5. Shown(c)
  BY <1>1, <1>2, <1>3, <1>4 DEF Shown
<1> QED
  BY <1>1, <1>5 DEF a, c

----------------------------------------------------------------------------
(* What no step changes. *)

LEMMA RowKept ==
    ASSUME RowSound, UNCHANGED <<me, row, grants>>
    PROVE  RowSound'
  BY DEF RowSound

LEMMA PageKept ==
    ASSUME PageSound, UNCHANGED <<me, page, config, draft, saved, edited>>,
           behind' \in BOOLEAN, row' # None => row # None /\ row'.owner = row.owner
    PROVE  PageSound'
  BY DEF PageSound, Shown

LEMMA SaveKept ==
    ASSUME SaveSound,
           UNCHANGED <<me, row, grants, page, config, draft, saved, edited, save, stored>>
    PROVE  SaveSound'
  BY DEF SaveSound, SaveSent, SaveAnswered, Shape, Shown, Current, GoodBody, MyAccess, Body

LEMMA ShareKept ==
    ASSUME ShareSound, UNCHANGED <<me, row, grants, page, config, share>>
    PROVE  ShareSound'
  BY DEF ShareSound, Shape, Shown, Current, MyAccess

LEMMA CountKept ==
    ASSUME CountSound, UNCHANGED <<page, created, lost>>,
           page = "new" => UNCHANGED save
    PROVE  CountSound'
  BY DEF CountSound, CreatedOnce

LEMMA ViewKept ==
    ASSUME PageCurrent, UNCHANGED <<me, row, grants, page, config, behind>>
    PROVE  PageCurrent'
  BY DEF PageCurrent, MyAccess

LEMMA MarkKept ==
    ASSUME SavedMeansStored, UNCHANGED <<me, config, draft, saved, edited, stored>>
    PROVE  SavedMeansStored'
  BY DEF SavedMeansStored, Body

----------------------------------------------------------------------------
(* Requests.                                                                *)

LEMMA OvertakenIs ==
    ASSUME NEW q, Shape(q)
    PROVE  LET o == Overtaken(q) IN
           /\ Shape(o) /\ o.pc = q.pc
           /\ q.pc # "answered" => o = q
           /\ q.pc = "answered" => /\ o.kind = q.kind /\ o.code = q.code
                                   /\ o.detail = q.detail /\ o.stale = TRUE
  BY DEF Overtaken, Shape

(* The config changes in the service under a request. *)
LEMMA SaveOvertaken ==
    ASSUME SaveSound, save' = Overtaken(save),
           UNCHANGED <<me, page, config, draft, saved, edited, stored>>
    PROVE  SaveSound'
<1>1. Shape(save) /\ Shape(save') /\ save'.pc = save.pc
  BY OvertakenIs DEF SaveSound, Shape
<1>2. CASE save.pc # "answered"
  <2>1. save' = save
    BY <1>2, OvertakenIs DEF SaveSound
  <2> QED
    BY <1>2, <2>1 DEF SaveSound, SaveSent, SaveAnswered, Shape, GoodBody, Body
<1>3. CASE save.pc = "answered"
  <2>1. save'.kind = save.kind /\ save'.code = save.code /\ save'.detail = save.detail
        /\ save'.stale = TRUE
    BY <1>1, <1>3, OvertakenIs
  <2> QED
    BY <1>1, <1>3, <2>1 DEF SaveSound, SaveSent, SaveAnswered, Shape, Shown, Current, Body
<1> QED
  BY <1>2, <1>3

LEMMA ShareOvertaken ==
    ASSUME ShareSound, share' = Overtaken(share), UNCHANGED <<me, page, config>>
    PROVE  ShareSound'
<1>1. Shape(share) /\ Shape(share') /\ share'.pc = share.pc
  BY OvertakenIs DEF ShareSound, Shape
<1>2. CASE share.pc # "answered"
  <2>1. share' = share
    BY <1>2, OvertakenIs DEF ShareSound
  <2> QED
    BY <1>2, <2>1 DEF ShareSound, Shape
<1>3. CASE share.pc = "answered"
  <2>1. share'.kind = share.kind /\ share'.code = share.code /\ share'.detail = share.detail
        /\ share'.stale = TRUE
    BY <1>1, <1>3, OvertakenIs
  <2> QED
    BY <1>1, <1>3, <2>1 DEF ShareSound, Shape, Shown, Current
<1> QED
  BY <1>2, <1>3

----------------------------------------------------------------------------
(* Every step keeps the invariant: the parts a step does not touch by the   *)
(* lemmas above, the others one by one.                                     *)

LEMMA LoadKeeps ==
    ASSUME Inv, Load
    PROVE  Inv'
<1>1. save.pc = "none" /\ share.pc = "none" /\ page = "loading"
  BY DEF Inv, Load, SaveSound, ShareSound, Shape
<1>2. RowSound' /\ CountSound'
  BY <1>1, RowKept DEF Inv, Load, CountSound, CreatedOnce, service
<1>3. SaveSound' /\ ShareSound'
  BY <1>1 DEF Inv, Load, SaveSound, ShareSound, Shape, SaveSent, SaveAnswered
<1>4. CASE MyAccess = "none"
  <2>1. PageSound' /\ PageCurrent' /\ SavedMeansStored'
    BY <1>1, <1>4, MarkKept DEF Inv, Load, PageSound, PageCurrent, service, form
  <2> QED
    BY <1>2, <1>3, <2>1 DEF Inv
<1>5. CASE MyAccess # "none"
  <2>1. /\ row # None /\ row \in Row /\ Stored(row) /\ grants[row.owner] = "none"
        /\ grants \in Grants /\ RowSound /\ Access(me, row, grants) = MyAccess
    BY <1>5 DEF Inv, RowSound, MyAccess
  <2>2. /\ page' = "ready" /\ config' = Detail(row, grants, MyAccess)
        /\ draft' = ConfigToDraft(config') /\ saved' = FALSE /\ edited' = FALSE
        /\ behind' = FALSE /\ UNCHANGED service
    BY <1>5 DEF Load
  <2>3. Shown(config') /\ config'.owner = row.owner
    BY <1>5, <2>1, <2>2, DetailIsShown
  <2>4. draft' \in Draft
    <3>1. /\ config'.name = row.name /\ config'.deviceType = row.deviceType
          /\ config'.visibility = row.visibility /\ config'.payload = row.payload
      BY <2>2 DEF Detail
    <3> QED
      BY <2>1, <2>2, <3>1, RowFields, OpenedIsDraft
  <2>5. PageSound' /\ SavedMeansStored'
    BY <2>2, <2>3, <2>4 DEF PageSound, Shown, SavedMeansStored, service
  <2>6. PageCurrent'
    BY <2>2 DEF PageCurrent, MyAccess, service
  <2> QED
    BY <1>2, <1>3, <2>5, <2>6 DEF Inv
<1> QED
  BY <1>4, <1>5

LEMMA LoadFailsKeeps ==
    ASSUME Inv, LoadFails
    PROVE  Inv'
<1>1. save.pc = "none" /\ share.pc = "none"
  BY DEF Inv, LoadFails, SaveSound, ShareSound, Shape
<1>2. SaveSound' /\ ShareSound' /\ CountSound' /\ PageCurrent' /\ PageSound'
  BY <1>1 DEF Inv, LoadFails, SaveSound, ShareSound, Shape, SaveSent, SaveAnswered,
     CountSound, CreatedOnce, PageCurrent, PageSound, service, form, ghosts
<1> QED
  BY <1>2, RowKept, MarkKept DEF Inv, LoadFails, service, form, ghosts

----------------------------------------------------------------------------
(* The form. *)

LEMMA UpdateKeeps ==
    ASSUME Inv, NEW field \in DOMAIN EmptyDraft, NEW value, Update(field, value),
           [draft EXCEPT ![field] = value] \in Draft
    PROVE  Inv'
<1>1. draft' \in Draft /\ saved' = FALSE /\ edited' = (edited \/ save.pc # "none")
  BY DEF Update, Pending
<1>2. page = "new" => (draft'.visibility = "public" => CanPublish(Role[me]))
  <2>1. CASE field = "visibility"
    BY <2>1 DEF Update, Editable
  <2>2. CASE field # "visibility"
    <3>1. draft'.visibility = draft.visibility
      BY <2>2 DEF Update, Inv, PageSound, Draft
    <3> QED
      BY <3>1 DEF Inv, PageSound
  <2> QED
    BY <2>1, <2>2
<1>3. PageSound'
  BY <1>1, <1>2 DEF Inv, PageSound, Shown, Update, service, ghosts
<1>4. SaveSound'
  <2>1. /\ UNCHANGED <<me, row, grants, page, config, save, stored>> /\ edited \in BOOLEAN
        /\ SaveSound
    BY DEF Inv, PageSound, Update, service, ghosts
  <2>2. CASE save.pc = "none"
    BY <2>1, <2>2 DEF SaveSound, SaveSent, SaveAnswered, Shape
  <2>3. CASE save.pc = "sent"
    <3>1. edited' = TRUE
      BY <1>1, <2>3
    <3>2. SaveSent'
      BY <2>1, <2>3, <3>1 DEF SaveSound, SaveSent, GoodBody
    <3>3. SaveAnswered'
      BY <2>1, <2>3 DEF SaveAnswered
    <3> QED
      BY <1>1, <2>1, <3>2, <3>3 DEF SaveSound, Shape
  <2>4. CASE save.pc = "answered"
    BY <1>1, <2>1, <2>4 DEF SaveSound, SaveSent, SaveAnswered, Shape, Shown, Current, MyAccess
  <2> QED
    BY <2>1, <2>2, <2>3, <2>4 DEF SaveSound, Shape
<1>5. SavedMeansStored'
  BY <1>1 DEF SavedMeansStored
<1> QED
  BY <1>3, <1>4, <1>5, RowKept, ShareKept, CountKept, ViewKept
     DEF Inv, Update, service, ghosts

(* What the user types is a draft again. *)
LEMMA TypedIsDraft ==
    ASSUME NEW d \in Draft, NEW p \in Patches
    PROVE  /\ p.field \in DOMAIN EmptyDraft
           /\ [d EXCEPT ![p.field] = p.value] \in Draft
           /\ p.field = "name" => p.value \in Text
<1> DEFINE typed == [EmptyDraft EXCEPT ![p.field] = p.value]
<1>1. p.field \in DOMAIN EmptyDraft \ {"variables"} /\ typed \in Draft
  BY EditorAssumption
<1>2. typed[p.field] = p.value
  BY <1>1
<1>3. p.field \in {"name", "deviceType", "visibility", "transport", "ip", "port",
                   "gpibAddr", "comName", "ipRequest", "pollPeriodMs", "modbus"}
  BY <1>1 DEF EmptyDraft
<1> HIDE DEF typed
<1>4. /\ p.field \in {"name", "deviceType", "ip", "port", "gpibAddr", "comName",
                      "ipRequest", "pollPeriodMs"} => p.value \in Text
      /\ p.field = "visibility" => p.value \in Visibilities
      /\ p.field = "transport" => p.value \in Transports
      /\ p.field = "modbus" => p.value \in [Registers -> Text]
  BY <1>1, <1>2, DraftFields
<1>5. [d EXCEPT ![p.field] = p.value] \in Draft
  BY <1>3, <1>4 DEF Draft
<1> QED
  BY <1>1, <1>4, <1>5

LEMMA NamesTyped ==
    ASSUME NEW d \in Draft, NEW names \in Seq(Text)
    PROVE  [d EXCEPT !.variables = names] \in Draft
  BY DEF Draft

LEMMA EditVariablesKeeps ==
    ASSUME Inv, EditVariables
    PROVE  Inv'
<1>1. draft \in Draft /\ draft.variables \in Seq(Text) /\ "variables" \in DOMAIN EmptyDraft
  BY DraftFields DEF Inv, PageSound, EmptyDraft
<1>2. Len(draft.variables) \in Nat /\ DOMAIN draft.variables = 1..Len(draft.variables)
      /\ \A i \in 1..Len(draft.variables) : draft.variables[i] \in Text
  BY <1>1
<1>3. CASE Update("variables", Added)
  <2>1. Written(None) \in Text
    BY WrittenIsText DEF Core
  <2>2. Added \in Seq(Text)
    BY <1>1, <2>1 DEF Added
  <2> QED
    BY <1>1, <1>3, <2>2, NamesTyped, UpdateKeeps
<1>4. ASSUME NEW i \in DOMAIN draft.variables, Update("variables", Removed(i))
      PROVE  Inv'
  <2>1. Len(draft.variables) - 1 \in Nat
    BY <1>2
  <2>2. Removed(i) \in [1..(Len(draft.variables) - 1) -> Text]
    BY <1>2 DEF Removed
  <2>3. Removed(i) \in Seq(Text)
    BY <2>1, <2>2, SeqDef
  <2> QED
    BY <1>1, <1>4, <2>3, NamesTyped, UpdateKeeps
<1>5. ASSUME NEW i \in DOMAIN draft.variables, NEW p \in Patches,
             p.field = "name", Update("variables", Renamed(i, p.value))
      PROVE  Inv'
  <2>1. p.value \in Text
    BY <1>1, <1>5, TypedIsDraft
  <2>2. Renamed(i, p.value) \in Seq(Text)
    BY <1>1, <1>2, <2>1 DEF Renamed
  <2> QED
    BY <1>1, <1>5, <2>2, NamesTyped, UpdateKeeps
<1> QED
  BY <1>3, <1>4, <1>5 DEF EditVariables

LEMMA FadeKeeps ==
    ASSUME Inv, Fade
    PROVE  Inv'
<1>1. PageSound' /\ SavedMeansStored'
  BY DEF Inv, Fade, PageSound, Shown, SavedMeansStored, service, ghosts
<1>2. SaveSound'
  BY DEF Inv, Fade, SaveSound, SaveSent, SaveAnswered, Shape, Shown, Current, GoodBody,
     MyAccess, Body, service, ghosts
<1> QED
  BY <1>1, <1>2, RowKept, ShareKept, CountKept, ViewKept DEF Inv, Fade, service, ghosts

(* What is sent was accepted, and only a publisher's body says "public". *)
LEMMA SubmitKeeps ==
    ASSUME Inv, Submit
    PROVE  Inv'
<1>1. /\ save.pc = "none" /\ draft \in Draft /\ Errors(draft) = {} /\ page \in {"new", "ready"}
      /\ saved' = FALSE /\ edited' = FALSE
      /\ UNCHANGED <<me, row, grants, page, config, draft, share>> /\ UNCHANGED ghosts
  BY DEF Inv, PageSound, Submit, Pending, service
<1>2. PageSound' /\ SavedMeansStored'
  BY <1>1 DEF Inv, PageSound, Shown, SavedMeansStored, ghosts
<1>3. CASE page = "new"
  <2>1. save' = Sent("create", draft) /\ (draft.visibility = "public" => CanPublish(Role[me]))
    BY <1>3 DEF Inv, PageSound, Submit
  <2>2. SaveSound'
    BY <1>1, <1>3, <2>1 DEF SaveSound, SaveSent, SaveAnswered, Shape, Sent
  <2>3. CountSound'
    BY <1>1, <1>3 DEF Inv, CountSound, CreatedOnce, ghosts
  <2> QED
    BY <1>1, <1>2, <2>2, <2>3, RowKept, ShareKept, ViewKept DEF Inv, ghosts
<1>4. CASE page = "ready"
  <2>1. save' = Sent("update", Body(draft)) /\ config.access # "read"
    BY <1>4 DEF Submit, Mode
  <2>2. /\ draft.name \in Text /\ GoodName(draft.name) /\ draft.visibility \in Visibilities
    BY <1>1, NoErrors, DraftFields DEF Accepted
  <2>3. GoodBody(Body(draft))
    BY <1>1, <2>2, FormAssumption DEF GoodBody, Body, Visibilities
  <2>4. /\ GoodBody(Body(draft))'
        /\ (Body(draft).name # None \/ Body(draft).visibility # None) => config.access = "owner"
        /\ Body(draft)' = Body(draft)
    BY <1>1, <2>3 DEF GoodBody, Body
  <2>5. /\ save'.pc = "sent" /\ save'.kind = "update" /\ save'.body = Body(draft)
    BY <2>1 DEF Sent
  <2>6. SaveSound'
    BY <1>1, <1>4, <2>1, <2>4, <2>5 DEF SaveSound, SaveSent, SaveAnswered, Shape, GoodBody
  <2> QED
    BY <1>1, <1>2, <1>4, <2>6, RowKept, ShareKept, ViewKept, CountKept DEF Inv, ghosts
<1> QED
  BY <1>1, <1>3, <1>4

LEMMA RemoveKeeps ==
    ASSUME Inv, Remove
    PROVE  Inv'
<1>1. SaveSound'
  BY DEF Inv, Remove, Pending, Sent, SaveSound, SaveSent, SaveAnswered, Shape, service, form
<1> QED
  BY <1>1, RowKept, PageKept, ShareKept, CountKept, ViewKept, MarkKept
     DEF Inv, PageSound, Remove, service, form, ghosts

----------------------------------------------------------------------------
(* The service performs a request of the form. *)

LEMMA PerformCreateKeeps ==
    ASSUME Inv, PerformCreate
    PROVE  Inv'
<1>1. /\ page = "new" /\ share.pc = "none" /\ Shape(share) /\ ~saved /\ me \in Users
      /\ save.body \in Draft /\ Errors(save.body) = {} /\ save.kind = "create"
      /\ save.body.visibility = "public" => CanPublish(Role[me])
  BY DEF Inv, PerformCreate, RowSound, PageSound, SaveSound, SaveSent, ShareSound, Shape
<1>2. /\ row' = RowOf(me, save.body, NoGrants) /\ grants' = NoGrants
      /\ created' = created + 1 /\ save' = Answered(save, 201, None)
      /\ UNCHANGED <<me, page, config, draft, saved, edited, share, behind, stored, lost>>
  BY <1>1 DEF PerformCreate, form
<1>3. /\ Shape(save') /\ save'.pc = "answered" /\ save'.kind = "create" /\ save'.code = 201
  BY <1>1, <1>2 DEF Answered, Codes, Shape
<1>4. RowSound'
  <2>1. row' \in Row /\ Stored(row')
    BY <1>1, <1>2, RowCreated
  <2>2. NoGrants \in Grants /\ NoGrants[row'.owner] = "none"
    BY <2>1, RowFields DEF NoGrants, Grants
  <2> QED
    BY <1>1, <1>2, <2>1, <2>2 DEF RowSound
<1>5. PageSound' /\ ShareSound' /\ PageCurrent' /\ SavedMeansStored'
  BY <1>1, <1>2 DEF Inv, PageSound, ShareSound, Shape, PageCurrent, SavedMeansStored
<1>6. SaveSound'
  BY <1>1, <1>2, <1>3 DEF SaveSound, SaveSent, SaveAnswered
<1>7. CountSound'
  <2>1. created <= lost
    BY <1>1 DEF Inv, CountSound, PerformCreate
  <2> QED
    BY <1>2, <1>3, <2>1 DEF Inv, CountSound, CreatedOnce
<1> QED
  BY <1>4, <1>5, <1>6, <1>7 DEF Inv

(* What an accepted PUT leaves. *)
LEMMA UpdateStores ==
    ASSUME Inv, PerformUpdate, UpdateCode(save.body) = 200
    PROVE  /\ row # None /\ MyAccess \in {"owner", "write"}
           /\ row' \in Row /\ Stored(row') /\ row'.owner = row.owner
           /\ grants[row.owner] = "none" /\ grants \in Grants
           /\ Access(me, row', grants) = MyAccess
<1>1. /\ row # None /\ MyAccess \in {"owner", "write"} /\ row \in Row /\ Stored(row)
      /\ grants \in Grants /\ grants[row.owner] = "none" /\ RowSound
  <2>1. row # None /\ MyAccess # "none" /\ MyAccess # "read"
    BY DEF UpdateCode, MyAccess
  <2> QED
    BY <2>1, AccessOf DEF Inv, RowSound, MyAccess
<1>2. GoodBody(save.body) /\ row' = UpdatedRow(save.body)
  BY DEF Inv, PerformUpdate, SaveSound, SaveSent
<1> DEFINE b == save.body
           name == IF b.name = None THEN row.name ELSE b.name
           v == IF b.visibility = None THEN row.visibility ELSE Label(b.visibility, grants)
<1>3. PICK d \in Draft : Errors(d) = {} /\ b.payload = DraftToPayload(d)
  BY <1>2 DEF GoodBody
<1>4. name \in Text /\ GoodName(name)
  BY <1>1, <1>2, RowFields DEF GoodBody, Stored
<1>5. v \in Visibilities
  BY <1>1, <1>2, RowFields, LabelType DEF GoodBody
<1>6. /\ row' = [owner |-> row.owner, name |-> row'.name, deviceType |-> row.deviceType,
                  visibility |-> row'.visibility, payload |-> row'.payload]
      /\ row'.name = name /\ row'.visibility = v /\ row'.payload = b.payload
  <2>1. row' = [row EXCEPT !.payload = b.payload, !.name = name, !.visibility = v]
    BY <1>2 DEF UpdatedRow
  <2>2. row = [owner |-> row.owner, name |-> row.name, deviceType |-> row.deviceType,
               visibility |-> row.visibility, payload |-> row.payload]
    BY <1>1, RowFields
  <2> HIDE DEF name, v, b
  <2> QED
    BY <2>1, <2>2
<1> HIDE DEF name, v, b
<1>7. row' \in Row /\ Stored(row') /\ row'.owner = row.owner
  BY <1>1, <1>3, <1>4, <1>5, <1>6, RowChanged
<1>8. Access(me, row', grants) = MyAccess
  BY <1>1, <1>7 DEF Access, MyAccess
<1> QED
  BY <1>1, <1>7, <1>8

LEMMA PerformUpdateKeeps ==
    ASSUME Inv, PerformUpdate
    PROVE  Inv'
<1>1. /\ save.pc = "sent" /\ save.kind = "update" /\ page = "ready" /\ ~saved
      /\ saved \in BOOLEAN /\ edited \in BOOLEAN /\ save.pc # "none"
      /\ ~edited => save.body = Body(draft)
      /\ UNCHANGED <<me, grants, page, config, draft, saved, edited, created, lost>>
  BY DEF Inv, PerformUpdate, SaveSound, SaveSent, PageSound, form
<1>2. CASE UpdateCode(save.body) = 200
  <2> DEFINE answer == Detail(row', grants, Access(me, row', grants))
  <2>1. /\ row # None /\ row' \in Row /\ row' # None /\ Stored(row') /\ row'.owner = row.owner
        /\ grants[row.owner] = "none" /\ grants \in Grants
        /\ Access(me, row', grants) # "none" /\ MyAccess' = Access(me, row', grants)
    BY <1>1, <1>2, UpdateStores, RowFields DEF MyAccess
  <2>2. /\ save' = Answered(save, 200, answer) /\ stored' = save.body
        /\ share' = Overtaken(share) /\ behind' = TRUE
    BY <1>2 DEF PerformUpdate
  <2>3. RowSound' /\ RowSound
    BY <1>1, <2>1 DEF Inv, RowSound
  <2>4. Shown(answer) /\ answer.owner = row.owner
    BY <2>1, <2>3, DetailIsShown
  <2>5. config.owner = row.owner
    BY <1>1, <2>1 DEF Inv, PageSound
  <2> HIDE DEF answer
  <2>6. /\ Shape(save') /\ save'.pc = "answered" /\ save'.kind = "update" /\ save'.code = 200
        /\ save'.detail = answer
    BY <1>1, <2>2 DEF Answered, Codes, Shape
  <2>7. Current(save)'
    BY <1>1, <2>1, <2>6 DEF Current, answer
  <2>8. Shown(save.detail)'
    BY <1>1, <2>4, <2>6 DEF Shown
  <2>9. SaveSound'
    BY <1>1, <2>2, <2>4, <2>5, <2>6, <2>7, <2>8 DEF SaveSound, SaveSent, SaveAnswered, Body
  <2> QED
    BY <1>1, <2>1, <2>2, <2>3, <2>9, PageKept, ShareOvertaken, CountKept
       DEF Inv, PageCurrent, SavedMeansStored
<1>3. CASE UpdateCode(save.body) # 200
  <2>1. UpdateCode(save.body) \in {403, 404} /\ UNCHANGED <<row, share, stored, behind>>
        /\ save' = Answered(save, UpdateCode(save.body), None)
    BY <1>3 DEF UpdateCode, PerformUpdate
  <2>2. /\ Shape(save') /\ save'.pc = "answered" /\ save'.kind = "update"
        /\ save'.code \in {403, 404}
    BY <1>1, <2>1 DEF Answered, Codes, Shape
  <2>3. SaveSound'
    BY <1>1, <2>2 DEF SaveSound, SaveSent, SaveAnswered
  <2> QED
    BY <1>1, <2>1, <2>3, RowKept, PageKept, ShareKept, CountKept, ViewKept, MarkKept
       DEF Inv, PageSound
<1> QED
  BY <1>2, <1>3

LEMMA PerformDeleteKeeps ==
    ASSUME Inv, PerformDelete
    PROVE  Inv'
<1>1. /\ save.pc = "sent" /\ save.kind = "delete" /\ page = "ready"
      /\ UNCHANGED <<me, page, config, draft, saved, edited, stored, created, lost>>
  BY DEF Inv, PerformDelete, SaveSound, form
<1>2. CASE MyAccess = "owner"
  <2>1. /\ row' = None /\ grants' = NoGrants /\ save' = Answered(save, 204, None)
        /\ share' = Overtaken(share) /\ behind' = TRUE
    BY <1>2 DEF PerformDelete
  <2>2. RowSound'
    BY <1>1, <2>1 DEF Inv, RowSound, NoGrants, Grants
  <2>3. Shape(save') /\ save'.pc = "answered" /\ save'.kind = "delete" /\ save'.code = 204
    BY <1>1, <2>1 DEF Answered, Codes, Shape
  <2>4. SaveSound'
    BY <1>1, <2>3 DEF SaveSound, SaveSent, SaveAnswered
  <2> QED
    BY <1>1, <2>1, <2>2, <2>4, PageKept, ShareOvertaken, CountKept, MarkKept
       DEF Inv, PageCurrent
<1>3. CASE MyAccess # "owner"
  <2>1. save' = Answered(save, 404, None) /\ UNCHANGED <<row, grants, share, behind>>
    BY <1>3 DEF PerformDelete, service
  <2>2. Shape(save') /\ save'.pc = "answered" /\ save'.kind = "delete" /\ save'.code = 404
    BY <1>1, <2>1 DEF Answered, Codes, Shape
  <2>3. SaveSound'
    BY <1>1, <2>2 DEF SaveSound, SaveSent, SaveAnswered
  <2> QED
    BY <1>1, <2>1, <2>3, RowKept, PageKept, ShareKept, CountKept, ViewKept, MarkKept
       DEF Inv, PageSound
<1> QED
  BY <1>2, <1>3

LEMMA SaveLostKeeps ==
    ASSUME Inv, SaveLost
    PROVE  Inv'
<1>1. /\ save' = Answered(save, 0, None) /\ save.pc \in {"sent", "answered"} /\ save.pc # "none"
      /\ UNCHANGED <<service, page, config, form, share, behind, stored, created>>
  BY DEF SaveLost
<1>2. Shape(save') /\ save'.pc = "answered" /\ save'.kind = save.kind /\ save'.code = 0
  BY <1>1 DEF Answered, Codes, Shape
<1>3. SaveSound'
  BY <1>1, <1>2 DEF Inv, SaveSound, SaveSent, SaveAnswered, form
<1>4. CountSound'
  <2>1. CASE save.pc = "answered" /\ save.code = 201
    BY <1>1, <1>2, <2>1 DEF Inv, SaveLost, CountSound, CreatedOnce
  <2>2. CASE ~(save.pc = "answered" /\ save.code = 201)
    BY <1>1, <1>2, <2>2 DEF Inv, SaveLost, CountSound, CreatedOnce
  <2> QED
    BY <2>1, <2>2
<1> QED
  BY <1>1, <1>3, <1>4, RowKept, PageKept, ShareKept, ViewKept, MarkKept
     DEF Inv, PageSound, service, form

----------------------------------------------------------------------------
(* The page applies the answer to a request of the form. *)

LEMMA CreatedKeeps ==
    ASSUME Inv, Created
    PROVE  Inv'
<1>1. page = "new" /\ share.pc = "none"
  BY DEF Inv, Created, SaveSound, ShareSound, Shape
<1>2. SaveSound' /\ ShareSound' /\ CountSound' /\ PageCurrent' /\ PageSound'
  BY <1>1 DEF Inv, Created, NoRequest, SaveSound, ShareSound, Shape, SaveSent, SaveAnswered,
     CountSound, CreatedOnce, PageCurrent, PageSound, service, form, ghosts
<1> QED
  BY <1>2, RowKept, MarkKept DEF Inv, Created, service, form, ghosts

(* The form holds what it held: the mark is about the same body, for the    *)
(* answer gives the page the access it had.                                 *)
LEMMA ApplyUpdateKeeps ==
    ASSUME Inv, ApplyUpdate
    PROVE  Inv'
<1>1. /\ save.pc = "answered" /\ save.kind = "update" /\ save.code = 200 /\ page = "ready"
      /\ Shown(save.detail) /\ save.detail.owner = config.owner /\ Current(save)
      /\ ~edited => stored = Body(draft)
      /\ Shown(config) /\ (row # None => config.owner = row.owner) /\ save.stale \in BOOLEAN
  BY DEF Inv, ApplyUpdate, SaveSound, SaveAnswered, PageSound, Shape
<1>2. /\ config' = save.detail /\ behind' = save.stale /\ saved' = TRUE /\ save' = NoRequest
      /\ UNCHANGED <<me, row, grants, page, draft, edited, share, stored, created, lost>>
  BY DEF ApplyUpdate, service
<1>3. Shown(config') /\ config'.owner = config.owner
      /\ (config'.access = "owner" <=> config.access = "owner")
  BY <1>1, <1>2 DEF Shown
<1>4. PageSound'
  BY <1>1, <1>2, <1>3 DEF Inv, PageSound, Shown
<1>5. SaveSound'
  BY <1>2 DEF SaveSound, SaveSent, SaveAnswered, Shape, NoRequest
<1>6. ShareSound'
  BY <1>2, <1>3 DEF Inv, ShareSound, Shape, Shown, Current, MyAccess
<1>7. PageCurrent'
  BY <1>1, <1>2 DEF PageCurrent, Current, MyAccess
<1>8. Body(draft)' = Body(draft)
  BY <1>2, <1>3 DEF Body
<1>9. SavedMeansStored'
  BY <1>1, <1>2, <1>8 DEF SavedMeansStored
<1>10. CountSound'
  BY <1>1, <1>2, CountKept DEF Inv
<1> QED
  BY <1>2, <1>4, <1>5, <1>6, <1>7, <1>9, <1>10, RowKept DEF Inv

LEMMA LeaveKeeps ==
    ASSUME Inv, Leave
    PROVE  Inv'
<1>1. page = "ready" /\ save.kind = "delete"
  BY DEF Inv, Leave, SaveSound, SaveAnswered
<1>2. /\ SaveSound' /\ ShareSound' /\ CountSound' /\ PageCurrent' /\ PageSound'
  BY <1>1 DEF Inv, Leave, NoRequest, SaveSound, ShareSound, Shape, SaveSent, SaveAnswered,
     Shown, Current, MyAccess, CountSound, CreatedOnce, PageCurrent, PageSound,
     service, form, ghosts
<1> QED
  BY <1>2, RowKept, MarkKept DEF Inv, Leave, service, form, ghosts

LEMMA SaveRefusedKeeps ==
    ASSUME Inv, SaveRefused
    PROVE  Inv'
<1>1. SaveSound' /\ CountSound'
  BY DEF Inv, SaveRefused, NoRequest, SaveSound, Shape, SaveSent, SaveAnswered,
     CountSound, CreatedOnce, ghosts
<1> QED
  BY <1>1, RowKept, PageKept, ShareKept, ViewKept, MarkKept
     DEF Inv, PageSound, SaveRefused, service, form, ghosts

----------------------------------------------------------------------------
(* The share panel. *)

LEMMA SendShareKeeps ==
    ASSUME Inv, NEW u \in Users, NEW permission \in Permissions \cup {"none"},
           SendShare(u, permission)
    PROVE  Inv'
<1>1. ShareSound'
  BY DEF SendShare, Sent, ShareSound, Shape
<1> QED
  BY <1>1, RowKept, PageKept, SaveKept, CountKept, ViewKept, MarkKept
     DEF Inv, PageSound, SendShare, service, form, ghosts

(* A grant to someone who is not the owner. *)
LEMMA GrantStores ==
    ASSUME RowSound, row # None, NEW to \in Users, to # row.owner,
           NEW permission \in Permissions \cup {"none"},
           grants' = [grants EXCEPT ![to] = permission],
           row' = [row EXCEPT !.visibility = Label(@, grants')],
           UNCHANGED me
    PROVE  /\ RowSound' /\ row' # None /\ row' \in Row /\ row'.owner = row.owner
           /\ grants' \in Grants /\ grants'[row'.owner] = "none"
<1>1. row \in Row /\ Stored(row) /\ grants \in Grants /\ grants[row.owner] = "none"
  BY DEF RowSound
<1>2. grants' \in Grants /\ grants'[row.owner] = "none"
  BY <1>1, RowFields DEF Grants
<1>3. /\ row' = [owner |-> row.owner, name |-> row'.name, deviceType |-> row.deviceType,
                 visibility |-> row'.visibility, payload |-> row'.payload]
      /\ row'.name = row.name /\ row'.payload = row.payload
      /\ row'.visibility = Label(row.visibility, grants')
  <2>1. row = [owner |-> row.owner, name |-> row.name, deviceType |-> row.deviceType,
               visibility |-> row.visibility, payload |-> row.payload]
    BY <1>1, RowFields
  <2> QED
    BY <2>1
<1>4. row'.visibility \in Visibilities /\ row'.name \in Text
  BY <1>1, <1>3, LabelType, RowFields
<1>5. GoodName(row'.name) /\ \E d \in Draft : Errors(d) = {} /\ row'.payload = DraftToPayload(d)
  BY <1>1, <1>3 DEF Stored
<1>6. row' \in Row /\ Stored(row') /\ row'.owner = row.owner
  BY <1>1, <1>3, <1>4, <1>5, RowChanged
<1>7. row' # None
  BY <1>6, RowFields
<1> QED
  BY <1>2, <1>6, <1>7 DEF RowSound

LEMMA PerformShareKeeps ==
    ASSUME Inv, PerformShare
    PROVE  Inv'
<1> DEFINE to == share.body.to
           permission == share.body.permission
           ok == /\ MyAccess = "owner" /\ to # row.owner
                 /\ permission = "none" => grants[to] # "none"
<1>1. /\ share.pc = "sent" /\ page \in {"ready", "left"}
      /\ to \in Users /\ permission \in Permissions \cup {"none"}
      /\ UNCHANGED <<me, page, config, draft, saved, edited, stored, created, lost>>
  BY DEF Inv, PerformShare, ShareSound, form
<1>2. CASE ok
  <2> DEFINE answer == Detail(row', grants', "owner")
  <2>1. /\ grants' = [grants EXCEPT ![to] = permission]
        /\ row' = [row EXCEPT !.visibility = Label(@, grants')]
        /\ share' = Answered(share, 200, answer)
        /\ save' = Overtaken(save) /\ behind' = TRUE
    BY <1>2 DEF PerformShare
  <2>2. MyAccess = "owner" /\ row # None /\ to # row.owner
    BY <1>2 DEF MyAccess
  <2> HIDE DEF answer, to, permission, ok
  <2>3. /\ RowSound' /\ row' # None /\ row' \in Row /\ row'.owner = row.owner
        /\ grants' \in Grants /\ grants'[row'.owner] = "none"
    BY <1>1, <2>1, <2>2, GrantStores DEF Inv
  <2>4. MyAccess' = "owner" /\ Access(me, row', grants') = "owner"
    BY <1>1, <2>2, <2>3 DEF MyAccess, Access, RowSound, Inv, Grants, Permissions
  <2>5. Shown(answer) /\ answer.owner = row.owner /\ answer.access = "owner"
    BY <2>3, <2>4, DetailIsShown DEF answer, Inv
  <2>6. /\ Shape(share') /\ share'.pc = "answered" /\ share'.code = 200
        /\ share'.detail = answer
    BY <2>1 DEF Answered, Codes, Shape
  <2>7. Current(share)' /\ Shown(share.detail)'
    <3>1. answer = Detail(row', grants', MyAccess')
      BY <2>4 DEF answer
    <3> QED
      BY <1>1, <2>3, <2>5, <2>6, <3>1 DEF Current, Shown
  <2>8. page = "ready" => config.owner = row.owner
    BY <2>2 DEF Inv, PageSound
  <2>9. ShareSound'
    BY <1>1, <2>5, <2>6, <2>7, <2>8 DEF ShareSound
  <2>10. PageSound' /\ SaveSound' /\ CountSound'
    BY <1>1, <2>1, <2>2, <2>3, PageKept, SaveOvertaken, CountKept DEF Inv
  <2> QED
    BY <1>1, <2>1, <2>3, <2>9, <2>10, MarkKept DEF Inv, PageCurrent
<1>3. CASE ~ok
  <2>1. share' = Answered(share, 404, None) /\ UNCHANGED <<row, grants, save, behind>>
    BY <1>3 DEF PerformShare, service
  <2>2. Shape(share') /\ share'.pc = "answered" /\ share'.code = 404
    BY <2>1 DEF Answered, Codes, Shape
  <2>3. ShareSound'
    BY <1>1, <2>2 DEF ShareSound
  <2> QED
    BY <1>1, <2>1, <2>3, RowKept, PageKept, SaveKept, CountKept, ViewKept, MarkKept
       DEF Inv, PageSound
<1> QED
  BY <1>2, <1>3

LEMMA ShareLostKeeps ==
    ASSUME Inv, ShareLost
    PROVE  Inv'
<1>1. /\ share' = Answered(share, 0, None) /\ share.pc # "none"
      /\ UNCHANGED <<service, page, config, form, save, ghosts>>
  BY DEF ShareLost
<1>2. Shape(share') /\ share'.pc = "answered" /\ share'.code = 0
  BY <1>1 DEF Answered, Codes, Shape
<1>3. ShareSound'
  BY <1>1, <1>2 DEF Inv, ShareSound
<1> QED
  BY <1>1, <1>3, RowKept, PageKept, SaveKept, CountKept, ViewKept, MarkKept
     DEF Inv, PageSound, service, form, ghosts

(* As after a save, the page keeps its access, so the body of the form and  *)
(* of the request under way is the same.                                    *)
LEMMA ApplyShareKeeps ==
    ASSUME Inv, ApplyShare
    PROVE  Inv'
<1>1. /\ share.pc = "answered" /\ share' = NoRequest
      /\ UNCHANGED <<me, row, grants, page, draft, saved, edited, save, stored, created, lost>>
  BY DEF ApplyShare, service, form
<1>2. RowSound' /\ ShareSound' /\ CountSound'
  BY <1>1, RowKept, CountKept DEF Inv, ShareSound, Shape, NoRequest
<1>3. CASE page = "ready" /\ share.code = 200
  <2>1. config' = share.detail /\ behind' = share.stale
    BY <1>3 DEF ApplyShare, Taken
  <2>2. /\ Shown(share.detail) /\ share.detail.access = "owner"
        /\ share.detail.owner = config.owner /\ Current(share) /\ share.stale \in BOOLEAN
    BY <1>1, <1>3 DEF Inv, ShareSound, Shape
  <2>3. Shown(config) /\ (row # None => config.owner = row.owner)
    BY <1>3 DEF Inv, PageSound
  <2>4. /\ Shown(config') /\ config'.owner = config.owner
        /\ config'.access = "owner" /\ config.access = "owner"
    BY <2>1, <2>2, <2>3 DEF Shown
  <2>5. PageSound'
    BY <1>1, <1>3, <2>1, <2>2, <2>3, <2>4 DEF Inv, PageSound, Shown
  <2>6. Body(draft)' = Body(draft)
    BY <1>1, <2>4 DEF Body
  <2>7. SaveSent'
    BY <1>1, <2>4, <2>6 DEF Inv, SaveSound, SaveSent, GoodBody
  <2>8. SaveAnswered'
    BY <1>1, <2>4, <2>6 DEF Inv, SaveSound, SaveAnswered, Shown, Current, MyAccess
  <2>9. SaveSound'
    BY <1>1, <2>7, <2>8 DEF Inv, SaveSound, Shape
  <2>10. PageCurrent' /\ SavedMeansStored'
    BY <1>1, <2>1, <2>2, <2>6 DEF Inv, PageCurrent, SavedMeansStored, Current, MyAccess
  <2> QED
    BY <1>2, <2>5, <2>9, <2>10 DEF Inv
<1>4. CASE ~(page = "ready" /\ share.code = 200)
  <2>1. UNCHANGED <<config, behind>>
    BY <1>4 DEF ApplyShare
  <2> QED
    BY <1>1, <1>2, <2>1, PageKept, SaveKept, ViewKept, MarkKept DEF Inv, PageSound
<1> QED
  BY <1>3, <1>4

----------------------------------------------------------------------------
(* The other accounts. *)

LEMMA OthersKeep ==
    ASSUME Inv, ByOthers, RowSound', row' # None => row # None /\ row'.owner = row.owner
    PROVE  Inv'
<1>1. /\ save' = Overtaken(save) /\ share' = Overtaken(share) /\ behind' = TRUE
      /\ UNCHANGED <<me, page, config, draft, saved, edited, stored, created, lost>>
  BY DEF ByOthers, form
<1>2. PageSound' /\ SaveSound' /\ ShareSound' /\ SavedMeansStored' /\ PageCurrent'
  BY <1>1, PageKept, SaveOvertaken, ShareOvertaken, MarkKept DEF Inv, PageCurrent
<1>3. /\ save'.pc = save.pc
      /\ save.pc = "answered" => save'.code = save.code
  BY <1>1, OvertakenIs DEF Inv, SaveSound
<1>4. CountSound'
  BY <1>1, <1>3 DEF Inv, CountSound, CreatedOnce
<1> QED
  BY <1>2, <1>4 DEF Inv

LEMMA OtherSavesKeeps ==
    ASSUME Inv, OtherSaves
    PROVE  Inv'
<1>1. ByOthers /\ UNCHANGED <<me, grants>> /\ row # None
  BY DEF OtherSaves, ByOthers
<1>2. row \in Row /\ Stored(row) /\ grants[row.owner] = "none" /\ grants \in Grants
      /\ me \in Users
  BY <1>1 DEF Inv, RowSound
<1>3. PICK u \in Others, d \in Drafts :
        LET access == IF row = None THEN "none" ELSE Access(u, row, grants) IN
        row' = [row EXCEPT !.payload = DraftToPayload(d),
              !.name = IF access = "owner" THEN d.name ELSE @,
              !.visibility = IF access = "owner" /\ CanPublish(Role[u])
                             THEN Label(d.visibility, grants) ELSE @]
  BY DEF OtherSaves
<1> DEFINE owner == Access(u, row, grants) = "owner"
           name == IF owner THEN d.name ELSE row.name
           v == IF owner /\ CanPublish(Role[u]) THEN Label(d.visibility, grants)
                ELSE row.visibility
<1>4. d \in Draft /\ Errors(d) = {} /\ d.name \in Text /\ GoodName(d.name)
      /\ d.visibility \in Visibilities
  BY EditorAssumption, NoErrors, DraftFields DEF Accepted
<1>5. name \in Text /\ GoodName(name) /\ v \in Visibilities
  BY <1>2, <1>4, LabelType, RowFields DEF Stored
<1>6. /\ row' = [owner |-> row.owner, name |-> row'.name, deviceType |-> row.deviceType,
                 visibility |-> row'.visibility, payload |-> row'.payload]
      /\ row'.name = name /\ row'.visibility = v /\ row'.payload = DraftToPayload(d)
  <2>1. row' = [row EXCEPT !.payload = DraftToPayload(d), !.name = name, !.visibility = v]
    BY <1>1, <1>3
  <2>2. row = [owner |-> row.owner, name |-> row.name, deviceType |-> row.deviceType,
               visibility |-> row.visibility, payload |-> row.payload]
    BY <1>2, RowFields
  <2> HIDE DEF name, v
  <2> QED
    BY <2>1, <2>2
<1> HIDE DEF name, v
<1>7. row' \in Row /\ Stored(row') /\ row'.owner = row.owner
  BY <1>2, <1>4, <1>5, <1>6, RowChanged
<1>8. RowSound'
  BY <1>1, <1>2, <1>7 DEF RowSound
<1> QED
  BY <1>1, <1>7, <1>8, OthersKeep

LEMMA OtherSharesKeeps ==
    ASSUME Inv, OtherShares
    PROVE  Inv'
<1>1. ByOthers /\ UNCHANGED me /\ me \in Users /\ RowSound
  BY DEF OtherShares, ByOthers, Inv, RowSound
<1>2. PICK p \in Permissions \cup {"none"} :
        /\ row # None /\ row.owner # me
        /\ grants' = [grants EXCEPT ![me] = p]
        /\ row' = [row EXCEPT !.visibility = Label(@, grants')]
  BY DEF OtherShares
<1>3. RowSound' /\ row'.owner = row.owner
  BY <1>1, <1>2, GrantStores
<1> QED
  BY <1>1, <1>2, <1>3, OthersKeep

LEMMA OtherDeletesKeeps ==
    ASSUME Inv, OtherDeletes
    PROVE  Inv'
<1>1. ByOthers /\ UNCHANGED me /\ row' = None /\ grants' = NoGrants
  BY DEF OtherDeletes, ByOthers
<1>2. RowSound'
  BY <1>1 DEF Inv, RowSound, NoGrants, Grants
<1> QED
  BY <1>1, <1>2, OthersKeep

----------------------------------------------------------------------------
LEMMA EmptyIsDraft == EmptyDraft \in Draft /\ EmptyDraft.visibility = "private"
<1>1. Written(None) \in Text /\ Written(200) \in Text /\ Written(0) \in Text
  BY DEF Written, Text, Core
<1>2. [r \in Registers |-> Written(0)] \in [Registers -> Text]
  BY <1>1
<1>3. << >> \in Seq(Text)
  OBVIOUS
<1> QED
  BY <1>1, <1>2, <1>3 DEF EmptyDraft, Draft, Visibilities, Transports

LEMMA InitInv == Init => Inv
<1> SUFFICES ASSUME Init PROVE Inv
  OBVIOUS
<1>1. /\ me \in Users /\ page \in {"new", "loading"} /\ draft = EmptyDraft
      /\ saved = FALSE /\ edited = FALSE /\ behind = FALSE /\ created = 0 /\ lost = 0
      /\ save.pc = "none" /\ share.pc = "none"
  BY DEF Init, NoRequest
<1>2. RowSound
  <2>1. CASE row = None /\ grants = NoGrants
    BY <1>1, <2>1 DEF RowSound, NoGrants, Grants
  <2>2. CASE \E owner \in Users, d \in Drafts, p \in Permissions \cup {"none"} :
                /\ p # "none" => owner # me
                /\ grants = [NoGrants EXCEPT ![me] = p]
                /\ row = RowOf(owner, d, grants)
    <3>1. PICK owner \in Users, d \in Drafts, p \in Permissions \cup {"none"} :
                /\ p # "none" => owner # me
                /\ grants = [NoGrants EXCEPT ![me] = p]
                /\ row = RowOf(owner, d, grants)
      BY <2>2
    <3>2. row \in Row /\ Stored(row) /\ row.owner = owner
      BY <3>1, EditorAssumption, RowCreated
    <3>3. grants \in Grants /\ grants[owner] = "none"
      BY <1>1, <3>1 DEF NoGrants, Grants
    <3> QED
      BY <1>1, <3>2, <3>3 DEF RowSound
  <2> QED
    BY <2>1, <2>2 DEF Init
<1>3. PageSound /\ PageCurrent /\ SavedMeansStored
  BY <1>1, EmptyIsDraft DEF PageSound, PageCurrent, SavedMeansStored
<1>4. SaveSound /\ ShareSound /\ CountSound
  BY <1>1 DEF SaveSound, SaveSent, SaveAnswered, ShareSound, Shape, CountSound, CreatedOnce
<1> QED
  BY <1>2, <1>3, <1>4 DEF Inv

LEMMA NextKeepsInv == Inv /\ [Next]_vars => Inv'
<1> SUFFICES ASSUME Inv, [Next]_vars PROVE Inv'
  OBVIOUS
<1>1. ASSUME NEW p \in Patches, Update(p.field, p.value)
      PROVE  Inv'
  BY <1>1, TypedIsDraft, UpdateKeeps DEF Inv, PageSound
<1>2. ASSUME NEW u \in Users, NEW p \in Permissions \cup {"none"}, SendShare(u, p)
      PROVE  Inv'
  BY <1>2, SendShareKeeps
<1>3. CASE UNCHANGED vars
  BY <1>3, RowKept, PageKept, SaveKept, ShareKept, CountKept, ViewKept, MarkKept
     DEF Inv, PageSound, vars, service, form, ghosts
<1>4. CASE Load \/ LoadFails \/ EditVariables \/ Fade \/ Submit \/ Remove
  BY <1>4, LoadKeeps, LoadFailsKeeps, EditVariablesKeeps, FadeKeeps, SubmitKeeps, RemoveKeeps
<1>5. CASE PerformCreate \/ PerformUpdate \/ PerformDelete \/ SaveLost
  BY <1>5, PerformCreateKeeps, PerformUpdateKeeps, PerformDeleteKeeps, SaveLostKeeps
<1>6. CASE Created \/ ApplyUpdate \/ Leave \/ SaveRefused
  BY <1>6, CreatedKeeps, ApplyUpdateKeeps, LeaveKeeps, SaveRefusedKeeps
<1>7. CASE PerformShare \/ ShareLost \/ ApplyShare
  BY <1>7, PerformShareKeeps, ShareLostKeeps, ApplyShareKeeps
<1>8. CASE OtherSaves \/ OtherShares \/ OtherDeletes
  BY <1>8, OtherSavesKeeps, OtherSharesKeeps, OtherDeletesKeeps
<1> QED
  BY <1>1, <1>2, <1>3, <1>4, <1>5, <1>6, <1>7, <1>8 DEF Next

LEMMA Invariance == Spec => []Inv
  BY InitInv, NextKeepsInv, PTL DEF Spec

(* The page, the form and the row keep their types: a draft of the form is  *)
(* a draft whatever is typed, stored and opened again.                      *)
THEOREM TypeCorrect == Spec => []TypeOK
<1>1. Inv => TypeOK
  BY DEF Inv, TypeOK, RowSound, PageSound, SaveSound, ShareSound, Shape, Shown
<1> QED
  BY <1>1, Invariance, PTL

(* Whatever was saved, by whom and over what, opens without errors and says *)
(* the same when it is saved again (configToDraft, draftToPayload).         *)
THEOREM Reopens == Spec => []ReopensUnchanged
<1>1. Inv => ReopensUnchanged
  BY RoundTrip DEF Inv, RowSound, ReopensUnchanged
<1> QED
  BY <1>1, Invariance, PTL

(* The page for a new config makes one config, or one more for every answer *)
(* it never got (submit of app/configs/new/page.tsx).                       *)
THEOREM OneConfig == Spec => []CreatedOnce
<1>1. Inv => CreatedOnce
  BY DEF Inv, CountSound
<1> QED
  BY <1>1, Invariance, PTL

(* The page shows what the service has, however the form's answers and the  *)
(* panel's are ordered, until two cross or another account changes it.      *)
THEOREM ShowsTheService == Spec => []PageCurrent
<1>1. Inv => PageCurrent
  BY DEF Inv
<1> QED
  BY <1>1, Invariance, PTL

(* "Сохранено" stands beside what is stored. *)
THEOREM MarkIsTrue == Spec => []SavedMeansStored
<1>1. Inv => SavedMeansStored
  BY DEF Inv
<1> QED
  BY <1>1, Invariance, PTL

----------------------------------------------------------------------------
(* One step from sent to refused. *)
LEMMA Refused ==
    ASSUME Inv, [Next]_vars, save.pc = "sent", save'.pc = "answered",
           save'.code \in {403, 404}
    PROVE  save.kind # "create" /\ MyAccess # config.access
<1>1. Shape(save) /\ SaveSent /\ page = (IF save.kind = "create" THEN "new" ELSE "ready")
      /\ save.kind \in {"create", "update", "delete"}
  BY DEF Inv, SaveSound
<1>2. page = "ready" => config.access \in {"owner", "write", "read"}
  BY DEF Inv, PageSound, Shown
<1>3. CASE PerformCreate
  BY <1>1, <1>3 DEF PerformCreate, SaveSent, Answered
<1>4. CASE PerformUpdate
  <2>1. save.kind = "update" /\ UpdateCode(save.body) # 200
    BY <1>4 DEF PerformUpdate, Answered
  <2>2. /\ GoodBody(save.body) /\ config.access # "read"
        /\ (save.body.name # None \/ save.body.visibility # None) => config.access = "owner"
    BY <1>1, <2>1 DEF SaveSent
  <2> QED
    BY <1>1, <1>2, <2>1, <2>2 DEF UpdateCode, GoodBody
<1>5. CASE PerformDelete
  BY <1>1, <1>5 DEF PerformDelete, SaveSent, Answered
<1>6. CASE SaveLost
  BY <1>6 DEF SaveLost, Answered
<1>7. CASE Load \/ LoadFails \/ EditVariables \/ Fade
           \/ (\E p \in Patches : Update(p.field, p.value))
           \/ (\E u \in Users, p \in Permissions \cup {"none"} : SendShare(u, p))
           \/ ShareLost \/ ApplyShare \/ UNCHANGED vars
  <2>1. UNCHANGED save
    BY <1>7 DEF Load, LoadFails, EditVariables, Fade, Update, SendShare, ShareLost,
       ApplyShare, vars
  <2> QED
    BY <2>1
<1>8. CASE PerformShare \/ OtherSaves \/ OtherShares \/ OtherDeletes
  <2>1. save' = save \/ save' = Overtaken(save)
    BY <1>8 DEF PerformShare, OtherSaves, OtherShares, OtherDeletes, ByOthers
  <2> QED
    BY <2>1 DEF Overtaken
<1>9. CASE Submit \/ Remove \/ Created \/ ApplyUpdate \/ Leave \/ SaveRefused
  BY <1>9 DEF Submit, Remove, Created, ApplyUpdate, Leave, SaveRefused, Pending
<1> QED
  BY <1>3, <1>4, <1>5, <1>6, <1>7, <1>8, <1>9 DEF Next

(* Who may do what the form offers is not refused, unless the access went   *)
(* between: an owner who may not publish saves the rest of a public config. *)
THEOREM NotRefused == Spec => SaveNotRefused
<1>1. Inv /\ [Next]_vars =>
        [ save.pc = "sent" /\ save'.pc = "answered" /\ save'.code \in {403, 404}
            => save.kind # "create" /\ MyAccess # config.access ]_vars
  BY Refused
<1> QED
  BY <1>1, Invariance, PTL DEF Spec, SaveNotRefused

=============================================================================
