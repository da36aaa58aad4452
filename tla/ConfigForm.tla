------------------------------ MODULE ConfigForm ------------------------------
(***************************************************************************)
(* The pure half of lib/configs.ts: what the config form accepts, what it   *)
(* sends and what it shows of a stored config.                              *)
(*                                                                          *)
(* A text typed into a field is its core, which is what trim and parseInt   *)
(* find in it (a number, a word, or None when it is blank), and whether it  *)
(* is typed otherwise than String() would write the core: with spaces       *)
(* around it or with leading zeros.  The type, the graph flag and the       *)
(* category of a variable and the params of a connection go through         *)
(* unchanged and are left out.                                              *)
(***************************************************************************)
EXTENDS Integers, Sequences

CONSTANTS
    None,       \* null, and the core of a blank text
    Words,      \* cores that are not numbers
    TooLong,    \* the words past NAME_MAX and past DEVICE_TYPE_MAX
    Registers   \* the keys of MODBUS_FIELDS

Transports == {"ethernet", "gpib", "com", "modbus_tcp", "modbus_udp"}
Visibilities == {"private", "shared", "public"}
Roles == {"admin", "dev", "user"}

ASSUME FormAssumption ==
    /\ Words \cap Int = {} /\ None \notin Words \cup Int
    /\ None \notin [Registers -> Nat] \cup Visibilities
    /\ TooLong.name \subseteq Words /\ TooLong.deviceType \subseteq Words

Core == Int \cup Words \cup {None}
Text == [core: Core, typed: BOOLEAN]

(* ConfigFormDraft *)
Draft == [name: Text, deviceType: Text, visibility: Visibilities,
          transport: Transports, ip: Text, port: Text, gpibAddr: Text,
          comName: Text, ipRequest: Text, pollPeriodMs: Text,
          modbus: [Registers -> Text], variables: Seq(Text)]

(* ConfigPayload, with the fields of its connection beside its variables. *)
Payload == [transport: Transports, ip: Core, port: Int \cup {None},
            gpib: Int \cup {None}, com: Core, ipRequest: Core, poll: Int,
            modbus: [Registers -> Nat] \cup {None}, variables: Seq(Core)]

(* String(x), and x ?? "" *)
Written(x) == [core |-> x, typed |-> FALSE]

IsBlank(text) == text.core = None

(* parseIntStrict *)
ParseInt(text) == IF text.core \in Words THEN None ELSE text.core

(* parseCount: a blank field is 0. *)
ParseCount(text) ==
    IF IsBlank(text) THEN 0
    ELSE IF ParseInt(text) = None \/ ParseInt(text) < 0 THEN None
    ELSE ParseInt(text)

Within(n, low, high) == n # None /\ low <= n /\ n <= high

CanPublish(role) == role \in {"dev", "admin"}
IsModbus(transport) == transport \in {"modbus_tcp", "modbus_udp"}
NeedsNetwork(transport) == transport = "ethernet" \/ IsModbus(transport)

EmptyDraft ==
    [name |-> Written(None), deviceType |-> Written(None), visibility |-> "private",
     transport |-> "ethernet", ip |-> Written(None), port |-> Written(None),
     gpibAddr |-> Written(None), comName |-> Written(None),
     ipRequest |-> Written(None), pollPeriodMs |-> Written(200),
     modbus |-> [r \in Registers |-> Written(0)], variables |-> <<>>]

----------------------------------------------------------------------------
(* validateConfigForm. *)

(* validateVariables: every name is given, and given once. *)
BadVariables(variables) ==
    {i \in DOMAIN variables :
        \/ IsBlank(variables[i])
        \/ \E j \in 1..(i - 1) : variables[j].core = variables[i].core}

Invalid(field, draft) ==
    CASE field \in {"name", "deviceType"} ->
            IsBlank(draft[field]) \/ draft[field].core \in TooLong[field]
      [] field = "ip" -> NeedsNetwork(draft.transport) /\ IsBlank(draft.ip)
      [] field = "port" -> NeedsNetwork(draft.transport)
                             /\ ~Within(ParseInt(draft.port), 1, 65535)
      [] field = "gpibAddr" -> draft.transport = "gpib"
                             /\ ~Within(ParseInt(draft.gpibAddr), 0, 30)
      [] field = "comName" -> draft.transport = "com" /\ IsBlank(draft.comName)
      [] field = "pollPeriodMs" ->
            ParseInt(draft.pollPeriodMs) = None \/ ParseInt(draft.pollPeriodMs) <= 0
      [] field = "modbus" -> IsModbus(draft.transport)
                             /\ \E r \in Registers : ParseCount(draft.modbus[r]) = None
      [] field = "variables" -> BadVariables(draft.variables) # {}

Fields == {"name", "deviceType", "ip", "port", "gpibAddr", "comName",
           "pollPeriodMs", "modbus", "variables"}

Errors(draft) == {field \in Fields : Invalid(field, draft)}

----------------------------------------------------------------------------
(* Between the form and the stored payload. *)

(* The address 0 taken for no address. *)
SlipGpib(draft) ==
    IF draft.transport = "gpib" /\ ParseInt(draft.gpibAddr) # 0
    THEN ParseInt(draft.gpibAddr) ELSE None

Gpib(draft) == IF draft.transport = "gpib" THEN ParseInt(draft.gpibAddr) ELSE None

(* draftToPayload, of a draft without errors: nothing else is sent.  A field *)
(* the transport does not use is dropped.                                    *)
DraftToPayload(draft) ==
    LET network == NeedsNetwork(draft.transport) IN
    [transport |-> draft.transport,
     ip |-> IF network THEN draft.ip.core ELSE None,
     port |-> IF network THEN ParseInt(draft.port) ELSE None,
     gpib |-> Gpib(draft),
     com |-> IF draft.transport = "com" THEN draft.comName.core ELSE None,
     ipRequest |-> draft.ipRequest.core,
     poll |-> ParseInt(draft.pollPeriodMs),
     modbus |-> IF IsModbus(draft.transport)
                THEN [r \in Registers |-> ParseCount(draft.modbus[r])] ELSE None,
     variables |-> [i \in DOMAIN draft.variables |-> draft.variables[i].core]]

(* configToDraft, of a config's own columns and its payload. *)
ConfigToDraft(config) ==
    LET stored == config.payload IN
    [name |-> config.name, deviceType |-> config.deviceType,
     visibility |-> config.visibility, transport |-> stored.transport,
     ip |-> Written(stored.ip), port |-> Written(stored.port),
     gpibAddr |-> Written(stored.gpib), comName |-> Written(stored.com),
     ipRequest |-> Written(stored.ipRequest), pollPeriodMs |-> Written(stored.poll),
     modbus |-> [r \in Registers |->
                    Written(IF stored.modbus = None THEN 0 ELSE stored.modbus[r])],
     variables |-> [i \in DOMAIN stored.variables |-> Written(stored.variables[i])]]

(* availableGrantees, of the access the panel shows. *)
AvailableGrantees(users, owner, shares) == users \ ({owner} \cup DOMAIN shares)

=============================================================================
