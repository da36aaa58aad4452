---------------------------- MODULE MCConfigEditor ----------------------------
(* Instance of ConfigEditor for TLC.                                        *)
EXTENDS ConfigEditor, TLC

CONSTANTS probe, long, ann, dev, bob

SomeWords == {probe, long}
SomeTooLong == [name |-> {}, deviceType |-> {long}]
TheRoles == (ann :> "user" @@ bob :> "user" @@ dev :> "dev")

T(core, typed) == [core |-> core, typed |-> typed]
Base == [EmptyDraft EXCEPT !.name = T(probe, TRUE), !.deviceType = T(probe, FALSE)]

(* A published config on the lowest GPIB address, and a Modbus config with  *)
(* numbers typed with zeros, a blank count and two variables.               *)
SomeDrafts ==
    {[Base EXCEPT !.visibility = "public", !.transport = "gpib", !.gpibAddr = T(0, TRUE)],
     [Base EXCEPT !.transport = "modbus_tcp", !.ip = T(probe, TRUE), !.port = T(65535, TRUE),
                  !.modbus = [r \in Registers |-> T(None, TRUE)],
                  !.variables = <<T(probe, TRUE), T(long, FALSE)>>]}

Patch(field, value) == [field |-> field, value |-> value]
SomePatches ==
    {Patch("name", T(probe, FALSE)), Patch("deviceType", T(probe, FALSE)),
     Patch("visibility", "public"), Patch("visibility", "private"),
     Patch("transport", "com"), Patch("transport", "gpib"),
     Patch("comName", T(long, TRUE)), Patch("gpibAddr", T(30, TRUE)),
     Patch("pollPeriodMs", T(0, FALSE))}

Budget(edits, saves, shares, others, faults) ==
    [edits |-> edits, saves |-> saves, shares |-> shares, others |-> others,
     faults |-> faults]

(* A config typed from nothing; edits around two saves; a save beside       *)
(* grants, beside others, and with faults.                                  *)
SomeBudgets ==
    {Budget(4, 2, 0, 0, 1), Budget(1, 2, 2, 0, 1), Budget(1, 2, 1, 1, 0),
     Budget(1, 1, 0, 2, 1)}

=============================================================================
