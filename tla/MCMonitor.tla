------------------------------ MODULE MCMonitor ------------------------------
(* Instance of Monitor for TLC.                                             *)
EXTENDS Monitor, TLC

CONSTANTS meter, valve, start, bench, other

Config(type, own, updated, graph) ==
    [deviceType |-> type, own |-> own, updated |-> updated, graph |-> graph]

(* An older config of one's own, a newer shared one that also charts the    *)
(* write-only variable, and one of another device.                          *)
SomeConfigs ==
    {Config(bench, TRUE, 1, {meter, valve}),
     Config(bench, FALSE, 2, {meter, start}),
     Config(other, TRUE, 3, {valve})}

Budget(time, clicks, writes, faults) ==
    [time |-> time, clicks |-> clicks, writes |-> writes, faults |-> faults]

(* Two writes; a fault beside a write, and while points are trimmed; charts *)
(* over a feed that trims; a click beside a write.                          *)
SomeBudgets ==
    {Budget(2, 0, 2, 0), Budget(2, 0, 1, 1), Budget(4, 0, 0, 1),
     Budget(4, 3, 0, 0), Budget(2, 1, 1, 0)}

=============================================================================
