----------------------------- MODULE MCDeviceLink -----------------------------
EXTENDS DeviceLink, TLC

CONSTANTS loop, pool, meter, level, count

(* The profile lists the control between the sensors. *)
OneOfEach == <<count, meter>>
Profile == <<meter, count, level>>

Budget(l, p, f) == [calls |-> (loop :> l @@ pool :> p), faults |-> f]

(* One thread alone calls twice and may meet three faults; or two threads    *)
(* share the link, and nothing fails but a device that is down at first.     *)
Alone == Budget(2, 0, 3)
Shared == Budget(1, 1, 0)

AloneOrShared == {Alone, Shared}
OnlyShared == {Shared}
=============================================================================
