------------------------------- MODULE MCSampler -------------------------------
EXTENDS Sampler, TLC

CONSTANTS loop, pool, meter, near, far

OneControl == <<meter>>

(* The value of the variable never changes, which keeps the instance small.  *)
ReadAndWrite == {<<ReadOf(meter)>>, <<WriteOf(meter, 0)>>}

(* The sampler reads Here twice, a handler uses it once. *)
TwoRounds == {[calls |-> (loop :> 2 @@ pool :> 1), faults |-> 1]}
=============================================================================
