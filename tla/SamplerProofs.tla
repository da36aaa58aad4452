----------------------------- MODULE SamplerProofs -----------------------------
(***************************************************************************)
(* The sampler over the link, for any threads, devices, faults and length   *)
(* of the history: it uses the link as DeviceLink says a link is used, and  *)
(* a device that always answers has a point of every round.                 *)
(***************************************************************************)
EXTENDS Sampler, DeviceLinkProofs

LEMMA StepOnLink == [SamplerNext]_<<vars, server>> => [Next]_vars
<1> SUFFICES ASSUME [SamplerNext]_<<vars, server>>
             PROVE  [Next]_vars
  OBVIOUS
<1>1. CASE LinkStep
  <2>1. ASSUME NEW t \in Threads \ {Loop}, NEW job \in Handled, Start(t, job)
        PROVE  Next
    BY <2>1, SamplerAssumption DEF Next
  <2> QED
    BY <1>1, <2>1 DEF LinkStep, Next
<1>2. CASE BeginRound
  <2>1. Start(Loop, Snapshot) /\ Loop \in Threads /\ Snapshot \in Jobs
    BY <1>2, SamplerAssumption DEF BeginRound, Jobs
  <2> QED
    BY <2>1 DEF Next
<1>3. CASE SampleHere \/ SampleThere \/ EndSampler \/ Shutdown \/ AwaitSampler
  BY <1>3 DEF SampleHere, SampleThere, EndSampler, Shutdown, AwaitSampler
<1>4. CASE UNCHANGED <<vars, server>>
  BY <1>4
<1> QED
  BY <1>1, <1>2, <1>3, <1>4 DEF SamplerNext, SamplerStep

(* What the event loop and the pool threads do to the link are calls of     *)
(* DeviceLink and nothing else: every behaviour with a sampler is, for the  *)
(* link, one of DeviceLink.                                                 *)
THEOREM UsesTheLink == SamplerSpec => Spec
<1>1. SamplerInit => Init
  BY DEF SamplerInit
<1> QED
  BY <1>1, StepOnLink, PTL DEF SamplerSpec, Spec

(* So nothing stays in transit between the calls of the sampler and of the  *)
(* handlers: a sample is not answered with a line meant for an earlier call. *)
THEOREM SamplesInStep == SamplerSpec => []InStep
  BY UsesTheLink, StaysInStep, PTL

----------------------------------------------------------------------------
(* Only a call that ends with an exception other than OSError ends the      *)
(* sampler, and no call does while the link is the event loop's alone.      *)
LEMMA GoingOn ==
    ASSUME TypeInv, AloneInv, SamplerGoesOn, [SamplerNext]_<<vars, server>>
    PROVE  SamplerGoesOn'
<1> SUFFICES ASSUME Only(Loop)' PROVE sampler' # "ended"
  BY DEF SamplerGoesOn
<1>1. Loop \in Threads /\ Only(Loop)
  BY StepOnLink, OnlyBefore, SamplerAssumption
<1>2. sampler # "ended"
  BY <1>1 DEF SamplerGoesOn
<1>3. CASE SampleHere
  <2>1. Alone(calls[Loop], io, conns, up)
    BY <1>1 DEF AloneInv, OneCaller, Held
  <2> QED
    BY <1>2, <1>3, <2>1 DEF SampleHere, Alone
<1>4. CASE LinkStep \/ BeginRound \/ SampleThere \/ EndSampler \/ Shutdown \/ AwaitSampler
  BY <1>2, <1>4 DEF LinkStep, BeginRound, SampleThere, EndSampler, Shutdown, AwaitSampler, server
<1>5. CASE UNCHANGED <<vars, server>>
  BY <1>2, <1>5 DEF server
<1> QED
  BY <1>3, <1>4, <1>5 DEF SamplerNext, SamplerStep

(* A device that cannot be reached does not end the sampler: whatever       *)
(* befalls the reads of the event loop, as long as no handler has used the  *)
(* link the task goes on.                                                   *)
THEOREM SamplerIsNotEnded == SamplerSpec => []SamplerGoesOn
<1>1. SamplerInit => SamplerGoesOn
  BY DEF SamplerInit, SamplerGoesOn
<1>2. TypeInv /\ AloneInv /\ SamplerGoesOn /\ [SamplerNext]_<<vars, server>> => SamplerGoesOn'
  BY GoingOn
<1> QED
  BY <1>1, <1>2, UsesTheLink, TypesHold, AloneHolds, PTL DEF SamplerSpec

----------------------------------------------------------------------------
(* A point more. *)
LEMMA Longer ==
    ASSUME NEW S, NEW q \in Seq(S), NEW e, Len(q) <= MaxPoints
    PROVE  /\ \E T : With(q, e) \in Seq(T)
           /\ Len(With(q, e)) = IF Len(q) < MaxPoints THEN Len(q) + 1 ELSE MaxPoints
           /\ \A i \in 1..Len(With(q, e)) :
                 With(q, e)[i] = IF i = Len(With(q, e)) THEN e
                                 ELSE q[IF Len(q) < MaxPoints THEN i ELSE i + 1]
<1> DEFINE all == Append(q, e)
           T == S \cup {e}
           first == IF Len(all) > MaxPoints THEN 2 ELSE 1
<1>1. q \in Seq(T)
  BY SeqDef
<1>2. /\ all \in Seq(T) /\ Len(all) = Len(q) + 1 /\ Len(q) \in Nat /\ MaxPoints \in Nat \ {0}
      /\ \A i \in 1..Len(q) : all[i] = q[i]
      /\ all[Len(q) + 1] = e
  BY <1>1, AppendProperties, SamplerAssumption
<1>3. \A i \in first..Len(all) : all[i] \in T
  BY <1>2
<1>4. With(q, e) = SubSeq(all, first, Len(all))
  BY DEF With
<1> HIDE DEF all, T
<1>5. first \in Int /\ Len(all) \in Int
  BY <1>2
<1>6. /\ With(q, e) \in Seq(T)
      /\ Len(With(q, e)) = IF first <= Len(all) THEN Len(all) - first + 1 ELSE 0
      /\ \A i \in 1..(Len(all) - first + 1) : With(q, e)[i] = all[first + i - 1]
  BY <1>3, <1>4, <1>5, SubSeqProperties
<1>7. CASE Len(q) < MaxPoints
  <2>1. first = 1 /\ Len(With(q, e)) = Len(q) + 1
    BY <1>2, <1>6, <1>7
  <2>2. \A i \in 1..(Len(q) + 1) : With(q, e)[i] = all[i]
    BY <1>2, <1>6, <2>1
  <2> HIDE DEF first
  <2> QED
    BY <1>2, <1>6, <1>7, <2>1, <2>2
<1>8. CASE Len(q) = MaxPoints
  <2>1. first = 2 /\ Len(With(q, e)) = MaxPoints
    BY <1>2, <1>6, <1>8
  <2>2. \A i \in 1..MaxPoints : With(q, e)[i] = all[i + 1]
    BY <1>2, <1>6, <1>8, <2>1
  <2> HIDE DEF first
  <2> QED
    BY <1>2, <1>6, <1>8, <2>1, <2>2
<1> QED
  BY <1>2, <1>7, <1>8

Keeping ==
    /\ rounds \in Nat
    /\ history = [d \in {Here, There} |-> history[d]]
    /\ \E S : history[There] \in Seq(S)
    /\ NeighbourKeepsUp

LEMMA KeepingStep == Keeping /\ [SamplerNext]_<<vars, server>> => Keeping'
<1> SUFFICES ASSUME Keeping, [SamplerNext]_<<vars, server>>
             PROVE  Keeping'
  OBVIOUS
<1>1. CASE UNCHANGED <<history, rounds>>
  BY <1>1 DEF Keeping, NeighbourKeepsUp
<1>2. CASE LinkStep
  BY <1>1, <1>2 DEF LinkStep, server
<1>3. CASE BeginRound \/ EndSampler \/ Shutdown \/ AwaitSampler
  BY <1>1, <1>3 DEF BeginRound, EndSampler, Shutdown, AwaitSampler
<1>4. CASE SampleHere
  <2>1. rounds' = rounds /\ history'[There] = history[There]
        /\ history' = [d \in {Here, There} |-> history'[d]]
    BY <1>4, SamplerAssumption DEF SampleHere, Keeping
  <2> QED
    BY <2>1 DEF Keeping, NeighbourKeepsUp
<1>5. CASE SampleThere
  <2> DEFINE old == history[There]  n == Len(old)
             point == Point(<<>>)  new == With(old, point)
  <2>1. history' = [history EXCEPT ![There] = new] /\ rounds' = rounds + 1
    BY <1>5 DEF SampleThere
  <2>2. history'[There] = new /\ history' = [d \in {Here, There} |-> history'[d]]
    BY <2>1 DEF Keeping
  <2>3. /\ rounds \in Nat /\ MaxPoints \in Nat \ {0}
        /\ n = IF rounds < MaxPoints THEN rounds ELSE MaxPoints
        /\ \A i \in 1..n : old[i].t = rounds - n + i - 1
    BY SamplerAssumption DEF Keeping, NeighbourKeepsUp
  <2>4. PICK S : old \in Seq(S)
    BY DEF Keeping
  <2>5. n <= MaxPoints
    BY <2>3
  <2>6. point.t = rounds
    BY DEF Point
  <2> HIDE DEF point
  <2>7. /\ \E T : new \in Seq(T)
        /\ Len(new) = IF n < MaxPoints THEN n + 1 ELSE MaxPoints
        /\ \A i \in 1..Len(new) :
              new[i] = IF i = Len(new) THEN point
                       ELSE old[IF n < MaxPoints THEN i ELSE i + 1]
    BY <2>4, <2>5, Longer
  <2> HIDE DEF new, n, old
  <2> DEFINE m == Len(new)
  <2>8. m = IF rounds + 1 < MaxPoints THEN rounds + 1 ELSE MaxPoints
    BY <2>3, <2>7
  <2>9. \A i \in 1..m : new[i].t = (rounds + 1) - m + i - 1
    <3> SUFFICES ASSUME NEW i \in 1..m
                 PROVE  new[i].t = (rounds + 1) - m + i - 1
      OBVIOUS
    <3>1. CASE i = m
      BY <3>1, <2>3, <2>6, <2>7, <2>8
    <3>2. CASE i # m /\ n < MaxPoints
      <4>1. i \in 1..n /\ new[i] = old[i] /\ m = n + 1
        BY <3>2, <2>3, <2>7
      <4> QED
        BY <4>1, <2>3
    <3>3. CASE i # m /\ ~(n < MaxPoints)
      <4>1. i + 1 \in 1..n /\ new[i] = old[i + 1] /\ m = n
        BY <3>3, <2>3, <2>7
      <4> QED
        BY <4>1, <2>3
    <3> QED
      BY <3>1, <3>2, <3>3
  <2> HIDE DEF m
  <2>10. NeighbourKeepsUp'
    BY <2>1, <2>2, <2>8, <2>9 DEF NeighbourKeepsUp, m
  <2> QED
    BY <2>1, <2>2, <2>3, <2>7, <2>10 DEF Keeping
<1>6. CASE UNCHANGED <<vars, server>>
  BY <1>1, <1>6 DEF server
<1> QED
  BY <1>2, <1>3, <1>4, <1>5, <1>6 DEF SamplerNext, SamplerStep

(* A device that cannot be reached does not hold back the others, however   *)
(* long the history and whatever befalls the link.                          *)
THEOREM NeighboursKeepUp == SamplerSpec => []NeighbourKeepsUp
<1>1. SamplerInit => Keeping
  <2> SUFFICES ASSUME SamplerInit
               PROVE  Keeping
    OBVIOUS
  <2>1. rounds = 0 /\ history = [d \in {Here, There} |-> <<>>]
    BY DEF SamplerInit
  <2>2. history[There] = <<>> /\ <<>> \in Seq({}) /\ Len(<<>>) = 0 /\ MaxPoints \in Nat \ {0}
    BY <2>1, SamplerAssumption
  <2>3. NeighbourKeepsUp
    BY <2>1, <2>2 DEF NeighbourKeepsUp
  <2> QED
    BY <2>1, <2>2, <2>3 DEF Keeping
<1>2. Keeping => NeighbourKeepsUp
  BY DEF Keeping
<1> QED
  BY <1>1, <1>2, KeepingStep, PTL DEF SamplerSpec
=============================================================================
