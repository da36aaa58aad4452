-------------------------------- MODULE Sampler --------------------------------
(***************************************************************************)
(* The background task that records the history of every device             *)
(* (tstlan/devices/history.py), over the link of DeviceLink.                *)
(*                                                                          *)
(* The event loop is one thread of the link.  The sampler and the shutdown  *)
(* of the application share it: while the sampler reads a device it blocks  *)
(* the loop; the handlers of the REST routes run in the pool threads and do *)
(* not.  There are two devices: Here is behind the link, There always       *)
(* answers.  Event streams read the way the sampler does and are left out.  *)
(*                                                                          *)
(* The clock is not modelled: a point carries the number of the round that  *)
(* took it.  Slip... definitions are mistakes the properties tell from the  *)
(* model.                                                                   *)
(***************************************************************************)
EXTENDS DeviceLink

CONSTANTS
    Loop,         \* the thread of the event loop
    Here, There,  \* the devices, in the order of the settings
    MaxPoints,    \* MAX_POINTS: the length of a history
    Handled       \* the jobs of the handlers in the pool threads

ASSUME SamplerAssumption ==
    /\ Loop \in Threads
    /\ Here # There
    /\ MaxPoints \in Nat \ {0}
    /\ Handled \subseteq Jobs
    /\ Len(Order) > 0

VARIABLES
    app,      \* the lifespan of the application
    sampler,  \* where the sampler is: at a device, or waiting for its interval
    history,  \* the points of each device
    rounds    \* the rounds of the sampler so far

server == <<app, sampler, history, rounds>>

----------------------------------------------------------------------------
(* deque(maxlen=MAX_POINTS): the oldest point gives way. *)
With(points, point) ==
    LET all == Append(points, point)
    IN  SubSeq(all, IF Len(all) > MaxPoints THEN 2 ELSE 1, Len(all))

Point(got) == [t |-> rounds, values |-> [i \in DOMAIN got |-> got[i].value]]

(* Nothing else runs in the event loop while a device is read. *)
Free == sampler \notin {"here", "there"}

(* The values of Here are there, or the exception of reading them. *)
HasRead == ~Busy(calls[Loop])

SamplerInit ==
    /\ Init
    /\ app = "serving" /\ sampler = "waiting"
    /\ history = [d \in {Here, There} |-> <<>>]
    /\ rounds = 0

(* A round begins at once when the application starts, then after each      *)
(* interval, unless the application is to stop.                             *)
BeginRound ==
    /\ sampler = "waiting" /\ Free /\ app = "serving"
    /\ Start(Loop, Snapshot)
    /\ sampler' = "here"
    /\ UNCHANGED <<app, history, rounds>>

(* A device that cannot be read ends the round. *)
SlipSampleHere ==
    /\ sampler = "here" /\ HasRead
    /\ IF calls[Loop].outcome = "ok"
       THEN /\ history' = [history EXCEPT ![Here] = With(@, Point(calls[Loop].got))]
            /\ sampler' = "there" /\ UNCHANGED rounds
       ELSE /\ sampler' = "waiting" /\ rounds' = rounds + 1 /\ UNCHANGED history
    /\ UNCHANGED <<vars, app>>

(* OSError is not caught. *)
SlipUncaught ==
    /\ sampler = "here" /\ HasRead
    /\ IF calls[Loop].outcome = "ok"
       THEN /\ history' = [history EXCEPT ![Here] = With(@, Point(calls[Loop].got))]
            /\ sampler' = "there"
       ELSE sampler' = "ended" /\ UNCHANGED history
    /\ UNCHANGED <<vars, app, rounds>>

(* record_snapshot at Here: a point, nothing after an OSError, the end of   *)
(* the task after any other exception.                                      *)
SampleHere ==
    /\ sampler = "here" /\ HasRead
    /\ \/ /\ calls[Loop].outcome = "ok"
          /\ history' = [history EXCEPT ![Here] = With(@, Point(calls[Loop].got))]
          /\ sampler' = "there"
       \/ calls[Loop].outcome = "OSError" /\ sampler' = "there" /\ UNCHANGED history
       \/ calls[Loop].outcome = "other" /\ sampler' = "ended" /\ UNCHANGED history
    /\ UNCHANGED <<vars, app, rounds>>

(* record_snapshot at There, the end of the round. *)
SampleThere ==
    /\ sampler = "there"
    /\ history' = [history EXCEPT ![There] = With(@, Point(<<>>))]
    /\ rounds' = rounds + 1
    /\ sampler' = "waiting"
    /\ UNCHANGED <<vars, app>>

(* The event set during the wait ends the wait and the task. *)
EndSampler ==
    /\ sampler = "waiting" /\ Free /\ app # "serving"
    /\ sampler' = "done"
    /\ UNCHANGED <<vars, app, history, rounds>>

----------------------------------------------------------------------------
(* The end of the lifespan: the event is set, the sampler awaited, the      *)
(* database engine disposed of.  The exception that ended the sampler is    *)
(* raised by the await, and nothing after it runs.                          *)
Shutdown ==
    /\ app = "serving" /\ Free
    /\ app' = "stopping"
    /\ UNCHANGED <<vars, sampler, history, rounds>>

AwaitSampler ==
    /\ app = "stopping" /\ Free
    /\ \/ sampler = "done" /\ app' = "disposed"
       \/ sampler = "ended" /\ app' = "failed"
    /\ UNCHANGED <<vars, sampler, history, rounds>>

(* The pool threads, the device and the network; the loop's own calls go on *)
(* but begin in the steps above.                                            *)
LinkStep ==
    /\ \/ \E t \in Threads \ {Loop}, job \in Handled : Start(t, job)
       \/ \E t \in Threads : Step(t) \/ Timeout(t)
       \/ \E c \in DOMAIN conns : Serve(c) \/ HangUp(c) \/ Break(c)
       \/ Tick \/ Crash \/ Restart
    /\ UNCHANGED server

SamplerStep == BeginRound \/ SampleHere \/ SampleThere \/ EndSampler

SamplerNext == LinkStep \/ SamplerStep \/ Shutdown \/ AwaitSampler

SamplerSpec == SamplerInit /\ [][SamplerNext]_<<vars, server>>

(* A thread that can go on does, and a request that waits in the device is  *)
(* served: both are threads the operating system schedules.  The event loop *)
(* runs what is ready.  Faults, new calls, rounds and stops are not fair.    *)
FairSamplerSpec ==
    /\ SamplerSpec
    /\ \A t \in Threads : WF_<<vars, server>>(Step(t) /\ UNCHANGED server)
    /\ WF_<<vars, server>>((\E c \in DOMAIN conns : Serve(c)) /\ UNCHANGED server)
    /\ WF_<<vars, server>>(SampleHere)
    /\ WF_<<vars, server>>(SampleThere)
    /\ WF_<<vars, server>>(EndSampler)
    /\ WF_<<vars, server>>(AwaitSampler)

----------------------------------------------------------------------------
(* A device that cannot be reached does not end the sampler: whatever       *)
(* faults meet the reads of the event loop, the task goes on.  A handler    *)
(* that closes the connection under a read of the sampler does end it.      *)
SamplerGoesOn == Only(Loop) => sampler # "ended"

(* A device that cannot be reached does not hold back the others: There has *)
(* a point of every round, the newest MaxPoints of them, in order.          *)
NeighbourKeepsUp ==
    LET points == history[There] n == Len(points) IN
    /\ n = IF rounds < MaxPoints THEN rounds ELSE MaxPoints
    /\ \A i \in 1..n : points[i].t = rounds - n + i - 1

(* A stop comes to its end, and the engine is disposed of, whatever the     *)
(* device and the handlers do meanwhile; only a sampler that a handler has  *)
(* ended makes it fail.                                                     *)
StopCompletes ==
    app = "stopping" ~> app = "disposed" \/ (app = "failed" /\ ~Only(Loop))
=============================================================================
