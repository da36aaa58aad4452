------------------------------ MODULE DeviceLink ------------------------------
(***************************************************************************)
(* The link between the server and a device process.                        *)
(*                                                                          *)
(* One LazySocketUnidriverIO (tstlan/devices/net/client.py) per device is   *)
(* shared by everything that reads or writes the device: the sampler and    *)
(* the streams in the event loop, the handlers of the REST routes in pool   *)
(* threads.  It has no lock.  The device (devsim) serves each connection    *)
(* in a thread of its own and takes a lock around one request and around    *)
(* one tick.  A step is what runs between two points where another thread   *)
(* or the device may get in; one line read from a socket is one step.       *)
(*                                                                          *)
(* Slip... definitions are mistakes the properties tell from the model.     *)
(***************************************************************************)
EXTENDS Integers, Sequences, FiniteSets

CONSTANTS
    Threads,    \* the threads that call the device service
    Sensors,    \* the variables a tick of the device writes (mode R)
    Controls,   \* the variables a user writes (mode RW)
    Order,      \* the order of the variables in the device's profile
    Budgets,    \* bound: what a behaviour may hold, one of several choices of
                \* calls for each thread and of crashes, broken connections
                \* and timeouts
    None        \* no connection, no value

Vars == Sensors \cup Controls
Values == {0, 1}

ASSUME LinkAssumption ==
    /\ Sensors \cap Controls = {}
    /\ Order \in Seq(Vars)
    /\ Budgets \subseteq [calls: [Threads -> Nat], faults: Nat]
    /\ None \notin Nat
    /\ IsFiniteSet(Threads)

VARIABLES
    io,      \* LazySocketUnidriverIO._io: the current connection
    conns,   \* every connection made, with both its ends
    calls,   \* what each thread is doing
    up,      \* the device process is running
    buffer,  \* the values in the device
    faults   \* the faults that may still occur

vars == <<io, conns, calls, up, buffer, faults>>

----------------------------------------------------------------------------
ReadOf(var) == [kind |-> "read", var |-> var, value |-> None]

WriteOf(var, value) == [kind |-> "write", var |-> var, value |-> value]

Request == {ReadOf(v) : v \in Vars}
             \cup {WriteOf(v, x) : v \in Controls, x \in Values}

(* read_values: one request per variable, in the order of the profile.      *)
Snapshot == [i \in DOMAIN Order |-> ReadOf(Order[i])]

Jobs == {Snapshot} \cup {<<request>> : request \in Request}

(* A client end ("open", and "timedOut" once a read of it timed out), a     *)
(* handler in the device ("live"), and the lines in transit between them.   *)
NewConn == [open |-> TRUE, timedOut |-> FALSE, live |-> TRUE,
            requests |-> <<>>, replies |-> <<>>]

Dead(conn) == [conn EXCEPT !.live = FALSE, !.requests = <<>>]

(* A call of the service: its requests, the one it is at, the attempt of    *)
(* _call and its connection, and the answers got.  History: the values the  *)
(* variable has held since the request began, and whether a fault struck    *)
(* since the second attempt began.                                          *)
NoCall == [pc |-> "idle", job |-> <<>>, attempt |-> 1, conn |-> None,
           got |-> <<>>, held |-> {}, struck |-> FALSE, outcome |-> "ok",
           left |-> 0]

At(call) == call.job[Len(call.got) + 1]

Busy(call) == call.pc # "idle"

Ended(call, outcome) ==
    [call EXCEPT !.pc = "idle", !.conn = None, !.held = {}, !.outcome = outcome]

(* The first OSError of an operation is caught, the second is not.          *)
Raised(call) ==
    IF call.attempt = 1 THEN [call EXCEPT !.pc = "reset"] ELSE Ended(call, "OSError")

(* The next operation of the job, or its end.                               *)
Answered(call, value, now) ==
    LET done == [call EXCEPT
                   !.got = Append(@, [value |-> value, held |-> call.held])]
    IN  IF Len(done.got) = Len(call.job) THEN Ended(done, "ok")
        ELSE [done EXCEPT !.pc = "connect", !.attempt = 1, !.conn = None,
                          !.held = {now[At(done).var]}, !.struck = FALSE]

(* What the history of the calls records when the buffer becomes "now".     *)
Holding(now) ==
    [t \in Threads |-> IF Busy(calls[t])
        THEN [calls[t] EXCEPT !.held = @ \cup {now[At(calls[t]).var]}]
        ELSE calls[t]]

Struck(c) ==
    [t \in Threads |-> IF Busy(c[t]) /\ c[t].attempt = 2
        THEN [c[t] EXCEPT !.struck = TRUE] ELSE c[t]]

Acting(t, call) == [calls EXCEPT ![t] = call]

----------------------------------------------------------------------------
(* The threads of the server.                                               *)

Init ==
    /\ io = None
    /\ conns = <<>>
    /\ \E budget \in Budgets :
          /\ calls = [t \in Threads |-> [NoCall EXCEPT !.left = budget.calls[t]]]
          /\ faults = budget.faults
    /\ up \in BOOLEAN
    /\ buffer = [v \in Vars |-> 0]

Start(t, job) ==
    /\ ~Busy(calls[t])
    /\ calls[t].left > 0
    /\ Len(job) > 0
    /\ calls' = [calls EXCEPT ![t] =
          [NoCall EXCEPT !.pc = "connect", !.job = job, !.left = calls[t].left - 1,
                         !.held = {buffer[job[1].var]}]]
    /\ UNCHANGED <<io, conns, up, buffer, faults>>

(* _connect: the current connection, or a new one.                          *)
Connect(t) ==
    /\ calls[t].pc = "connect"
    /\ calls' = [calls EXCEPT
          ![t].pc = IF io = None THEN "dial" ELSE "send",
          ![t].conn = io]
    /\ UNCHANGED <<io, conns, up, buffer, faults>>

Dial(t) ==
    /\ calls[t].pc = "dial"
    /\ up
    /\ conns' = Append(conns, NewConn)
    /\ io' = Len(conns) + 1
    /\ calls' = [calls EXCEPT ![t].pc = "send", ![t].conn = io']
    /\ UNCHANGED <<up, buffer, faults>>

Refused(t) ==
    /\ calls[t].pc = "dial"
    /\ ~up
    /\ calls' = Acting(t, Raised(calls[t]))
    /\ UNCHANGED <<io, conns, up, buffer, faults>>

(* A write does not read its answer. *)
SlipSend(t) ==
    LET call == calls[t]  c == call.conn IN
    /\ call.pc = "send"
    /\ conns[c].open
    /\ conns' = IF conns[c].live
                THEN [conns EXCEPT ![c].requests = Append(@, At(call))]
                ELSE conns
    /\ calls' = IF At(call).kind = "write"
                THEN Acting(t, Answered(call, At(call).value, buffer))
                ELSE [calls EXCEPT ![t].pc = "receive"]
    /\ UNCHANGED <<io, up, buffer, faults>>

(* A write to a connection the device has lost goes nowhere; the read that  *)
(* follows fails.                                                           *)
Send(t) ==
    LET call == calls[t]  c == call.conn IN
    /\ call.pc = "send"
    /\ conns[c].open
    /\ conns' = IF conns[c].live
                THEN [conns EXCEPT ![c].requests = Append(@, At(call))]
                ELSE conns
    /\ calls' = [calls EXCEPT ![t].pc = "receive"]
    /\ UNCHANGED <<io, up, buffer, faults>>

(* Another thread has closed the file: ValueError, which _call lets pass.   *)
Closed(t) ==
    LET call == calls[t] IN
    /\ call.pc \in {"send", "receive"}
    /\ ~conns[call.conn].open
    /\ calls' = Acting(t, Ended(call, "other"))
    /\ UNCHANGED <<io, conns, up, buffer, faults>>

(* An answer of the wrong kind is a KeyError for a read; a write ignores    *)
(* what it is answered.                                                     *)
Receive(t) ==
    LET call == calls[t]
        c == call.conn
        reply == Head(conns[c].replies)
        written == At(call).kind = "write"
    IN
    /\ call.pc = "receive"
    /\ conns[c].replies # <<>> /\ ~conns[c].timedOut
    /\ conns' = [conns EXCEPT ![c].replies = Tail(@)]
    /\ calls' = Acting(t,
          IF written THEN Answered(call, At(call).value, buffer)
          ELSE IF reply.kind = "read" THEN Answered(call, reply.value, buffer)
          ELSE Ended(call, "other"))
    /\ UNCHANGED <<io, up, buffer, faults>>

(* The end of the stream is taken for an answer still to come. *)
SlipLost(t) ==
    LET call == calls[t]  conn == conns[call.conn] IN
    /\ call.pc = "receive"
    /\ conn.timedOut
    /\ calls' = Acting(t, Raised(call))
    /\ UNCHANGED <<io, conns, up, buffer, faults>>

(* The end of the stream after what had arrived, or a read after a timeout: *)
(* OSError.                                                                 *)
Lost(t) ==
    LET call == calls[t]  conn == conns[call.conn] IN
    /\ call.pc = "receive"
    /\ conn.timedOut \/ (~conn.live /\ conn.replies = <<>>)
    /\ calls' = Acting(t, Raised(call))
    /\ UNCHANGED <<io, conns, up, buffer, faults>>

(* After a timeout the stream could still be read.                          *)
SlipTimeout(t) ==
    /\ calls[t].pc = "receive"
    /\ conns[calls[t].conn].replies = <<>>
    /\ faults > 0
    /\ faults' = faults - 1
    /\ calls' = [Struck(calls) EXCEPT ![t] = Raised(Struck(calls)[t])]
    /\ UNCHANGED <<io, conns, up, buffer>>

(* Nothing came in time: TimeoutError, an OSError.                          *)
Timeout(t) ==
    LET call == Struck(calls)[t] IN
    /\ \/ call.pc = "dial" /\ UNCHANGED conns
       \/ /\ call.pc = "receive"
          /\ conns[call.conn].replies = <<>>
          /\ conns' = [conns EXCEPT ![call.conn].timedOut = TRUE]
    /\ faults > 0
    /\ faults' = faults - 1
    /\ calls' = [Struck(calls) EXCEPT ![t] = Raised(call)]
    /\ UNCHANGED <<io, up, buffer>>

(* The broken connection is kept for the second attempt.                    *)
SlipReset(t) ==
    /\ calls[t].pc = "reset"
    /\ calls' = [calls EXCEPT ![t].pc = "connect", ![t].attempt = @ + 1,
                              ![t].conn = None, ![t].struck = ~up]
    /\ UNCHANGED <<io, conns, up, buffer, faults>>

(* The broken connection is forgotten and not closed.                       *)
SlipForget(t) ==
    /\ calls[t].pc = "reset"
    /\ io' = None
    /\ calls' = [calls EXCEPT ![t].pc = "connect", ![t].attempt = @ + 1,
                              ![t].conn = None, ![t].struck = ~up]
    /\ UNCHANGED <<conns, up, buffer, faults>>

(* _reset closes the current connection, whoever made it.                   *)
Reset(t) ==
    /\ calls[t].pc = "reset"
    /\ conns' = IF io = None THEN conns ELSE [conns EXCEPT ![io].open = FALSE]
    /\ io' = None
    /\ calls' = [calls EXCEPT ![t].pc = "connect", ![t].attempt = @ + 1,
                              ![t].conn = None, ![t].struck = ~up]
    /\ UNCHANGED <<up, buffer, faults>>

----------------------------------------------------------------------------
(* The device.                                                              *)

(* A handler takes the lock, applies one request and answers it.            *)
Serve(c) ==
    LET request == Head(conns[c].requests) IN
    /\ conns[c].live
    /\ conns[c].requests # <<>>
    /\ buffer' = IF request.kind = "write"
                 THEN [buffer EXCEPT ![request.var] = request.value]
                 ELSE buffer
    /\ conns' = [conns EXCEPT
          ![c].requests = Tail(@),
          ![c].replies = Append(@, [kind |-> request.kind,
                                    value |-> buffer'[request.var]])]
    /\ calls' = Holding(buffer')
    /\ UNCHANGED <<io, up, faults>>

(* A handler notices that its client is gone, perhaps before it has served  *)
(* what the client had sent.                                                *)
HangUp(c) ==
    /\ conns[c].live /\ ~conns[c].open
    /\ conns' = [conns EXCEPT ![c] = Dead(@)]
    /\ UNCHANGED <<io, calls, up, buffer, faults>>

(* The engine publishes every sensor under one lock.                        *)
Tick ==
    /\ up
    /\ buffer' = [v \in Vars |-> IF v \in Sensors THEN 1 - buffer[v] ELSE buffer[v]]
    /\ calls' = Holding(buffer')
    /\ UNCHANGED <<io, conns, up, faults>>

(* The answers still on their way may be lost with the connection.          *)
Break(c) ==
    /\ conns[c].live /\ conns[c].open
    /\ faults > 0
    /\ faults' = faults - 1
    /\ LET conn == conns[c] IN \E k \in 0..Len(conn.replies) :
          conns' = [conns EXCEPT
              ![c] = Dead([conn EXCEPT !.replies = SubSeq(conn.replies, 1, k)])]
    /\ calls' = Struck(calls)
    /\ UNCHANGED <<io, up, buffer>>

Crash ==
    /\ up
    /\ faults > 0
    /\ faults' = faults - 1
    /\ up' = FALSE
    /\ conns' = [c \in DOMAIN conns |-> Dead(conns[c])]
    /\ calls' = Struck(calls)
    /\ UNCHANGED <<io, buffer>>

(* The device starts from the values of its profile.                        *)
Restart ==
    /\ ~up
    /\ up' = TRUE
    /\ buffer' = [v \in Vars |-> 0]
    /\ calls' = Holding(buffer')
    /\ UNCHANGED <<io, conns, faults>>

----------------------------------------------------------------------------
Step(t) ==
    \/ Connect(t)
    \/ Dial(t)
    \/ Refused(t)
    \/ Send(t)
    \/ Closed(t)
    \/ Receive(t)
    \/ Lost(t)
    \/ Reset(t)

Next ==
    \/ \E t \in Threads : \/ \E job \in Jobs : Start(t, job)
                          \/ Step(t)
                          \/ Timeout(t)
    \/ \E c \in DOMAIN conns : Serve(c) \/ HangUp(c) \/ Break(c)
    \/ Tick
    \/ Crash
    \/ Restart

Spec == Init /\ [][Next]_vars

----------------------------------------------------------------------------
Call ==
    [pc: {"idle", "connect", "dial", "send", "receive", "reset"},
     job: Jobs \cup {<<>>}, attempt: {1, 2}, conn: DOMAIN conns \cup {None},
     got: Seq([value: Values, held: SUBSET Values]), held: SUBSET Values,
     struck: BOOLEAN, outcome: {"ok", "OSError", "other"},
     left: Nat]

TypeOK ==
    /\ conns \in Seq([open: BOOLEAN, timedOut: BOOLEAN, live: BOOLEAN,
                      requests: Seq(Request),
                      replies: Seq([kind: {"read", "write"}, value: Values])])
    /\ io \in DOMAIN conns \cup {None}
    /\ calls \in [Threads -> Call]
    /\ up \in BOOLEAN
    /\ buffer \in [Vars -> Values]
    /\ faults \in Nat

(* No thread but t has called so far; the link has been used by one at most. *)
Only(t) == \A s \in Threads \ {t} : calls[s].job = <<>>

OneCaller == \E t \in Threads : Only(t)

(* What a request is answered with was true of the device while it was      *)
(* under way: a read returns a value its variable held, a finished write    *)
(* has been in the device, whatever was lost, answered late or retried.     *)
AnswersTrue ==
    \A t \in Threads : \A i \in DOMAIN calls[t].got :
        calls[t].got[i].value \in calls[t].got[i].held

(* So it is while one thread has the link to itself. *)
TrueAlone == OneCaller => AnswersTrue

(* While one thread has the link to itself, one retry on a fresh connection *)
(* is enough: a call fails only when the device was down or another fault   *)
(* struck during the second attempt.                                        *)
OneRetrySuffices ==
    OneCaller => \A t \in Threads : calls[t].outcome # "ok" => calls[t].struck

(* A connection the client holds open is the current one: none leaks when   *)
(* connections are replaced.                                                *)
OneConnection == \A c \in DOMAIN conns : conns[c].open => io = c

(* The state keeps its types, and one thread alone leaks no connection.     *)
LinkSound == TypeOK /\ (OneCaller => OneConnection)

(* When no call is under way nothing is in transit on a connection that     *)
(* will be used again: threads that share it may take one another's answers *)
(* but the stream does not stay out of step.                                *)
InStep ==
    (io # None /\ \A t \in Threads : ~Busy(calls[t])) =>
        \/ conns[io].timedOut
        \/ conns[io].requests = <<>> /\ conns[io].replies = <<>>

(* Every call of the service comes back, with values or with an error.      *)
CallReturns ==
    \A t \in Threads : Busy(calls[t]) ~> ~Busy(calls[t])

=============================================================================
