--------------------------- MODULE DeviceLinkProofs ---------------------------
(***************************************************************************)
(* The promises of DeviceLink, for any threads, variables, calls and        *)
(* faults: what holds however many threads share the link, and what holds   *)
(* while one thread has it to itself.                                       *)
(***************************************************************************)
EXTENDS DeviceLink, FiniteSetTheorems, SequenceTheorems, TLAPS

Reply == [kind: {"read", "write"}, value: Values]

Conn == [open: BOOLEAN, timedOut: BOOLEAN, live: BOOLEAN,
         requests: Seq(Request), replies: Seq(Reply)]

Answer == [value: Values, held: SUBSET Values]

(* A call, and what else holds of it, over the connections D.               *)
CallOn(D) ==
    [pc: {"idle", "connect", "dial", "send", "receive", "reset"},
     job: Jobs \cup {<<>>}, attempt: {1, 2}, conn: D \cup {None},
     got: Seq(Answer), held: SUBSET Values,
     struck: BOOLEAN, outcome: {"ok", "OSError", "other"},
     left: Nat]

(* A call that is under way has a request to send, and a connection to send *)
(* it on when it is past connecting; only a first attempt is reset.         *)
Sound(call, D) ==
    /\ Busy(call) => Len(call.got) < Len(call.job)
    /\ call.pc \in {"send", "receive"} => call.conn \in D
    /\ call.pc = "reset" => call.attempt = 1

TypeInv == TypeOK /\ \A t \in Threads : Sound(calls[t], DOMAIN conns)

----------------------------------------------------------------------------
(* Requests.                                                                *)

LEMMA RequestFields ==
    ASSUME NEW r \in Request
    PROVE  /\ r.kind \in {"read", "write"} /\ r.var \in Vars
           /\ r.kind = "write" => r.var \in Controls /\ r.value \in Values
  BY DEF Request, ReadOf, WriteOf, Vars

LEMMA JobsAreRequests == \A job \in Jobs \cup {<<>>} : job \in Seq(Request)
<1>1. Snapshot \in Seq(Request)
  <2>1. Len(Order) \in Nat /\ DOMAIN Order = 1..Len(Order)
        /\ \A i \in 1..Len(Order) : Order[i] \in Vars
    BY LinkAssumption
  <2>2. Snapshot \in [1..Len(Order) -> Request]
    BY <2>1 DEF Snapshot, Request
  <2> QED
    BY <2>1, <2>2, SeqDef
<1>2. ASSUME NEW r \in Request PROVE <<r>> \in Seq(Request)
  OBVIOUS
<1>3. <<>> \in Seq(Request)
  OBVIOUS
<1>4. ASSUME NEW job \in Jobs PROVE job \in Seq(Request)
  <2>1. CASE job = Snapshot
    BY <1>1, <2>1
  <2>2. CASE job # Snapshot
    <3>1. PICK r \in Request : job = <<r>>
      BY <2>2 DEF Jobs
    <3> QED
      BY <1>2, <3>1
  <2> QED
    BY <2>1, <2>2
<1> QED
  BY <1>3, <1>4

LEMMA CallFields ==
    ASSUME NEW D, NEW call \in CallOn(D)
    PROVE  /\ call = [pc |-> call.pc, job |-> call.job, attempt |-> call.attempt,
                      conn |-> call.conn, got |-> call.got, held |-> call.held,
                      struck |-> call.struck, outcome |-> call.outcome, left |-> call.left]
           /\ call.pc \in {"idle", "connect", "dial", "send", "receive", "reset"}
           /\ call.job \in Seq(Request) /\ call.job \in Jobs \cup {<<>>}
           /\ call.attempt \in {1, 2}
           /\ call.conn \in D \cup {None}
           /\ call.got \in Seq(Answer) /\ call.held \in SUBSET Values
           /\ call.struck \in BOOLEAN /\ call.outcome \in {"ok", "OSError", "other"}
           /\ call.left \in Nat
  BY JobsAreRequests DEF CallOn, Answer

LEMMA AtIsRequest ==
    ASSUME NEW D, NEW call \in CallOn(D), Len(call.got) < Len(call.job)
    PROVE  At(call) \in Request /\ At(call).var \in Vars
<1>1. call.job \in Seq(Request) /\ call.got \in Seq(Answer)
  BY CallFields
<1>2. At(call) \in Request
  BY <1>1 DEF At
<1> QED
  BY <1>2, RequestFields

(* What ends a request leaves of a call. *)
LEMMA EndedType ==
    ASSUME NEW D, NEW call \in CallOn(D), NEW outcome \in {"ok", "OSError", "other"}
    PROVE  /\ Ended(call, outcome) \in CallOn(D) /\ Sound(Ended(call, outcome), D)
           /\ Ended(call, outcome).pc = "idle"
  BY DEF Ended, CallOn, Sound, Busy

LEMMA RaisedType ==
    ASSUME NEW D, NEW call \in CallOn(D), Sound(call, D), Busy(call)
    PROVE  /\ Raised(call) \in CallOn(D) /\ Sound(Raised(call), D)
           /\ Raised(call).pc \in {"reset", "idle"}
<1>1. CASE call.attempt = 1
  <2>1. Raised(call) = [call EXCEPT !.pc = "reset"]
    BY <1>1 DEF Raised
  <2>2. Raised(call) \in CallOn(D) /\ Raised(call).pc = "reset"
    BY <2>1 DEF CallOn
  <2>3. Raised(call).attempt = 1 /\ Raised(call).job = call.job /\ Raised(call).got = call.got
    BY <1>1, <2>1, CallFields
  <2> QED
    BY <2>2, <2>3 DEF Sound, Busy
<1>2. CASE call.attempt # 1
  BY <1>2, EndedType DEF Raised
<1> QED
  BY <1>1, <1>2

LEMMA AnsweredType ==
    ASSUME NEW D, NEW call \in CallOn(D), Sound(call, D), Busy(call), NEW value \in Values,
           NEW now \in [Vars -> Values]
    PROVE  /\ Answered(call, value, now) \in CallOn(D) /\ Sound(Answered(call, value, now), D)
           /\ Answered(call, value, now).pc \in {"idle", "connect"}
<1> DEFINE done == [call EXCEPT !.got = Append(@, [value |-> value, held |-> call.held])]
<1>1. done \in CallOn(D) /\ Len(done.got) = Len(call.got) + 1 /\ done.job = call.job
      /\ Len(call.got) \in Nat /\ Len(call.job) \in Nat /\ Len(call.got) < Len(call.job)
  <2>1. /\ Len(call.got) \in Nat /\ Len(call.job) \in Nat /\ Len(call.got) < Len(call.job)
    BY CallFields DEF Sound
  <2>2. [value |-> value, held |-> call.held] \in Answer
    BY CallFields DEF Answer
  <2> DEFINE got == Append(call.got, [value |-> value, held |-> call.held])
  <2>3. got \in Seq(Answer) /\ Len(got) = Len(call.got) + 1
    BY <2>2, CallFields
  <2>4. done = [call EXCEPT !.got = got]
    OBVIOUS
  <2> HIDE DEF got, done
  <2>5. done \in CallOn(D) /\ done.got = got /\ done.job = call.job
    BY <2>3, <2>4 DEF CallOn, Answer
  <2> QED
    BY <2>1, <2>3, <2>5
<1>2. Answered(call, value, now) =
        IF Len(done.got) = Len(call.job) THEN Ended(done, "ok")
        ELSE [done EXCEPT !.pc = "connect", !.attempt = 1, !.conn = None,
                          !.held = {now[At(done).var]}, !.struck = FALSE]
  BY <1>1 DEF Answered
<1> HIDE DEF done
<1>3. CASE Len(done.got) = Len(call.job)
  BY <1>1, <1>2, <1>3, EndedType
<1>4. CASE Len(done.got) # Len(call.job)
  <2>1. Len(done.got) < Len(done.job)
    BY <1>1, <1>4
  <2>2. At(done).var \in Vars
    BY <1>1, <2>1, AtIsRequest
  <2>3. {now[At(done).var]} \in SUBSET Values
    BY <2>2
  <2> DEFINE held == {now[At(done).var]}
             again == [done EXCEPT !.pc = "connect", !.attempt = 1]
             next == [again EXCEPT !.conn = None, !.held = held, !.struck = FALSE]
  <2>4. Answered(call, value, now) = next
    BY <1>2, <1>4
  <2>5. again \in CallOn(D) /\ again.pc = "connect" /\ again.got = done.got /\ again.job = done.job
    BY <1>1 DEF CallOn
  <2>6. held \in SUBSET Values
    BY <2>3
  <2> HIDE DEF held, again
  <2>7. next \in CallOn(D) /\ next.pc = "connect" /\ next.got = done.got /\ next.job = done.job
    BY <2>5, <2>6 DEF CallOn
  <2> HIDE DEF next
  <2>8. Sound(next, D)
    BY <2>1, <2>7 DEF Sound
  <2> QED
    BY <2>4, <2>7, <2>8
<1> QED
  BY <1>3, <1>4

----------------------------------------------------------------------------
(* The parts of the type invariant that a step carries over.                *)

LEMMA ConnFields ==
    ASSUME TypeOK
    PROVE  /\ Len(conns) \in Nat /\ DOMAIN conns = 1..Len(conns) /\ conns \in Seq(Conn)
           /\ \A c \in DOMAIN conns :
                 /\ conns[c] = [open |-> conns[c].open, timedOut |-> conns[c].timedOut,
                                live |-> conns[c].live, requests |-> conns[c].requests,
                                replies |-> conns[c].replies]
                 /\ conns[c].open \in BOOLEAN /\ conns[c].timedOut \in BOOLEAN
                 /\ conns[c].live \in BOOLEAN
                 /\ conns[c].requests \in Seq(Request) /\ conns[c].replies \in Seq(Reply)
<1>1. conns \in Seq(Conn)
  BY DEF TypeOK, Conn, Reply
<1>2. Len(conns) \in Nat /\ DOMAIN conns = 1..Len(conns) /\ \A c \in DOMAIN conns : conns[c] \in Conn
  BY <1>1
<1> QED
  BY <1>1, <1>2 DEF Conn

LEMMA CallsOf ==
    ASSUME TypeInv, NEW t \in Threads
    PROVE  calls[t] \in CallOn(DOMAIN conns) /\ Sound(calls[t], DOMAIN conns)
  BY DEF TypeInv, TypeOK, Call, CallOn, Answer

LEMMA CallGrows ==
    ASSUME NEW D, NEW E, D \subseteq E, NEW call \in CallOn(D), Sound(call, D)
    PROVE  call \in CallOn(E) /\ Sound(call, E)
  BY DEF CallOn, Sound

(* One connection changes, or none, or one is added. *)
LEMMA ConnChanged ==
    ASSUME TypeOK, NEW c \in DOMAIN conns, NEW conn \in Conn,
           conns' = [conns EXCEPT ![c] = conn]
    PROVE  conns' \in Seq(Conn) /\ DOMAIN conns' = DOMAIN conns
<1>1. conns \in [1..Len(conns) -> Conn] /\ Len(conns) \in Nat /\ DOMAIN conns = 1..Len(conns)
  BY ConnFields
<1>2. conns' \in [1..Len(conns) -> Conn]
  BY <1>1
<1> QED
  BY <1>1, <1>2, SeqDef

(* The calls over the connections of the next state. *)
CallsNext ==
    /\ calls' \in [Threads -> CallOn(DOMAIN conns')]
    /\ \A s \in Threads : Sound(calls'[s], DOMAIN conns')

(* One call moves on. *)
LEMMA CallMoved ==
    ASSUME TypeInv, DOMAIN conns \subseteq DOMAIN conns', NEW t \in Threads, NEW new,
           new \in CallOn(DOMAIN conns'), Sound(new, DOMAIN conns'),
           calls' = [calls EXCEPT ![t] = new]
    PROVE  CallsNext
<1>1. DOMAIN calls = Threads
  BY DEF TypeInv, TypeOK
<1>2. ASSUME NEW s \in Threads
      PROVE  calls'[s] \in CallOn(DOMAIN conns') /\ Sound(calls'[s], DOMAIN conns')
  <2>1. calls[s] \in CallOn(DOMAIN conns') /\ Sound(calls[s], DOMAIN conns')
    BY CallsOf, CallGrows
  <2>2. calls'[s] = IF s = t THEN new ELSE calls[s]
    BY <1>1
  <2> QED
    BY <2>1, <2>2
<1>3. calls' = [s \in Threads |-> calls'[s]]
  BY <1>1
<1> QED
  BY <1>2, <1>3 DEF CallsNext

(* The device changes under the calls, or a fault strikes. *)
LEMMA CallsMarked ==
    ASSUME TypeInv, DOMAIN conns \subseteq DOMAIN conns',
           \/ calls' = Struck(calls)
           \/ buffer' \in [Vars -> Values] /\ calls' = Holding(buffer')
    PROVE  CallsNext
<1> DEFINE E == DOMAIN conns'
<1>1. ASSUME NEW s \in Threads PROVE calls'[s] \in CallOn(E) /\ Sound(calls'[s], E)
  <2>1. calls[s] \in CallOn(E) /\ Sound(calls[s], E)
    BY CallsOf, CallGrows
  <2> HIDE DEF E
  <2>2. CASE calls' = Struck(calls)
    <3>1. calls'[s] = calls[s] \/ calls'[s] = [calls[s] EXCEPT !.struck = TRUE]
      BY <2>2 DEF Struck
    <3>2. calls'[s] \in CallOn(E)
      BY <2>1, <3>1 DEF CallOn
    <3>3. UNCHANGED <<calls[s].pc, calls[s].got, calls[s].job, calls[s].conn, calls[s].attempt>>
      BY <2>1, <3>1, CallFields
    <3> QED
      BY <2>1, <3>2, <3>3 DEF Sound, Busy
  <2>3. CASE buffer' \in [Vars -> Values] /\ calls' = Holding(buffer')
    <3>1. CASE Busy(calls[s])
      <4> DEFINE held == calls[s].held \cup {buffer'[At(calls[s]).var]}
      <4>1. At(calls[s]).var \in Vars
        BY <2>1, <3>1, AtIsRequest DEF Sound
      <4>2. held \in SUBSET Values
        BY <2>1, <2>3, <4>1, CallFields
      <4>3. calls'[s] = [calls[s] EXCEPT !.held = held]
        BY <2>3, <3>1 DEF Holding
      <4> HIDE DEF held
      <4>4. calls'[s] \in CallOn(E)
        BY <2>1, <4>2, <4>3 DEF CallOn
      <4>5. UNCHANGED <<calls[s].pc, calls[s].got, calls[s].job, calls[s].conn, calls[s].attempt>>
        BY <2>1, <4>3, CallFields
      <4> QED
        BY <2>1, <4>4, <4>5 DEF Sound, Busy
    <3>2. CASE ~Busy(calls[s])
      <4>1. calls'[s] = calls[s]
        BY <2>3, <3>2 DEF Holding
      <4> QED
        BY <2>1, <4>1 DEF Sound, Busy
    <3> QED
      BY <3>1, <3>2
  <2> QED
    BY <2>2, <2>3
<1>2. calls' = [s \in Threads |-> calls'[s]]
  BY DEF Struck, Holding
<1> QED
  BY <1>1, <1>2 DEF CallsNext

----------------------------------------------------------------------------
(* Every step keeps the types. *)

LEMMA Typed ==
    ASSUME conns' \in Seq(Conn), io' \in DOMAIN conns' \cup {None},
           CallsNext,
           up' \in BOOLEAN, buffer' \in [Vars -> Values], faults' \in Nat
    PROVE  TypeInv'
  BY DEF CallsNext, TypeInv, TypeOK, Call, CallOn, Answer, Conn, Reply

(* A step of a thread that leaves the connections alone. *)
LEMMA TypedMove ==
    ASSUME TypeInv, NEW t \in Threads, NEW new \in CallOn(DOMAIN conns), Sound(new, DOMAIN conns),
           calls' = [calls EXCEPT ![t] = new],
           UNCHANGED <<io, conns, up, buffer>>, faults' \in Nat
    PROVE  TypeInv'
<1>1. CallsNext
  BY CallMoved
<1> QED
  BY <1>1, Typed, ConnFields DEF TypeInv, TypeOK

LEMMA StartTypes ==
    ASSUME TypeInv, NEW t \in Threads, NEW job \in Jobs, Start(t, job)
    PROVE  TypeInv'
<1> DEFINE first == [NoCall EXCEPT !.pc = "connect", !.job = job]
           new == [first EXCEPT !.left = calls[t].left - 1, !.held = {buffer[job[1].var]}]
<1>1. calls' = [calls EXCEPT ![t] = new] /\ Len(job) > 0 /\ calls[t].left > 0
      /\ UNCHANGED <<io, conns, up, buffer, faults>>
  BY DEF Start
<1>2. job \in Seq(Request) /\ Len(job) \in Nat /\ buffer[job[1].var] \in Values
  <2>1. job \in Seq(Request) /\ Len(job) \in Nat
    BY JobsAreRequests
  <2>2. job[1] \in Request
    BY <1>1, <2>1
  <2> QED
    BY <2>1, <2>2, RequestFields DEF TypeInv, TypeOK
<1>3. calls[t].left - 1 \in Nat
  BY <1>1, CallsOf, CallFields, LinkAssumption
<1>4. <<>> \in Seq([value: Values, held: SUBSET Values])
  OBVIOUS
<1>5. NoCall \in CallOn(DOMAIN conns) /\ NoCall.got = <<>>
  BY <1>4, LinkAssumption DEF NoCall, CallOn, Answer
<1>6. first \in CallOn(DOMAIN conns) /\ first.pc = "connect" /\ first.job = job /\ first.got = <<>>
  BY <1>5 DEF CallOn
<1> HIDE DEF first
<1>7. new \in CallOn(DOMAIN conns) /\ new.pc = "connect" /\ new.job = job /\ new.got = <<>>
  BY <1>2, <1>3, <1>6 DEF CallOn
<1> HIDE DEF new
<1>8. Sound(new, DOMAIN conns)
  BY <1>1, <1>2, <1>7 DEF Sound
<1> QED
  BY <1>1, <1>7, <1>8, TypedMove DEF TypeInv, TypeOK

LEMMA ConnectTypes ==
    ASSUME TypeInv, NEW t \in Threads, Connect(t)
    PROVE  TypeInv'
<1> DEFINE new == [calls[t] EXCEPT !.pc = IF io = None THEN "dial" ELSE "send", !.conn = io]
<1>1. calls[t] \in CallOn(DOMAIN conns) /\ Sound(calls[t], DOMAIN conns) /\ calls[t].pc = "connect"
  BY CallsOf DEF Connect
<1>2. calls' = [calls EXCEPT ![t] = new] /\ UNCHANGED <<io, conns, up, buffer, faults>>
  BY DEF Connect, TypeInv, TypeOK
<1>3. io \in DOMAIN conns \cup {None} /\ faults \in Nat
  BY DEF TypeInv, TypeOK
<1>4. new \in CallOn(DOMAIN conns) /\ new.conn = io /\ new.job = calls[t].job /\ new.got = calls[t].got
      /\ new.pc = IF io = None THEN "dial" ELSE "send"
  BY <1>1, <1>3 DEF CallOn
<1> HIDE DEF new
<1>5. Sound(new, DOMAIN conns)
  BY <1>1, <1>3, <1>4 DEF Sound, Busy
<1> QED
  BY <1>2, <1>3, <1>4, <1>5, TypedMove

LEMMA DialTypes ==
    ASSUME TypeInv, NEW t \in Threads, Dial(t)
    PROVE  TypeInv'
<1> DEFINE n == Len(conns) + 1
           new == [calls[t] EXCEPT !.pc = "send", !.conn = n]
<1>1. calls[t] \in CallOn(DOMAIN conns) /\ Sound(calls[t], DOMAIN conns) /\ calls[t].pc = "dial"
  BY CallsOf DEF Dial
<1>2. /\ conns' = Append(conns, NewConn) /\ io' = n /\ UNCHANGED <<up, buffer, faults>>
      /\ calls' = [calls EXCEPT ![t] = new]
  BY DEF Dial, TypeInv, TypeOK
<1>3. NewConn \in Conn
  <2>1. <<>> \in Seq(Request) /\ <<>> \in Seq(Reply)
    OBVIOUS
  <2> QED
    BY <2>1 DEF NewConn, Conn
<1>4. /\ conns \in Seq(Conn) /\ Len(conns) \in Nat /\ DOMAIN conns = 1..Len(conns)
  BY ConnFields DEF TypeInv
<1>5. conns' \in Seq(Conn) /\ DOMAIN conns' = 1..n /\ n \in DOMAIN conns'
      /\ DOMAIN conns \subseteq DOMAIN conns'
  BY <1>2, <1>3, <1>4
<1>6. calls[t] \in CallOn(DOMAIN conns')
  BY <1>1, <1>5 DEF CallOn
<1>7. new \in CallOn(DOMAIN conns') /\ new.conn = n /\ new.job = calls[t].job /\ new.got = calls[t].got
      /\ new.pc = "send"
  BY <1>1, <1>5, <1>6 DEF CallOn
<1> HIDE DEF new, n
<1>8. Sound(new, DOMAIN conns')
  BY <1>1, <1>5, <1>7 DEF Sound, Busy
<1>9. CallsNext
  BY <1>2, <1>5, <1>7, <1>8, CallMoved
<1> QED
  BY <1>2, <1>5, <1>9, Typed DEF TypeInv, TypeOK

LEMMA FailTypes ==
    ASSUME TypeInv, NEW t \in Threads, Refused(t) \/ Closed(t) \/ Lost(t)
    PROVE  TypeInv'
<1>1. calls[t] \in CallOn(DOMAIN conns) /\ Sound(calls[t], DOMAIN conns) /\ Busy(calls[t])
  BY CallsOf DEF Refused, Closed, Lost, Busy
<1>2. /\ \/ calls' = [calls EXCEPT ![t] = Raised(calls[t])]
         \/ calls' = [calls EXCEPT ![t] = Ended(calls[t], "other")]
      /\ UNCHANGED <<io, conns, up, buffer, faults>>
  BY DEF Refused, Closed, Lost, Acting
<1>3. /\ Raised(calls[t]) \in CallOn(DOMAIN conns) /\ Sound(Raised(calls[t]), DOMAIN conns)
      /\ Ended(calls[t], "other") \in CallOn(DOMAIN conns) /\ Sound(Ended(calls[t], "other"), DOMAIN conns)
  BY <1>1, RaisedType, EndedType
<1> QED
  BY <1>2, <1>3, TypedMove DEF TypeInv, TypeOK

(* What a thread does to its connection. *)
LEMMA SendConn ==
    ASSUME TypeInv, NEW t \in Threads, Send(t)
    PROVE  LET c == calls[t].conn IN
           /\ c \in DOMAIN conns /\ conns' \in Seq(Conn) /\ DOMAIN conns' = DOMAIN conns
           /\ \A d \in DOMAIN conns : d # c => conns'[d] = conns[d]
           /\ conns'[c].open = conns[c].open /\ conns'[c].timedOut = conns[c].timedOut
           /\ conns'[c].live = conns[c].live /\ conns'[c].replies = conns[c].replies
           /\ conns'[c].requests = IF conns[c].live
                THEN Append(conns[c].requests, At(calls[t])) ELSE conns[c].requests
<1> DEFINE c == calls[t].conn
           lines == Append(conns[c].requests, At(calls[t]))
           conn == [conns[c] EXCEPT !.requests = lines]
<1>1. c \in DOMAIN conns /\ At(calls[t]) \in Request
  BY CallsOf, AtIsRequest DEF Send, Sound, Busy
<1>2. conns' = IF conns[c].live THEN [conns EXCEPT ![c] = conn] ELSE conns
  BY <1>1, ConnFields DEF Send, TypeInv
<1>3. TypeOK /\ conns \in Seq(Conn) /\ conns[c] \in Conn
  BY <1>1, ConnFields DEF TypeInv
<1>4. lines \in Seq(Request)
  BY <1>1, <1>3 DEF Conn
<1> HIDE DEF lines, c
<1>5. /\ conn \in Conn /\ conn.requests = lines
      /\ conn.open = conns[c].open /\ conn.timedOut = conns[c].timedOut
      /\ conn.live = conns[c].live /\ conn.replies = conns[c].replies
  BY <1>3, <1>4 DEF Conn
<1> HIDE DEF conn
<1>6. conns' \in Seq(Conn) /\ DOMAIN conns' = DOMAIN conns
  BY <1>1, <1>2, <1>3, <1>5, ConnChanged
<1>7. CASE conns[c].live
  <2>1. conns'[c] = conn /\ \A d \in DOMAIN conns : d # c => conns'[d] = conns[d]
    BY <1>1, <1>2, <1>7
  <2> QED
    BY <1>1, <1>5, <1>6, <1>7, <2>1 DEF c, lines
<1>8. CASE ~conns[c].live
  BY <1>1, <1>2, <1>6, <1>8 DEF c
<1> QED
  BY <1>7, <1>8

LEMMA SendTypes ==
    ASSUME TypeInv, NEW t \in Threads, Send(t)
    PROVE  TypeInv'
<1> DEFINE new == [calls[t] EXCEPT !.pc = "receive"]
<1>1. calls[t] \in CallOn(DOMAIN conns) /\ Sound(calls[t], DOMAIN conns) /\ calls[t].pc = "send"
  BY CallsOf DEF Send
<1>2. calls' = [calls EXCEPT ![t] = new] /\ UNCHANGED <<io, up, buffer, faults>>
  BY DEF Send, TypeInv, TypeOK
<1>3. conns' \in Seq(Conn) /\ DOMAIN conns' = DOMAIN conns
  BY SendConn
<1>4. new \in CallOn(DOMAIN conns) /\ new.conn = calls[t].conn /\ new.job = calls[t].job
      /\ new.got = calls[t].got /\ new.pc = "receive"
  BY <1>1 DEF CallOn
<1> HIDE DEF new
<1>5. Sound(new, DOMAIN conns)
  BY <1>1, <1>4 DEF Sound, Busy
<1>6. new \in CallOn(DOMAIN conns') /\ Sound(new, DOMAIN conns')
  BY <1>3, <1>4, <1>5, CallGrows
<1>7. CallsNext
  BY <1>2, <1>3, <1>6, CallMoved
<1> QED
  BY <1>2, <1>3, <1>7, Typed DEF TypeInv, TypeOK

LEMMA ReceiveConn ==
    ASSUME TypeInv, NEW t \in Threads, Receive(t)
    PROVE  LET c == calls[t].conn IN
           /\ c \in DOMAIN conns /\ conns' \in Seq(Conn) /\ DOMAIN conns' = DOMAIN conns
           /\ \A d \in DOMAIN conns : d # c => conns'[d] = conns[d]
           /\ conns'[c].open = conns[c].open /\ conns'[c].timedOut = conns[c].timedOut
           /\ conns'[c].live = conns[c].live /\ conns'[c].requests = conns[c].requests
           /\ conns'[c].replies = Tail(conns[c].replies) /\ conns[c].replies # <<>>
           /\ Head(conns[c].replies) \in Reply
<1> DEFINE c == calls[t].conn
           lines == Tail(conns[c].replies)
           conn == [conns[c] EXCEPT !.replies = lines]
<1>1. c \in DOMAIN conns /\ conns[c].replies # <<>>
  BY CallsOf DEF Receive, Sound
<1>2. conns' = [conns EXCEPT ![c] = conn]
  BY <1>1, ConnFields DEF Receive, TypeInv
<1>3. TypeOK /\ conns \in Seq(Conn) /\ conns[c] \in Conn
  BY <1>1, ConnFields DEF TypeInv
<1>4. lines \in Seq(Reply) /\ Head(conns[c].replies) \in Reply
  <2>1. conns[c].replies \in Seq(Reply)
    BY <1>3 DEF Conn
  <2> QED
    BY <1>1, <2>1, HeadTailProperties
<1> HIDE DEF lines, c
<1>5. /\ conn \in Conn /\ conn.replies = lines
      /\ conn.open = conns[c].open /\ conn.timedOut = conns[c].timedOut
      /\ conn.live = conns[c].live /\ conn.requests = conns[c].requests
  BY <1>3, <1>4 DEF Conn
<1> HIDE DEF conn
<1>6. conns' \in Seq(Conn) /\ DOMAIN conns' = DOMAIN conns
  BY <1>1, <1>2, <1>3, <1>5, ConnChanged
<1>7. conns'[c] = conn /\ \A d \in DOMAIN conns : d # c => conns'[d] = conns[d]
  BY <1>1, <1>2, ConnFields
<1> QED
  BY <1>1, <1>4, <1>5, <1>6, <1>7 DEF c, lines

LEMMA ReceiveTypes ==
    ASSUME TypeInv, NEW t \in Threads, Receive(t)
    PROVE  TypeInv'
<1> DEFINE D == DOMAIN conns
           reply == Head(conns[calls[t].conn].replies)
           written == At(calls[t]).kind = "write"
           new == IF written THEN Answered(calls[t], At(calls[t]).value, buffer)
                  ELSE IF reply.kind = "read" THEN Answered(calls[t], reply.value, buffer)
                  ELSE Ended(calls[t], "other")
<1>1. calls[t] \in CallOn(D) /\ Sound(calls[t], D) /\ Busy(calls[t])
  BY CallsOf DEF Receive, Busy
<1>2. calls' = [calls EXCEPT ![t] = new] /\ UNCHANGED <<io, up, buffer, faults>>
  BY DEF Receive, Acting
<1>3. conns' \in Seq(Conn) /\ DOMAIN conns' = D /\ reply.value \in Values
  BY ReceiveConn DEF Reply
<1>4. At(calls[t]) \in Request /\ (written => At(calls[t]).value \in Values)
  BY <1>1, AtIsRequest, RequestFields DEF Sound
<1>5. buffer \in [Vars -> Values]
  BY DEF TypeInv, TypeOK
<1>6. new \in CallOn(D) /\ Sound(new, D)
  BY <1>1, <1>3, <1>4, <1>5, AnsweredType, EndedType
<1> HIDE DEF new
<1>7. CallsNext
  BY <1>2, <1>3, <1>6, CallMoved
<1> QED
  BY <1>2, <1>3, <1>7, Typed DEF TypeInv, TypeOK

(* A field of a connection that is no line. *)
LEMMA FlagConn ==
    ASSUME TypeInv, NEW c \in DOMAIN conns,
           \/ conns' = [conns EXCEPT ![c].open = FALSE]
           \/ conns' = [conns EXCEPT ![c].timedOut = TRUE]
    PROVE  /\ conns' \in Seq(Conn) /\ DOMAIN conns' = DOMAIN conns
           /\ \A d \in DOMAIN conns : d # c => conns'[d] = conns[d]
           /\ conns'[c].open => conns[c].open
           /\ conns'[c].live = conns[c].live
           /\ conns'[c].replies = conns[c].replies /\ conns'[c].requests = conns[c].requests
<1>1. TypeOK /\ conns \in Seq(Conn) /\ conns[c] \in Conn
  BY ConnFields DEF TypeInv
<1>2. ASSUME NEW conn \in {[conns[c] EXCEPT !.open = FALSE], [conns[c] EXCEPT !.timedOut = TRUE]}
      PROVE  /\ conn \in Conn /\ conn.live = conns[c].live /\ (conn.open => conns[c].open)
             /\ conn.replies = conns[c].replies /\ conn.requests = conns[c].requests
  BY <1>1 DEF Conn
<1>3. PICK conn \in {[conns[c] EXCEPT !.open = FALSE], [conns[c] EXCEPT !.timedOut = TRUE]} :
        conns' = [conns EXCEPT ![c] = conn]
  OBVIOUS
<1>4. conns' \in Seq(Conn) /\ DOMAIN conns' = DOMAIN conns
  BY <1>1, <1>2, <1>3, ConnChanged
<1>5. conns'[c] = conn /\ \A d \in DOMAIN conns : d # c => conns'[d] = conns[d]
  BY <1>3
<1> QED
  BY <1>2, <1>4, <1>5

LEMMA ResetTypes ==
    ASSUME TypeInv, NEW t \in Threads, Reset(t)
    PROVE  TypeInv'
<1> DEFINE D == DOMAIN conns
           again == [calls[t] EXCEPT !.pc = "connect", !.attempt = @ + 1]
           new == [again EXCEPT !.conn = None, !.struck = ~up]
<1>1. calls[t] \in CallOn(D) /\ Sound(calls[t], D) /\ calls[t].pc = "reset" /\ calls[t].attempt = 1
  BY CallsOf DEF Reset, Sound
<1>2. calls' = [calls EXCEPT ![t] = new] /\ io' = None /\ UNCHANGED <<up, buffer, faults>>
  BY DEF Reset, TypeInv, TypeOK
<1>3. conns' \in Seq(Conn) /\ DOMAIN conns' = D
  BY FlagConn, ConnFields DEF Reset, TypeInv, TypeOK
<1>4. again \in CallOn(D) /\ again.pc = "connect" /\ again.job = calls[t].job
      /\ again.got = calls[t].got
  <2>1. again = [calls[t] EXCEPT !.pc = "connect", !.attempt = 2]
    BY <1>1
  <2> HIDE DEF again
  <2> QED
    BY <1>1, <2>1 DEF CallOn
<1>5. up \in BOOLEAN
  BY DEF TypeInv, TypeOK
<1> HIDE DEF again
<1>6. new \in CallOn(D) /\ new.pc = "connect" /\ new.job = calls[t].job
      /\ new.got = calls[t].got
  BY <1>4, <1>5 DEF CallOn
<1> HIDE DEF new
<1>7. Sound(new, D)
  BY <1>1, <1>6 DEF Sound, Busy
<1>8. CallsNext
  BY <1>2, <1>3, <1>6, <1>7, CallMoved
<1> QED
  BY <1>2, <1>3, <1>8, Typed DEF TypeInv, TypeOK

LEMMA StruckOf ==
    ASSUME TypeInv, NEW t \in Threads
    PROVE  LET call == Struck(calls)[t] IN
           /\ call \in CallOn(DOMAIN conns) /\ Sound(call, DOMAIN conns)
           /\ call.pc = calls[t].pc /\ call.conn = calls[t].conn /\ call.job = calls[t].job
           /\ call.got = calls[t].got /\ call.attempt = calls[t].attempt
           /\ call.outcome = calls[t].outcome /\ call.held = calls[t].held
           /\ call.struck = ((Busy(calls[t]) /\ calls[t].attempt = 2) \/ calls[t].struck)
<1> DEFINE call == Struck(calls)[t]
<1>1. calls[t] \in CallOn(DOMAIN conns) /\ Sound(calls[t], DOMAIN conns)
  BY CallsOf
<1>2. call = IF Busy(calls[t]) /\ calls[t].attempt = 2
             THEN [calls[t] EXCEPT !.struck = TRUE] ELSE calls[t]
  BY DEF Struck
<1> HIDE DEF call
<1>3. /\ call.pc = calls[t].pc /\ call.conn = calls[t].conn /\ call.job = calls[t].job
      /\ call.got = calls[t].got /\ call.attempt = calls[t].attempt
      /\ call.outcome = calls[t].outcome /\ call.held = calls[t].held
      /\ call.struck = ((Busy(calls[t]) /\ calls[t].attempt = 2) \/ calls[t].struck)
  <2>1. CASE Busy(calls[t]) /\ calls[t].attempt = 2
    <3>1. call = [calls[t] EXCEPT !.struck = TRUE]
      BY <1>2, <2>1
    <3> QED
      BY <1>1, <2>1, <3>1 DEF CallOn
  <2>2. CASE ~(Busy(calls[t]) /\ calls[t].attempt = 2)
    <3>1. call = calls[t] /\ calls[t].struck \in BOOLEAN
      BY <1>1, <1>2, <2>2, CallFields
    <3> QED
      BY <2>2, <3>1
  <2> QED
    BY <2>1, <2>2
<1>4. call \in CallOn(DOMAIN conns)
  BY <1>1, <1>2 DEF CallOn
<1>5. Sound(call, DOMAIN conns)
  BY <1>1, <1>3 DEF Sound, Busy
<1> QED
  BY <1>3, <1>4, <1>5 DEF call

LEMMA TimeoutTypes ==
    ASSUME TypeInv, NEW t \in Threads, Timeout(t)
    PROVE  TypeInv'
<1> DEFINE D == DOMAIN conns
           call == Struck(calls)[t]
           new == Raised(call)
<1>1. call \in CallOn(D) /\ Sound(call, D) /\ call.pc \in {"dial", "receive"} /\ Busy(call)
  BY StruckOf DEF Timeout, Busy
<1>2. calls' = [Struck(calls) EXCEPT ![t] = new] /\ UNCHANGED <<io, up, buffer>>
      /\ faults > 0 /\ faults' = faults - 1
  BY DEF Timeout
<1>3. conns' \in Seq(Conn) /\ DOMAIN conns' = D
  <2>1. CASE call.pc = "receive" /\ conns' = [conns EXCEPT ![call.conn].timedOut = TRUE]
    <3>1. call.conn \in D
      BY <1>1, <2>1 DEF Sound
    <3> QED
      BY <2>1, <3>1, FlagConn
  <2>2. CASE UNCHANGED conns
    BY <2>2, ConnFields DEF TypeInv
  <2> QED
    BY <2>1, <2>2 DEF Timeout
<1>4. new \in CallOn(D) /\ Sound(new, D)
  BY <1>1, RaisedType
<1> HIDE DEF new
<1>5. ASSUME NEW s \in Threads PROVE calls'[s] \in CallOn(D) /\ Sound(calls'[s], D)
  <2>1. calls'[s] = IF s = t THEN new ELSE Struck(calls)[s]
    BY <1>2 DEF Struck
  <2> QED
    BY <1>4, <2>1, StruckOf
<1>6. calls' = [s \in Threads |-> calls'[s]]
  BY <1>2 DEF Struck
<1>7. CallsNext
  BY <1>3, <1>5, <1>6 DEF CallsNext
<1> QED
  BY <1>2, <1>3, <1>7, Typed, LinkAssumption DEF TypeInv, TypeOK

LEMMA ServeConn ==
    ASSUME TypeInv, NEW c \in DOMAIN conns, Serve(c)
    PROVE  LET request == Head(conns[c].requests) IN
           /\ conns' \in Seq(Conn) /\ DOMAIN conns' = DOMAIN conns
           /\ request \in Request /\ buffer' \in [Vars -> Values]
           /\ \A d \in DOMAIN conns : d # c => conns'[d] = conns[d]
           /\ conns'[c].open = conns[c].open /\ conns'[c].timedOut = conns[c].timedOut
           /\ conns'[c].live = conns[c].live /\ conns[c].requests # <<>>
           /\ conns'[c].requests = Tail(conns[c].requests)
           /\ conns'[c].replies = Append(conns[c].replies,
                 [kind |-> request.kind, value |-> buffer'[request.var]])
<1> DEFINE request == Head(conns[c].requests)
           reply == [kind |-> request.kind, value |-> buffer'[request.var]]
           waiting == Tail(conns[c].requests)
           replies == Append(conns[c].replies, reply)
           conn == [conns[c] EXCEPT !.requests = waiting, !.replies = replies]
<1>1. TypeOK /\ conns \in Seq(Conn) /\ conns[c] \in Conn /\ conns[c].requests # <<>>
      /\ conns[c].requests \in Seq(Request) /\ conns[c].replies \in Seq(Reply)
      /\ buffer \in [Vars -> Values]
  BY ConnFields DEF TypeInv, Serve, TypeOK
<1>2. request \in Request /\ waiting \in Seq(Request)
  BY <1>1, HeadTailProperties
<1>3. buffer' = IF request.kind = "write" THEN [buffer EXCEPT ![request.var] = request.value]
                ELSE buffer
  BY DEF Serve
<1>4. conns' = [conns EXCEPT ![c] = conn]
  <2>1. conns' = [conns EXCEPT ![c].requests = waiting, ![c].replies = replies]
    BY <1>1, ConnFields DEF Serve
  <2> HIDE DEF waiting, replies
  <2> QED
    BY <2>1, <1>1, ConnFields
<1> HIDE DEF request, waiting
<1>5. buffer' \in [Vars -> Values]
  BY <1>1, <1>2, <1>3, RequestFields
<1>6. reply \in Reply
  BY <1>2, <1>5, RequestFields DEF Reply
<1> HIDE DEF reply
<1>7. replies \in Seq(Reply)
  BY <1>1, <1>6
<1> HIDE DEF replies
<1>8. /\ conn \in Conn /\ conn.requests = waiting /\ conn.replies = replies
      /\ conn.open = conns[c].open /\ conn.timedOut = conns[c].timedOut
      /\ conn.live = conns[c].live
  BY <1>1, <1>2, <1>7 DEF Conn
<1> HIDE DEF conn
<1>9. conns' \in Seq(Conn) /\ DOMAIN conns' = DOMAIN conns
  BY <1>1, <1>4, <1>8, ConnChanged
<1>10. conns'[c] = conn /\ \A d \in DOMAIN conns : d # c => conns'[d] = conns[d]
  BY <1>1, <1>4
<1> QED
  BY <1>1, <1>2, <1>5, <1>8, <1>9, <1>10 DEF request, reply, waiting, replies

LEMMA ServeTypes ==
    ASSUME TypeInv, NEW c \in DOMAIN conns, Serve(c)
    PROVE  TypeInv'
<1>1. conns' \in Seq(Conn) /\ DOMAIN conns' = DOMAIN conns /\ buffer' \in [Vars -> Values]
  BY ServeConn
<1>2. calls' = Holding(buffer') /\ UNCHANGED <<io, up, faults>>
  BY DEF Serve
<1>3. CallsNext
  BY <1>1, <1>2, CallsMarked
<1> QED
  BY <1>1, <1>2, <1>3, Typed DEF TypeInv, TypeOK

LEMMA DeadConn ==
    ASSUME NEW conn \in Conn
    PROVE  /\ Dead(conn) \in Conn /\ Dead(conn).live = FALSE /\ Dead(conn).requests = <<>>
           /\ Dead(conn).open = conn.open /\ Dead(conn).timedOut = conn.timedOut
           /\ Dead(conn).replies = conn.replies
<1>1. <<>> \in Seq(Request)
  OBVIOUS
<1> QED
  BY <1>1 DEF Dead, Conn

(* A handler that ends, by itself or with its connection. *)
LEMMA EndedConn ==
    ASSUME TypeInv, NEW c \in DOMAIN conns, HangUp(c) \/ Break(c)
    PROVE  /\ conns' \in Seq(Conn) /\ DOMAIN conns' = DOMAIN conns
           /\ \A d \in DOMAIN conns : d # c => conns'[d] = conns[d]
           /\ conns'[c].open = conns[c].open /\ conns'[c].timedOut = conns[c].timedOut
           /\ conns'[c].live = FALSE /\ conns'[c].requests = <<>>
           /\ \E k \in 0..Len(conns[c].replies) :
                 conns'[c].replies = SubSeq(conns[c].replies, 1, k)
<1>1. TypeOK /\ conns \in Seq(Conn) /\ conns[c] \in Conn /\ conns[c].replies \in Seq(Reply)
      /\ Len(conns[c].replies) \in Nat
  BY ConnFields DEF TypeInv
<1>2. PICK k \in 0..Len(conns[c].replies) :
        conns' = [conns EXCEPT ![c] =
                    Dead([conns[c] EXCEPT !.replies = SubSeq(conns[c].replies, 1, k)])]
  <2>1. CASE Break(c)
    BY <2>1 DEF Break
  <2>2. CASE HangUp(c)
    <3> DEFINE n == Len(conns[c].replies)
    <3>1. SubSeq(conns[c].replies, 1, n) = conns[c].replies
      BY <1>1, SubSeqFull
    <3>2. [conns[c] EXCEPT !.replies = SubSeq(conns[c].replies, 1, n)] = conns[c]
      BY <1>1, <3>1 DEF Conn
    <3>3. conns' = [conns EXCEPT ![c] =
                    Dead([conns[c] EXCEPT !.replies = SubSeq(conns[c].replies, 1, n)])]
      BY <2>2, <3>2 DEF HangUp
    <3>4. n \in 0..n
      BY <1>1
    <3> HIDE DEF n
    <3>5. \E k \in 0..n : conns' = [conns EXCEPT ![c] =
                    Dead([conns[c] EXCEPT !.replies = SubSeq(conns[c].replies, 1, k)])]
      BY <3>3, <3>4
    <3> QED
      BY <3>5 DEF n
  <2> QED
    BY <2>1, <2>2
<1> DEFINE kept == SubSeq(conns[c].replies, 1, k)
           conn == [conns[c] EXCEPT !.replies = kept]
<1>3. kept \in Seq(Reply)
  <2>1. \A i \in 1..k : conns[c].replies[i] \in Reply
    BY <1>1
  <2> QED
    BY <2>1, SubSeqProperties
<1> HIDE DEF kept
<1>4. conn \in Conn /\ conn.replies = kept /\ conn.open = conns[c].open
      /\ conn.timedOut = conns[c].timedOut
  BY <1>1, <1>3 DEF Conn
<1>5. conns' = [conns EXCEPT ![c] = Dead(conn)]
  BY <1>2 DEF kept
<1> HIDE DEF conn
<1>6. conns' \in Seq(Conn) /\ DOMAIN conns' = DOMAIN conns
  BY <1>1, <1>4, <1>5, DeadConn, ConnChanged
<1>7. conns'[c] = Dead(conn) /\ \A d \in DOMAIN conns : d # c => conns'[d] = conns[d]
  BY <1>1, <1>5
<1> QED
  BY <1>4, <1>6, <1>7, DeadConn DEF kept

LEMMA CrashConn ==
    ASSUME TypeInv, Crash
    PROVE  /\ conns' \in Seq(Conn) /\ DOMAIN conns' = DOMAIN conns
           /\ \A c \in DOMAIN conns :
                 /\ conns'[c].open = conns[c].open /\ conns'[c].timedOut = conns[c].timedOut
                 /\ conns'[c].live = FALSE /\ conns'[c].requests = <<>>
                 /\ conns'[c].replies = conns[c].replies
<1>1. conns \in Seq(Conn) /\ Len(conns) \in Nat /\ DOMAIN conns = 1..Len(conns)
      /\ \A c \in 1..Len(conns) : conns[c] \in Conn
  BY ConnFields DEF TypeInv
<1>2. conns' = [c \in 1..Len(conns) |-> Dead(conns[c])]
  BY <1>1 DEF Crash
<1>3. conns' \in [1..Len(conns) -> Conn]
  BY <1>1, <1>2, DeadConn
<1>4. conns' \in Seq(Conn) /\ DOMAIN conns' = DOMAIN conns
  BY <1>1, <1>3, SeqDef
<1> QED
  BY <1>1, <1>2, <1>4, DeadConn

LEMMA DeviceTypes ==
    ASSUME TypeInv, (\E c \in DOMAIN conns : HangUp(c) \/ Break(c)) \/ Crash \/ Tick \/ Restart
    PROVE  TypeInv'
<1>1. conns' \in Seq(Conn) /\ DOMAIN conns' = DOMAIN conns
  BY EndedConn, CrashConn, ConnFields DEF Tick, Restart, TypeInv
<1>2. buffer' \in [Vars -> Values]
  <2>1. buffer \in [Vars -> Values]
    BY DEF TypeInv, TypeOK
  <2> QED
    BY <2>1 DEF HangUp, Break, Crash, Tick, Restart, Values
<1>3. faults' \in Nat
  <2>1. faults \in Nat
    BY DEF TypeInv, TypeOK
  <2>2. faults' = faults \/ (faults > 0 /\ faults' = faults - 1)
    BY DEF HangUp, Break, Crash, Tick, Restart
  <2> QED
    BY <2>1, <2>2
<1>4. up' \in BOOLEAN /\ io' = io
  BY DEF TypeInv, TypeOK, HangUp, Break, Crash, Tick, Restart
<1>5. CallsNext
  <2>1. CASE \E c \in DOMAIN conns : HangUp(c)
    <3>1. DOMAIN conns' = DOMAIN conns /\ calls' = calls
      BY <1>1, <2>1 DEF HangUp
    <3>2. calls \in [Threads -> CallOn(DOMAIN conns)]
      BY DEF TypeInv, TypeOK, Call, CallOn, Answer
    <3> QED
      BY <3>1, <3>2, CallsOf DEF CallsNext
  <2>2. CASE (\E c \in DOMAIN conns : Break(c)) \/ Crash \/ Tick \/ Restart
    BY <1>1, <1>2, <2>2, CallsMarked DEF Break, Crash, Tick, Restart
  <2> QED
    BY <2>1, <2>2
<1> QED
  BY <1>1, <1>2, <1>3, <1>4, <1>5, Typed DEF TypeInv, TypeOK

LEMMA InitTypes == Init => TypeInv
<1> SUFFICES ASSUME Init PROVE TypeInv
  OBVIOUS
<1>1. <<>> \in Seq(Conn) /\ <<>> \in Seq(Answer)
  OBVIOUS
<1>2. PICK budget \in Budgets :
        /\ calls = [t \in Threads |-> [NoCall EXCEPT !.left = budget.calls[t]]]
        /\ faults = budget.faults
  BY DEF Init
<1>3. faults \in Nat /\ \A t \in Threads : budget.calls[t] \in Nat
  BY <1>2, LinkAssumption
<1>4. \A t \in Threads : calls[t] \in CallOn({}) /\ Sound(calls[t], {})
  BY <1>1, <1>2, <1>3 DEF NoCall, CallOn, Sound, Busy
<1>5. calls \in [Threads -> CallOn({})]
  BY <1>2, <1>4
<1>6. DOMAIN conns = {}
  BY DEF Init
<1> QED
  BY <1>1, <1>3, <1>4, <1>5, <1>6
     DEF Init, TypeInv, TypeOK, Call, CallOn, Answer, Conn, Reply, Values

LEMMA NextTypes == TypeInv /\ [Next]_vars => TypeInv'
<1> SUFFICES ASSUME TypeInv, [Next]_vars PROVE TypeInv'
  OBVIOUS
<1>1. CASE \E t \in Threads : \E job \in Jobs : Start(t, job)
  BY <1>1, StartTypes
<1>2. ASSUME NEW t \in Threads, Step(t) PROVE TypeInv'
  BY <1>2, ConnectTypes, DialTypes, FailTypes, SendTypes, ReceiveTypes, ResetTypes DEF Step
<1>3. CASE \E t \in Threads : Timeout(t)
  BY <1>3, TimeoutTypes
<1>4. CASE \E c \in DOMAIN conns : Serve(c)
  BY <1>4, ServeTypes
<1>5. CASE (\E c \in DOMAIN conns : HangUp(c) \/ Break(c)) \/ Crash \/ Tick \/ Restart
  BY <1>5, DeviceTypes
<1>6. CASE UNCHANGED vars
  BY <1>6 DEF vars, TypeInv, TypeOK, Call, Sound
<1> QED
  BY <1>1, <1>2, <1>3, <1>4, <1>5, <1>6 DEF Next

LEMMA TypesHold == Spec => []TypeInv
  BY InitTypes, NextTypes, PTL DEF Spec

(* The connections, the calls and the device keep their types: a call that  *)
(* waits waits on a connection that was made.                               *)
THEOREM TypeCorrect == Spec => []TypeOK
<1>1. TypeInv => TypeOK
  BY DEF TypeInv
<1> QED
  BY <1>1, TypesHold, PTL

----------------------------------------------------------------------------
(* The stream stays in step: on a connection that will be used again there  *)
(* are no more lines on their way than threads that wait for one.  Whose    *)
(* line a thread takes does not matter.                                     *)

Waiting(c) == {t \in Threads : calls[t].pc = "receive" /\ calls[t].conn = c}

OnTheWay(c) == Len(conns[c].requests) + Len(conns[c].replies)

Counted(c) ==
    /\ ~conns[c].live => conns[c].requests = <<>>
    /\ conns[c].open /\ ~conns[c].timedOut => OnTheWay(c) <= Cardinality(Waiting(c))

StreamInv ==
    /\ io # None => conns[io].open
    /\ \A c \in DOMAIN conns : Counted(c)

LEMMA LinesOf ==
    ASSUME NEW conn \in Conn
    PROVE  /\ Len(conn.requests) \in Nat /\ Len(conn.replies) \in Nat
           /\ conn.requests = <<>> <=> Len(conn.requests) = 0
           /\ conn.replies = <<>> <=> Len(conn.replies) = 0
<1>1. conn.requests \in Seq(Request) /\ conn.replies \in Seq(Reply)
  BY DEF Conn
<1> QED
  BY <1>1, EmptySeq

LEMMA Sums == \A a, b \in Nat : a + b \in Nat
  OBVIOUS

LEMMA LinesAreNumbers ==
    ASSUME TypeInv, NEW c \in DOMAIN conns
    PROVE  /\ Len(conns[c].requests) \in Nat /\ Len(conns[c].replies) \in Nat
           /\ OnTheWay(c) \in Nat
           /\ conns[c].requests = <<>> <=> Len(conns[c].requests) = 0
           /\ conns[c].replies = <<>> <=> Len(conns[c].replies) = 0
<1>1. conns[c] \in Conn
  BY ConnFields DEF TypeInv
<1>2. Len(conns[c].requests) \in Nat /\ Len(conns[c].replies) \in Nat
  BY <1>1, LinesOf
<1>3. OnTheWay(c) \in Nat
  BY <1>2, Sums, Zenon DEF OnTheWay
<1> QED
  BY <1>1, <1>2, <1>3, LinesOf

LEMMA WaitingAreNumbers ==
    ASSUME NEW S \in SUBSET Threads
    PROVE  /\ IsFiniteSet(S) /\ Cardinality(S) \in Nat
           /\ \A T \in SUBSET S : IsFiniteSet(T) /\ Cardinality(T) \in Nat
                                    /\ Cardinality(T) <= Cardinality(S)
<1>1. IsFiniteSet(S)
  BY LinkAssumption, FS_Subset
<1> QED
  BY <1>1, FS_Subset, FS_CardinalityType

(* No more lines, and whoever waited still waits. *)
LEMMA FewerLines ==
    ASSUME TypeInv, TypeInv', NEW c \in DOMAIN conns, c \in DOMAIN conns', Counted(c),
           conns'[c].open => conns[c].open, conns[c].timedOut => conns'[c].timedOut,
           ~conns'[c].live => conns'[c].requests = <<>>,
           OnTheWay(c)' <= OnTheWay(c), Waiting(c) \subseteq Waiting(c)'
    PROVE  Counted(c)'
<1>1. /\ Cardinality(Waiting(c)) \in Nat /\ Cardinality(Waiting(c)') \in Nat
      /\ Cardinality(Waiting(c)) <= Cardinality(Waiting(c)')
  BY WaitingAreNumbers DEF Waiting
<1>2. OnTheWay(c) \in Nat /\ OnTheWay(c)' \in Nat
  <2>1. conns' \in Seq(Conn)
    BY DEF TypeInv, TypeOK, Conn, Reply
  <2>2. conns'[c] \in Conn
    BY <2>1
  <2>3. Len(conns'[c].requests) \in Nat /\ Len(conns'[c].replies) \in Nat
    BY <2>2, LinesOf
  <2>4. OnTheWay(c)' \in Nat
    BY <2>3, Sums, Zenon DEF OnTheWay
  <2> QED
    BY <2>4, LinesAreNumbers
<1> QED
  BY <1>1, <1>2 DEF Counted

(* Nothing happens on a connection. *)
LEMMA SameLines ==
    ASSUME TypeInv, TypeInv', NEW c \in DOMAIN conns, c \in DOMAIN conns', Counted(c),
           conns'[c] = conns[c], Waiting(c) \subseteq Waiting(c)'
    PROVE  Counted(c)'
<1>1. OnTheWay(c)' = OnTheWay(c) /\ OnTheWay(c) \in Nat
  BY LinesAreNumbers DEF OnTheWay
<1> QED
  BY <1>1, FewerLines DEF Counted

LEMMA WaitingMoved ==
    ASSUME NEW t \in Threads, NEW c,
           \A s \in Threads : s # t => calls'[s].pc = calls[s].pc /\ calls'[s].conn = calls[s].conn
    PROVE  /\ Waiting(c) \ {t} \subseteq Waiting(c)'
           /\ ~(calls[t].pc = "receive" /\ calls[t].conn = c)
                => Waiting(c) \subseteq Waiting(c)'
           /\ calls'[t].pc = "receive" /\ calls'[t].conn = c
                => Waiting(c) \cup {t} \subseteq Waiting(c)'
  BY DEF Waiting

LEMMA OthersWait ==
    ASSUME TypeInv, NEW t \in Threads,
           \/ \E job \in Jobs : Start(t, job)
           \/ Step(t) \/ Timeout(t)
    PROVE  \A s \in Threads : s # t => calls'[s].pc = calls[s].pc /\ calls'[s].conn = calls[s].conn
<1>1. DOMAIN calls = Threads
  BY DEF TypeInv, TypeOK
<1>2. CASE Timeout(t)
  BY <1>1, <1>2, StruckOf DEF Timeout, Struck
<1>3. CASE (\E job \in Jobs : Start(t, job)) \/ Step(t)
  <2>1. \A s \in Threads : s # t => calls'[s] = calls[s]
    BY <1>1, <1>3 DEF Start, Step, Connect, Dial, Refused, Send, Closed, Receive, Lost, Reset,
       Acting
  <2> QED
    BY <2>1
<1> QED
  BY <1>2, <1>3

LEMMA AllWait ==
    ASSUME TypeInv, calls' = Struck(calls) \/ calls' = Holding(buffer') \/ UNCHANGED calls
    PROVE  \A c : Waiting(c)' = Waiting(c)
<1>1. ASSUME NEW s \in Threads
      PROVE  calls'[s].pc = calls[s].pc /\ calls'[s].conn = calls[s].conn
  <2>1. CASE calls' = Struck(calls)
    BY <2>1, StruckOf
  <2>2. CASE calls' = Holding(buffer')
    <3>1. calls[s] \in CallOn(DOMAIN conns)
      BY CallsOf
    <3> QED
      BY <2>2, <3>1 DEF Holding, CallOn
  <2> QED
    BY <2>1, <2>2
<1> QED
  BY <1>1 DEF Waiting

LEMMA StreamStart ==
    ASSUME TypeInv, TypeInv', StreamInv, NEW t \in Threads,
           \/ \E job \in Jobs : Start(t, job)
           \/ Connect(t) \/ Refused(t)
    PROVE  StreamInv'
<1>1. conns' = conns /\ io' = io /\ calls[t].pc # "receive"
  BY DEF Start, Connect, Refused, Busy
<1>2. \A c : Waiting(c) \subseteq Waiting(c)'
  BY <1>1, OthersWait, WaitingMoved DEF Step
<1> QED
  BY <1>1, <1>2, SameLines DEF StreamInv

LEMMA StreamDial ==
    ASSUME TypeInv, TypeInv', StreamInv, NEW t \in Threads, Dial(t)
    PROVE  StreamInv'
<1>0. PICK n : n = Len(conns) + 1
  OBVIOUS
<1>1. /\ conns' = Append(conns, NewConn) /\ io' = n /\ calls[t].pc # "receive"
      /\ conns \in Seq(Conn) /\ Len(conns) \in Nat /\ DOMAIN conns = 1..Len(conns)
  BY <1>0, ConnFields DEF Dial, TypeInv
<1>2. DOMAIN conns' = 1..n /\ conns'[n] = NewConn /\ \A c \in DOMAIN conns : conns'[c] = conns[c]
      /\ DOMAIN conns \subseteq DOMAIN conns' /\ n \in DOMAIN conns'
  BY <1>0, <1>1
<1>3. \A c : Waiting(c) \subseteq Waiting(c)'
  BY <1>1, OthersWait, WaitingMoved DEF Step
<1>4. ASSUME NEW c \in DOMAIN conns PROVE Counted(c)'
  BY <1>1, <1>2, <1>3, SameLines DEF StreamInv
<1>5. Counted(n)'
  <2>1. OnTheWay(n)' = 0
    BY <1>2 DEF OnTheWay, NewConn
  <2>2. Cardinality(Waiting(n)') \in Nat
    BY WaitingAreNumbers DEF Waiting
  <2> QED
    BY <1>2, <2>1, <2>2 DEF Counted, NewConn
<1>6. conns'[io'].open
  <2>1. NewConn.open
    BY DEF NewConn
  <2> QED
    BY <1>1, <1>2, <2>1
<1>7. \A c \in DOMAIN conns' : c = n \/ c \in DOMAIN conns
  BY <1>0, <1>1, <1>2
<1> QED
  BY <1>4, <1>5, <1>6, <1>7 DEF StreamInv

(* One more line, one more thread that waits. *)
LEMMA StreamSend ==
    ASSUME TypeInv, TypeInv', StreamInv, NEW t \in Threads, Send(t)
    PROVE  StreamInv'
<1>0. PICK c : c = calls[t].conn
  OBVIOUS
<1>1. /\ c \in DOMAIN conns /\ DOMAIN conns' = DOMAIN conns
      /\ \A d \in DOMAIN conns : d # c => conns'[d] = conns[d]
      /\ conns'[c].open = conns[c].open /\ conns'[c].timedOut = conns[c].timedOut
      /\ conns'[c].live = conns[c].live /\ conns'[c].replies = conns[c].replies
      /\ conns'[c].requests = IF conns[c].live
            THEN Append(conns[c].requests, At(calls[t])) ELSE conns[c].requests
  BY <1>0, SendConn
<1>2. /\ io' = io /\ calls[t].pc = "send" /\ calls'[t].pc = "receive" /\ calls'[t].conn = c
  <2>1. calls[t] \in CallOn(DOMAIN conns)
    BY CallsOf
  <2> QED
    BY <1>0, <2>1 DEF Send, TypeInv, TypeOK, CallOn
<1>3. /\ \A d : Waiting(d) \subseteq Waiting(d)'
      /\ Waiting(c) \cup {t} \subseteq Waiting(c)' /\ t \notin Waiting(c)
  BY <1>2, OthersWait, WaitingMoved DEF Step, Waiting
<1>4. ASSUME NEW d \in DOMAIN conns, d # c PROVE Counted(d)'
  BY <1>1, <1>3, <1>4, SameLines DEF StreamInv
<1>5. Counted(c)'
  <2>1. OnTheWay(c)' <= OnTheWay(c) + 1 /\ OnTheWay(c) \in Nat /\ OnTheWay(c)' \in Nat
    <3>1. conns[c].requests \in Seq(Request) /\ At(calls[t]) \in Request
      BY <1>1, <1>2, ConnFields, CallsOf, AtIsRequest DEF TypeInv, Sound, Busy
    <3>2. Len(conns'[c].requests) \in Nat /\ Len(conns'[c].requests) <= Len(conns[c].requests) + 1
      BY <1>1, <3>1
    <3>3. PICK a \in Nat, b \in Nat, d \in Nat :
             a = Len(conns[c].requests) /\ b = Len(conns[c].replies) /\ d = Len(conns'[c].requests)
      BY <1>1, <3>2, LinesAreNumbers
    <3>4. OnTheWay(c) = a + b /\ OnTheWay(c)' = d + b
      BY <1>1, <3>3, Zenon DEF OnTheWay
    <3>5. a \in Nat /\ b \in Nat /\ d \in Nat /\ d <= a + 1
      BY <3>2, <3>3, Zenon
    <3> QED
      BY <3>4, <3>5
  <2>2. /\ Cardinality(Waiting(c)) \in Nat /\ Cardinality(Waiting(c)') \in Nat
        /\ Cardinality(Waiting(c)) + 1 <= Cardinality(Waiting(c)')
    <3>1. /\ IsFiniteSet(Waiting(c)) /\ Cardinality(Waiting(c)) \in Nat
          /\ Cardinality(Waiting(c)') \in Nat
      BY WaitingAreNumbers DEF Waiting
    <3>2. Cardinality(Waiting(c) \cup {t}) = Cardinality(Waiting(c)) + 1
      BY <1>3, <3>1, FS_AddElement
    <3>3. Waiting(c)' \in SUBSET Threads /\ Waiting(c) \cup {t} \in SUBSET (Waiting(c)')
      BY <1>3 DEF Waiting
    <3>4. Cardinality(Waiting(c) \cup {t}) <= Cardinality(Waiting(c)')
      BY <3>3, WaitingAreNumbers
    <3> QED
      BY <3>1, <3>2, <3>4
  <2>3. Counted(c)
    BY <1>1 DEF StreamInv
  <2> QED
    BY <1>1, <2>1, <2>2, <2>3 DEF Counted
<1>6. io # None => io \in DOMAIN conns
  BY DEF TypeInv, TypeOK
<1> QED
  BY <1>1, <1>2, <1>4, <1>5, <1>6 DEF StreamInv

(* One line fewer, one thread fewer. *)
LEMMA StreamReceive ==
    ASSUME TypeInv, TypeInv', StreamInv, NEW t \in Threads, Receive(t)
    PROVE  StreamInv'
<1>0. PICK c : c = calls[t].conn
  OBVIOUS
<1>1. /\ c \in DOMAIN conns /\ DOMAIN conns' = DOMAIN conns
      /\ \A d \in DOMAIN conns : d # c => conns'[d] = conns[d]
      /\ conns'[c].open = conns[c].open /\ conns'[c].timedOut = conns[c].timedOut
      /\ conns'[c].live = conns[c].live /\ conns'[c].requests = conns[c].requests
      /\ conns'[c].replies = Tail(conns[c].replies) /\ conns[c].replies # <<>>
  BY <1>0, ReceiveConn
<1>2. io' = io /\ calls[t].pc = "receive" /\ calls[t].conn = c
  BY <1>0 DEF Receive
<1>3. /\ \A d : d # c => Waiting(d) \subseteq Waiting(d)'
      /\ Waiting(c) \ {t} \subseteq Waiting(c)' /\ t \in Waiting(c)
  BY <1>2, OthersWait, WaitingMoved DEF Step, Waiting
<1>4. ASSUME NEW d \in DOMAIN conns, d # c PROVE Counted(d)'
  BY <1>1, <1>3, <1>4, SameLines DEF StreamInv
<1>5. Counted(c)'
  <2>1. OnTheWay(c)' = OnTheWay(c) - 1 /\ OnTheWay(c) \in Nat
    <3>1. conns[c].replies \in Seq(Reply) /\ conns[c].replies # <<>>
      BY <1>1, ConnFields DEF TypeInv
    <3>2. Len(Tail(conns[c].replies)) = Len(conns[c].replies) - 1
      BY <3>1, HeadTailProperties
    <3>3. PICK a \in Nat, b \in Nat, d \in {Len(Tail(conns[c].replies))} :
             a = Len(conns[c].requests) /\ b = Len(conns[c].replies)
      BY <1>1, LinesAreNumbers
    <3>4. OnTheWay(c) = a + b /\ OnTheWay(c)' = a + d
      BY <1>1, <3>3, Zenon DEF OnTheWay
    <3>5. a \in Nat /\ b \in Nat /\ d = b - 1
      BY <3>2, <3>3, Zenon
    <3> QED
      BY <3>4, <3>5
  <2>2. /\ Cardinality(Waiting(c)) \in Nat /\ Cardinality(Waiting(c)') \in Nat
        /\ Cardinality(Waiting(c)) - 1 <= Cardinality(Waiting(c)')
    <3>1. /\ IsFiniteSet(Waiting(c)) /\ Cardinality(Waiting(c)) \in Nat
          /\ Cardinality(Waiting(c)') \in Nat
      BY WaitingAreNumbers DEF Waiting
    <3>2. Cardinality(Waiting(c) \ {t}) = Cardinality(Waiting(c)) - 1
      BY <1>3, <3>1, FS_RemoveElement
    <3>3. Waiting(c)' \in SUBSET Threads /\ Waiting(c) \ {t} \in SUBSET (Waiting(c)')
      BY <1>3 DEF Waiting
    <3>4. Cardinality(Waiting(c) \ {t}) <= Cardinality(Waiting(c)')
      BY <3>3, WaitingAreNumbers
    <3> QED
      BY <3>1, <3>2, <3>4
  <2>3. Counted(c)
    BY <1>1 DEF StreamInv
  <2> QED
    BY <1>1, <2>1, <2>2, <2>3 DEF Counted
<1>6. io # None => io \in DOMAIN conns
  BY DEF TypeInv, TypeOK
<1> QED
  BY <1>1, <1>2, <1>4, <1>5, <1>6 DEF StreamInv

(* A thread gives up its line only on a connection that is closed, that has *)
(* timed out, or that has no line left.                                     *)
LEMMA StreamGivenUp ==
    ASSUME TypeInv, TypeInv', StreamInv, NEW t \in Threads, Closed(t) \/ Lost(t)
    PROVE  StreamInv'
<1>0. PICK c : c = calls[t].conn
  OBVIOUS
<1>1. conns' = conns /\ io' = io /\ c \in DOMAIN conns
  BY <1>0, CallsOf DEF Closed, Lost, Sound
<1>2. \/ ~conns[c].open \/ conns[c].timedOut
      \/ ~conns[c].live /\ conns[c].replies = <<>>
  BY <1>0 DEF Closed, Lost
<1>3. \A d : d # c => Waiting(d) \subseteq Waiting(d)'
  BY <1>0, OthersWait, WaitingMoved DEF Step
<1>4. ASSUME NEW d \in DOMAIN conns, d # c PROVE Counted(d)'
  BY <1>1, <1>3, <1>4, SameLines DEF StreamInv
<1>5. Counted(c)'
  <2>1. Counted(c)
    BY <1>1 DEF StreamInv
  <2>2. OnTheWay(c)' = OnTheWay(c)
    BY <1>1 DEF OnTheWay
  <2>3. CASE ~conns[c].open \/ conns[c].timedOut
    BY <1>1, <2>1, <2>3 DEF Counted
  <2>4. CASE ~conns[c].live /\ conns[c].replies = <<>>
    <3>1. OnTheWay(c) = 0
      <4>1. Len(conns[c].requests) = 0 /\ Len(conns[c].replies) = 0
        BY <1>1, <2>1, <2>4, LinesAreNumbers DEF Counted
      <4>2. OnTheWay(c) = 0 + 0
        BY <4>1, Zenon DEF OnTheWay
      <4> QED
        BY <4>2
    <3>2. Cardinality(Waiting(c)') \in Nat
      BY WaitingAreNumbers DEF Waiting
    <3> QED
      BY <1>1, <2>1, <2>2, <3>1, <3>2 DEF Counted
  <2> QED
    BY <1>2, <2>3, <2>4
<1> QED
  BY <1>1, <1>4, <1>5 DEF StreamInv

LEMMA StreamTimeout ==
    ASSUME TypeInv, TypeInv', StreamInv, NEW t \in Threads, Timeout(t)
    PROVE  StreamInv'
<1>1. /\ io' = io /\ (io # None => io \in DOMAIN conns)
      /\ \A s \in Threads : s # t =>
            calls'[s].pc = calls[s].pc /\ calls'[s].conn = calls[s].conn
  BY OthersWait DEF Timeout, TypeInv, TypeOK
<1>2. CASE calls[t].pc = "dial" /\ UNCHANGED conns
  <2>1. \A c : Waiting(c) \subseteq Waiting(c)'
    BY <1>1, <1>2, WaitingMoved
  <2> QED
    BY <1>1, <1>2, <2>1, SameLines DEF StreamInv
<1>3. CASE calls[t].pc = "receive" /\ conns' = [conns EXCEPT ![calls[t].conn].timedOut = TRUE]
  <2>0. PICK c : c = calls[t].conn
    OBVIOUS
  <2>1. c \in DOMAIN conns
    BY <1>3, <2>0, CallsOf DEF Sound
  <2>2. /\ DOMAIN conns' = DOMAIN conns
        /\ \A d \in DOMAIN conns : d # c => conns'[d] = conns[d]
        /\ conns'[c].live = conns[c].live /\ conns'[c].requests = conns[c].requests
        /\ conns'[c].timedOut = TRUE /\ conns'[c].open = conns[c].open
    BY <1>3, <2>0, <2>1, FlagConn, ConnFields DEF TypeInv
  <2>3. \A d : d # c => Waiting(d) \subseteq Waiting(d)'
    BY <1>1, <2>0, WaitingMoved
  <2>4. ASSUME NEW d \in DOMAIN conns, d # c PROVE Counted(d)'
    BY <2>2, <2>3, <2>4, SameLines DEF StreamInv
  <2>5. Counted(c)'
    BY <2>1, <2>2 DEF StreamInv, Counted
  <2> QED
    BY <1>1, <2>1, <2>2, <2>4, <2>5 DEF StreamInv
<1>4. Struck(calls)[t].pc = calls[t].pc /\ Struck(calls)[t].conn = calls[t].conn
  BY StruckOf
<1> QED
  BY <1>2, <1>3, <1>4 DEF Timeout

LEMMA StreamReset ==
    ASSUME TypeInv, TypeInv', StreamInv, NEW t \in Threads, Reset(t)
    PROVE  StreamInv'
<1>1. io' = None /\ calls[t].pc = "reset" /\ (io # None => io \in DOMAIN conns)
  BY DEF Reset, TypeInv, TypeOK
<1>2. \A c : Waiting(c) \subseteq Waiting(c)'
  BY <1>1, OthersWait, WaitingMoved DEF Step
<1>3. CASE io = None
  BY <1>1, <1>2, <1>3, SameLines DEF Reset, StreamInv
<1>4. CASE io # None
  <2>1. conns' = [conns EXCEPT ![io].open = FALSE]
    BY <1>4 DEF Reset
  <2>2. /\ DOMAIN conns' = DOMAIN conns
        /\ \A d \in DOMAIN conns : d # io => conns'[d] = conns[d]
        /\ conns'[io].live = conns[io].live /\ conns'[io].requests = conns[io].requests
        /\ ~conns'[io].open
    BY <1>1, <1>4, <2>1, FlagConn, ConnFields DEF TypeInv
  <2>3. ASSUME NEW d \in DOMAIN conns, d # io PROVE Counted(d)'
    BY <1>2, <2>2, <2>3, SameLines DEF StreamInv
  <2>4. Counted(io)
    BY <1>1, <1>4 DEF StreamInv
  <2>5. ASSUME NEW d \in DOMAIN conns, d = io PROVE Counted(d)'
    BY <2>2, <2>4, <2>5 DEF Counted
  <2> QED
    BY <1>1, <2>2, <2>3, <2>5 DEF StreamInv
<1> QED
  BY <1>3, <1>4

LEMMA StreamServe ==
    ASSUME TypeInv, TypeInv', StreamInv, NEW c \in DOMAIN conns, Serve(c)
    PROVE  StreamInv'
<1> DEFINE answer == [kind |-> Head(conns[c].requests).kind,
                      value |-> buffer'[Head(conns[c].requests).var]]
<1>1. /\ DOMAIN conns' = DOMAIN conns
      /\ \A d \in DOMAIN conns : d # c => conns'[d] = conns[d]
      /\ conns'[c].open = conns[c].open /\ conns'[c].timedOut = conns[c].timedOut
      /\ conns'[c].live = conns[c].live /\ conns[c].requests # <<>>
      /\ conns'[c].requests = Tail(conns[c].requests)
      /\ conns'[c].replies = Append(conns[c].replies, answer)
  BY ServeConn
<1>2. io' = io /\ conns[c].live /\ (io # None => io \in DOMAIN conns)
      /\ \A d : Waiting(d)' = Waiting(d)
  BY AllWait DEF Serve, TypeInv, TypeOK
<1> HIDE DEF answer
<1>3. OnTheWay(c)' = OnTheWay(c)
  <2>1. conns[c].requests \in Seq(Request) /\ conns[c].replies \in Seq(Reply)
    BY ConnFields DEF TypeInv
  <2>2. Len(Tail(conns[c].requests)) = Len(conns[c].requests) - 1
    BY <1>1, <2>1, HeadTailProperties
  <2>3. Len(Append(conns[c].replies, answer)) = Len(conns[c].replies) + 1
    BY <2>1
  <2>4. PICK a \in Nat, b \in Nat, d \in {Len(Tail(conns[c].requests))},
           e \in {Len(Append(conns[c].replies, answer))} :
           a = Len(conns[c].requests) /\ b = Len(conns[c].replies)
    BY LinesAreNumbers
  <2>5. OnTheWay(c) = a + b /\ OnTheWay(c)' = d + e
    BY <1>1, <2>4, Zenon DEF OnTheWay
  <2>6. a \in Nat /\ b \in Nat /\ d = a - 1 /\ e = b + 1
    BY <2>2, <2>3, <2>4, Zenon
  <2> QED
    BY <2>5, <2>6
<1>4. Counted(c)'
  <2>1. OnTheWay(c)' <= OnTheWay(c)
    BY <1>3, LinesAreNumbers
  <2>2. conns'[c].live
    BY <1>1, <1>2
  <2>3. (conns'[c].open => conns[c].open) /\ (conns[c].timedOut => conns'[c].timedOut)
    BY <1>1
  <2> QED
    BY <1>1, <1>2, <2>1, <2>2, <2>3, FewerLines DEF StreamInv
<1>5. ASSUME NEW d \in DOMAIN conns, d # c PROVE Counted(d)'
  BY <1>1, <1>2, <1>5, SameLines DEF StreamInv
<1> QED
  BY <1>1, <1>2, <1>4, <1>5 DEF StreamInv

(* A handler that ends leaves fewer lines, and nobody stops waiting. *)
LEMMA StreamEnd ==
    ASSUME TypeInv, TypeInv', StreamInv, NEW c \in DOMAIN conns, HangUp(c) \/ Break(c)
    PROVE  StreamInv'
<1>1. /\ DOMAIN conns' = DOMAIN conns
      /\ \A d \in DOMAIN conns : d # c => conns'[d] = conns[d]
      /\ conns'[c].open = conns[c].open /\ conns'[c].timedOut = conns[c].timedOut
      /\ conns'[c].live = FALSE /\ conns'[c].requests = <<>>
  BY EndedConn
<1>2. io' = io /\ (io # None => io \in DOMAIN conns) /\ \A d : Waiting(d)' = Waiting(d)
  BY AllWait DEF HangUp, Break, TypeInv, TypeOK
<1>3. OnTheWay(c)' <= OnTheWay(c)
  <2>1. PICK k \in 0..Len(conns[c].replies) :
           conns'[c].replies = SubSeq(conns[c].replies, 1, k)
    BY EndedConn
  <2>2. conns[c].replies \in Seq(Reply)
    BY ConnFields DEF TypeInv
  <2>3. Len(SubSeq(conns[c].replies, 1, k)) = k
    BY <2>1, <2>2
  <2>4. Len(conns'[c].requests) = 0
    BY <1>1
  <2>5. PICK a \in Nat, b \in Nat : a = Len(conns[c].requests) /\ b = Len(conns[c].replies)
    BY LinesAreNumbers
  <2>6. OnTheWay(c) = a + b /\ OnTheWay(c)' = 0 + k
    BY <2>1, <2>3, <2>4, <2>5, Zenon DEF OnTheWay
  <2>7. a \in Nat /\ b \in Nat /\ k \in 0..b
    BY <2>1, <2>5, Zenon
  <2> QED
    BY <2>6, <2>7
<1>4. Counted(c)'
  <2>1. Counted(c)
    BY DEF StreamInv
  <2> QED
    BY <1>1, <1>2, <1>3, <2>1, FewerLines
<1>5. ASSUME NEW d \in DOMAIN conns, d # c PROVE Counted(d)'
  BY <1>1, <1>2, <1>5, SameLines DEF StreamInv
<1> QED
  BY <1>1, <1>2, <1>4, <1>5 DEF StreamInv

LEMMA StreamCrash ==
    ASSUME TypeInv, TypeInv', StreamInv, Crash
    PROVE  StreamInv'
<1>1. io' = io /\ (io # None => io \in DOMAIN conns) /\ \A d : Waiting(d)' = Waiting(d)
  BY AllWait DEF Crash, TypeInv, TypeOK
<1>2. ASSUME NEW c \in DOMAIN conns PROVE Counted(c)'
  <2>1. /\ conns'[c].open = conns[c].open /\ conns'[c].timedOut = conns[c].timedOut
        /\ conns'[c].live = FALSE /\ conns'[c].requests = <<>>
        /\ conns'[c].replies = conns[c].replies
    BY CrashConn
  <2>2. OnTheWay(c)' <= OnTheWay(c)
    <3>1. Len(conns'[c].requests) = 0
      BY <2>1
    <3>2. PICK a \in Nat, b \in Nat : a = Len(conns[c].requests) /\ b = Len(conns[c].replies)
      BY LinesAreNumbers
    <3>3. OnTheWay(c) = a + b /\ OnTheWay(c)' = 0 + b
      BY <2>1, <3>1, <3>2, Zenon DEF OnTheWay
    <3>4. a \in Nat /\ b \in Nat
      BY <3>2, Zenon
    <3> QED
      BY <3>3, <3>4
  <2>3. Counted(c)
    BY DEF StreamInv
  <2> QED
    BY <1>1, <2>1, <2>2, <2>3, CrashConn, FewerLines
<1> QED
  BY <1>1, <1>2, CrashConn DEF StreamInv

LEMMA StreamOther ==
    ASSUME TypeInv, TypeInv', StreamInv, Tick \/ Restart \/ UNCHANGED vars
    PROVE  StreamInv'
<1>1. conns' = conns /\ io' = io /\ \A d : Waiting(d)' = Waiting(d)
  BY AllWait DEF Tick, Restart, vars
<1> QED
  BY <1>1, SameLines DEF StreamInv

LEMMA InitStream == Init => StreamInv
  BY DEF Init, StreamInv

LEMMA NextStream == TypeInv /\ TypeInv' /\ StreamInv /\ [Next]_vars => StreamInv'
<1> SUFFICES ASSUME TypeInv, TypeInv', StreamInv, [Next]_vars PROVE StreamInv'
  OBVIOUS
<1>1. CASE \E t \in Threads : \E job \in Jobs : Start(t, job)
  BY <1>1, StreamStart
<1>2. ASSUME NEW t \in Threads, Step(t) PROVE StreamInv'
  BY <1>2, StreamStart, StreamDial, StreamSend, StreamReceive, StreamGivenUp, StreamReset DEF Step
<1>3. CASE \E t \in Threads : Timeout(t)
  BY <1>3, StreamTimeout
<1>4. CASE \E c \in DOMAIN conns : Serve(c)
  BY <1>4, StreamServe
<1>5. CASE \E c \in DOMAIN conns : HangUp(c) \/ Break(c)
  BY <1>5, StreamEnd
<1>6. CASE Crash
  BY <1>6, StreamCrash
<1>7. CASE Tick \/ Restart \/ UNCHANGED vars
  BY <1>7, StreamOther
<1> QED
  BY <1>1, <1>2, <1>3, <1>4, <1>5, <1>6, <1>7 DEF Next

LEMMA NobodyWaits ==
    ASSUME TypeInv, StreamInv, io # None, \A t \in Threads : calls[t].pc # "receive"
    PROVE  \/ conns[io].timedOut
           \/ conns[io].requests = <<>> /\ conns[io].replies = <<>>
<1>1. io \in DOMAIN conns /\ conns[io].open /\ Counted(io)
  BY DEF TypeInv, TypeOK, StreamInv
<1>2. Waiting(io) = {}
  BY DEF Waiting
<1>3. Cardinality(Waiting(io)) = 0
  BY <1>2, FS_EmptySet
<1>4. PICK a \in Nat, b \in Nat : a = Len(conns[io].requests) /\ b = Len(conns[io].replies)
  BY <1>1, LinesAreNumbers
<1>5. OnTheWay(io) = a + b
  BY <1>4, Zenon DEF OnTheWay
<1>6. CASE ~conns[io].timedOut
  <2>1. a + b <= 0
    BY <1>1, <1>3, <1>5, <1>6 DEF Counted
  <2>2. a = 0 /\ b = 0
    <3>1. a \in Nat /\ b \in Nat
      BY <1>4, Zenon
    <3> QED
      BY <2>1, <3>1
  <2> QED
    BY <1>1, <1>4, <2>2, LinesAreNumbers
<1> QED
  BY <1>6

LEMMA StreamHolds == Spec => []StreamInv
  BY InitStream, NextStream, TypesHold, PTL DEF Spec

(* When no call is under way nothing is in transit on a connection that     *)
(* will be used again, however many threads share it and whatever fails:    *)
(* the next call is not answered with a line meant for another.             *)
THEOREM StaysInStep == Spec => []InStep
<1>1. TypeInv /\ StreamInv => InStep
  BY NobodyWaits DEF InStep, Busy
<1> QED
  BY <1>1, StreamHolds, TypesHold, PTL

----------------------------------------------------------------------------
(* One thread with the link to itself.  Its current connection carries its  *)
(* request or the answer to it and nothing else, so an answer is its own,   *)
(* and a second attempt meets nothing the first one left behind.            *)

Past(call) == \A i \in DOMAIN call.got : call.got[i].value \in call.got[i].held

(* What a reply says is true of the device, and is what a write asked for.  *)
Fits(call, reply) ==
    /\ reply.kind = At(call).kind
    /\ reply.value \in call.held
    /\ At(call).kind = "write" => reply.value = At(call).value

Answers(call, conn) ==
    /\ \A i \in DOMAIN conn.requests : conn.requests[i] = At(call)
    /\ \A i \in DOMAIN conn.replies : Fits(call, conn.replies[i])

(* A second attempt that no fault has struck.                               *)
Second(call) == Busy(call) /\ call.attempt = 2 /\ ~call.struck

(* A call, while cur is the current one of the connections C and the device *)
(* is up or not.                                                            *)
Alone(call, cur, C, on) ==
    /\ Past(call)
    /\ Busy(call) => call.outcome = "ok"
    /\ call.outcome # "ok" => call.struck
    /\ call.outcome # "other"
    /\ call.pc = "dial" => cur = None
    /\ call.pc \in {"send", "receive"} => call.conn = cur
    /\ call.pc = "receive" /\ ~C[cur].timedOut => Answers(call, C[cur])
    /\ Second(call) =>
          /\ on
          /\ call.pc \in {"connect", "dial"} => cur = None
          /\ call.pc \in {"send", "receive"} => C[cur].live /\ ~C[cur].timedOut

Held ==
    /\ OneConnection
    /\ \A t \in Threads : Alone(calls[t], io, conns, up)

(* A thread that has not called yet has nothing of a call.                  *)
Fresh ==
    \A t \in Threads : calls[t].job = <<>> =>
        calls[t].pc = "idle" /\ calls[t].got = <<>> /\ calls[t].outcome = "ok"

AloneInv == Fresh /\ (OneCaller => Held)

(* A call between two connections, in its first attempt.                    *)
LEMMA AloneFirst ==
    ASSUME NEW call, NEW cur, NEW C, NEW on, Past(call), call.outcome = "ok",
           call.pc \in {"idle", "connect", "reset"}, call.attempt = 1
    PROVE  Alone(call, cur, C, on)
  BY DEF Alone, Second, Busy

LEMMA AloneIdle ==
    ASSUME NEW call, NEW cur, NEW C, NEW on, Past(call),
           call.outcome # "ok" => call.struck, call.outcome # "other", call.pc = "idle"
    PROVE  Alone(call, cur, C, on)
  BY DEF Alone, Second, Busy

LEMMA EndedFields ==
    ASSUME NEW D, NEW call \in CallOn(D), NEW outcome \in {"ok", "OSError", "other"}
    PROVE  /\ Ended(call, outcome).got = call.got /\ Ended(call, outcome).struck = call.struck
           /\ Ended(call, outcome).outcome = outcome /\ Ended(call, outcome).pc = "idle"
  BY DEF Ended, CallOn

LEMMA AloneRaised ==
    ASSUME NEW D, NEW call \in CallOn(D), NEW cur, NEW C, NEW on, Past(call),
           Busy(call), call.outcome = "ok", call.attempt = 2 => call.struck
    PROVE  Alone(Raised(call), cur, C, on)
<1>1. CASE call.attempt = 1
  <2>1. Raised(call) = [call EXCEPT !.pc = "reset"]
    BY <1>1 DEF Raised
  <2>2. /\ Raised(call).pc = "reset" /\ Raised(call).got = call.got
        /\ Raised(call).attempt = 1 /\ Raised(call).outcome = "ok"
    BY <1>1, <2>1 DEF CallOn
  <2>3. Past(Raised(call))
    BY <2>2 DEF Past
  <2> QED
    BY <2>2, <2>3, AloneFirst
<1>2. CASE call.attempt # 1
  <2>1. Raised(call) = Ended(call, "OSError") /\ call.struck
    BY <1>2, CallFields DEF Raised
  <2>2. /\ Raised(call).pc = "idle" /\ Raised(call).got = call.got /\ Raised(call).struck
        /\ Raised(call).outcome = "OSError"
    BY <2>1, EndedFields
  <2>3. Past(Raised(call))
    BY <2>2 DEF Past
  <2> QED
    BY <2>2, <2>3, AloneIdle
<1> QED
  BY <1>1, <1>2

LEMMA PastGrows ==
    ASSUME NEW D, NEW call \in CallOn(D), NEW new, Past(call), NEW value, value \in call.held,
           new.got = Append(call.got, [value |-> value, held |-> call.held])
    PROVE  Past(new)
<1>1. call.got \in Seq(Answer) /\ Len(call.got) \in Nat
  BY CallFields
<1>2. value \in Values /\ call.held \in SUBSET Values
  BY CallFields
<1>3. [value |-> value, held |-> call.held] \in Answer
  BY <1>2 DEF Answer
<1>4. ASSUME NEW i \in DOMAIN new.got PROVE new.got[i].value \in new.got[i].held
  <2>1. i \in 1..Len(call.got) \/ i = Len(call.got) + 1
    BY <1>1, <1>3
  <2>2. CASE i \in 1..Len(call.got)
    <3>1. new.got[i] = call.got[i] /\ i \in DOMAIN call.got
      BY <1>1, <1>3, <2>2
    <3> QED
      BY <3>1 DEF Past
  <2>3. CASE i = Len(call.got) + 1
    <3>1. new.got[i] = [value |-> value, held |-> call.held]
      BY <1>1, <1>3, <2>3
    <3> QED
      BY <3>1
  <2> QED
    BY <2>1, <2>2, <2>3
<1> QED
  BY <1>4 DEF Past

LEMMA AloneAnswered ==
    ASSUME NEW D, NEW call \in CallOn(D), Sound(call, D), Busy(call), Past(call),
           call.outcome = "ok", NEW value, value \in call.held, NEW now \in [Vars -> Values],
           NEW cur, NEW C, NEW on
    PROVE  Alone(Answered(call, value, now), cur, C, on)
<1> DEFINE got == Append(call.got, [value |-> value, held |-> call.held])
           done == [call EXCEPT !.got = got]
<1>1. Answered(call, value, now) =
        IF Len(done.got) = Len(call.job) THEN Ended(done, "ok")
        ELSE [done EXCEPT !.pc = "connect", !.attempt = 1, !.conn = None,
                          !.held = {now[At(done).var]}, !.struck = FALSE]
  BY DEF Answered
<1>2. got \in Seq(Answer)
  <2>1. value \in Values /\ call.held \in SUBSET Values /\ call.got \in Seq(Answer)
    BY CallFields
  <2>2. [value |-> value, held |-> call.held] \in Answer
    BY <2>1 DEF Answer
  <2> QED
    BY <2>1, <2>2
<1>3. call.outcome = "ok"
  OBVIOUS
<1> HIDE DEF got
<1>4. done \in CallOn(D) /\ done.got = got /\ done.outcome = "ok"
  BY <1>2, <1>3 DEF CallOn, Answer
<1> HIDE DEF done
<1>5. CASE Len(done.got) = Len(call.job)
  <2>1. Answered(call, value, now) = Ended(done, "ok")
    BY <1>1, <1>5
  <2>2. /\ Answered(call, value, now).got = got /\ Answered(call, value, now).pc = "idle"
        /\ Answered(call, value, now).outcome = "ok"
    BY <1>4, <2>1, EndedFields
  <2>3. Past(Answered(call, value, now))
    BY <2>2, PastGrows DEF got
  <2> QED
    BY <2>2, <2>3, AloneIdle
<1>6. CASE Len(done.got) # Len(call.job)
  <2> DEFINE again == [done EXCEPT !.pc = "connect", !.attempt = 1]
             next == [again EXCEPT !.conn = None, !.held = {now[At(done).var]}, !.struck = FALSE]
  <2>1. Answered(call, value, now) = next
    BY <1>1, <1>6
  <2>2. again.pc = "connect" /\ again.got = got /\ again.outcome = "ok" /\ again.attempt = 1
        /\ again \in CallOn(D)
    BY <1>4 DEF CallOn
  <2> HIDE DEF again
  <2>3. next.pc = "connect" /\ next.got = got /\ next.outcome = "ok" /\ next.attempt = 1
    BY <2>2 DEF CallOn
  <2> HIDE DEF next
  <2>4. Past(next)
    BY <2>3, PastGrows DEF got
  <2> QED
    BY <2>1, <2>3, <2>4, AloneFirst
<1> QED
  BY <1>5, <1>6

(* What a call knows of its connection stays true when no more than its     *)
(* history grows and the connection carries what it should.                 *)
LEMMA AloneKept ==
    ASSUME NEW call, NEW new, NEW cur, NEW C, NEW E, NEW on, NEW still,
           Alone(call, cur, C, on),
           new.pc = call.pc, new.conn = call.conn, new.got = call.got,
           new.attempt = call.attempt, new.outcome = call.outcome,
           call.struck => new.struck,
           call.pc = "receive" /\ ~E[cur].timedOut =>
              ~C[cur].timedOut /\ (Answers(call, C[cur]) => Answers(new, E[cur])),
           Second(new) /\ on => still,
           Second(new) /\ call.pc \in {"send", "receive"} =>
              (C[cur].live => E[cur].live) /\ (~C[cur].timedOut => ~E[cur].timedOut)
    PROVE  Alone(new, cur, E, still)
<1>1. Past(new) /\ (Second(new) => Second(call)) /\ Busy(new) = Busy(call)
  BY DEF Alone, Past, Second, Busy
<1> QED
  BY <1>1 DEF Alone

(* A line more or fewer on the connection. *)
LEMMA AnswersGrow ==
    ASSUME NEW call, NEW new, NEW conn, NEW conn2, Answers(call, conn),
           new.job = call.job, new.got = call.got, call.held \subseteq new.held,
           \A i \in DOMAIN conn2.requests : conn2.requests[i] = At(call),
           \A i \in DOMAIN conn2.replies :
              \/ Fits(new, conn2.replies[i])
              \/ i \in DOMAIN conn.replies /\ conn2.replies[i] = conn.replies[i]
    PROVE  Answers(new, conn2)
<1>1. At(new) = At(call)
  BY DEF At
<1>2. \A reply : Fits(call, reply) => Fits(new, reply)
  BY <1>1 DEF Fits
<1> QED
  BY <1>1, <1>2 DEF Answers

LEMMA HoldingOf ==
    ASSUME TypeInv, calls' = Holding(buffer'), NEW t \in Threads
    PROVE  /\ calls'[t].pc = calls[t].pc /\ calls'[t].conn = calls[t].conn
           /\ calls'[t].job = calls[t].job /\ calls'[t].got = calls[t].got
           /\ calls'[t].attempt = calls[t].attempt /\ calls'[t].outcome = calls[t].outcome
           /\ calls'[t].struck = calls[t].struck
           /\ calls[t].held \subseteq calls'[t].held
           /\ Busy(calls[t]) => buffer'[At(calls[t]).var] \in calls'[t].held
<1> DEFINE held == calls[t].held \cup {buffer'[At(calls[t]).var]}
<1>1. calls[t] \in CallOn(DOMAIN conns)
  BY CallsOf
<1>2. calls'[t] = IF Busy(calls[t]) THEN [calls[t] EXCEPT !.held = held] ELSE calls[t]
  BY DEF Holding
<1>3. calls[t].held \subseteq held /\ buffer'[At(calls[t]).var] \in held
  OBVIOUS
<1> HIDE DEF held
<1> QED
  BY <1>1, <1>2, <1>3 DEF CallOn

(* The threads that have not called are idle, and stay out of it.           *)
LEMMA OthersAlone ==
    ASSUME Fresh, NEW t \in Threads, Only(t), NEW s \in Threads, s # t,
           NEW cur, NEW C, NEW on
    PROVE  Alone(calls[s], cur, C, on) /\ calls[s].pc = "idle"
<1>1. calls[s].pc = "idle" /\ calls[s].got = <<>> /\ calls[s].outcome = "ok"
  BY DEF Only, Fresh
<1> QED
  BY <1>1, AloneIdle DEF Past

LEMMA AloneMoved ==
    ASSUME Fresh, NEW t \in Threads, Only(t), NEW new,
           calls' = [calls EXCEPT ![t] = new], DOMAIN calls = Threads,
           NEW cur, NEW C, NEW on, Alone(new, cur, C, on)
    PROVE  \A s \in Threads : Alone(calls'[s], cur, C, on)
<1>1. ASSUME NEW s \in Threads PROVE calls'[s] = IF s = t THEN new ELSE calls[s]
  OBVIOUS
<1> QED
  BY <1>1, OthersAlone

LEMMA StartAlone ==
    ASSUME TypeInv, Fresh, Held, NEW t \in Threads, Only(t),
           NEW job \in Jobs, Start(t, job)
    PROVE  Held'
<1> DEFINE first == [NoCall EXCEPT !.pc = "connect", !.job = job]
           new == [first EXCEPT !.left = calls[t].left - 1, !.held = {buffer[job[1].var]}]
<1>1. calls' = [calls EXCEPT ![t] = new] /\ UNCHANGED <<io, conns, up>> /\ DOMAIN calls = Threads
  BY DEF Start, TypeInv, TypeOK
<1>2. new.got = <<>> /\ new.outcome = "ok" /\ new.pc = "connect" /\ new.attempt = 1
  BY DEF NoCall
<1> HIDE DEF new
<1>3. Alone(new, io, conns, up)
  BY <1>2, AloneFirst DEF Past
<1>4. \A s \in Threads : Alone(calls'[s], io, conns, up)
  BY <1>1, <1>3, AloneMoved
<1> QED
  BY <1>1, <1>4 DEF Held, OneConnection

LEMMA ConnectAlone ==
    ASSUME TypeInv, Fresh, Held, NEW t \in Threads, Only(t), Connect(t)
    PROVE  Held'
<1> DEFINE new == [calls[t] EXCEPT !.pc = IF io = None THEN "dial" ELSE "send", !.conn = io]
<1>1. calls' = [calls EXCEPT ![t] = new] /\ UNCHANGED <<io, conns, up>> /\ DOMAIN calls = Threads
      /\ calls[t].pc = "connect"
  BY DEF Connect, TypeInv, TypeOK
<1>2. /\ new.got = calls[t].got /\ new.outcome = calls[t].outcome
      /\ new.attempt = calls[t].attempt /\ new.struck = calls[t].struck
      /\ new.conn = io /\ new.pc = IF io = None THEN "dial" ELSE "send"
  BY CallsOf DEF CallOn
<1> HIDE DEF new
<1>3. Alone(calls[t], io, conns, up)
  BY DEF Held
<1>4. Past(new) /\ (Second(new) => Second(calls[t])) /\ Busy(calls[t])
  BY <1>1, <1>2, <1>3 DEF Alone, Past, Second, Busy
<1>5. Alone(new, io, conns, up)
  BY <1>1, <1>2, <1>3, <1>4 DEF Alone
<1>6. \A s \in Threads : Alone(calls'[s], io, conns, up)
  BY <1>1, <1>5, AloneMoved
<1> QED
  BY <1>1, <1>6 DEF Held, OneConnection

LEMMA DialAlone ==
    ASSUME TypeInv, Fresh, Held, NEW t \in Threads, Only(t), Dial(t)
    PROVE  Held'
<1>0. PICK n : n = Len(conns) + 1
  OBVIOUS
<1> DEFINE new == [calls[t] EXCEPT !.pc = "send", !.conn = n]
<1>1. /\ conns' = Append(conns, NewConn) /\ io' = n /\ up' = up /\ up /\ calls[t].pc = "dial"
      /\ calls' = [calls EXCEPT ![t] = new] /\ DOMAIN calls = Threads
      /\ conns \in Seq(Conn) /\ Len(conns) \in Nat /\ DOMAIN conns = 1..Len(conns)
  BY <1>0, ConnFields DEF Dial, TypeInv, TypeOK
<1>2. conns'[n] = NewConn /\ \A c \in DOMAIN conns : conns'[c] = conns[c]
  BY <1>0, <1>1
<1>3. \A c \in DOMAIN conns' : c = n \/ c \in DOMAIN conns
  BY <1>0, <1>1
<1>4. /\ new.got = calls[t].got /\ new.outcome = calls[t].outcome
      /\ new.attempt = calls[t].attempt /\ new.struck = calls[t].struck
      /\ new.conn = n /\ new.pc = "send"
  BY CallsOf DEF CallOn
<1> HIDE DEF new
<1>5. Alone(calls[t], io, conns, up)
  BY DEF Held
<1>6. Past(new) /\ NewConn.live /\ ~NewConn.timedOut /\ new.outcome = "ok"
  BY <1>1, <1>4, <1>5 DEF Alone, Past, Busy, NewConn
<1>7. Alone(new, n, conns', up)
  BY <1>1, <1>2, <1>4, <1>6 DEF Alone
<1>8. \A s \in Threads : Alone(calls'[s], n, conns', up)
  BY <1>1, <1>7, AloneMoved
<1>9. OneConnection'
  <2>1. io = None /\ None \notin DOMAIN conns
    BY <1>1, <1>5, LinkAssumption DEF Alone
  <2>2. \A c \in DOMAIN conns : ~conns[c].open
    BY <2>1 DEF Held, OneConnection
  <2> QED
    BY <1>1, <1>2, <1>3, <2>2 DEF OneConnection
<1> QED
  BY <1>1, <1>8, <1>9 DEF Held

(* What a thread may meet on its connection when nobody else uses it. *)
LEMMA CurrentConn ==
    ASSUME TypeInv, StreamInv, Held, NEW t \in Threads, calls[t].pc \in {"send", "receive"}
    PROVE  /\ calls[t].conn = io /\ io \in DOMAIN conns /\ io # None /\ conns[io].open
           /\ Alone(calls[t], io, conns, up)
<1>1. calls[t].conn \in DOMAIN conns /\ Alone(calls[t], io, conns, up)
  BY CallsOf DEF Sound, Held
<1>2. calls[t].conn = io /\ None \notin DOMAIN conns
  BY <1>1, ConnFields, LinkAssumption DEF Alone, TypeInv
<1> QED
  BY <1>1, <1>2 DEF StreamInv

(* A failure that the second attempt meets was a fault of its own. *)
LEMMA FailAlone ==
    ASSUME TypeInv, Fresh, StreamInv, Held, NEW t \in Threads, Only(t),
           Refused(t) \/ Closed(t) \/ Lost(t)
    PROVE  Held'
<1>1. Alone(calls[t], io, conns, up) /\ UNCHANGED <<io, conns, up>> /\ DOMAIN calls = Threads
      /\ Busy(calls[t]) /\ calls[t] \in CallOn(DOMAIN conns)
  BY CallsOf DEF Refused, Closed, Lost, Held, Busy, TypeInv, TypeOK
<1>2. /\ calls' = [calls EXCEPT ![t] = Raised(calls[t])]
      /\ calls[t].attempt = 2 => calls[t].struck
  <2>1. CASE Refused(t)
    BY <1>1, <2>1 DEF Refused, Acting, Alone, Second
  <2>2. CASE Closed(t)
    BY <2>2, CurrentConn DEF Closed
  <2>3. CASE Lost(t)
    BY <1>1, <2>3, CurrentConn DEF Lost, Acting, Alone, Second
  <2> QED
    BY <2>1, <2>2, <2>3
<1>3. Alone(Raised(calls[t]), io, conns, up)
  BY <1>1, <1>2, AloneRaised DEF Alone
<1>4. \A s \in Threads : Alone(calls'[s], io, conns, up)
  BY <1>1, <1>2, <1>3, AloneMoved
<1> QED
  BY <1>1, <1>4 DEF Held, OneConnection

LEMMA SendAlone ==
    ASSUME TypeInv, Fresh, StreamInv, Held, NEW t \in Threads, Only(t), Send(t)
    PROVE  Held'
<1> DEFINE new == [calls[t] EXCEPT !.pc = "receive"]
<1>1. /\ calls' = [calls EXCEPT ![t] = new] /\ UNCHANGED <<io, up>> /\ DOMAIN calls = Threads
      /\ calls[t].pc = "send"
  BY DEF Send, TypeInv, TypeOK
<1>2. /\ io \in DOMAIN conns /\ DOMAIN conns' = DOMAIN conns
      /\ \A d \in DOMAIN conns : d # io => conns'[d] = conns[d]
      /\ conns'[io].open = conns[io].open /\ conns'[io].timedOut = conns[io].timedOut
      /\ conns'[io].live = conns[io].live /\ conns'[io].replies = conns[io].replies
      /\ conns'[io].requests = IF conns[io].live
            THEN Append(conns[io].requests, At(calls[t])) ELSE conns[io].requests
  BY <1>1, SendConn, CurrentConn
<1>3. conns[io].open /\ io # None /\ Alone(calls[t], io, conns, up) /\ calls[t].conn = io
  BY <1>1, CurrentConn
<1>4. /\ new.got = calls[t].got /\ new.outcome = calls[t].outcome /\ new.job = calls[t].job
      /\ new.attempt = calls[t].attempt /\ new.struck = calls[t].struck
      /\ new.conn = calls[t].conn /\ new.pc = "receive"
  BY CallsOf DEF CallOn
<1> HIDE DEF new
<1>5. At(new) = At(calls[t]) /\ Past(new)
  BY <1>3, <1>4 DEF At, Alone, Past
<1>6. ~conns[io].timedOut => Answers(new, conns'[io])
  <2>1. SUFFICES ASSUME ~conns[io].timedOut PROVE Answers(new, conns'[io])
    OBVIOUS
  <2>2. \A s \in Threads : calls[s].pc # "receive"
    BY <1>1, OthersAlone
  <2>3. conns[io].requests = <<>> /\ conns[io].replies = <<>>
    BY <1>3, <2>1, <2>2, NobodyWaits
  <2>4. conns'[io].replies = <<>>
        /\ (conns'[io].requests = <<>> \/ conns'[io].requests = <<At(new)>>)
    BY <1>2, <1>5, <2>3
  <2> QED
    BY <2>4 DEF Answers
<1>7. Alone(new, io, conns', up)
  BY <1>1, <1>2, <1>3, <1>4, <1>5, <1>6 DEF Alone, Second, Busy
<1>8. \A s \in Threads : Alone(calls'[s], io, conns', up)
  BY <1>1, <1>7, AloneMoved
<1>9. OneConnection'
  BY <1>1, <1>2 DEF Held, OneConnection
<1> QED
  BY <1>1, <1>8, <1>9 DEF Held

LEMMA ReceiveAlone ==
    ASSUME TypeInv, Fresh, StreamInv, Held, NEW t \in Threads, Only(t), Receive(t)
    PROVE  Held'
<1> DEFINE reply == Head(conns[io].replies)
           call == calls[t]
<1>1. /\ call.pc = "receive" /\ call.conn = io /\ io \in DOMAIN conns
      /\ Alone(call, io, conns, up) /\ ~conns[io].timedOut
      /\ UNCHANGED <<io, up>> /\ DOMAIN calls = Threads
      /\ call \in CallOn(DOMAIN conns) /\ Sound(call, DOMAIN conns) /\ Busy(call)
      /\ buffer \in [Vars -> Values]
  BY CurrentConn, CallsOf DEF Receive, Busy, TypeInv, TypeOK
<1>2. /\ DOMAIN conns' = DOMAIN conns
      /\ \A d \in DOMAIN conns : d # io => conns'[d] = conns[d]
      /\ conns'[io].open = conns[io].open
  BY <1>1, ReceiveConn
<1>3. Fits(call, reply)
  <2>1. conns[io].replies # <<>> /\ conns[io].replies \in Seq(Reply)
    BY <1>1, ConnFields DEF Receive, TypeInv
  <2>2. reply = conns[io].replies[1] /\ 1 \in DOMAIN conns[io].replies
    BY <2>1
  <2>3. Answers(call, conns[io])
    BY <1>1 DEF Alone
  <2> QED
    BY <2>2, <2>3 DEF Answers
<1>4. calls' = [calls EXCEPT ![t] =
         IF At(call).kind = "write" THEN Answered(call, At(call).value, buffer)
         ELSE IF reply.kind = "read" THEN Answered(call, reply.value, buffer)
         ELSE Ended(call, "other")]
  BY <1>1 DEF Receive, Acting
<1> HIDE DEF reply
<1>5. PICK value \in call.held : calls' = [calls EXCEPT ![t] = Answered(call, value, buffer)]
  <2>1. At(call).kind \in {"read", "write"}
    BY <1>1, AtIsRequest, RequestFields DEF Sound
  <2> QED
    BY <1>3, <1>4, <2>1 DEF Fits
<1>6. Alone(Answered(call, value, buffer), io, conns', up)
  BY <1>1, AloneAnswered DEF Alone
<1>7. \A s \in Threads : Alone(calls'[s], io, conns', up)
  BY <1>1, <1>5, <1>6, AloneMoved
<1>8. OneConnection'
  BY <1>1, <1>2 DEF Held, OneConnection
<1> QED
  BY <1>1, <1>7, <1>8 DEF Held

LEMMA TimeoutAlone ==
    ASSUME TypeInv, Fresh, StreamInv, Held, NEW t \in Threads, Only(t), Timeout(t)
    PROVE  Held'
<1> DEFINE call == Struck(calls)[t]
<1>1. /\ calls' = [Struck(calls) EXCEPT ![t] = Raised(call)] /\ UNCHANGED <<io, up>>
      /\ t \in DOMAIN Struck(calls)
  BY DEF Timeout, Struck
<1>2. /\ call \in CallOn(DOMAIN conns) /\ Busy(call) /\ call.outcome = calls[t].outcome
      /\ Busy(calls[t]) /\ call.got = calls[t].got
      /\ call.attempt = 2 => call.struck
      /\ call.pc = calls[t].pc /\ call.conn = calls[t].conn
  BY StruckOf DEF Timeout, Busy
<1>3. DOMAIN conns' = DOMAIN conns /\ \A c \in DOMAIN conns : conns'[c].open => conns[c].open
  <2>1. CASE UNCHANGED conns
    BY <2>1
  <2>2. CASE call.pc = "receive" /\ conns' = [conns EXCEPT ![call.conn].timedOut = TRUE]
    <3>1. call.conn \in DOMAIN conns
      BY <1>2, <2>2, CallsOf DEF Sound
    <3> QED
      BY <2>2, <3>1, FlagConn
  <2> QED
    BY <2>1, <2>2 DEF Timeout
<1>4. Past(call) /\ call.outcome = "ok"
  BY <1>2 DEF Held, Alone, Past
<1> HIDE DEF call
<1>5. Alone(Raised(call), io, conns', up)
  BY <1>2, <1>4, AloneRaised
<1>6. \A s \in Threads : Alone(calls'[s], io, conns', up)
  <2>1. ASSUME NEW s \in Threads, s # t PROVE calls'[s] = calls[s]
    <3>1. calls[s].pc = "idle"
      BY <2>1, OthersAlone
    <3> QED
      BY <1>1, <2>1, <3>1 DEF Struck, Busy
  <2>2. calls'[t] = Raised(call)
    BY <1>1
  <2> QED
    BY <1>5, <2>1, <2>2, OthersAlone
<1>7. OneConnection'
  BY <1>1, <1>3 DEF Held, OneConnection
<1> QED
  BY <1>1, <1>6, <1>7 DEF Held

LEMMA ResetAlone ==
    ASSUME TypeInv, Fresh, Held, NEW t \in Threads, Only(t), Reset(t)
    PROVE  Held'
<1> DEFINE again == [calls[t] EXCEPT !.pc = "connect", !.attempt = @ + 1]
           new == [again EXCEPT !.conn = None, !.struck = ~up]
<1>1. /\ calls' = [calls EXCEPT ![t] = new] /\ io' = None /\ up' = up /\ DOMAIN calls = Threads
      /\ Alone(calls[t], io, conns, up) /\ Busy(calls[t])
  BY DEF Reset, TypeInv, TypeOK, Held, Busy
<1>2. /\ again.got = calls[t].got /\ again.outcome = calls[t].outcome /\ again.pc = "connect"
      /\ again \in [pc: {"connect"}, job: {again.job}, attempt: {again.attempt},
                    conn: {again.conn}, got: {again.got}, held: {again.held},
                    struck: {again.struck}, outcome: {again.outcome}, left: {again.left}]
  BY CallsOf DEF CallOn
<1> HIDE DEF again
<1>3. new.got = calls[t].got /\ new.outcome = calls[t].outcome /\ new.pc = "connect"
      /\ new.struck = ~up
  BY <1>2
<1> HIDE DEF new
<1>4. Past(new) /\ new.outcome = "ok"
  BY <1>1, <1>3 DEF Alone, Past
<1>5. Alone(new, io', conns', up)
  BY <1>1, <1>3, <1>4 DEF Alone, Second
<1>6. \A s \in Threads : Alone(calls'[s], io', conns', up')
  BY <1>1, <1>5, AloneMoved
<1>7. OneConnection'
  <2>1. CASE io = None
    <3>1. conns' = conns /\ None \notin DOMAIN conns
      BY <2>1, ConnFields, LinkAssumption DEF Reset, TypeInv
    <3> QED
      BY <1>1, <2>1, <3>1 DEF Held, OneConnection
  <2>2. CASE io # None
    <3>1. conns' = [conns EXCEPT ![io].open = FALSE] /\ io \in DOMAIN conns
      BY <2>2 DEF Reset, TypeInv, TypeOK
    <3>2. /\ DOMAIN conns' = DOMAIN conns /\ ~conns'[io].open
          /\ \A d \in DOMAIN conns : d # io => conns'[d] = conns[d]
      BY <3>1, FlagConn, ConnFields DEF TypeInv
    <3>3. \A c \in DOMAIN conns : ~conns'[c].open
      BY <3>2 DEF Held, OneConnection
    <3> QED
      BY <3>2, <3>3 DEF OneConnection
  <2> QED
    BY <2>1, <2>2
<1> QED
  BY <1>1, <1>6, <1>7 DEF Held

(* The device answers the request of the call on the current connection. *)
LEMMA ServeAnswers ==
    ASSUME TypeInv, NEW c \in DOMAIN conns, Serve(c), NEW t \in Threads, Busy(calls[t]),
           Answers(calls[t], conns[c])
    PROVE  Answers(calls'[t], conns'[c])
<1> DEFINE request == Head(conns[c].requests)
           reply == [kind |-> request.kind, value |-> buffer'[request.var]]
<1>1. /\ conns[c].requests # <<>> /\ conns[c].requests \in Seq(Request)
      /\ conns[c].replies \in Seq(Reply)
      /\ conns'[c].requests = Tail(conns[c].requests)
      /\ conns'[c].replies = Append(conns[c].replies, reply)
  <2>1. conns[c].requests \in Seq(Request) /\ conns[c].replies \in Seq(Reply)
    BY ConnFields DEF TypeInv
  <2> QED
    BY <2>1, ServeConn
<1>2. request = At(calls[t]) /\ \A i \in DOMAIN Tail(conns[c].requests) :
                                  Tail(conns[c].requests)[i] = At(calls[t])
  <2>1. request = conns[c].requests[1] /\ 1 \in DOMAIN conns[c].requests
    BY <1>1
  <2>2. \A i \in DOMAIN Tail(conns[c].requests) :
           Tail(conns[c].requests)[i] = conns[c].requests[i + 1]
           /\ i + 1 \in DOMAIN conns[c].requests
    BY <1>1
  <2> HIDE DEF request
  <2> QED
    BY <2>1, <2>2 DEF Answers
<1>3. /\ calls'[t].job = calls[t].job /\ calls'[t].got = calls[t].got
      /\ calls[t].held \subseteq calls'[t].held /\ buffer'[At(calls[t]).var] \in calls'[t].held
  <2>1. calls' = Holding(buffer')
    BY DEF Serve
  <2> QED
    BY <2>1, HoldingOf, Zenon
<1>4. Fits(calls'[t], reply)
  <2>1. At(calls'[t]) = At(calls[t])
    BY <1>3 DEF At
  <2>2. At(calls[t]).kind = "write" => buffer'[At(calls[t]).var] = At(calls[t]).value
    <3>1. request.var \in Vars
      BY ServeConn, RequestFields
    <3>2. buffer' = IF request.kind = "write"
                    THEN [buffer EXCEPT ![request.var] = request.value] ELSE buffer
      BY DEF Serve
    <3>3. buffer \in [Vars -> Values]
      BY DEF TypeInv, TypeOK
    <3> HIDE DEF request
    <3> QED
      BY <1>2, <3>1, <3>2, <3>3
  <2> HIDE DEF request
  <2>3. reply.kind = At(calls[t]).kind /\ reply.value = buffer'[At(calls[t]).var]
    BY <1>2
  <2> HIDE DEF reply
  <2> QED
    BY <1>3, <2>1, <2>2, <2>3 DEF Fits
<1> HIDE DEF reply
<1>5. \A i \in DOMAIN conns'[c].replies :
        \/ Fits(calls'[t], conns'[c].replies[i])
        \/ i \in DOMAIN conns[c].replies /\ conns'[c].replies[i] = conns[c].replies[i]
  <2>1. ASSUME NEW i \in DOMAIN Append(conns[c].replies, reply)
        PROVE  \/ Append(conns[c].replies, reply)[i] = reply
               \/ /\ i \in DOMAIN conns[c].replies
                  /\ Append(conns[c].replies, reply)[i] = conns[c].replies[i]
    BY <1>1
  <2> QED
    BY <1>1, <1>4, <2>1
<1>6. \A i \in DOMAIN conns'[c].requests : conns'[c].requests[i] = At(calls[t])
  BY <1>1, <1>2
<1> QED
  BY <1>3, <1>5, <1>6, AnswersGrow

(* Lines are lost with their connection. *)
LEMMA EndAnswers ==
    ASSUME TypeInv, NEW c \in DOMAIN conns, Break(c), NEW t \in Threads,
           Answers(calls[t], conns[c])
    PROVE  Answers(calls'[t], conns'[c])
<1>1. /\ calls'[t].job = calls[t].job /\ calls'[t].got = calls[t].got
      /\ calls[t].held \subseteq calls'[t].held
  BY StruckOf DEF Break
<1>2. conns'[c].requests = <<>>
  BY EndedConn
<1>3. PICK k \in 0..Len(conns[c].replies) : conns'[c].replies = SubSeq(conns[c].replies, 1, k)
  BY EndedConn
<1>4. conns[c].replies \in Seq(Reply)
  BY ConnFields DEF TypeInv
<1>5. ASSUME NEW i \in DOMAIN SubSeq(conns[c].replies, 1, k)
      PROVE  i \in DOMAIN conns[c].replies
             /\ SubSeq(conns[c].replies, 1, k)[i] = conns[c].replies[i]
  BY <1>3, <1>4
<1> QED
  BY <1>1, <1>2, <1>3, <1>5, AnswersGrow

LEMMA ServeAlone ==
    ASSUME TypeInv, StreamInv, Held, NEW c \in DOMAIN conns, Serve(c)
    PROVE  Held'
<1>1. /\ DOMAIN conns' = DOMAIN conns /\ UNCHANGED <<io, up>>
      /\ \A d \in DOMAIN conns : d # c => conns'[d] = conns[d]
      /\ conns'[c].open = conns[c].open /\ conns'[c].timedOut = conns[c].timedOut
      /\ conns'[c].live = conns[c].live
  <2>1. UNCHANGED <<io, up>>
    BY DEF Serve
  <2> QED
    BY <2>1, ServeConn, Zenon
<1>2. ASSUME NEW t \in Threads PROVE Alone(calls'[t], io, conns', up)
  <2>1. /\ calls'[t].pc = calls[t].pc /\ calls'[t].conn = calls[t].conn
        /\ calls'[t].job = calls[t].job /\ calls'[t].got = calls[t].got
        /\ calls'[t].attempt = calls[t].attempt /\ calls'[t].outcome = calls[t].outcome
        /\ calls'[t].struck = calls[t].struck /\ calls[t].held \subseteq calls'[t].held
    <3>1. calls' = Holding(buffer')
      BY DEF Serve
    <3> QED
      BY <3>1, HoldingOf, Zenon
  <2>2. Alone(calls[t], io, conns, up)
    BY DEF Held
  <2>3. CASE calls[t].pc \notin {"send", "receive"}
    BY <2>1, <2>2, <2>3, AloneKept
  <2>4. CASE calls[t].pc \in {"send", "receive"}
    <3>1. io \in DOMAIN conns /\ Busy(calls[t])
      BY <2>4, CurrentConn DEF Busy
    <3>2. /\ conns'[io].timedOut = conns[io].timedOut /\ conns'[io].live = conns[io].live
      BY <1>1, <3>1
    <3>3. Answers(calls[t], conns[io]) => Answers(calls'[t], conns'[io])
      <4>1. CASE c = io
        BY <3>1, <4>1, ServeAnswers
      <4>2. CASE c # io
        BY <1>1, <2>1, <3>1, <4>2, AnswersGrow DEF Answers
      <4> QED
        BY <4>1, <4>2
    <3> QED
      BY <2>1, <2>2, <3>2, <3>3, AloneKept
  <2> QED
    BY <2>3, <2>4
<1>3. OneConnection'
  BY <1>1 DEF Held, OneConnection
<1> QED
  <2>1. \A t \in Threads : Alone(calls'[t], io', conns', up')
    BY <1>1, <1>2, Zenon
  <2> QED
    BY <1>3, <2>1, Zenon DEF Held

(* The current connection is open, so its handler hangs up only on a fault. *)
LEMMA EndAlone ==
    ASSUME TypeInv, StreamInv, Held, NEW c \in DOMAIN conns, HangUp(c) \/ Break(c)
    PROVE  Held'
<1>1. /\ DOMAIN conns' = DOMAIN conns /\ UNCHANGED <<io, up>>
      /\ \A d \in DOMAIN conns : d # c => conns'[d] = conns[d]
      /\ conns'[c].open = conns[c].open /\ conns'[c].timedOut = conns[c].timedOut
  BY EndedConn DEF HangUp, Break
<1>2. ASSUME NEW t \in Threads PROVE Alone(calls'[t], io, conns', up)
  <2>1. /\ calls'[t].pc = calls[t].pc /\ calls'[t].conn = calls[t].conn
        /\ calls'[t].job = calls[t].job /\ calls'[t].got = calls[t].got
        /\ calls'[t].attempt = calls[t].attempt /\ calls'[t].outcome = calls[t].outcome
        /\ calls[t].struck => calls'[t].struck
        /\ calls[t].held \subseteq calls'[t].held
        /\ Break(c) => ~Second(calls'[t])
    <3>1. CASE HangUp(c)
      <4>1. calls' = calls /\ ~Break(c)
        BY <3>1 DEF HangUp, Break
      <4> QED
        BY <4>1
    <3>2. CASE Break(c)
      BY <3>2, StruckOf DEF Break, Second, Busy
    <3> QED
      BY <3>1, <3>2
  <2>2. Alone(calls[t], io, conns, up)
    BY DEF Held
  <2>3. CASE calls[t].pc \notin {"send", "receive"}
    BY <1>1, <2>1, <2>2, <2>3, AloneKept
  <2>4. CASE calls[t].pc \in {"send", "receive"}
    <3>1. io \in DOMAIN conns /\ conns[io].open
      BY <2>4, CurrentConn
    <3>2. conns'[io].timedOut = conns[io].timedOut
      BY <1>1, <3>1
    <3>3. CASE HangUp(c)
      <4>1. c # io
        BY <3>1, <3>3 DEF HangUp
      <4>2. conns'[io] = conns[io] /\ calls' = calls
        BY <1>1, <3>1, <3>3, <4>1 DEF HangUp
      <4> QED
        BY <1>1, <2>2, <4>2 DEF Alone
    <3>4. CASE Break(c)
      <4>1. Answers(calls[t], conns[io]) => Answers(calls'[t], conns'[io])
        <5>1. CASE c = io
          BY <3>1, <3>4, <5>1, EndAnswers
        <5>2. CASE c # io
          BY <1>1, <2>1, <3>1, <5>2, AnswersGrow DEF Answers
        <5> QED
          BY <5>1, <5>2
      <4> QED
        BY <2>1, <2>2, <3>2, <3>4, <4>1, AloneKept
    <3> QED
      BY <3>3, <3>4
  <2> QED
    BY <2>3, <2>4
<1>3. OneConnection'
  BY <1>1 DEF Held, OneConnection
<1> QED
  BY <1>1, <1>2, <1>3 DEF Held

LEMMA CrashAlone ==
    ASSUME TypeInv, StreamInv, Held, Crash
    PROVE  Held'
<1>1. /\ DOMAIN conns' = DOMAIN conns /\ io' = io
      /\ \A c \in DOMAIN conns :
            /\ conns'[c].open = conns[c].open /\ conns'[c].timedOut = conns[c].timedOut
            /\ conns'[c].requests = <<>> /\ conns'[c].replies = conns[c].replies
  BY CrashConn DEF Crash
<1>2. ASSUME NEW t \in Threads PROVE Alone(calls'[t], io, conns', up')
  <2>1. /\ calls'[t].pc = calls[t].pc /\ calls'[t].conn = calls[t].conn
        /\ calls'[t].job = calls[t].job /\ calls'[t].got = calls[t].got
        /\ calls'[t].attempt = calls[t].attempt /\ calls'[t].outcome = calls[t].outcome
        /\ calls[t].struck => calls'[t].struck
        /\ calls[t].held \subseteq calls'[t].held
        /\ ~Second(calls'[t])
    BY StruckOf DEF Crash, Second, Busy
  <2>2. Alone(calls[t], io, conns, up)
    BY DEF Held
  <2>3. CASE calls[t].pc \notin {"send", "receive"}
    BY <2>1, <2>2, <2>3, AloneKept
  <2>4. CASE calls[t].pc \in {"send", "receive"}
    <3>1. io \in DOMAIN conns
      BY <2>4, CurrentConn
    <3>2. conns'[io].timedOut = conns[io].timedOut
      BY <1>1, <3>1
    <3>3. Answers(calls[t], conns[io]) => Answers(calls'[t], conns'[io])
      <4>1. conns'[io].requests = <<>> /\ conns'[io].replies = conns[io].replies
        BY <1>1, <3>1
      <4> QED
        BY <2>1, <4>1, AnswersGrow
    <3> QED
      BY <2>1, <2>2, <3>2, <3>3, AloneKept
  <2> QED
    BY <2>3, <2>4
<1>3. OneConnection'
  BY <1>1 DEF Held, OneConnection
<1> QED
  BY <1>1, <1>2, <1>3 DEF Held

LEMMA OtherAlone ==
    ASSUME TypeInv, Held, Tick \/ Restart \/ UNCHANGED vars
    PROVE  Held'
<1>1. conns' = conns /\ io' = io /\ (up => up')
  BY DEF Tick, Restart, vars
<1>2. ASSUME NEW t \in Threads PROVE Alone(calls'[t], io, conns, up')
  <2>1. /\ calls'[t].pc = calls[t].pc /\ calls'[t].conn = calls[t].conn
        /\ calls'[t].job = calls[t].job /\ calls'[t].got = calls[t].got
        /\ calls'[t].attempt = calls[t].attempt /\ calls'[t].outcome = calls[t].outcome
        /\ calls'[t].struck = calls[t].struck /\ calls[t].held \subseteq calls'[t].held
    BY HoldingOf DEF Tick, Restart, vars
  <2>2. Alone(calls[t], io, conns, up)
    BY DEF Held
  <2>3. Answers(calls[t], conns[io]) => Answers(calls'[t], conns[io])
    BY <2>1, AnswersGrow DEF Answers
  <2> QED
    BY <1>1, <2>1, <2>2, <2>3, AloneKept
<1>3. OneConnection'
  BY <1>1 DEF Held, OneConnection
<1> QED
  BY <1>1, <1>2, <1>3 DEF Held

----------------------------------------------------------------------------
(* Who has called.  Only a call that begins changes it.                     *)

LEMMA SameJob ==
    ASSUME NEW D, NEW call \in CallOn(D)
    PROVE  /\ \A outcome : Ended(call, outcome).job = call.job
           /\ Raised(call).job = call.job
           /\ \A value, now : Answered(call, value, now).job = call.job
<1>1. \A outcome : Ended(call, outcome).job = call.job
  BY DEF Ended, CallOn
<1>2. Raised(call).job = call.job
  BY <1>1 DEF Raised, CallOn
<1>3. ASSUME NEW value, NEW now PROVE Answered(call, value, now).job = call.job
  BY DEF Answered, Ended, CallOn
<1> QED
  BY <1>1, <1>2, <1>3

LEMMA StepKeeps ==
    ASSUME TypeInv, NEW t \in Threads, Step(t) \/ Timeout(t), NEW s \in Threads
    PROVE  /\ Busy(calls[t])
           /\ calls'[s].job = calls[s].job
           /\ ~Busy(calls[s]) => calls'[s] = calls[s]
<1>1. calls[t] \in CallOn(DOMAIN conns) /\ DOMAIN calls = Threads
  BY CallsOf DEF TypeInv, TypeOK
<1>2. CASE Timeout(t)
  <2> DEFINE call == Struck(calls)[t]
  <2>1. /\ call \in CallOn(DOMAIN conns) /\ call.job = calls[t].job /\ call.pc = calls[t].pc
        /\ Struck(calls)[s].job = calls[s].job
    BY StruckOf
  <2>2. Busy(calls[t])
    BY <1>2, <2>1 DEF Timeout, Busy
  <2>3. calls' = [Struck(calls) EXCEPT ![t] = Raised(call)]
    BY <1>2 DEF Timeout
  <2>4. Raised(call).job = calls[t].job
    BY <2>1, SameJob
  <2> HIDE DEF call
  <2>5. calls'[s] = IF s = t THEN Raised(call) ELSE Struck(calls)[s]
    BY <2>3 DEF Struck
  <2>6. ~Busy(calls[s]) => Struck(calls)[s] = calls[s]
    BY DEF Struck
  <2> QED
    BY <2>1, <2>2, <2>4, <2>5, <2>6
<1>3. CASE Step(t)
  <2>1. Busy(calls[t])
    BY <1>3 DEF Step, Connect, Dial, Refused, Send, Closed, Receive, Lost, Reset, Busy
  <2>2. \E new : calls' = [calls EXCEPT ![t] = new] /\ new.job = calls[t].job
    <3>1. CASE Connect(t)
      <4> DEFINE new == [calls[t] EXCEPT !.pc = IF io = None THEN "dial" ELSE "send",
                                         !.conn = io]
      <4>1. calls' = [calls EXCEPT ![t] = new] /\ new.job = calls[t].job
        BY <1>1, <3>1 DEF Connect, CallOn
      <4> QED
        BY <4>1
    <3>2. CASE Dial(t)
      <4> DEFINE new == [calls[t] EXCEPT !.pc = "send", !.conn = io']
      <4>1. calls' = [calls EXCEPT ![t] = new] /\ new.job = calls[t].job
        BY <1>1, <3>2 DEF Dial, CallOn
      <4> QED
        BY <4>1
    <3>3. CASE Send(t)
      <4> DEFINE new == [calls[t] EXCEPT !.pc = "receive"]
      <4>1. calls' = [calls EXCEPT ![t] = new] /\ new.job = calls[t].job
        BY <1>1, <3>3 DEF Send, CallOn
      <4> QED
        BY <4>1
    <3>4. CASE Reset(t)
      <4> DEFINE again == [calls[t] EXCEPT !.pc = "connect", !.attempt = @ + 1]
                 new == [again EXCEPT !.conn = None, !.struck = ~up]
      <4>1. calls' = [calls EXCEPT ![t] = new] /\ new.job = calls[t].job
        BY <1>1, <3>4 DEF Reset, CallOn
      <4> QED
        BY <4>1
    <3>5. CASE Refused(t) \/ Closed(t) \/ Lost(t)
      BY <1>1, <3>5, SameJob DEF Refused, Closed, Lost, Acting
    <3>6. CASE Receive(t)
      <4>1. PICK new : /\ calls' = [calls EXCEPT ![t] = new]
                       /\ \/ \E value, now : new = Answered(calls[t], value, now)
                          \/ new = Ended(calls[t], "other")
        BY <3>6 DEF Receive, Acting
      <4>2. new.job = calls[t].job
        BY <1>1, <4>1, SameJob
      <4> QED
        BY <4>1, <4>2
    <3> QED
      BY <1>3, <3>1, <3>2, <3>3, <3>4, <3>5, <3>6 DEF Step
  <2>3. PICK new : calls' = [calls EXCEPT ![t] = new] /\ new.job = calls[t].job
    BY <2>2
  <2>4. calls'[s] = IF s = t THEN new ELSE calls[s]
    BY <1>1, <2>3
  <2> QED
    BY <2>1, <2>3, <2>4
<1> QED
  BY <1>2, <1>3

Device ==
    \/ \E c \in DOMAIN conns : Serve(c) \/ HangUp(c) \/ Break(c)
    \/ Tick \/ Crash \/ Restart \/ UNCHANGED vars

LEMMA DeviceKeeps ==
    ASSUME TypeInv, Device, NEW s \in Threads
    PROVE  /\ calls'[s].job = calls[s].job
           /\ ~Busy(calls[s]) => calls'[s] = calls[s]
<1>1. calls' = calls \/ calls' = Struck(calls) \/ calls' = Holding(buffer')
  BY DEF Device, Serve, HangUp, Break, Tick, Crash, Restart, vars
<1>2. CASE calls' = Struck(calls)
  BY <1>2, StruckOf DEF Struck
<1>3. CASE calls' = Holding(buffer')
  BY <1>3, HoldingOf DEF Holding
<1> QED
  BY <1>1, <1>2, <1>3

(* Whoever has called stays known, and a thread that has not is idle.       *)
LEMMA KeptFresh ==
    ASSUME Fresh, \A s \in Threads : /\ calls'[s].job = calls[s].job
                                     /\ ~Busy(calls[s]) => calls'[s] = calls[s]
    PROVE  /\ Fresh'
           /\ \A t \in Threads : Only(t)' => Only(t)
  BY DEF Fresh, Only, Busy

LEMMA StartKeeps ==
    ASSUME TypeInv, NEW t \in Threads, NEW job \in Jobs, Start(t, job)
    PROVE  /\ calls'[t].job = job /\ job # <<>>
           /\ \A s \in Threads : s # t => calls'[s] = calls[s]
           /\ \A s \in Threads : Only(s)' => s = t /\ Only(s)
<1>1. DOMAIN calls = Threads /\ job \in Seq(Request)
  BY JobsAreRequests DEF TypeInv, TypeOK
<1>2. job # <<>>
  BY <1>1 DEF Start
<1>3. calls'[t].job = job /\ \A s \in Threads : s # t => calls'[s] = calls[s]
  BY <1>1 DEF Start, NoCall
<1> QED
  BY <1>2, <1>3 DEF Only

LEMMA OnlyBefore ==
    ASSUME TypeInv, AloneInv, [Next]_vars, NEW t \in Threads, Only(t)'
    PROVE  Only(t)
<1>1. ASSUME NEW s \in Threads, NEW job \in Jobs, Start(s, job) PROVE Only(t)
  BY <1>1, StartKeeps
<1>2. ASSUME NEW s \in Threads, Step(s) \/ Timeout(s) PROVE Only(t)
  BY <1>2, StepKeeps, KeptFresh DEF AloneInv
<1>3. CASE Device
  BY <1>3, DeviceKeeps, KeptFresh DEF AloneInv
<1> QED
  BY <1>1, <1>2, <1>3 DEF Next, Device

LEMMA InitAlone == Init => AloneInv
<1> SUFFICES ASSUME Init PROVE AloneInv
  OBVIOUS
<1>1. \A t \in Threads : /\ calls[t].got = <<>> /\ calls[t].outcome = "ok"
                         /\ calls[t].pc = "idle" /\ calls[t].attempt = 1
  BY DEF Init, NoCall
<1>2. \A t \in Threads : Alone(calls[t], io, conns, up)
  BY <1>1, AloneFirst DEF Past
<1>3. OneConnection
  BY DEF Init, OneConnection
<1> QED
  BY <1>1, <1>2, <1>3 DEF AloneInv, Held, Fresh

LEMMA NextAlone ==
    ASSUME TypeInv, StreamInv, AloneInv, [Next]_vars
    PROVE  AloneInv'
<1>1. ASSUME NEW t \in Threads, NEW job \in Jobs, Start(t, job) PROVE AloneInv'
  <2>1. Fresh'
    BY <1>1, StartKeeps DEF AloneInv, Fresh
  <2>2. ASSUME NEW s \in Threads, Only(s)' PROVE Held'
    <3>1. s = t /\ Only(s)
      BY <1>1, <2>2, StartKeeps
    <3> QED
      BY <1>1, <3>1, StartAlone DEF AloneInv, OneCaller
  <2> QED
    BY <2>1, <2>2 DEF AloneInv, OneCaller
<1>2. ASSUME NEW t \in Threads, Step(t) \/ Timeout(t) PROVE AloneInv'
  <2>1. Fresh' /\ \A s \in Threads : Only(s)' => Only(s)
    BY <1>2, StepKeeps, KeptFresh DEF AloneInv
  <2>2. ASSUME NEW s \in Threads, Only(s)' PROVE Held'
    <3>1. Only(s) /\ Held /\ Fresh
      BY <2>1, <2>2 DEF AloneInv, OneCaller
    <3>2. s = t
      BY <1>2, <3>1, StepKeeps, OthersAlone DEF Busy
    <3> QED
      BY <1>2, <3>1, <3>2, ConnectAlone, DialAlone, FailAlone, SendAlone, ReceiveAlone,
         ResetAlone, TimeoutAlone DEF Step
  <2> QED
    BY <2>1, <2>2 DEF AloneInv, OneCaller
<1>3. CASE Device
  <2>1. Fresh' /\ \A s \in Threads : Only(s)' => Only(s)
    BY <1>3, DeviceKeeps, KeptFresh DEF AloneInv
  <2>2. ASSUME Held PROVE Held'
    BY <1>3, <2>2, ServeAlone, EndAlone, CrashAlone, OtherAlone DEF Device
  <2> QED
    BY <2>1, <2>2 DEF AloneInv, OneCaller
<1> QED
  BY <1>1, <1>2, <1>3 DEF Next, Device

LEMMA AloneHolds == Spec => []AloneInv
  BY NextAlone, InitAlone, TypesHold, StreamHolds, PTL DEF Spec

(* While one thread uses the link, whatever was lost, answered late or      *)
(* retried, a read returns a value its variable held while it was under way *)
(* and a finished write has been in the device.                             *)
THEOREM AnswersAreTrue == Spec => []TrueAlone
<1>1. AloneInv => TrueAlone
  BY DEF AloneInv, Held, Alone, Past, AnswersTrue, TrueAlone
<1> QED
  BY <1>1, AloneHolds, PTL

(* While one thread uses the link a call fails only when the device was     *)
(* down or another fault struck during the second attempt.                  *)
THEOREM RetrySuffices == Spec => []OneRetrySuffices
<1>1. AloneInv => OneRetrySuffices
  BY DEF AloneInv, Held, Alone, OneRetrySuffices
<1> QED
  BY <1>1, AloneHolds, PTL

(* The state keeps its types, and while one thread uses the link no         *)
(* connection but the current one is held open: replacing a broken one      *)
(* leaks none.                                                              *)
THEOREM LinkIsSound == Spec => []LinkSound
<1>1. TypeOK /\ AloneInv => LinkSound
  BY DEF AloneInv, Held, LinkSound
<1> QED
  BY <1>1, TypeCorrect, AloneHolds, PTL

=============================================================================
