------------------------------- MODULE Simulation -------------------------------
(***************************************************************************)
(* The application with devices in its own process: SimulationEngine and    *)
(* the sampler are tasks of the event loop, the writes of users are made by *)
(* pool threads, and all of them reach one InMemoryUnidriverIO without a    *)
(* lock.                                                                    *)
(*                                                                          *)
(* A step of a task is one access to the buffer, between which a pool       *)
(* thread may write; the tasks themselves change places only when one of    *)
(* them waits.  There is one device, and it is enabled.  Numbers are        *)
(* counted in quarters (Conversion), and so is what a signal gives: a sine    *)
(* or a noise gives any value between its ends.                             *)
(***************************************************************************)
EXTENDS Conversion, Sequences

CONSTANTS
    Order,    \* the variables, in the order of the catalog
    Mode,     \* their modes: "r", "rw" or "w"
    CType,    \* their types
    Initial,  \* their values in the catalog
    Signal,   \* the signals of the sensors: sequences of terms, their sum
    Inputs,   \* the numbers users send
    MaxTime   \* bound: the clock

Vars == {Order[i] : i \in DOMAIN Order}
Sensors == DOMAIN Signal
Writable == {v \in Vars : Mode[v] # "r"}
Readable == {v \in Vars : Mode[v] # "w"}

(* The terms of a signal. *)
Terms ==
    [kind: {"constant"}, value: Int] \cup [kind: {"ramp"}, rate: Int, start: Int]
    \cup [kind: {"square"}, period: Nat \ {0}, on: Int, low: Int, high: Int]
    \cup [kind: {"sawtooth"}, period: Nat \ {0}, low: Int, high: Int]
    \cup [kind: {"sine"}, amplitude: Nat, offset: Int]
    \cup [kind: {"noise"}, amplitude: Nat] \cup [kind: {"follow"}, target: Vars]
    \cup [kind: {"walk"}, start: Int, step: Nat, low: Int, high: Int]

ASSUME SimulationAssumption ==
    /\ Order \in Seq(Vars) /\ Order # <<>>
    /\ Mode \in [Vars -> {"r", "rw", "w"}]
    /\ CType \in [Vars -> CTypes]
    /\ Initial \in [Vars -> Int] /\ \A v \in Vars : Represents(CType[v], Initial[v])
    /\ Sensors = {v \in Vars : Mode[v] = "r"}
    /\ \A s \in Sensors : Signal[s] \in Seq(Terms)
    /\ Readable # {}
    /\ Inputs \subseteq [form: {"int", "float", "bool"}, x: Int]
    /\ \A input \in Inputs : input.form # "float" => input.x % Unit = 0
    /\ MaxTime \in Nat

VARIABLES
    now,      \* time.monotonic since the start of the engine
    buffer,   \* the values in the buffer of the device
    values,   \* NetVar.value in the engine
    walks,    \* RandomWalk._value of the sensors that walk
    engine,   \* the tick under way: its next access; the time of the last one
    sampler,  \* the snapshot under way: what it has read
    started,  \* the tasks that have begun
    app,      \* the lifespan of the application
    point,    \* the newest point of the history
    held,     \* history: what the users' variables were during the last tick
    written   \* history: what users wrote last

loop == <<engine, sampler, started, app>>
vars == <<now, buffer, values, walks, loop, point, held, written>>

----------------------------------------------------------------------------
(* Signals. *)

Constant(value) == [kind |-> "constant", value |-> value]
Ramp(rate, start) == [kind |-> "ramp", rate |-> rate, start |-> start]
Square(period, on, low, high) ==
    [kind |-> "square", period |-> period, on |-> on, low |-> low, high |-> high]
Sawtooth(period, low, high) ==
    [kind |-> "sawtooth", period |-> period, low |-> low, high |-> high]
Sine(amplitude, offset) ==
    [kind |-> "sine", amplitude |-> amplitude, offset |-> offset]
Noise(amplitude) == [kind |-> "noise", amplitude |-> amplitude]
Follow(target) == [kind |-> "follow", target |-> target]
RandomWalk(start, step, low, high) ==
    [kind |-> "walk", start |-> start, step |-> step, low |-> low, high |-> high]

Within(x, low, high) == IF x < low THEN low ELSE IF x > high THEN high ELSE x

Walks(v) == {i \in DOMAIN Signal[v] : Signal[v][i].kind = "walk"}

(* Where the walk of a sensor may go, from where it is. *)
Moves(v) ==
    IF Walks(v) = {} THEN {walks[v]}
    ELSE LET term == Signal[v][CHOOSE i \in Walks(v) : TRUE]
         IN  {Within(walks[v] + d, term.low, term.high) : d \in (-term.step)..term.step}

(* The values a term may have at a time t, with the walk at w.              *)
Of(term, t, w) ==
    CASE term.kind = "constant" -> {term.value}
      [] term.kind = "ramp" -> {term.start + term.rate * t}
      [] term.kind = "square" ->
            {IF t % term.period < term.on THEN term.high ELSE term.low}
      [] term.kind = "sawtooth" ->
            {term.low + ((term.high - term.low) * (t % term.period)) \div term.period}
      [] term.kind = "sine" ->
            (term.offset - term.amplitude)..(term.offset + term.amplitude)
      [] term.kind = "noise" -> (-term.amplitude)..term.amplitude
      [] term.kind = "follow" -> {values[term.target]}
      [] term.kind = "walk" -> {w}

Plus(A, B) == {a + b : a \in A, b \in B}

Samples(v, t, w) ==
    LET sums[i \in 0..Len(Signal[v])] ==
            IF i = 0 THEN {0} ELSE Plus(sums[i - 1], Of(Signal[v][i], t, w))
    IN  sums[Len(Signal[v])]

----------------------------------------------------------------------------
(* A tick goes over the catalog twice.  An access has its place in that.     *)
Plan == Order \o Order

(* Commands only are taken over. *)
SlipAccesses ==
    {k \in DOMAIN Plan :
        IF k <= Len(Order) THEN Mode[Plan[k]] = "w" ELSE Plan[k] \in Sensors}

(* The sensors first. *)
SlipOrder ==
    {k \in DOMAIN Plan :
        IF k <= Len(Order) THEN Plan[k] \in Sensors ELSE Plan[k] \in Writable}

(* It takes over what users have written, then publishes the sensors.       *)
Accesses ==
    {k \in DOMAIN Plan :
        IF k <= Len(Order) THEN Plan[k] \in Writable ELSE Plan[k] \in Sensors}

(* A snapshot goes over it once. *)
Reads == {i \in DOMAIN Order : Order[i] \in Readable}

(* The place after the given one, 0 after the last. *)
Following(at, places) ==
    LET later == {k \in places : k > at} IN
    IF later = {} THEN 0 ELSE CHOOSE k \in later : \A l \in later : k <= l

Ticking == engine.at > 0
Sampling == sampler.at > 0

Holding(v, x) == IF Ticking THEN [held EXCEPT ![v] = @ \cup {x}] ELSE held

Init ==
    /\ now = 0
    /\ buffer = Initial /\ values = Initial
    /\ walks = [v \in Sensors |->
          IF Walks(v) = {} THEN 0 ELSE Signal[v][CHOOSE i \in Walks(v) : TRUE].start]
    /\ engine = [at |-> 0, t |-> -1] /\ sampler = [at |-> 0, got |-> <<>>]
    /\ started = {} /\ app = "serving"
    /\ point = <<>>
    /\ held = [v \in Writable |-> {}] /\ written = [v \in Writable |-> Initial[v]]

Advance ==
    /\ now < MaxTime
    /\ now' = now + 1
    /\ UNCHANGED <<buffer, values, walks, loop, point, held, written>>

(* A task begins when its turn comes. *)
SlipBegin(task) == started' = started \cup {task}

(* The loop begins its tasks in the order in which they were created.       *)
Begin(task) ==
    /\ task = "sampler" => "engine" \in started
    /\ started' = started \cup {task}

(* SimulationEngine.run: a tick, then a wait. *)
BeginTick ==
    /\ ~Ticking /\ ~Sampling /\ app = "serving"
    /\ Begin("engine")
    /\ engine' = [at |-> Following(0, Accesses), t |-> now]
    /\ held' = [v \in Writable |-> {buffer[v]}]
    /\ UNCHANGED <<now, buffer, values, walks, sampler, app, point, written>>

(* Every variable is published. *)
SlipReadBack(v) ==
    /\ buffer' = [buffer EXCEPT ![v] = values[v]]
    /\ UNCHANGED <<values, walks, held>>

ReadBack(v) ==
    /\ values' = [values EXCEPT ![v] = buffer[v]]
    /\ UNCHANGED <<buffer, walks, held>>

Publish(v) ==
    \E w \in Moves(v) : \E x \in Samples(v, engine.t, w) :
        LET fitted == FitValue(CType[v], x) IN
        /\ walks' = [walks EXCEPT ![v] = w]
        /\ values' = [values EXCEPT ![v] = fitted]
        /\ buffer' = [buffer EXCEPT ![v] = fitted]
        /\ UNCHANGED held

TickStep ==
    /\ Ticking
    /\ LET v == Plan[engine.at] IN IF v \in Sensors THEN Publish(v) ELSE ReadBack(v)
    /\ engine' = [engine EXCEPT !.at = Following(@, Accesses)]
    /\ UNCHANGED <<now, sampler, started, app, point, written>>

(* run_sampler: a point, then a wait. *)
BeginSample ==
    /\ ~Ticking /\ ~Sampling /\ app = "serving"
    /\ Begin("sampler")
    /\ sampler' = [at |-> Following(0, Reads), got |-> <<>>]
    /\ UNCHANGED <<now, buffer, values, walks, engine, app, point, held, written>>

SampleStep ==
    /\ Sampling
    /\ LET v == Order[sampler.at]
           got == [x \in DOMAIN sampler.got \cup {v} |->
                      IF x = v THEN buffer[v] ELSE sampler.got[x]]
           at == Following(sampler.at, Reads)
       IN  /\ sampler' = [at |-> at, got |-> IF at = 0 THEN <<>> ELSE got]
           /\ point' = IF at = 0 THEN [got |-> got, t |-> engine.t, tick |-> values]
                      ELSE point
    /\ UNCHANGED <<now, buffer, values, walks, engine, started, app, held, written>>

(* write_value in a pool thread: the mode, the conversion, one access.      *)
Write(v, input) ==
    /\ Mode[v] # "r"
    /\ Accepts(CType[v], input)
    /\ buffer' = [buffer EXCEPT ![v] = input.x]
    /\ held' = Holding(v, input.x) /\ written' = [written EXCEPT ![v] = input.x]
    /\ UNCHANGED <<now, values, walks, loop, point>>

(* The end of the lifespan: both tasks are awaited.                         *)
Stop ==
    /\ app = "serving" /\ ~Ticking /\ ~Sampling
    /\ app' = "stopping"
    /\ UNCHANGED <<now, buffer, values, walks, engine, sampler, started, point, held, written>>

Await ==
    /\ app = "stopping" /\ ~Ticking /\ ~Sampling
    /\ app' = "stopped"
    /\ UNCHANGED <<now, buffer, values, walks, engine, sampler, started, point, held, written>>

Next ==
    \/ Advance
    \/ BeginTick
    \/ TickStep
    \/ BeginSample
    \/ SampleStep
    \/ \E v \in Vars, input \in Inputs : Write(v, input)
    \/ Stop
    \/ Await

Spec == Init /\ [][Next]_vars

(* The loop serves its tasks in turn: a task whose wait is over is not       *)
(* passed over for ever, although another one may be running when it is.    *)
FairSpec ==
    /\ Spec
    /\ SF_vars(BeginTick)
    /\ WF_vars(TickStep)
    /\ WF_vars(SampleStep)
    /\ WF_vars(Await)

----------------------------------------------------------------------------
TypeOK ==
    /\ now \in 0..MaxTime
    /\ buffer \in [Vars -> Int] /\ values \in [Vars -> Int]
    /\ walks \in [Sensors -> Int]
    /\ engine.at \in {0} \cup Accesses /\ engine.t \in -1..now
    /\ sampler.at \in {0} \cup Reads
    /\ sampler.got \in [{Order[i] : i \in {j \in Reads : j < sampler.at}} -> Int]
    /\ started \in {{}, {"engine"}, {"engine", "sampler"}}
    /\ app \in {"serving", "stopping", "stopped"}
    /\ held \in [Writable -> SUBSET Int] /\ written \in [Writable -> Int]
    /\ \A v \in Vars : Represents(CType[v], buffer[v])

(* What a user has written stays until a user writes again: no tick that    *)
(* read the variable before the write puts the older value back.            *)
WrittenStays == \A v \in Writable : buffer[v] = written[v]

Ticked == engine.t >= 0 /\ ~Ticking

(* The sensors that follow what users may write, with noise.                *)
Followers ==
    {s \in Sensors : /\ Len(Signal[s]) = 2
                     /\ Signal[s][1].kind = "follow" /\ Signal[s][2].kind = "noise"
                     /\ Signal[s][1].target \in Writable}

Near(s, x, y) ==
    /\ FitValue(CType[s], y - Signal[s][2].amplitude) <= x
    /\ x <= FitValue(CType[s], y + Signal[s][2].amplitude)

(* After a tick a sensor that follows a variable is, but for its noise, at  *)
(* a value that users gave the variable since the tick began: a tick is not *)
(* one write behind.                                                        *)
OutputFollows ==
    Ticked => \A s \in Followers :
        \E x \in held[Signal[s][1].target] : Near(s, buffer[s], x)

(* A value that is set and not set again is what the sensor comes to show.  *)
SetpointTakesEffect ==
    \A s \in Followers : LET c == Signal[s][1].target IN
        \A x \in {input.x : input \in {i \in Inputs : Accepts(CType[c], i)}} :
            (buffer[c] = x /\ app = "serving")
                ~> (Near(s, buffer[s], x) \/ buffer[c] # x \/ app # "serving")

(* A sensor shows the value of its register that is nearest to what its     *)
(* signal gave, on both sides of the ends of the register.                  *)
ShowsNearest ==
    [][\A s \in Sensors : buffer'[s] # buffer[s] =>
          \E x \in Samples(s, engine.t, walks'[s]) :
              Nearest(CType[s], x, buffer'[s])]_vars

(* A point of the history shows every sensor as of one tick, and never the  *)
(* values of the catalog that stand there before the first tick.            *)
PointWhole ==
    point # <<>> =>
        /\ point.t >= 0
        /\ DOMAIN point.got = Readable
        /\ \A s \in Sensors : point.got[s] = point.tick[s]
=============================================================================
