---------------------------- MODULE SimulationProofs ----------------------------
(***************************************************************************)
(* The conversions, for every number and every type, and the promises of    *)
(* Simulation about writes, points and sensors, for any catalog and signals. *)
(***************************************************************************)
EXTENDS Simulation, WellFoundedInduction, TLAPS

----------------------------------------------------------------------------
(* Sets of natural numbers.                                                 *)

LEMMA Least ==
    ASSUME NEW T \in SUBSET Nat, T # {}
    PROVE  \E n \in T : \A m \in T : n <= m
<1> DEFINE R == OpToRel(<, Nat)
<1>1. \A x, y \in Nat : x < y => <<x, y>> \in R
  BY DEF OpToRel
<1>2. IsWellFoundedOn(R, Nat)
  BY NatLessThanWellFounded
<1> HIDE DEF R
<1>3. PICK n \in T : \A m \in T : ~ (<<m, n>> \in R)
  BY <1>2, WFMin
<1>4. ASSUME NEW m \in T PROVE n <= m
  <2>1. m \in Nat /\ n \in Nat
    OBVIOUS
  <2>2. ~ m < n
    BY <1>1, <1>3, <2>1
  <2> QED
    BY <2>1, <2>2
<1> QED
  BY <1>4

(* Induction, over the set of the numbers of which something holds. *)
LEMMA Induction ==
    ASSUME NEW P, 0 \in P, \A n \in Nat : n \in P => n + 1 \in P
    PROVE  Nat \subseteq P
<1> DEFINE T == Nat \ P
<1> SUFFICES ASSUME T # {} PROVE FALSE
  OBVIOUS
<1>1. T \in SUBSET Nat
  OBVIOUS
<1>2. PICK n \in T : \A m \in T : n <= m
  BY <1>1, Least
<1>3. n \in Nat /\ n # 0
  OBVIOUS
<1>4. n - 1 \in Nat /\ (n - 1) + 1 = n /\ ~ n <= n - 1
  BY <1>3
<1>5. n - 1 \in P
  BY <1>2, <1>4
<1> QED
  BY <1>4, <1>5

(* The place after a place: the next one, with none between.                *)
LEMMA PlaceAfter ==
    ASSUME NEW places \in SUBSET (Nat \ {0}), NEW at \in Nat
    PROVE  LET next == Following(at, places) IN
           /\ next \in {0} \cup places /\ next \in Nat
           /\ next # 0 => at < next /\ \A k \in places : k < next => k <= at
           /\ next = 0 => \A k \in places : k <= at
<1> DEFINE later == {k \in places : k > at}
<1>0. \A k \in places : k \in Nat /\ k # 0
  OBVIOUS
<1>1. CASE later = {}
  BY <1>0, <1>1 DEF Following
<1>2. CASE later # {}
  <2>1. later \in SUBSET Nat
    BY <1>0
  <2>2. \E k \in later : \A l \in later : k <= l
    BY <1>2, <2>1, Least
  <2> DEFINE next == CHOOSE k \in later : \A l \in later : k <= l
  <2>3. next \in later /\ \A l \in later : next <= l
    BY <2>2
  <2> HIDE DEF next
  <2>4. next \in Nat /\ next # 0 /\ next \in places /\ at < next
    BY <1>0, <2>3
  <2>5. \A k \in places : k < next => k <= at
    <3> SUFFICES ASSUME NEW k \in places, ~ k <= at PROVE ~ k < next
      OBVIOUS
    <3>1. k \in Nat /\ k \in later
      BY <1>0
    <3> QED
      BY <2>3, <2>4, <3>1
  <2>6. Following(at, places) = next
    BY <1>2 DEF Following, next
  <2> QED
    BY <2>4, <2>5, <2>6
<1> QED
  BY <1>1, <1>2

----------------------------------------------------------------------------
(* The conversions.                                                         *)

LEMMA Product ==
    ASSUME NEW a \in Nat \ {0}, NEW b \in Nat \ {0}
    PROVE  a * b \in Nat \ {0}
  OBVIOUS

LEMMA HighOf ==
    ASSUME NEW ctype \in Ints
    PROVE  High(ctype) \in Nat
<1>1. Word \in Nat /\ Word = 65536
  BY DEF Word
<1>2. Word * Word = 4294967296 /\ 32768 * Word = 2147483648
  BY <1>1
<1>3. /\ Word * Word * Word * Word \in Nat \ {0}
      /\ 32768 * Word * Word * Word \in Nat \ {0}
  <2>1. Word \in Nat \ {0} /\ Word * Word \in Nat \ {0} /\ 32768 * Word \in Nat \ {0}
    BY <1>1, <1>2
  <2> HIDE DEF Word
  <2>2. Word * Word * Word \in Nat \ {0} /\ 32768 * Word * Word \in Nat \ {0}
    BY <2>1, Product
  <2> QED
    BY <2>1, <2>2, Product
<1> HIDE DEF Word
<1>4. CASE ctype = "bit" \/ ctype = "u8" \/ ctype = "i8"
  BY <1>4 DEF High
<1>5. CASE ctype = "u16" \/ ctype = "i16" \/ ctype = "u32" \/ ctype = "i32"
  BY <1>1, <1>2, <1>3, <1>5 DEF High
<1>6. CASE ctype = "u64" \/ ctype = "i64"
  BY <1>3, <1>6 DEF High
<1> QED
  BY <1>4, <1>5, <1>6 DEF Ints

LEMMA Limits ==
    ASSUME NEW ctype \in Ints
    PROVE  Low(ctype) \in Int /\ High(ctype) \in Int /\ Low(ctype) <= High(ctype)
  BY HighOf DEF Low

LEMMA Ranges ==
    ASSUME NEW ctype \in Ints, NEW n \in Int
    PROVE  /\ Clamp(ctype, n) \in Low(ctype)..High(ctype)
           /\ n \in Low(ctype)..High(ctype) => Clamp(ctype, n) = n
           /\ n < Low(ctype) => Clamp(ctype, n) = Low(ctype)
           /\ n > High(ctype) => Clamp(ctype, n) = High(ctype)
  BY Limits DEF Clamp

LEMMA Quotient ==
    ASSUME NEW x \in Int
    PROVE  /\ x \div 4 \in Int /\ x % 4 \in 0..3
           /\ x = 4 * (x \div 4) + (x % 4)
  OBVIOUS

LEMMA Rounded ==
    ASSUME NEW x \in Int
    PROVE  /\ Round(x) \in Int
           /\ 4 * Round(x) <= x + 2 /\ x <= 4 * Round(x) + 2
<1> DEFINE n == x \div 4  rest == x % 4
<1>1. n \in Int /\ rest \in 0..3 /\ x = 4 * n + rest
  BY Quotient
<1>2. \/ Round(x) = n /\ 2 * rest <= 4
      \/ Round(x) = n + 1 /\ 2 * rest >= 4
  BY <1>1 DEF Round, Unit
<1> HIDE DEF n, rest
<1> QED
  BY <1>1, <1>2

(* No whole number is nearer than the one Round gives. *)
LEMMA RoundedNearest ==
    ASSUME NEW x \in Int, NEW n \in Int
    PROVE  Distance(x, 4 * Round(x)) <= Distance(x, 4 * n)
<1> DEFINE r == Round(x)
<1>1. r \in Int /\ 4 * r <= x + 2 /\ x <= 4 * r + 2
  BY Rounded
<1> SUFFICES Distance(x, 4 * r) <= Distance(x, 4 * n)
  OBVIOUS
<1> HIDE DEF r
<1>2. CASE n = r
  BY <1>1, <1>2 DEF Distance
<1>3. CASE n <= r - 1
  <2>1. 4 * n <= 4 * r - 4
    BY <1>1, <1>3
  <2> QED
    BY <1>1, <2>1 DEF Distance
<1>4. CASE n >= r + 1
  <2>1. 4 * n >= 4 * r + 4
    BY <1>1, <1>4
  <2> QED
    BY <1>1, <2>1 DEF Distance
<1> QED
  BY <1>1, <1>2, <1>3, <1>4

(* Every sample becomes a value its register can hold, and no value of the  *)
(* register is nearer to it: fit_value, for every type and every number.    *)
THEOREM SamplesFitNearest ==
    ASSUME NEW ctype \in CTypes, NEW x \in Int
    PROVE  FitsNearest(ctype, x)
<1>1. CASE ctype \in Floats
  BY <1>1 DEF FitsNearest, Nearest, FitValue
<1>2. CASE ctype \in Ints /\ ctype \notin Floats
  <2> DEFINE r == Round(x)  k == Clamp(ctype, r)
             low == Low(ctype)  high == High(ctype)
  <2>1. r \in Int /\ low \in Int /\ high \in Int /\ low <= high
    BY <1>2, Rounded, Limits
  <2>2. /\ k \in low..high
        /\ r \in low..high => k = r
        /\ r < low => k = low
        /\ r > high => k = high
    BY <1>2, <2>1, Ranges
  <2>3. 4 * r <= x + 2 /\ x <= 4 * r + 2
    BY Rounded
  <2>4. FitValue(ctype, x) = 4 * k
    BY <1>2 DEF FitValue, Unit
  <2>5. (4 * k) % 4 = 0 /\ (4 * k) \div 4 = k
    BY <2>1, <2>2
  <2>6. Represents(ctype, 4 * k)
    BY <2>1, <2>2, <2>5 DEF Represents, InRange, Unit
  <2>7. ASSUME NEW n \in low..high
        PROVE  Distance(x, 4 * k) <= Distance(x, 4 * n)
    <3>1. CASE r \in low..high
      BY <3>1, <2>1, <2>2, RoundedNearest
    <3> HIDE DEF r, k, low, high
    <3>2. CASE r < low
      <4>1. k = low /\ 4 * r <= 4 * low - 4 /\ 4 * low <= 4 * n
        BY <3>2, <2>1, <2>2
      <4> QED
        BY <4>1, <2>1, <2>3 DEF Distance
    <3>3. CASE r > high
      <4>1. k = high /\ 4 * r >= 4 * high + 4 /\ 4 * high >= 4 * n
        BY <3>3, <2>1, <2>2
      <4> QED
        BY <4>1, <2>1, <2>3 DEF Distance
    <3> QED
      BY <3>1, <3>2, <3>3, <2>1
  <2> QED
    BY <1>2, <2>4, <2>6, <2>7 DEF FitsNearest, Nearest, Unit
<1> QED
  BY <1>1, <1>2 DEF CTypes

(* coerce_value and fit_value have the same limits, for every type and every *)
(* integer: a user may write what a signal could leave, and nothing else.    *)
THEOREM LimitsAgree ==
    ASSUME NEW ctype \in CTypes, NEW n \in Int
    PROVE  SameLimits(ctype, n)
<1>1. ~Accepts(ctype, Boolean(n))
  BY DEF Accepts, Boolean
<1>2. CASE ctype \in Floats
  BY <1>1, <1>2 DEF SameLimits, Accepts, Whole, FitValue, Floats, Ints
<1>3. CASE ctype \in Ints /\ ctype \notin Floats
  <2>1. (4 * n) % 4 = 0 /\ (4 * n) \div 4 = n
    OBVIOUS
  <2>2. Round(4 * n) = n
    BY <2>1 DEF Round, Unit
  <2>3. FitValue(ctype, 4 * n) = 4 * Clamp(ctype, n)
    BY <1>3, <2>2 DEF FitValue, Unit
  <2>4. Accepts(ctype, Whole(n)) <=> n \in Low(ctype)..High(ctype)
    BY <1>3, <2>1, Limits DEF Accepts, Whole, InRange, Unit
  <2>5. 4 * Clamp(ctype, n) = 4 * n <=> n \in Low(ctype)..High(ctype)
    BY <1>3, Ranges, Limits
  <2> QED
    BY <1>1, <2>3, <2>4, <2>5 DEF SameLimits, Unit
<1> QED
  BY <1>2, <1>3 DEF CTypes

----------------------------------------------------------------------------
(* Writes.  A tick reads what users may write and writes what they may not. *)

IsFunction(f, D) == f = [x \in D |-> f[x]]

LEMMA Changed ==
    ASSUME NEW D, NEW f, IsFunction(f, D), NEW d, NEW y
    PROVE  /\ IsFunction([f EXCEPT ![d] = y], D)
           /\ \A x \in D : x # d => [f EXCEPT ![d] = y][x] = f[x]
           /\ d \in D => [f EXCEPT ![d] = y][d] = y
  BY DEF IsFunction

LEMMA ModeOf ==
    /\ Sensors \subseteq Vars /\ Writable \subseteq Vars
    /\ \A v \in Vars : v \in Sensors <=> v \notin Writable
  BY SimulationAssumption DEF Writable

(* The buffer agrees with what users wrote, where they may write, and with  *)
(* what the engine published, where they may not.                           *)
Agrees ==
    /\ IsFunction(buffer, Vars) /\ IsFunction(values, Vars) /\ IsFunction(written, Writable)
    /\ \A v \in Writable : buffer[v] = written[v]
    /\ \A s \in Sensors : buffer[s] = values[s]

LEMMA AgreesInit == Init => Agrees
  BY SimulationAssumption, ModeOf DEF Init, Agrees, IsFunction

LEMMA AgreesStep == Agrees /\ [Next]_vars => Agrees'
<1> SUFFICES ASSUME Agrees, [Next]_vars
             PROVE  Agrees'
  OBVIOUS
<1>1. CASE Advance
  BY <1>1 DEF Agrees, Advance, IsFunction
<1>2. CASE BeginTick
  BY <1>2 DEF Agrees, BeginTick, IsFunction
<1>3. CASE TickStep
  <2>1. UNCHANGED written
    BY <1>3 DEF TickStep
  <2>2. ASSUME NEW v \in Sensors, Publish(v)
        PROVE  Agrees'
    <3>1. PICK y : values' = [values EXCEPT ![v] = y] /\ buffer' = [buffer EXCEPT ![v] = y]
      BY <2>2 DEF Publish
    <3>2. IsFunction(buffer', Vars) /\ IsFunction(values', Vars)
      BY <3>1, Changed DEF Agrees
    <3>3. \A x \in Vars : x # v => buffer'[x] = buffer[x] /\ values'[x] = values[x]
      BY <3>1, Changed DEF Agrees
    <3>4. buffer'[v] = y /\ values'[v] = y
      <4>1. v \in Vars
        BY ModeOf
      <4> QED
        BY <3>1, <4>1 DEF Agrees, IsFunction
    <3> QED
      BY <2>1, <3>2, <3>3, <3>4, ModeOf DEF Agrees, IsFunction
  <2>3. ASSUME NEW v, v \notin Sensors, ReadBack(v)
        PROVE  Agrees'
    <3>1. IsFunction(values', Vars) /\ \A x \in Vars : x # v => values'[x] = values[x]
      BY <2>3 DEF Agrees, ReadBack, IsFunction
    <3> QED
      BY <2>1, <2>3, <3>1, ModeOf DEF Agrees, ReadBack, IsFunction
  <2> QED
    BY <1>3, <2>2, <2>3 DEF TickStep
<1>4. CASE BeginSample
  BY <1>4 DEF Agrees, BeginSample, IsFunction
<1>5. CASE SampleStep
  BY <1>5 DEF Agrees, SampleStep, IsFunction
<1>6. ASSUME NEW v \in Vars, NEW input \in Inputs, Write(v, input)
      PROVE  Agrees'
  <2>1. v \in Writable /\ UNCHANGED values
    BY <1>6 DEF Write, Writable
  <2>2. /\ IsFunction(buffer', Vars) /\ buffer'[v] = input.x
        /\ \A x \in Vars : x # v => buffer'[x] = buffer[x]
    BY <1>6 DEF Write, Agrees, IsFunction
  <2>3. /\ IsFunction(written', Writable) /\ written'[v] = input.x
        /\ \A x \in Writable : x # v => written'[x] = written[x]
    BY <1>6, <2>1 DEF Write, Agrees, IsFunction
  <2> QED
    BY <2>1, <2>2, <2>3, ModeOf DEF Agrees, IsFunction
<1>7. CASE Stop
  BY <1>7 DEF Agrees, Stop, IsFunction
<1>8. CASE Await
  BY <1>8 DEF Agrees, Await, IsFunction
<1>9. CASE UNCHANGED vars
  BY <1>9 DEF Agrees, vars, IsFunction
<1> QED
  BY <1>1, <1>2, <1>3, <1>4, <1>5, <1>6, <1>7, <1>8, <1>9 DEF Next

(* No tick undoes a write, for any variables, signals and writes: a tick     *)
(* only reads what users may write.                                         *)
THEOREM WritesStay == Spec => []WrittenStays
<1>1. Agrees => WrittenStays
  BY DEF Agrees, WrittenStays
<1> QED
  BY AgreesInit, AgreesStep, <1>1, PTL DEF Spec

----------------------------------------------------------------------------
(* Points.  The sampler begins after the engine and does not meet a tick.    *)

Ordered ==
    /\ now \in Nat
    /\ "engine" \in started => engine.t \in Nat
    /\ engine = [at |-> engine.at, t |-> engine.t]
    /\ sampler = [at |-> sampler.at, got |-> sampler.got]
    /\ sampler.at \in Nat
    /\ sampler.at > 0 => "engine" \in started /\ ~Ticking

(* What a snapshot under way has read: the places before the next one, and  *)
(* of the sensors what they still show.                                     *)
Seen(at) == {Order[i] : i \in {j \in Reads : j < at}}

Reading ==
    /\ sampler.at \in {0} \cup Reads
    /\ DOMAIN sampler.got = Seen(sampler.at)
    /\ \A s \in Seen(sampler.at) \cap Sensors : sampler.got[s] = values[s]

(* The places of the catalog. *)
LEMMA Places ==
    /\ Len(Order) \in Nat /\ DOMAIN Order = 1..Len(Order)
    /\ DOMAIN Plan = 1..(Len(Order) + Len(Order))
    /\ \A i \in DOMAIN Order : Order[i] \in Vars /\ Plan[i] = Order[i]
    /\ \A k \in DOMAIN Plan : k > Len(Order) =>
          k - Len(Order) \in DOMAIN Order /\ Plan[k] = Order[k - Len(Order)]
    /\ Reads \in SUBSET (Nat \ {0}) /\ Accesses \in SUBSET (Nat \ {0})
<1>1. Len(Order) \in Nat /\ DOMAIN Order = 1..Len(Order)
  BY SimulationAssumption
<1>2. DOMAIN Plan = 1..(Len(Order) + Len(Order))
  BY SimulationAssumption DEF Plan
<1>3. \A i \in DOMAIN Order : Order[i] \in Vars
  BY DEF Vars
<1>4. \A i \in DOMAIN Order : Plan[i] = Order[i]
  BY SimulationAssumption DEF Plan
<1>5. \A k \in DOMAIN Plan : k > Len(Order) =>
          k - Len(Order) \in DOMAIN Order /\ Plan[k] = Order[k - Len(Order)]
  BY SimulationAssumption, <1>1, <1>2 DEF Plan
<1>6. Reads \in SUBSET (Nat \ {0})
  BY <1>1 DEF Reads
<1>7. Accesses \in SUBSET (Nat \ {0})
  BY <1>1, <1>2 DEF Accesses
<1> QED
  BY <1>1, <1>2, <1>3, <1>4, <1>5, <1>6, <1>7

(* Every variable has a place, and one among the accesses of a tick.        *)
LEMMA PlaceOf ==
    /\ \A v \in Readable : \E i \in Reads : Order[i] = v
    /\ \A v \in Writable : \E k \in Accesses : k <= Len(Order) /\ Plan[k] = v
    /\ \A s \in Sensors : \E k \in Accesses : k > Len(Order) /\ Plan[k] = s
    /\ \A k \in Accesses : /\ k <= Len(Order) => Plan[k] \in Writable
                           /\ k > Len(Order) => Plan[k] \in Sensors
<1>1. \A v \in Vars : \E i \in DOMAIN Order : Order[i] = v
  BY DEF Vars
<1>2. \A v \in Readable : \E i \in Reads : Order[i] = v
  BY <1>1 DEF Reads, Readable
<1>3. \A v \in Writable : \E k \in Accesses : k <= Len(Order) /\ Plan[k] = v
  <2> SUFFICES ASSUME NEW v \in Writable
               PROVE  \E k \in Accesses : k <= Len(Order) /\ Plan[k] = v
    OBVIOUS
  <2>1. PICK i \in DOMAIN Order : Order[i] = v
    BY <1>1, ModeOf
  <2>2. i \in DOMAIN Plan /\ i <= Len(Order) /\ Plan[i] = v
    BY <2>1, Places
  <2> QED
    BY <2>2 DEF Accesses
<1>4. \A s \in Sensors : \E k \in Accesses : k > Len(Order) /\ Plan[k] = s
  <2> SUFFICES ASSUME NEW s \in Sensors
               PROVE  \E k \in Accesses : k > Len(Order) /\ Plan[k] = s
    OBVIOUS
  <2>1. PICK i \in DOMAIN Order : Order[i] = s
    BY <1>1, ModeOf
  <2> DEFINE k == i + Len(Order)
  <2>2. k \in DOMAIN Plan /\ k > Len(Order) /\ k - Len(Order) = i
    BY Places
  <2> HIDE DEF k
  <2>3. Plan[k] = s
    BY <2>1, <2>2, Places
  <2>4. ~ k <= Len(Order)
    BY <2>2, Places
  <2> QED
    BY <2>2, <2>3, <2>4 DEF Accesses
<1>5. \A k \in Accesses : /\ k <= Len(Order) => Plan[k] \in Writable
                          /\ k > Len(Order) => Plan[k] \in Sensors
  BY Places DEF Accesses
<1> QED
  BY <1>2, <1>3, <1>4, <1>5

LEMMA OrderedInit == Init => Ordered
  BY DEF Init, Ordered, Ticking

LEMMA OrderedStep == Ordered /\ [Next]_vars => Ordered'
<1> SUFFICES ASSUME Ordered, [Next]_vars
             PROVE  Ordered'
  OBVIOUS
<1>1. CASE Advance
  BY <1>1 DEF Ordered, Advance, Ticking, loop
<1>2. CASE BeginTick
  <2>1. /\ engine' = [at |-> Following(0, Accesses), t |-> now]
        /\ now' = now /\ sampler' = sampler
        /\ ~(sampler.at > 0)
    BY <1>2 DEF BeginTick, Sampling
  <2> QED
    BY <2>1 DEF Ordered
<1>3. CASE TickStep
  <2>1. /\ engine.at > 0 /\ UNCHANGED <<now, sampler, started>>
        /\ engine' = [engine EXCEPT !.at = Following(@, Accesses)]
    BY <1>3 DEF TickStep, Ticking
  <2>2. engine' = [at |-> Following(engine.at, Accesses), t |-> engine.t]
    BY <2>1 DEF Ordered
  <2>3. ~(sampler.at > 0)
    BY <2>1 DEF Ordered, Ticking
  <2> QED
    BY <2>1, <2>2, <2>3 DEF Ordered
<1>4. CASE BeginSample
  <2>1. "engine" \in started /\ started' = started \cup {"sampler"}
    BY <1>4 DEF BeginSample, Begin
  <2>2. /\ sampler' = [at |-> Following(0, Reads), got |-> <<>>] /\ UNCHANGED <<now, engine>>
        /\ ~Ticking
    BY <1>4 DEF BeginSample
  <2>3. Following(0, Reads) \in Nat
    BY Places, PlaceAfter
  <2> QED
    BY <2>1, <2>2, <2>3 DEF Ordered, Ticking
<1>5. CASE SampleStep
  <2>1. UNCHANGED <<now, engine, started>> /\ sampler.at > 0
    BY <1>5 DEF SampleStep, Sampling
  <2>2. \E got : sampler' = [at |-> Following(sampler.at, Reads), got |-> got]
    BY <1>5 DEF SampleStep
  <2>3. Following(sampler.at, Reads) \in Nat
    BY Places, PlaceAfter DEF Ordered
  <2> QED
    BY <2>1, <2>2, <2>3 DEF Ordered, Ticking
<1>6. ASSUME NEW v \in Vars, NEW input \in Inputs, Write(v, input)
      PROVE  Ordered'
  BY <1>6 DEF Ordered, Write, Ticking, loop
<1>7. CASE Stop
  BY <1>7 DEF Ordered, Stop, Ticking
<1>8. CASE Await
  BY <1>8 DEF Ordered, Await, Ticking
<1>9. CASE UNCHANGED vars
  BY <1>9 DEF Ordered, vars, Ticking, loop
<1> QED
  BY <1>1, <1>2, <1>3, <1>4, <1>5, <1>6, <1>7, <1>8, <1>9 DEF Next

(* Steps that leave the snapshot, the points and the sensors alone.         *)
LEMMA ReadingKept ==
    ASSUME Reading, PointWhole, UNCHANGED <<sampler, point>>,
           \A s \in Sensors : values'[s] = values[s]
    PROVE  Reading' /\ PointWhole'
  BY DEF Reading, PointWhole

LEMMA ReadingStep ==
    Agrees /\ Ordered /\ Reading /\ PointWhole /\ [Next]_vars => Reading' /\ PointWhole'
<1> SUFFICES ASSUME Agrees, Ordered, Reading, PointWhole, [Next]_vars
             PROVE  Reading' /\ PointWhole'
  OBVIOUS
<1>1. CASE Advance
  BY <1>1, ReadingKept DEF Advance, loop
<1>2. CASE BeginTick
  BY <1>2, ReadingKept DEF BeginTick
<1>3. CASE TickStep
  <2>1. UNCHANGED <<sampler, point>> /\ sampler.at = 0
    BY <1>3 DEF TickStep, Ordered
  <2>2. Seen(0) = {}
    BY Places DEF Seen
  <2> QED
    BY <2>1, <2>2 DEF Reading, PointWhole
<1>4. CASE BeginSample
  <2> DEFINE at == Following(0, Reads)
  <2>1. sampler'.got = <<>> /\ sampler'.at = at /\ UNCHANGED <<point, values>>
    BY <1>4 DEF BeginSample
  <2>2. at \in {0} \cup Reads /\ (at # 0 => \A i \in Reads : i < at => i <= 0)
    BY Places, PlaceAfter
  <2>3. Seen(at) = {}
    <3>1. \A i \in Reads : i \in Nat /\ i # 0
      BY Places
    <3> HIDE DEF at
    <3>2. \A i \in Reads : ~ i < at
      BY <2>2, <3>1
    <3> QED
      BY <3>2 DEF Seen
  <2>4. DOMAIN <<>> = {}
    OBVIOUS
  <2> HIDE DEF at
  <2> QED
    BY <2>1, <2>2, <2>3, <2>4 DEF Reading, PointWhole
<1>5. CASE SampleStep
  <2> DEFINE v == Order[sampler.at]
             got == [x \in DOMAIN sampler.got \cup {v} |->
                        IF x = v THEN buffer[v] ELSE sampler.got[x]]
             at == Following(sampler.at, Reads)
  <2>1. sampler.at > 0 /\ sampler.at \in Reads /\ UNCHANGED <<values, buffer>>
    <3>1. sampler.at \in Nat /\ sampler.at > 0
      BY <1>5 DEF SampleStep, Sampling, Ordered
    <3> QED
      BY <1>5, <3>1 DEF SampleStep, Reading
  <2>2. sampler' = [at |-> at, got |-> IF at = 0 THEN <<>> ELSE got]
    BY <1>5 DEF SampleStep
  <2>3. point' = IF at = 0 THEN [got |-> got, t |-> engine.t, tick |-> values] ELSE point
    BY <1>5 DEF SampleStep
  <2>4. /\ at \in {0} \cup Reads
        /\ at # 0 => sampler.at < at /\ \A i \in Reads : i < at => i <= sampler.at
        /\ at = 0 => \A i \in Reads : i <= sampler.at
    BY Places, PlaceAfter DEF Ordered
  <2> DEFINE S == {Order[i] : i \in {j \in Reads : j <= sampler.at}}
  <2>5. DOMAIN got = S
    <3>1. DOMAIN got = Seen(sampler.at) \cup {v}
      BY DEF Reading
    <3>2. \A i \in Reads : i <= sampler.at <=> (i < sampler.at \/ i = sampler.at)
      <4>1. sampler.at \in Nat /\ \A i \in Reads : i \in Nat
        BY <2>1, Places
      <4> QED
        BY <4>1
    <3> QED
      BY <2>1, <3>1, <3>2 DEF Seen
  <2>6. \A s \in S \cap Sensors : got[s] = values[s]
    <3> SUFFICES ASSUME NEW s \in S, s \in Sensors PROVE got[s] = values[s]
      OBVIOUS
    <3>1. CASE s = v
      BY <2>5, <3>1 DEF Agrees
    <3>2. CASE s # v
      <4>1. s \in Seen(sampler.at)
        BY <2>5, <3>2 DEF Reading
      <4>2. got[s] = sampler.got[s]
        BY <2>5, <3>2
      <4> QED
        BY <4>1, <4>2 DEF Reading
    <3> QED
      BY <3>1, <3>2
  <2>7. engine.t \in Nat
    BY <2>1 DEF Ordered
  <2> HIDE DEF got, at
  <2>8. CASE at = 0
    <3>1. point' = [got |-> got, t |-> engine.t, tick |-> values]
      BY <2>3, <2>8
    <3>2. sampler'.got = <<>> /\ sampler'.at = 0
      BY <2>2, <2>8
    <3>3. S = Readable
      <4>1. \A i \in Reads : i <= sampler.at /\ Order[i] \in Readable
        BY <2>4, <2>8 DEF Reads
      <4> QED
        BY <4>1, PlaceOf
    <3>4. Sensors \subseteq Readable
      BY SimulationAssumption DEF Readable
    <3>5. PointWhole'
      <4>1. /\ point'.t \in Nat /\ DOMAIN point'.got = Readable
            /\ \A s \in Sensors : point'.got[s] = point'.tick[s]
        BY <2>5, <2>6, <2>7, <3>1, <3>3, <3>4
      <4> QED
        BY <4>1 DEF PointWhole
    <3>6. Seen(0) = {}
      BY Places DEF Seen
    <3> QED
      BY <3>2, <3>5, <3>6 DEF Reading
  <2>9. CASE at # 0
    <3>1. sampler'.got = got /\ sampler'.at = at /\ point' = point
      BY <2>2, <2>3, <2>9
    <3>2. S = Seen(at)
      <4>1. \A i \in Reads : i < at <=> i <= sampler.at
        <5>1. \A i \in Reads : i \in Nat
          BY Places
        <5>2. sampler.at \in Nat /\ at \in Nat
          BY <2>1, <2>4, <2>9, <5>1
        <5> QED
          BY <2>4, <2>9, <5>1, <5>2
      <4> QED
        BY <4>1 DEF Seen
    <3> QED
      BY <2>1, <2>4, <2>5, <2>6, <3>1, <3>2 DEF Reading, PointWhole
  <2> QED
    BY <2>8, <2>9
<1>6. ASSUME NEW v \in Vars, NEW input \in Inputs, Write(v, input)
      PROVE  Reading' /\ PointWhole'
  BY <1>6, ReadingKept DEF Write, loop
<1>7. CASE Stop
  BY <1>7, ReadingKept DEF Stop
<1>8. CASE Await
  BY <1>8, ReadingKept DEF Await
<1>9. CASE UNCHANGED vars
  BY <1>9, ReadingKept DEF vars, loop
<1> QED
  BY <1>1, <1>2, <1>3, <1>4, <1>5, <1>6, <1>7, <1>8, <1>9 DEF Next

(* Every point of the history is of one tick, and of one that has been, and *)
(* has every readable variable, however long the catalog: the sampler       *)
(* begins after the engine and the loop runs one of them at a time.         *)
THEOREM PointsAreWhole == Spec => []PointWhole
<1>1. Init => Reading /\ PointWhole
  <2>1. DOMAIN <<>> = {}
    OBVIOUS
  <2>2. Seen(0) = {}
    BY Places DEF Seen
  <2> QED
    BY <2>1, <2>2 DEF Init, Reading, PointWhole
<1>2. Agrees /\ Ordered /\ Reading /\ PointWhole /\ [Next]_vars
        => (Agrees /\ Ordered /\ Reading /\ PointWhole)'
  BY AgreesStep, OrderedStep, ReadingStep
<1> QED
  BY AgreesInit, OrderedInit, <1>1, <1>2, PTL DEF Spec
----------------------------------------------------------------------------
(* Signals. *)

LEMMA WalkTerm ==
    ASSUME NEW term \in Terms, term.kind = "walk"
    PROVE  term.start \in Int /\ term.step \in Nat /\ term.low \in Int /\ term.high \in Int
  BY DEF Terms

LEMMA WithinInt ==
    ASSUME NEW x \in Int, NEW low \in Int, NEW high \in Int
    PROVE  Within(x, low, high) \in Int
  BY DEF Within

LEMMA WalkOf ==
    ASSUME NEW v \in Sensors, Walks(v) # {}
    PROVE  LET term == Signal[v][CHOOSE i \in Walks(v) : TRUE] IN
           term \in Terms /\ term.kind = "walk"
<1> DEFINE i == CHOOSE j \in Walks(v) : TRUE
<1>1. i \in Walks(v)
  OBVIOUS
<1> HIDE DEF i
<1>2. i \in DOMAIN Signal[v] /\ Signal[v][i].kind = "walk"
  BY <1>1 DEF Walks
<1>3. Signal[v] \in Seq(Terms)
  BY SimulationAssumption
<1>4. Signal[v][i] \in Terms
  BY <1>2, <1>3
<1> QED
  BY <1>2, <1>4 DEF i

LEMMA MovesAreNumbers ==
    ASSUME NEW v \in Sensors, walks[v] \in Int, NEW w \in Moves(v)
    PROVE  w \in Int
<1>1. CASE Walks(v) = {}
  BY <1>1 DEF Moves
<1>2. CASE Walks(v) # {}
  <2> DEFINE term == Signal[v][CHOOSE i \in Walks(v) : TRUE]
  <2>1. term.step \in Nat /\ term.low \in Int /\ term.high \in Int
    BY <1>2, WalkOf, WalkTerm
  <2>2. PICK d \in (-term.step)..term.step : w = Within(walks[v] + d, term.low, term.high)
    BY <1>2 DEF Moves
  <2> HIDE DEF term
  <2>3. walks[v] + d \in Int
    BY <2>1
  <2> QED
    BY <2>1, <2>2, <2>3, WithinInt
<1> QED
  BY <1>1, <1>2

LEMMA QuotientInt ==
    ASSUME NEW a \in Int, NEW b \in Nat \ {0}
    PROVE  a \div b \in Int /\ a % b \in Int
  OBVIOUS

LEMMA ProductInt ==
    ASSUME NEW a \in Int, NEW b \in Int
    PROVE  a * b \in Int
  OBVIOUS

(* Every term gives whole numbers of quarters. *)
LEMMA TermsAreNumbers ==
    ASSUME NEW term \in Terms, NEW t \in Int, NEW w \in Int, values \in [Vars -> Int]
    PROVE  Of(term, t, w) \subseteq Int
<1>1. CASE term \in [kind: {"constant"}, value: Int]
  <2>1. Of(term, t, w) = {term.value}
    BY <1>1 DEF Of
  <2> QED
    BY <1>1, <2>1
<1>2. CASE term \in [kind: {"ramp"}, rate: Int, start: Int]
  <2>1. Of(term, t, w) = {term.start + term.rate * t}
    BY <1>2 DEF Of
  <2>2. term.start \in Int /\ term.rate * t \in Int
    BY <1>2, ProductInt
  <2> QED
    BY <2>1, <2>2
<1>3. CASE term \in [kind: {"square"}, period: Nat \ {0}, on: Int, low: Int, high: Int]
  <2>1. Of(term, t, w) = {IF t % term.period < term.on THEN term.high ELSE term.low}
    BY <1>3 DEF Of
  <2> QED
    BY <1>3, <2>1
<1>4. CASE term \in [kind: {"sawtooth"}, period: Nat \ {0}, low: Int, high: Int]
  <2>1. Of(term, t, w)
          = {term.low + ((term.high - term.low) * (t % term.period)) \div term.period}
    BY <1>4 DEF Of
  <2>2. term.period \in Nat \ {0} /\ term.low \in Int /\ term.high - term.low \in Int
    BY <1>4
  <2>3. t % term.period \in Int
    BY <2>2, QuotientInt
  <2>4. (term.high - term.low) * (t % term.period) \in Int
    BY <2>2, <2>3, ProductInt
  <2>5. ((term.high - term.low) * (t % term.period)) \div term.period \in Int
    BY <2>2, <2>4, QuotientInt
  <2> QED
    BY <2>1, <2>2, <2>5
<1>5. CASE term \in [kind: {"sine"}, amplitude: Nat, offset: Int]
  <2>1. Of(term, t, w) = (term.offset - term.amplitude)..(term.offset + term.amplitude)
    BY <1>5 DEF Of
  <2> QED
    BY <2>1
<1>6. CASE term \in [kind: {"noise"}, amplitude: Nat]
  <2>1. Of(term, t, w) = (-term.amplitude)..term.amplitude
    BY <1>6 DEF Of
  <2> QED
    BY <2>1
<1>7. CASE term \in [kind: {"follow"}, target: Vars]
  <2>1. Of(term, t, w) = {values[term.target]}
    BY <1>7 DEF Of
  <2> QED
    BY <1>7, <2>1
<1>8. CASE term \in [kind: {"walk"}, start: Int, step: Nat, low: Int, high: Int]
  <2>1. Of(term, t, w) = {w}
    BY <1>8 DEF Of
  <2> QED
    BY <2>1
<1> QED
  BY <1>1, <1>2, <1>3, <1>4, <1>5, <1>6, <1>7, <1>8, Zenon DEF Terms

(* The sums of the first terms of a signal: what Samples defines by         *)
(* recursion exists, for a signal of any length.                            *)
SumsTo(v, t, w, k, f) ==
    f = [i \in 0..k |-> IF i = 0 THEN {0} ELSE Plus(f[i - 1], Of(Signal[v][i], t, w))]

SumsAt(v, t, w, k, f) ==
    f[0] = {0} /\ \A i \in 1..k : f[i] = Plus(f[i - 1], Of(Signal[v][i], t, w))

LEMMA SumsByTerm ==
    ASSUME NEW v, NEW t, NEW w, NEW k \in Nat, NEW f, SumsTo(v, t, w, k, f)
    PROVE  SumsAt(v, t, w, k, f)
<1>1. ASSUME NEW i \in 0..k
      PROVE  f[i] = IF i = 0 THEN {0} ELSE Plus(f[i - 1], Of(Signal[v][i], t, w))
  BY Zenon DEF SumsTo
<1>2. 0 \in 0..k
  OBVIOUS
<1>3. \A i \in 1..k : i \in 0..k /\ i # 0
  OBVIOUS
<1> QED
  BY <1>1, <1>2, <1>3, Zenon DEF SumsAt

LEMMA SumsExist ==
    ASSUME NEW v, NEW t, NEW w, NEW k \in Nat
    PROVE  \E f : SumsTo(v, t, w, k, f)
<1> DEFINE P == {n \in Nat : \E f : SumsTo(v, t, w, n, f)}
<1>1. 0 \in P
  <2> DEFINE f == [i \in 0..0 |-> {0}]
  <2>1. SumsTo(v, t, w, 0, f)
    BY DEF SumsTo
  <2> QED
    BY <2>1
<1>2. ASSUME NEW n \in Nat, n \in P PROVE n + 1 \in P
  <2>1. PICK f : SumsTo(v, t, w, n, f)
    BY <1>2
  <2> DEFINE next == Plus(f[n], Of(Signal[v][n + 1], t, w))
             g == [i \in 0..(n + 1) |-> IF i = n + 1 THEN next ELSE f[i]]
             Body(i) == IF i = 0 THEN {0} ELSE Plus(g[i - 1], Of(Signal[v][i], t, w))
  <2>2. ASSUME NEW i \in 0..(n + 1)
        PROVE  g[i] = Body(i)
    <3>1. CASE i = 0
      <4>1. g[i] = f[i] /\ 0 \in 0..n
        BY <3>1
      <4>2. f[0] = {0}
        BY <2>1, SumsByTerm DEF SumsAt
      <4> QED
        BY <3>1, <4>1, <4>2
    <3>2. CASE i = n + 1
      <4>1. g[i] = next /\ i # 0 /\ i - 1 = n /\ g[i - 1] = f[n]
        BY <3>2
      <4> HIDE DEF g
      <4> QED
        BY <3>2, <4>1
    <3>3. CASE i # 0 /\ i # n + 1
      <4>1. i \in 1..n /\ i - 1 \in 0..(n + 1) /\ i - 1 # n + 1
        BY <3>3
      <4>2. g[i] = f[i] /\ g[i - 1] = f[i - 1]
        BY <3>3, <4>1
      <4>3. f[i] = Plus(f[i - 1], Of(Signal[v][i], t, w))
        <5>1. SumsAt(v, t, w, n, f)
          BY <2>1, SumsByTerm
        <5> QED
          BY <4>1, <5>1, Zenon DEF SumsAt
      <4> HIDE DEF g
      <4> QED
        BY <3>3, <4>2, <4>3
    <3> QED
      BY <3>1, <3>2, <3>3
  <2>3. g = [i \in 0..(n + 1) |-> g[i]]
    OBVIOUS
  <2> HIDE DEF g
  <2>4. [i \in 0..(n + 1) |-> g[i]] = [i \in 0..(n + 1) |-> Body(i)]
    <3> HIDE DEF Body
    <3> QED
      BY <2>2
  <2>5. SumsTo(v, t, w, n + 1, g)
    BY <2>3, <2>4, Zenon DEF SumsTo
  <2>6. n + 1 \in Nat
    OBVIOUS
  <2> QED
    BY <2>5, <2>6
<1> HIDE DEF P
<1>3. k \in P
  BY <1>1, <1>2, Induction
<1> QED
  BY <1>3 DEF P

LEMMA SamplesSum ==
    ASSUME NEW v \in Sensors, NEW t, NEW w
    PROVE  \E f : SumsTo(v, t, w, Len(Signal[v]), f) /\ Samples(v, t, w) = f[Len(Signal[v])]
<1> DEFINE f == CHOOSE g : SumsTo(v, t, w, Len(Signal[v]), g)
<1>1. Len(Signal[v]) \in Nat
  BY SimulationAssumption
<1>2. SumsTo(v, t, w, Len(Signal[v]), f)
  BY <1>1, SumsExist
<1>3. Samples(v, t, w) = f[Len(Signal[v])]
  BY DEF Samples, SumsTo
<1> QED
  BY <1>2, <1>3

(* What a signal gives is a number, however many terms it has. *)
LEMMA SamplesAreNumbers ==
    ASSUME NEW v \in Sensors, NEW t \in Int, NEW w \in Int, values \in [Vars -> Int]
    PROVE  Samples(v, t, w) \subseteq Int
<1> DEFINE n == Len(Signal[v])
<1>1. Signal[v] \in Seq(Terms) /\ n \in Nat /\ \A i \in 1..n : Signal[v][i] \in Terms
  BY SimulationAssumption
<1>2. PICK f : SumsTo(v, t, w, n, f) /\ Samples(v, t, w) = f[n]
  BY SamplesSum
<1> HIDE DEF n
<1>0. /\ f[0] = {0}
      /\ \A i \in 1..n : f[i] = Plus(f[i - 1], Of(Signal[v][i], t, w))
  <2>1. SumsAt(v, t, w, n, f)
    BY <1>1, <1>2, SumsByTerm
  <2> QED
    BY <2>1, Zenon DEF SumsAt
<1> DEFINE P == {k \in Nat : k <= n => f[k] \subseteq Int}
<1>3. 0 \in P
  BY <1>0
<1>4. ASSUME NEW k \in Nat, k \in P PROVE k + 1 \in P
  <2>0. k + 1 \in Nat
    OBVIOUS
  <2> SUFFICES ASSUME k + 1 <= n PROVE f[k + 1] \subseteq Int
    BY <2>0
  <2>1. k <= n /\ (k + 1) - 1 = k /\ k + 1 \in 1..n
    BY <1>1
  <2>2. f[k] \subseteq Int
    BY <1>4, <2>1
  <2>3. f[k + 1] = Plus(f[k], Of(Signal[v][k + 1], t, w))
    BY <1>0, <2>1
  <2>4. Of(Signal[v][k + 1], t, w) \subseteq Int
    BY <1>1, <2>1, TermsAreNumbers
  <2> QED
    BY <2>2, <2>3, <2>4 DEF Plus
<1> HIDE DEF P
<1>5. n \in P
  BY <1>1, <1>3, <1>4, Induction
<1> QED
  BY <1>1, <1>2, <1>5 DEF P

LEMMA FitsNumber ==
    ASSUME NEW ctype \in CTypes, NEW x \in Int
    PROVE  FitValue(ctype, x) \in Int /\ Represents(ctype, FitValue(ctype, x))
<1>1. CASE ctype \in Floats
  <2>1. ctype \notin Ints
    BY <1>1 DEF Floats, Ints
  <2> QED
    BY <1>1, <2>1 DEF FitValue, Represents
<1>2. CASE ctype \notin Floats
  <2>1. ctype \in Ints
    BY <1>2 DEF CTypes
  <2>2. Round(x) \in Int
    BY Rounded
  <2>3. Clamp(ctype, Round(x)) \in Int
    BY <2>1, <2>2, Ranges, Limits
  <2>4. FitValue(ctype, x) = 4 * Clamp(ctype, Round(x))
    BY <1>2 DEF FitValue, Unit
  <2>5. FitsNearest(ctype, x)
    BY SamplesFitNearest
  <2> QED
    BY <1>2, <2>3, <2>4, <2>5 DEF FitsNearest, Nearest
<1> QED
  BY <1>1, <1>2

(* The larger of two samples does not become the smaller value. *)
LEMMA RoundMonotone ==
    ASSUME NEW x \in Int, NEW y \in Int, x <= y
    PROVE  Round(x) <= Round(y)
<1> DEFINE n == x \div 4  rest == x % 4  m == y \div 4  other == y % 4
<1>1. n \in Int /\ rest \in 0..3 /\ x = 4 * n + rest
  BY Quotient
<1>2. m \in Int /\ other \in 0..3 /\ y = 4 * m + other
  BY Quotient
<1>3. Round(x) = IF 2 * rest < 4 \/ (2 * rest = 4 /\ n % 2 = 0) THEN n ELSE n + 1
  BY DEF Round, Unit
<1>4. Round(y) = IF 2 * other < 4 \/ (2 * other = 4 /\ m % 2 = 0) THEN m ELSE m + 1
  BY DEF Round, Unit
<1> HIDE DEF n, rest, m, other
<1>5. n < m \/ (n = m /\ rest <= other)
  BY <1>1, <1>2
<1>6. CASE n < m
  BY <1>1, <1>2, <1>3, <1>4, <1>6
<1>7. CASE n = m /\ rest <= other
  BY <1>1, <1>2, <1>3, <1>4, <1>7
<1> QED
  BY <1>5, <1>6, <1>7

LEMMA FitMonotone ==
    ASSUME NEW ctype \in CTypes, NEW x \in Int, NEW y \in Int, x <= y
    PROVE  FitValue(ctype, x) <= FitValue(ctype, y)
<1>1. CASE ctype \in Floats
  BY <1>1 DEF FitValue
<1>2. CASE ctype \notin Floats
  <2>1. Low(ctype) \in Int /\ High(ctype) \in Int /\ Low(ctype) <= High(ctype)
    BY <1>2, Limits DEF CTypes
  <2>2. Round(x) \in Int /\ Round(y) \in Int /\ Round(x) <= Round(y)
    BY Rounded, RoundMonotone
  <2>3. /\ Clamp(ctype, Round(x)) \in Int /\ Clamp(ctype, Round(y)) \in Int
        /\ Clamp(ctype, Round(x)) <= Clamp(ctype, Round(y))
    BY <2>1, <2>2 DEF Clamp
  <2> QED
    BY <1>2, <2>3 DEF FitValue, Unit
<1> QED
  BY <1>1, <1>2

----------------------------------------------------------------------------
(* Types. *)

Numbers ==
    /\ buffer \in [Vars -> Int] /\ values \in [Vars -> Int]
    /\ walks \in [Sensors -> Int]
    /\ held \in [Writable -> SUBSET Int] /\ written \in [Writable -> Int]
    /\ \A v \in Vars : Represents(CType[v], buffer[v])

Clock ==
    /\ now \in 0..MaxTime
    /\ engine.at \in {0} \cup Accesses /\ engine.t \in -1..now
    /\ started \in {{}, {"engine"}, {"engine", "sampler"}}
    /\ app \in {"serving", "stopping", "stopped"}

Snapshot ==
    /\ sampler.at \in {0} \cup Reads
    /\ sampler.got \in [Seen(sampler.at) -> Int]

LEMMA TypeParts == TypeOK <=> Numbers /\ Clock /\ Snapshot
  BY DEF TypeOK, Numbers, Clock, Snapshot, Seen

LEMMA ModesOf ==
    /\ \A v \in Vars : CType[v] \in CTypes
    /\ Sensors \subseteq Vars /\ Writable \subseteq Vars
  BY ModeOf, SimulationAssumption

LEMMA WalksBegin ==
    ASSUME NEW v \in Sensors
    PROVE  (IF Walks(v) = {} THEN 0 ELSE Signal[v][CHOOSE i \in Walks(v) : TRUE].start) \in Int
<1>1. CASE Walks(v) = {}
  BY <1>1
<1>2. CASE Walks(v) # {}
  <2> DEFINE term == Signal[v][CHOOSE i \in Walks(v) : TRUE]
  <2>1. term.start \in Int
    BY <1>2, WalkOf, WalkTerm
  <2> QED
    BY <1>2, <2>1
<1> QED
  BY <1>1, <1>2

LEMMA TypesBegin == Init => Numbers /\ Clock /\ Snapshot
<1> SUFFICES ASSUME Init PROVE Numbers /\ Clock /\ Snapshot
  OBVIOUS
<1>1. /\ Initial \in [Vars -> Int] /\ MaxTime \in Nat
      /\ \A v \in Vars : Represents(CType[v], Initial[v])
  BY SimulationAssumption
<1>2. walks \in [Sensors -> Int]
  BY WalksBegin DEF Init
<1>3. Numbers
  BY <1>1, <1>2, ModesOf DEF Init, Numbers
<1>4. Clock
  BY <1>1 DEF Init, Clock
<1>5. Seen(0) = {}
  BY Places DEF Seen
<1>6. Snapshot
  <2>1. sampler.at = 0 /\ sampler.got = <<>>
    BY DEF Init
  <2>2. <<>> \in [{} -> Int]
    OBVIOUS
  <2> QED
    BY <1>5, <2>1, <2>2 DEF Snapshot
<1> QED
  BY <1>3, <1>4, <1>6

(* What users send and what signals give fits the registers.                *)
LEMMA NumbersStep == Numbers /\ Clock /\ Ordered /\ [Next]_vars => Numbers'
<1> SUFFICES ASSUME Numbers, Clock, Ordered, [Next]_vars PROVE Numbers'
  OBVIOUS
<1>1. CASE Advance
  BY <1>1 DEF Numbers, Advance
<1>2. CASE BeginTick
  <2>1. held' \in [Writable -> SUBSET Int]
    BY <1>2, ModesOf DEF BeginTick, Numbers
  <2> QED
    BY <1>2, <2>1 DEF Numbers, BeginTick
<1>3. CASE TickStep
  <2>1. UNCHANGED written
    BY <1>3 DEF TickStep
  <2>2. ASSUME NEW v \in Sensors, Publish(v)
        PROVE  Numbers'
    <3>0. PICK w \in Moves(v) : \E x \in Samples(v, engine.t, w) :
            /\ walks' = [walks EXCEPT ![v] = w]
            /\ values' = [values EXCEPT ![v] = FitValue(CType[v], x)]
            /\ buffer' = [buffer EXCEPT ![v] = FitValue(CType[v], x)]
            /\ UNCHANGED held
      BY <2>2, Zenon DEF Publish
    <3>1. PICK x \in Samples(v, engine.t, w) :
            /\ walks' = [walks EXCEPT ![v] = w]
            /\ values' = [values EXCEPT ![v] = FitValue(CType[v], x)]
            /\ buffer' = [buffer EXCEPT ![v] = FitValue(CType[v], x)]
            /\ UNCHANGED held
      BY <3>0
    <3>2. v \in Vars /\ CType[v] \in CTypes
      BY ModesOf
    <3>3. w \in Int
      BY MovesAreNumbers DEF Numbers
    <3>4. engine.t \in Int
      BY DEF Clock
    <3>5. x \in Int
      BY <3>3, <3>4, SamplesAreNumbers DEF Numbers
    <3>6. FitValue(CType[v], x) \in Int /\ Represents(CType[v], FitValue(CType[v], x))
      BY <3>2, <3>5, FitsNumber
    <3>7. walks' \in [Sensors -> Int]
      BY <3>1, <3>3 DEF Numbers
    <3>8. values' \in [Vars -> Int] /\ buffer' \in [Vars -> Int]
      BY <3>1, <3>6 DEF Numbers
    <3>9. \A u \in Vars : Represents(CType[u], buffer'[u])
      <4> SUFFICES ASSUME NEW u \in Vars PROVE Represents(CType[u], buffer'[u])
        OBVIOUS
      <4>1. CASE u = v
        BY <3>1, <3>2, <3>6, <4>1 DEF Numbers
      <4>2. CASE u # v
        BY <3>1, <4>2 DEF Numbers
      <4> QED
        BY <4>1, <4>2
    <3> QED
      BY <2>1, <3>1, <3>7, <3>8, <3>9 DEF Numbers
  <2>3. ASSUME NEW v, ReadBack(v)
        PROVE  Numbers'
    <3>1. values' \in [Vars -> Int]
      BY <2>3 DEF ReadBack, Numbers
    <3> QED
      BY <2>1, <2>3, <3>1 DEF Numbers, ReadBack
  <2> QED
    BY <1>3, <2>2, <2>3 DEF TickStep
<1>4. CASE BeginSample
  BY <1>4 DEF Numbers, BeginSample
<1>5. CASE SampleStep
  BY <1>5 DEF Numbers, SampleStep
<1>6. ASSUME NEW v \in Vars, NEW input \in Inputs, Write(v, input)
      PROVE  Numbers'
  <2>1. input.x \in Int /\ (input.form # "float" => input.x % Unit = 0)
    BY SimulationAssumption
  <2>2. Represents(CType[v], input.x)
    BY <1>6, <2>1 DEF Write, Accepts, Represents
  <2>3. v \in Writable
    BY <1>6 DEF Write, Writable
  <2>4. buffer' = [buffer EXCEPT ![v] = input.x] /\ written' = [written EXCEPT ![v] = input.x]
    BY <1>6 DEF Write
  <2>5. buffer' \in [Vars -> Int]
    BY <2>1, <2>4 DEF Numbers
  <2>6. written' \in [Writable -> Int]
    BY <2>1, <2>4 DEF Numbers
  <2>7. \A u \in Vars : Represents(CType[u], buffer'[u])
    <3> SUFFICES ASSUME NEW u \in Vars PROVE Represents(CType[u], buffer'[u])
      OBVIOUS
    <3>1. CASE u = v
      BY <2>2, <2>4, <3>1 DEF Numbers
    <3>2. CASE u # v
      BY <2>4, <3>2 DEF Numbers
    <3> QED
      BY <3>1, <3>2
  <2>8. held' \in [Writable -> SUBSET Int]
    <3>1. held' = [held EXCEPT ![v] = @ \cup {input.x}] \/ held' = held
      BY <1>6 DEF Write, Holding
    <3>2. held[v] \cup {input.x} \in SUBSET Int
      BY <2>1, <2>3 DEF Numbers
    <3> QED
      BY <3>1, <3>2 DEF Numbers
  <2> QED
    BY <1>6, <2>5, <2>6, <2>7, <2>8 DEF Numbers, Write
<1>7. CASE Stop
  BY <1>7 DEF Numbers, Stop
<1>8. CASE Await
  BY <1>8 DEF Numbers, Await
<1>9. CASE UNCHANGED vars
  BY <1>9 DEF Numbers, vars
<1> QED
  BY <1>1, <1>2, <1>3, <1>4, <1>5, <1>6, <1>7, <1>8, <1>9 DEF Next

LEMMA ClockStep == Clock /\ Ordered /\ [Next]_vars => Clock'
<1> SUFFICES ASSUME Clock, Ordered, [Next]_vars PROVE Clock'
  OBVIOUS
<1>1. MaxTime \in Nat /\ now \in Nat /\ engine.t \in Int
  BY SimulationAssumption DEF Clock
<1>2. CASE Advance
  <2>1. now' \in 0..MaxTime /\ engine'.t \in -1..now'
    BY <1>1, <1>2 DEF Clock, Advance, loop
  <2> QED
    BY <1>2, <2>1 DEF Clock, Advance, loop
<1>3. CASE BeginTick
  <2>1. engine'.at = Following(0, Accesses) /\ engine'.t = now /\ now' = now
    BY <1>3 DEF BeginTick
  <2>2. Following(0, Accesses) \in {0} \cup Accesses
    BY Places, PlaceAfter
  <2>3. started' \in {{}, {"engine"}, {"engine", "sampler"}}
    BY <1>3 DEF BeginTick, Begin, Clock
  <2>4. now \in -1..now
    BY <1>1
  <2> QED
    BY <1>3, <2>1, <2>2, <2>3, <2>4 DEF Clock, BeginTick
<1>4. CASE TickStep
  <2>1. engine'.at = Following(engine.at, Accesses) /\ engine'.t = engine.t
    BY <1>4 DEF TickStep, Ordered
  <2>2. engine.at \in Nat
    <3>1. \A k \in Accesses : k \in Nat
      BY Places
    <3> QED
      BY <3>1 DEF Clock
  <2>3. Following(engine.at, Accesses) \in {0} \cup Accesses
    BY <2>2, Places, PlaceAfter
  <2> QED
    BY <1>4, <2>1, <2>3 DEF Clock, TickStep
<1>5. CASE BeginSample
  <2>1. started' \in {{}, {"engine"}, {"engine", "sampler"}}
    BY <1>5 DEF BeginSample, Begin, Clock
  <2> QED
    BY <1>5, <2>1 DEF Clock, BeginSample
<1>6. CASE SampleStep
  BY <1>6 DEF Clock, SampleStep
<1>7. ASSUME NEW v \in Vars, NEW input \in Inputs, Write(v, input)
      PROVE  Clock'
  BY <1>7 DEF Clock, Write, loop
<1>8. CASE Stop
  BY <1>8 DEF Clock, Stop
<1>9. CASE Await
  BY <1>9 DEF Clock, Await
<1>10. CASE UNCHANGED vars
  BY <1>10 DEF Clock, vars, loop
<1> QED
  BY <1>2, <1>3, <1>4, <1>5, <1>6, <1>7, <1>8, <1>9, <1>10 DEF Next

LEMMA SnapshotStep ==
    Numbers /\ Snapshot /\ Ordered /\ Reading /\ Reading' /\ [Next]_vars => Snapshot'
<1> SUFFICES ASSUME Numbers, Snapshot, Ordered, Reading, Reading', [Next]_vars
             PROVE  Snapshot'
  OBVIOUS
<1>1. ASSUME UNCHANGED sampler PROVE Snapshot'
  BY <1>1 DEF Snapshot
<1>2. Seen(0) = {} /\ <<>> \in [{} -> Int]
  BY Places DEF Seen
<1>3. CASE BeginSample
  <2>1. sampler'.got = <<>> /\ DOMAIN <<>> = {}
    BY <1>3 DEF BeginSample
  <2>2. Seen(sampler'.at) = {}
    BY <2>1 DEF Reading, Seen, Reads, Readable
  <2> QED
    BY <1>2, <2>1, <2>2 DEF Snapshot, Reading, Seen, Reads, Readable
<1>4. CASE SampleStep
  <2> DEFINE v == Order[sampler.at]
             D == DOMAIN sampler.got \cup {v}
             got == [x \in D |-> IF x = v THEN buffer[v] ELSE sampler.got[x]]
             at == Following(sampler.at, Reads)
  <2>1. sampler' = [at |-> at, got |-> IF at = 0 THEN <<>> ELSE got]
    BY <1>4 DEF SampleStep
  <2>2. v \in Vars
    <3>1. sampler.at \in Nat /\ sampler.at > 0
      BY <1>4 DEF SampleStep, Sampling, Ordered
    <3>2. sampler.at \in Reads
      BY <3>1 DEF Reading
    <3> QED
      BY <3>2, Places DEF Reads
  <2>3. got \in [D -> Int]
    <3> SUFFICES ASSUME NEW x \in D
                 PROVE  (IF x = v THEN buffer[v] ELSE sampler.got[x]) \in Int
      OBVIOUS
    <3>1. CASE x = v
      BY <2>2, <3>1 DEF Numbers
    <3>2. CASE x # v
      BY <3>2 DEF Snapshot
    <3> QED
      BY <3>1, <3>2
  <2> HIDE DEF got, at, D
  <2>4. CASE at = 0
    BY <1>2, <2>1, <2>4 DEF Snapshot, Seen, Reads, Readable
  <2>5. CASE at # 0
    <3>1. sampler'.got = got /\ sampler'.at = at
      BY <2>1, <2>5
    <3>2. DOMAIN got = D
      BY <2>3
    <3> QED
      BY <2>3, <3>1, <3>2 DEF Snapshot, Reading, Seen, Reads, Readable
  <2> QED
    BY <2>4, <2>5
<1> QED
  BY <1>1, <1>3, <1>4
     DEF Next, Advance, BeginTick, TickStep, Write, Stop, Await, vars, loop

Typed == Numbers /\ Clock /\ Snapshot /\ Agrees /\ Ordered /\ Reading /\ PointWhole

LEMMA TypedAlways == Spec => []Typed
<1>1. Init => Typed
  <2>1. Init => Reading /\ PointWhole
    <3>1. DOMAIN <<>> = {}
      OBVIOUS
    <3>2. Seen(0) = {}
      BY Places DEF Seen
    <3> QED
      BY <3>1, <3>2 DEF Init, Reading, PointWhole
  <2> QED
    BY <2>1, TypesBegin, AgreesInit, OrderedInit DEF Typed
<1>2. Typed /\ [Next]_vars => Typed'
  BY NumbersStep, ClockStep, SnapshotStep, AgreesStep, OrderedStep, ReadingStep DEF Typed
<1> QED
  BY <1>1, <1>2, PTL DEF Spec

(* Every number has its type, and the buffer never holds what the register  *)
(* of a variable could not, whatever users send and signals give.           *)
THEOREM SimulationIsTyped == Spec => []TypeOK
<1>1. Typed => TypeOK
  BY TypeParts DEF Typed
<1> QED
  BY TypedAlways, <1>1, PTL

(* A sensor is changed by a tick only, and then to the value of its         *)
(* register that is nearest to what its signal gave: for every signal, type *)
(* and limit, and whatever users write in between.                          *)
THEOREM SensorsShowNearest == Spec => ShowsNearest
<1> DEFINE Shown == \A s \in Sensors : buffer'[s] # buffer[s] =>
              \E x \in Samples(s, engine.t, walks'[s]) : Nearest(CType[s], x, buffer'[s])
<1>1. Typed /\ [Next]_vars => [Shown]_vars
  <2> SUFFICES ASSUME Typed, Next, NEW s \in Sensors, buffer'[s] # buffer[s]
               PROVE  \E x \in Samples(s, engine.t, walks'[s]) :
                          Nearest(CType[s], x, buffer'[s])
    OBVIOUS
  <2>1. ~ UNCHANGED buffer
    OBVIOUS
  <2>2. ASSUME NEW v \in Vars, NEW input \in Inputs PROVE ~ Write(v, input)
    <3> SUFFICES ASSUME Write(v, input) PROVE FALSE
      OBVIOUS
    <3>1. v \in Writable /\ buffer' = [buffer EXCEPT ![v] = input.x]
      BY DEF Write, Writable
    <3>2. v # s
      BY <3>1, ModeOf
    <3> QED
      BY <3>1, <3>2, ModeOf DEF Typed, Numbers
  <2>3. TickStep
    BY <2>1, <2>2 DEF Next, Advance, BeginTick, BeginSample, SampleStep, Stop, Await
  <2> DEFINE v == Plan[engine.at]
  <2>4. v \in Sensors /\ Publish(v)
    BY <2>1, <2>3 DEF TickStep, ReadBack
  <2> HIDE DEF v
  <2>5. PICK w \in Moves(v) : \E x \in Samples(v, engine.t, w) :
          /\ walks' = [walks EXCEPT ![v] = w]
          /\ buffer' = [buffer EXCEPT ![v] = FitValue(CType[v], x)]
    BY <2>4, Zenon DEF Publish
  <2>6. PICK x \in Samples(v, engine.t, w) :
          /\ walks' = [walks EXCEPT ![v] = w]
          /\ buffer' = [buffer EXCEPT ![v] = FitValue(CType[v], x)]
    BY <2>5
  <2>7. s = v
    BY <2>6, ModeOf DEF Typed, Numbers
  <2>8. /\ s \in Vars /\ walks \in [Sensors -> Int] /\ buffer \in [Vars -> Int]
        /\ values \in [Vars -> Int]
    BY ModeOf DEF Typed, Numbers
  <2>9. walks'[s] = w /\ buffer'[s] = FitValue(CType[s], x)
    BY <2>6, <2>7, <2>8
  <2>10. w \in Int /\ engine.t \in Int
    BY <2>4, <2>8, MovesAreNumbers DEF Typed, Clock
  <2>11. x \in Int
    BY <2>4, <2>8, <2>10, SamplesAreNumbers
  <2>12. Nearest(CType[s], x, FitValue(CType[s], x))
    BY <2>8, <2>11, ModesOf, SamplesFitNearest DEF FitsNearest
  <2> QED
    BY <2>7, <2>9, <2>12
<1> QED
  BY TypedAlways, <1>1, PTL DEF Spec, ShowsNearest

----------------------------------------------------------------------------
(* Sensors that follow. *)

Target(s) == Signal[s][1].target
Amplitude(s) == Signal[s][2].amplitude

LEMMA FollowerOf ==
    ASSUME NEW s \in Followers
    PROVE  /\ s \in Sensors /\ s \in Vars /\ CType[s] \in CTypes
           /\ Target(s) \in Writable /\ Target(s) \in Vars /\ Amplitude(s) \in Nat
           /\ Len(Signal[s]) = 2
           /\ Signal[s][1].kind = "follow" /\ Signal[s][2].kind = "noise"
<1>1. /\ s \in Sensors /\ Len(Signal[s]) = 2 /\ Signal[s][1].target \in Writable
      /\ Signal[s][1].kind = "follow" /\ Signal[s][2].kind = "noise"
  BY DEF Followers
<1>2. Signal[s] \in Seq(Terms)
  BY <1>1, SimulationAssumption
<1>3. Signal[s][2] \in Terms
  BY <1>1, <1>2
<1>4. Signal[s][2].amplitude \in Nat
  BY <1>1, <1>3 DEF Terms
<1> QED
  BY <1>1, <1>4, ModesOf DEF Target, Amplitude

(* What a signal that follows gives is near what it follows.                *)
LEMMA FollowerGives ==
    ASSUME NEW s \in Followers, NEW t \in Int, NEW w \in Int, values \in [Vars -> Int],
           NEW x \in Samples(s, t, w)
    PROVE  /\ x \in Int
           /\ values[Target(s)] - Amplitude(s) <= x
           /\ x <= values[Target(s)] + Amplitude(s)
<1>1. /\ s \in Sensors /\ Len(Signal[s]) = 2 /\ Amplitude(s) \in Nat /\ Target(s) \in Vars
      /\ Signal[s][1].kind = "follow" /\ Signal[s][2].kind = "noise"
  BY FollowerOf
<1>0. \E f : SumsTo(s, t, w, Len(Signal[s]), f) /\ Samples(s, t, w) = f[Len(Signal[s])]
  <2>1. s \in Sensors
    BY <1>1
  <2> QED
    BY <2>1, SamplesSum
<1>2. PICK f : SumsTo(s, t, w, 2, f) /\ Samples(s, t, w) = f[2]
  BY <1>0, <1>1, Zenon
<1>3. SumsAt(s, t, w, 2, f)
  BY <1>2, SumsByTerm
<1>4. /\ f[0] = {0}
      /\ \A i \in 1..2 : f[i] = Plus(f[i - 1], Of(Signal[s][i], t, w))
  BY <1>3, Zenon DEF SumsAt
<1>5. f[1] = Plus(f[0], Of(Signal[s][1], t, w)) /\ f[2] = Plus(f[1], Of(Signal[s][2], t, w))
  <2>1. 1 \in 1..2 /\ 2 \in 1..2 /\ 1 - 1 = 0 /\ 2 - 1 = 1
    OBVIOUS
  <2> QED
    BY <1>4, <2>1
<1>6. Of(Signal[s][1], t, w) = {values[Target(s)]}
  BY <1>1 DEF Of, Target
<1>7. Of(Signal[s][2], t, w) = (-Amplitude(s))..Amplitude(s)
  BY <1>1 DEF Of, Amplitude
<1>8. values[Target(s)] \in Int
  BY <1>1
<1> HIDE DEF Target, Amplitude
<1>9. f[1] = {values[Target(s)]}
  BY <1>4, <1>5, <1>6, <1>8 DEF Plus
<1>10. PICK d \in (-Amplitude(s))..Amplitude(s) : x = values[Target(s)] + d
  <2>1. x \in Plus(f[1], Of(Signal[s][2], t, w))
    BY <1>2, <1>5, Zenon
  <2>2. \E a \in f[1], b \in Of(Signal[s][2], t, w) : x = a + b
    BY <2>1 DEF Plus
  <2> QED
    BY <2>2, <1>7, <1>9, Zenon
<1> QED
  BY <1>1, <1>8, <1>10

LEMMA FollowerNear ==
    ASSUME NEW s \in Followers, NEW x \in Int, NEW y \in Int,
           y - Amplitude(s) <= x, x <= y + Amplitude(s)
    PROVE  Near(s, FitValue(CType[s], x), y)
<1>1. CType[s] \in CTypes /\ Amplitude(s) \in Nat
  BY FollowerOf
<1>2. y - Amplitude(s) \in Int /\ y + Amplitude(s) \in Int
  BY <1>1
<1>3. /\ FitValue(CType[s], y - Amplitude(s)) <= FitValue(CType[s], x)
      /\ FitValue(CType[s], x) <= FitValue(CType[s], y + Amplitude(s))
  BY <1>1, <1>2, FitMonotone
<1> QED
  BY <1>3 DEF Near, Amplitude

(* While a tick runs, a user's variable is at what users made it during it. *)
Holds == Ticking => \A v \in Writable : buffer[v] \in held[v]

(* What the accesses of the last tick that are done have left: the value    *)
(* taken over is one that users gave, and a sensor is near one.             *)
Taken(v) == values[v] \in held[v]
Follows(s) == \E x \in held[Target(s)] : Near(s, buffer[s], x)

Past(k) == k \in Accesses /\ engine.t >= 0 /\ (Ticking => k < engine.at)

Left ==
    \A k : Past(k) =>
        /\ k <= Len(Order) => Taken(Plan[k])
        /\ k > Len(Order) /\ Plan[k] \in Followers => Follows(Plan[k])

LEMMA AccessOf ==
    ASSUME NEW k \in Accesses
    PROVE  /\ k \in Nat /\ k > 0 /\ Plan[k] \in Vars
           /\ k <= Len(Order) <=> ~ k > Len(Order)
           /\ k <= Len(Order) <=> Plan[k] \in Writable
           /\ k > Len(Order) <=> Plan[k] \in Sensors
<1>1. k \in Nat /\ k # 0 /\ Len(Order) \in Nat
  BY Places
<1>2. k > 0 /\ (k <= Len(Order) <=> ~ k > Len(Order))
  BY <1>1
<1>3. (k <= Len(Order) => Plan[k] \in Writable) /\ (k > Len(Order) => Plan[k] \in Sensors)
  <2>1. \A l \in Accesses : /\ l <= Len(Order) => Plan[l] \in Writable
                            /\ l > Len(Order) => Plan[l] \in Sensors
    BY PlaceOf, Zenon
  <2> QED
    BY <2>1
<1> QED
  BY <1>1, <1>2, <1>3, ModeOf

LEMMA LeftBegin == Init => Holds /\ Left
  BY DEF Init, Holds, Left, Past, Ticking

(* A write adds to what users made of a variable, and leaves the sensors.   *)
LEMMA LeftWrite ==
    ASSUME Typed, Holds, Left, NEW v \in Vars, NEW input \in Inputs, Write(v, input)
    PROVE  (Holds /\ Left)'
<1>1. v \in Writable /\ UNCHANGED <<values, engine>>
  BY DEF Write, Writable, loop
<1>2. buffer' = [buffer EXCEPT ![v] = input.x] /\ held' = Holding(v, input.x)
  BY DEF Write
<1>3. /\ buffer \in [Vars -> Int] /\ held \in [Writable -> SUBSET Int]
      /\ \A k \in Accesses : k \in Nat
  BY Places DEF Typed, Numbers
<1>4. \A u \in Writable : held[u] \subseteq held'[u]
  BY <1>1, <1>2, <1>3 DEF Holding
<1>5. Ticking => input.x \in held'[v]
  BY <1>1, <1>2, <1>3 DEF Holding
<1>6. \A u \in Vars : u # v => buffer'[u] = buffer[u]
  BY <1>2, <1>3
<1>7. buffer'[v] = input.x
  BY <1>2, <1>3
<1>8. Ticking' <=> Ticking
  BY <1>1 DEF Ticking
<1>9. Holds'
  <2> SUFFICES ASSUME Ticking, NEW u \in Writable PROVE buffer'[u] \in held'[u]
    BY <1>8 DEF Holds
  <2>1. CASE u = v
    BY <1>5, <1>7, <2>1
  <2>2. CASE u # v
    BY <1>4, <1>6, <2>2, ModeOf DEF Holds
  <2> QED
    BY <2>1, <2>2
<1>10. Left'
  <2> SUFFICES ASSUME NEW k, Past(k)'
               PROVE  /\ k <= Len(Order) => Taken(Plan[k])'
                      /\ k > Len(Order) /\ Plan[k] \in Followers => Follows(Plan[k])'
    BY DEF Left
  <2>1. Past(k) /\ k \in Accesses
    BY <1>1, <1>8 DEF Past
  <2>2. ASSUME k <= Len(Order) PROVE Taken(Plan[k])'
    <3>1. Plan[k] \in Writable
      BY <2>1, <2>2, AccessOf
    <3>2. Taken(Plan[k])
      BY <2>1, <2>2 DEF Left
    <3> QED
      BY <1>1, <1>4, <3>1, <3>2 DEF Taken
  <2>3. ASSUME k > Len(Order), Plan[k] \in Followers PROVE Follows(Plan[k])'
    <3> DEFINE s == Plan[k]
    <3>1. s \in Sensors /\ s \in Vars /\ Target(s) \in Writable
      BY <2>3, FollowerOf
    <3>2. s # v
      BY <1>1, <3>1, ModeOf
    <3>3. PICK x \in held[Target(s)] : Near(s, buffer[s], x)
      BY <2>1, <2>3 DEF Left, Follows
    <3> HIDE DEF s
    <3>4. buffer'[s] = buffer[s] /\ x \in held'[Target(s)]
      BY <1>4, <1>6, <3>1, <3>2, <3>3
    <3> QED
      BY <3>3, <3>4 DEF Follows, s
  <2> QED
    BY <2>2, <2>3
<1> QED
  BY <1>9, <1>10

(* A tick takes over first what the sensors then follow. *)
LEMMA LeftTick ==
    ASSUME Typed, Holds, Left, TickStep
    PROVE  (Holds /\ Left)'
<1>0. PICK at, v : at = engine.at /\ v = Plan[at]
  OBVIOUS
<1>1. /\ Ticking /\ at \in Accesses /\ at \in Nat /\ at > 0
      /\ \A k \in Accesses : k \in Nat
  <2>1. \A k \in Accesses : k \in Nat
    BY AccessOf
  <2>2. Ticking /\ at \in {0} \cup Accesses
    BY <1>0 DEF TickStep, Typed, Clock
  <2>3. at # 0
    BY <1>0, <2>2 DEF Ticking
  <2>4. at > 0
    BY <2>2, <2>3, AccessOf
  <2> QED
    BY <2>1, <2>2, <2>3, <2>4
<1>2. engine'.at = Following(at, Accesses) /\ engine'.t = engine.t
  BY <1>0 DEF TickStep, Typed, Ordered
<1>3. engine.t \in Int /\ (engine'.t >= 0 <=> engine.t >= 0)
  BY <1>2 DEF Typed, Clock
<1>4. ASSUME NEW k, Past(k)' PROVE k \in Accesses /\ (Past(k) \/ k = at)
  <2> DEFINE next == Following(at, Accesses)
  <2>1. k \in Accesses /\ k \in Nat /\ engine.t >= 0 /\ (next > 0 => k < next)
    BY <1>1, <1>2, <1>3, <1>4 DEF Past, Ticking
  <2>2. /\ next \in Nat
        /\ next # 0 => \A l \in Accesses : l < next => l <= at
        /\ next = 0 => \A l \in Accesses : l <= at
    BY <1>1, Places, PlaceAfter
  <2> HIDE DEF next
  <2>3. k <= at
    BY <2>1, <2>2
  <2> QED
    BY <1>0, <1>1, <2>1, <2>3 DEF Past
<1>5. /\ buffer \in [Vars -> Int] /\ values \in [Vars -> Int] /\ walks \in [Sensors -> Int]
      /\ held \in [Writable -> SUBSET Int] /\ UNCHANGED held
  BY DEF Typed, Numbers, TickStep, Publish, ReadBack
<1>6. Ticking' => \A u \in Writable : buffer[u] \in held[u]
  BY <1>1 DEF Holds
<1>7. CASE v \notin Sensors
  <2>1. ReadBack(v) /\ UNCHANGED buffer /\ values' = [values EXCEPT ![v] = buffer[v]]
    BY <1>0, <1>7 DEF TickStep, ReadBack
  <2>2. v \in Writable /\ buffer[v] \in held[v] /\ at <= Len(Order)
    <3>1. v \in Writable /\ at <= Len(Order)
      BY <1>0, <1>1, <1>7, AccessOf
    <3> QED
      BY <1>1, <3>1 DEF Holds
  <2>3. Holds'
    BY <1>5, <1>6, <2>1 DEF Holds
  <2>4. \A u \in Writable : values'[u] = IF u = v THEN buffer[v] ELSE values[u]
    BY <1>5, <2>1, ModeOf
  <2>5. \A u \in Writable : Taken(u) => Taken(u)'
    BY <1>5, <2>2, <2>4 DEF Taken
  <2>6. Taken(v)'
    BY <1>5, <2>2, <2>4 DEF Taken
  <2>7. \A s : Follows(s) => Follows(s)'
    BY <1>5, <2>1 DEF Follows
  <2>8. Left'
    <3> SUFFICES ASSUME NEW k, Past(k)'
                 PROVE  /\ k <= Len(Order) => Taken(Plan[k])'
                        /\ k > Len(Order) /\ Plan[k] \in Followers => Follows(Plan[k])'
      BY DEF Left
    <3>1. CASE Past(k)
      <4>1. k \in Accesses /\ (k <= Len(Order) => Plan[k] \in Writable /\ Taken(Plan[k]))
        BY <1>4, <3>1, AccessOf DEF Left
      <4>2. k > Len(Order) /\ Plan[k] \in Followers => Follows(Plan[k])
        BY <3>1 DEF Left
      <4> QED
        BY <2>5, <2>7, <4>1, <4>2
    <3>2. CASE k = at
      <4>1. ~ k > Len(Order)
        BY <1>1, <2>2, <3>2, AccessOf
      <4> QED
        BY <1>0, <2>6, <3>2, <4>1
    <3> QED
      BY <1>4, <3>1, <3>2
  <2> QED
    BY <2>3, <2>8
<1>8. CASE v \in Sensors
  <2>1. v \in Vars /\ v \notin Writable
    BY <1>8, ModeOf
  <2>2. Publish(v)
    BY <1>0, <1>8 DEF TickStep
  <2>3. at > Len(Order)
    BY <1>0, <1>1, <1>8, AccessOf
  <2>4. PICK w \in Moves(v) : \E x \in Samples(v, engine.t, w) :
            /\ values' = [values EXCEPT ![v] = FitValue(CType[v], x)]
            /\ buffer' = [buffer EXCEPT ![v] = FitValue(CType[v], x)]
    BY <2>2, Zenon DEF Publish
  <2>5. PICK x \in Samples(v, engine.t, w) :
            /\ values' = [values EXCEPT ![v] = FitValue(CType[v], x)]
            /\ buffer' = [buffer EXCEPT ![v] = FitValue(CType[v], x)]
    BY <2>4
  <2>6. /\ buffer'[v] = FitValue(CType[v], x)
        /\ \A u \in Vars : u # v => buffer'[u] = buffer[u] /\ values'[u] = values[u]
    BY <1>5, <2>1, <2>5
  <2>7. \A u \in Writable : u \in Vars /\ u # v
    BY <2>1, ModeOf
  <2>8. Holds'
    BY <1>5, <1>6, <2>6, <2>7 DEF Holds
  <2>9. \A u \in Writable : Taken(u) => Taken(u)'
    BY <1>5, <2>6, <2>7 DEF Taken
  <2>10. \A s \in Vars : s # v /\ Follows(s) => Follows(s)'
    BY <1>5, <2>6 DEF Follows
  <2>11. ASSUME v \in Followers, engine.t >= 0 PROVE Follows(v)'
    <3>0. PICK c : c = Target(v)
      OBVIOUS
    <3>1. c \in Writable /\ c \in Vars
      BY <2>11, <3>0, FollowerOf
    <3>2. PICK k \in Accesses : k <= Len(Order) /\ Plan[k] = c
      BY <3>1, PlaceOf
    <3>3. k < at
      BY <1>1, <2>3, <3>2, Places
    <3>4. Past(k)
      BY <1>0, <2>11, <3>2, <3>3 DEF Past
    <3>5. values[c] \in held[c] /\ values[c] \in Int
      BY <1>5, <3>1, <3>2, <3>4 DEF Left, Taken
    <3>6. w \in Int
      BY <1>5, <1>8, <2>4, MovesAreNumbers
    <3>7. /\ x \in Int
          /\ values[Target(v)] - Amplitude(v) <= x
          /\ x <= values[Target(v)] + Amplitude(v)
      BY <1>3, <1>5, <2>5, <2>11, <3>6, FollowerGives
    <3>8. Near(v, buffer'[v], values[c])
      BY <2>6, <2>11, <3>0, <3>5, <3>7, FollowerNear
    <3>9. values[c] \in held'[c]
      BY <1>5, <3>5
    <3> QED
      BY <3>0, <3>8, <3>9 DEF Follows
  <2>12. Left'
    <3> SUFFICES ASSUME NEW k, Past(k)'
                 PROVE  /\ k <= Len(Order) => Taken(Plan[k])'
                        /\ k > Len(Order) /\ Plan[k] \in Followers => Follows(Plan[k])'
      BY DEF Left
    <3>0. engine.t >= 0
      BY <1>3 DEF Past
    <3>1. CASE Plan[k] = v /\ k > Len(Order)
      <4>1. ~ k <= Len(Order)
        BY <1>4, <3>1, AccessOf
      <4> QED
        BY <2>11, <3>0, <3>1, <4>1
    <3>2. CASE Past(k) /\ ~ (Plan[k] = v /\ k > Len(Order))
      <4>1. k \in Accesses /\ (k <= Len(Order) => Plan[k] \in Writable /\ Taken(Plan[k]))
        BY <1>4, <3>2, AccessOf DEF Left
      <4>2. k > Len(Order) /\ Plan[k] \in Followers =>
                Follows(Plan[k]) /\ Plan[k] \in Vars /\ Plan[k] # v
        BY <3>2, FollowerOf DEF Left
      <4> QED
        BY <2>9, <2>10, <4>1, <4>2
    <3> QED
      BY <1>0, <1>4, <2>3, <3>1, <3>2
  <2> QED
    BY <2>8, <2>12
<1> QED
  BY <1>7, <1>8

LEMMA LeftStep == Typed /\ Holds /\ Left /\ [Next]_vars => (Holds /\ Left)'
<1> SUFFICES ASSUME Typed, Holds, Left, [Next]_vars PROVE (Holds /\ Left)'
  OBVIOUS
<1>1. ASSUME UNCHANGED <<engine, buffer, values, held>> PROVE (Holds /\ Left)'
  <2>1. \A v : (Taken(v)' <=> Taken(v)) /\ (Follows(v)' <=> Follows(v))
    BY <1>1 DEF Taken, Follows
  <2>2. (Ticking' <=> Ticking) /\ \A k : Past(k)' <=> Past(k)
    BY <1>1 DEF Ticking, Past
  <2> QED
    BY <1>1, <2>1, <2>2 DEF Holds, Left
<1>2. CASE BeginTick
  <2>1. /\ engine'.at = Following(0, Accesses) /\ UNCHANGED buffer
        /\ held' = [v \in Writable |-> {buffer[v]}]
    BY <1>2 DEF BeginTick
  <2>2. Holds'
    BY <2>1 DEF Holds
  <2>3. ASSUME NEW k, Past(k)' PROVE FALSE
    <3> DEFINE next == Following(0, Accesses)
    <3>1. k \in Accesses /\ (next > 0 => k < next)
      BY <2>1, <2>3 DEF Past, Ticking
    <3>2. /\ next \in Nat
          /\ next # 0 => \A l \in Accesses : l < next => l <= 0
          /\ next = 0 => \A l \in Accesses : l <= 0
      BY Places, PlaceAfter
    <3> HIDE DEF next
    <3>3. k <= 0 /\ k > 0 /\ k \in Nat
      BY <3>1, <3>2, AccessOf
    <3> QED
      BY <3>3
  <2> QED
    BY <2>2, <2>3 DEF Left
<1>3. CASE \E v \in Vars, input \in Inputs : Write(v, input)
  BY <1>3, LeftWrite
<1> QED
  BY <1>1, <1>2, <1>3, LeftTick
     DEF Next, Advance, BeginSample, SampleStep, Stop, Await, vars, loop

(* After a tick, a sensor that follows what users may write is at a value   *)
(* they gave it since the tick began, but for its noise: for any catalog, a *)
(* tick takes over all commands before it publishes, whatever is written    *)
(* between its accesses.                                                    *)
THEOREM OutputsFollow == Spec => []OutputFollows
<1>1. Left => OutputFollows
  <2> SUFFICES ASSUME Left, Ticked, NEW s \in Followers
               PROVE  \E x \in held[Signal[s][1].target] : Near(s, buffer[s], x)
    BY DEF OutputFollows
  <2>1. s \in Sensors
    BY FollowerOf
  <2>2. PICK k \in Accesses : k > Len(Order) /\ Plan[k] = s
    BY <2>1, PlaceOf
  <2>3. Past(k)
    BY <2>2 DEF Past, Ticked
  <2>4. Follows(s)
    BY <2>2, <2>3 DEF Left
  <2> QED
    BY <2>4 DEF Follows, Target
<1>2. Init => Holds /\ Left
  BY LeftBegin
<1> QED
  BY TypedAlways, LeftStep, <1>1, <1>2, PTL DEF Spec

=============================================================================
