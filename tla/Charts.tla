-------------------------------- MODULE Charts --------------------------------
(***************************************************************************)
(* The pure functions behind the charts of the monitor page:                *)
(* lib/history.ts, lib/chart-brush.ts, lib/device-graph.ts and the row,     *)
(* window and group computations of the components.                         *)
(*                                                                          *)
(* A point is its server time, in whole steps of the clock: what a variable *)
(* measured is not part of a point, only whether and where it is charted.   *)
(* A series is a sequence of times; the rows of a chart are a set of them,  *)
(* as buildRows keys its rows by time and sorts them.                       *)
(***************************************************************************)
EXTENDS Integers, Sequences, FiniteSets

CONSTANT None   \* null: no range, no window, no chart

(* One point more than the buffer holds. *)
SlipLast(s, n) == SubSeq(s, IF Len(s) > n THEN Len(s) - n ELSE 1, Len(s))

(* s.slice(-n) *)
Last(s, n) == SubSeq(s, IF Len(s) > n THEN Len(s) - n + 1 ELSE 1, Len(s))

Times(s) == {s[i] : i \in DOMAIN s}

(* A member of a set of numbers is known by how many come before it. *)
Before(rows, t) == Cardinality({x \in rows : x < t})

RowAt(rows, i) == CHOOSE t \in rows : Before(rows, t) = i

(* s.filter: what s has at the positions I, in its order.  (SelectSeq has   *)
(* no definition that a proof could use.)                                   *)
Picked(s, I) == [k \in 1..Cardinality(I) |-> s[RowAt(I, k - 1)]]

(* "Not newer than the first live point". *)
SlipSeed(live, points, max) ==
    LET older == {i \in DOMAIN points : live = <<>> \/ points[i] <= live[1]}
    IN  Last(Picked(points, older) \o live, max)

(* seedHistory, for one variable: what is older than the first live point   *)
(* goes under the live points.                                              *)
SeedHistory(live, points, max) ==
    LET older == {i \in DOMAIN points : live = <<>> \/ points[i] < live[1]}
    IN  Last(Picked(points, older) \o live, max)

----------------------------------------------------------------------------
(* A chart shows the points of its lines, in rows by time.                  *)

Latest(rows) == CHOOSE t \in rows : \A x \in rows : x <= t

(* The rows of a chart whose lines are the given series. *)
RowsOf(lines) == UNION {Times(s) : s \in lines}

(* The rows inside the chosen window, which ends at the last row.           *)
Windowed(rows, window) ==
    IF window = None \/ rows = {} THEN rows
    ELSE {t \in rows : t >= Latest(rows) - window}

(* What statistics and indicators are computed from. *)
Visible(data, window, range) ==
    LET within == {t \in data : range.startT <= t /\ t <= range.endT} IN
    IF window # None \/ range = None THEN data
    ELSE IF within # {} THEN within ELSE data

----------------------------------------------------------------------------
(* The slider under a chart.  An index is the number of rows before it.     *)

(* toTimeRange: the whole series is no selection. *)
ToTimeRange(rows, i, j) ==
    IF i <= 0 /\ j >= Cardinality(rows) - 1 THEN None
    ELSE [startT |-> RowAt(rows, i), endT |-> RowAt(rows, j)]

FirstIndexAtOrAfter(rows, t) ==
    IF \E x \in rows : x >= t THEN Before(rows, t)
    ELSE IF rows = {} THEN 0 ELSE Cardinality(rows) - 1

(* The row after the last one of the range. *)
SlipLastIndex(rows, t) ==
    IF \E x \in rows : x <= t THEN Cardinality({x \in rows : x <= t}) ELSE 0

LastIndexAtOrBefore(rows, t) ==
    IF \E x \in rows : x <= t THEN Cardinality({x \in rows : x <= t}) - 1 ELSE 0

(* startIndex and endIndex of the slider, from the range in time. *)
SliderOf(rows, range) ==
    IF range = None THEN [from |-> 0, to |-> Cardinality(rows) - 1]
    ELSE [from |-> FirstIndexAtOrAfter(rows, range.startT),
          to |-> LastIndexAtOrBefore(rows, range.endT)]

(* The rows between the two ends of the slider, which the chart draws. *)
Drawn(rows, slider) ==
    {t \in rows : slider.from <= Before(rows, t) /\ Before(rows, t) <= slider.to}

----------------------------------------------------------------------------
(* Lines on one chart share an id; a line without one has a chart of its    *)
(* own.                                                                     *)

Solo(v) == <<"solo", v>>

GroupIdOf(grouping, v) ==
    IF v \in DOMAIN grouping THEN grouping[v] ELSE Solo(v)

Members(charted, grouping, id) == {v \in charted : GroupIdOf(grouping, v) = id}

GroupIds(charted, grouping) == {GroupIdOf(grouping, v) : v \in charted}

(* A partial function without the entry of v, and with other entries. *)
Dropped(f, v) == [x \in DOMAIN f \ {v} |-> f[x]]

With(f, S, y) == [x \in DOMAIN f \cup S |-> IF x \in S THEN y ELSE f[x]]

----------------------------------------------------------------------------
(* The default selection, from the configs the user may read.               *)

(* byPreference: an own config first, then the latest edit. *)
Preferred(a, b) ==
    IF a.own # b.own THEN a.own ELSE a.updated >= b.updated

(* pickDeviceConfig, None when no config is of this device's type. *)
PickDeviceConfig(summaries, device) ==
    LET matches == {c \in summaries : c.deviceType = device} IN
    IF matches = {} THEN None
    ELSE CHOOSE c \in matches : \A d \in matches : Preferred(c, d)

(* The config's charted names that the device has. *)
GraphSelection(config, present) == config.graph \cap present

=============================================================================
