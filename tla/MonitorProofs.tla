---------------------------- MODULE MonitorProofs -----------------------------
(***************************************************************************)
(* The charts of the monitor page, for any variables, points and rows.      *)
(*                                                                          *)
(* A slider holds indices and a range holds times.  What ties them is that  *)
(* the index of a row is the number of rows before it, which counts finite  *)
(* sets; the groups need only the steps of the page.  A series is the top   *)
(* of a set of times, which is what trimming, appending and seeding keep.   *)
(***************************************************************************)
EXTENDS Monitor, FiniteSetTheorems, TLAPS

TimeRange == [startT: Int, endT: Int]

----------------------------------------------------------------------------
(* Rows and their indices.                                                  *)

LEMMA CountsAreNumbers ==
    ASSUME NEW rows \in SUBSET Int, IsFiniteSet(rows), NEW S \in SUBSET rows
    PROVE  IsFiniteSet(S) /\ Cardinality(S) \in Nat /\ Cardinality(S) <= Cardinality(rows)
  BY FS_Subset, FS_CardinalityType

(* The rows before a row, and the row itself. *)
LEMMA RowCounts ==
    ASSUME NEW rows \in SUBSET Int, IsFiniteSet(rows), NEW t \in rows, NEW S \in SUBSET rows,
           \A x \in rows : x <= t => x \in S
    PROVE  Before(rows, t) < Cardinality(S)
<1> DEFINE B == {x \in rows : x < t}
<1>0. t \in Int /\ \A x \in rows : x \in Int
  OBVIOUS
<1>1. B \cup {t} \subseteq S /\ t \notin B
  <2>1. ASSUME NEW x \in B PROVE x \in S
    BY <1>0
  <2>2. t \in S /\ t \notin B
    BY <1>0
  <2> QED
    BY <2>1, <2>2
<1>2. IsFiniteSet(B) /\ IsFiniteSet(S) /\ Cardinality(B) \in Nat
  BY CountsAreNumbers
<1>3. Cardinality(B \cup {t}) = Cardinality(B) + 1
  BY <1>1, <1>2, FS_AddElement
<1>4. Cardinality(B \cup {t}) <= Cardinality(S) /\ Cardinality(S) \in Nat
  BY <1>1, <1>2, FS_Subset, FS_CardinalityType
<1> QED
  BY <1>2, <1>3, <1>4 DEF Before

LEMMA BeforeGrows ==
    ASSUME NEW rows \in SUBSET Int, IsFiniteSet(rows), NEW s \in Int, NEW t \in Int, s <= t
    PROVE  /\ Before(rows, s) \in Nat
           /\ Before(rows, s) <= Before(rows, t)
           /\ s \in rows /\ s < t => Before(rows, s) < Before(rows, t)
<1> DEFINE S == {x \in rows : x < s}
           T == {x \in rows : x < t}
<1>0. \A x \in rows : x \in Int
  OBVIOUS
<1>1. S \subseteq T /\ T \subseteq rows
  <2>1. ASSUME NEW x \in S PROVE x \in T
    BY <1>0
  <2> QED
    BY <2>1
<1>2. IsFiniteSet(T) /\ Cardinality(S) \in Nat /\ Cardinality(S) <= Cardinality(T)
  BY <1>1, CountsAreNumbers, FS_Subset
<1>3. ASSUME s \in rows, s < t PROVE Before(rows, s) < Cardinality(T)
  BY <1>1, <1>3, RowCounts
<1> QED
  BY <1>2, <1>3 DEF Before

(* Every index below the number of rows is the index of a row. *)
LEMMA RowAtIndex ==
    ASSUME NEW rows \in SUBSET Int, IsFiniteSet(rows), NEW i \in Nat, i < Cardinality(rows)
    PROVE  RowAt(rows, i) \in rows /\ Before(rows, RowAt(rows, i)) = i
<1> DEFINE n == Cardinality(rows)
           f == [t \in rows |-> Before(rows, t)]
<1>1. n \in Nat
  BY CountsAreNumbers
<1>2. \A t \in rows : Before(rows, t) \in 0..(n - 1)
  BY <1>1, RowCounts, BeforeGrows
<1>3. \A s, t \in rows : Before(rows, s) = Before(rows, t) => s = t
  <2> SUFFICES ASSUME NEW s \in rows, NEW t \in rows, s < t
               PROVE  Before(rows, s) # Before(rows, t)
    BY <1>1
  <2> QED
    BY <1>1, BeforeGrows
<1>4. f \in Injection(rows, 0..(n - 1))
  BY <1>2, <1>3, Zenon DEF Injection, IsInjective
<1>5. IsFiniteSet(0..(n - 1)) /\ Cardinality(0..(n - 1)) = n
  <2> HIDE DEF n
  <2> QED
    BY <1>1, FS_Interval
<1>6. f \in Surjection(rows, 0..(n - 1))
  BY <1>4, <1>5, FS_Injection
<1>7. PICK t \in rows : f[t] = i
  <2>1. i \in 0..(n - 1)
    BY <1>1
  <2> QED
    BY <2>1, <1>6, Zenon DEF Surjection
<1> QED
  BY <1>7 DEF RowAt

(* The theorem of the slider: the rows between its ends, which the chart    *)
(* draws, are the rows of the range, which the statistics count, as long as *)
(* the range has a row (the brush of time-series-chart.tsx over             *)
(* lib/chart-brush.ts).                                                     *)
THEOREM DrawnIsCounted ==
    ASSUME NEW rows \in SUBSET Int, IsFiniteSet(rows), NEW range \in TimeRange,
           \E t \in rows : range.startT <= t /\ t <= range.endT
    PROVE  Drawn(rows, SliderOf(rows, range)) = Visible(rows, None, range)
<1> DEFINE from == range.startT
           to == range.endT
           S == {x \in rows : x <= to}
<1>1. from \in Int /\ to \in Int /\ \A x \in rows : x \in Int
  BY DEF TimeRange
<1>2. Cardinality(S) \in Nat /\ Cardinality(rows) \in Nat
  BY CountsAreNumbers
<1>3. CASE range = None
  <2>1. \A t \in rows : 0 <= Before(rows, t) /\ Before(rows, t) <= Cardinality(rows) - 1
    <3> SUFFICES ASSUME NEW t \in rows
                 PROVE  0 <= Before(rows, t) /\ Before(rows, t) <= Cardinality(rows) - 1
      OBVIOUS
    <3>1. Before(rows, t) \in Nat
      BY <1>1, BeforeGrows
    <3>2. Before(rows, t) < Cardinality(rows)
      BY RowCounts
    <3> QED
      BY <3>1, <3>2, <1>2
  <2> DEFINE slider == SliderOf(rows, range)
  <2>2. slider.from = 0 /\ slider.to = Cardinality(rows) - 1
    BY <1>3 DEF SliderOf
  <2>3. Drawn(rows, slider) = rows
    BY <2>1, <2>2, Zenon DEF Drawn
  <2> QED
    BY <2>3, <1>3 DEF Visible
<1>4. CASE range # None
  <2> DEFINE slider == SliderOf(rows, range)
  <2>1. slider.from = Before(rows, from) /\ slider.to = Cardinality(S) - 1
    BY <1>1, <1>4 DEF SliderOf, FirstIndexAtOrAfter, LastIndexAtOrBefore
  <2>2. ASSUME NEW t \in rows
        PROVE  Before(rows, from) <= Before(rows, t) <=> from <= t
    BY <1>1, BeforeGrows
  <2>3. ASSUME NEW t \in rows
        PROVE  Before(rows, t) <= Cardinality(S) - 1 <=> t <= to
    <3>1. t <= to => Before(rows, t) < Cardinality(S)
      BY <1>1, RowCounts
    <3>2. CASE to < t
      <4> DEFINE B == {x \in rows : x < t}
      <4>1. S \subseteq B
        <5>1. ASSUME NEW x \in S PROVE x \in B
          BY <1>1, <3>2
        <5> QED
          BY <5>1
      <4>2. B \in SUBSET rows
        OBVIOUS
      <4>3. IsFiniteSet(B)
        BY <4>2, CountsAreNumbers
      <4> QED
        BY <4>1, <4>3, <3>2, <1>1, <1>2, FS_Subset, BeforeGrows DEF Before
    <3> QED
      BY <3>1, <3>2, <1>1, <1>2, BeforeGrows
  <2>4. Drawn(rows, slider) = {t \in rows : from <= t /\ t <= to}
    <3>1. Drawn(rows, slider) =
            {t \in rows : Before(rows, from) <= Before(rows, t)
                            /\ Before(rows, t) <= Cardinality(S) - 1}
      BY <2>1, Zenon DEF Drawn
    <3> QED
      BY <3>1, <2>2, <2>3, Zenon
  <2> QED
    BY <2>4, <1>4 DEF Visible
<1> QED
  BY <1>3, <1>4

----------------------------------------------------------------------------
(* The steps that touch the charts. *)

Panel ==
    \/ \E S \in SUBSET Summaries : ApplyDefaults(S)
    \/ \E v \in Vars : Toggle(v)
    \/ \E id \in Charts : CloseGroup(id) \/ Expand(id) \/ \E v \in Vars : MergeInto(id, v)
    \/ \E chart \in InReach :
        \/ \E v \in Vars : SplitOut(chart, v)
        \/ \E i, j \in 0..MaxPoints : i <= j /\ Brush(chart, i, j)
    \/ \E w \in Windows \cup {None} : SetWindow(w)
    \/ CloseDialog

LEMMA OtherStepsKeepPanel ==
    ASSUME [Next]_vars
    PROVE  UNCHANGED panel \/ Panel
<1>1. CASE UNCHANGED vars
  BY <1>1 DEF vars, panel
<1>2. CASE Record \/ Push \/ StreamFails \/ StreamCut \/ DeviceLost \/ DeviceBack
  BY <1>2 DEF Record, Push, StreamFails, StreamCut, DeviceLost, DeviceBack, panel
<1>3. CASE AnswerHistory \/ ApplyHistory \/ FetchFails \/ OpenStream \/ Snapshot \/ StreamError
  BY <1>3 DEF AnswerHistory, ApplyHistory, FetchFails, OpenStream, Snapshot, StreamError, panel
<1>4. ASSUME NEW outcome, Load(outcome) PROVE UNCHANGED panel
  BY <1>4 DEF Load, panel
<1>5. ASSUME NEW w, NEW x, Submit(w, x) PROVE UNCHANGED panel
  BY <1>5 DEF Submit, panel
<1>6. ASSUME NEW w, PerformWrite(w) \/ WriteLost(w) \/ WriteDone(w) \/ CancelEdit(w)
      PROVE  UNCHANGED panel
  BY <1>6 DEF PerformWrite, WriteLost, WriteDone, CancelEdit, panel
<1>7. ASSUME NEW c, NEW x, OtherWrites(c, x) PROVE UNCHANGED panel
  BY <1>7 DEF OtherWrites, panel
<1> QED
  BY <1>1, <1>2, <1>3, <1>4, <1>5, <1>6, <1>7, Zenon DEF Next, Panel

----------------------------------------------------------------------------
(* Groups.                                                                  *)

LEMMA InitGroups ==
    ASSUME Init
    PROVE  GroupsFollowSelection
  BY DEF Init, GroupsFollowSelection

(* A variable without its group, among variables that keep theirs. *)
LEMMA DroppedKeepsOthers ==
    ASSUME NEW f, NEW v, NEW w, w # v
    PROVE  GroupIdOf(Dropped(f, v), w) = GroupIdOf(f, w)
  BY DEF GroupIdOf, Dropped

LEMMA PanelKeepsGroups ==
    ASSUME GroupsFollowSelection, Panel
    PROVE  GroupsFollowSelection'
<1> USE DEF GroupsFollowSelection
<1>1. ASSUME NEW S, ApplyDefaults(S) PROVE GroupsFollowSelection'
  <2>1. CASE selected = {}
    <3>1. DOMAIN grouping = {} /\ fullscreen = None
      BY <2>1 DEF Charts, GroupIds
    <3> QED
      BY <1>1, <3>1 DEF ApplyDefaults
  <2>2. CASE selected # {}
    BY <1>1, <2>2 DEF ApplyDefaults, Charts
  <2> QED
    BY <2>1, <2>2
<1>2. ASSUME NEW v, Toggle(v) PROVE GroupsFollowSelection'
  BY <1>2 DEF Toggle, Regrouped, Dropped, OnPage
<1>3. ASSUME NEW id, CloseGroup(id) PROVE GroupsFollowSelection'
  BY <1>3 DEF CloseGroup, Regrouped, OnPage
<1>4. ASSUME NEW id \in Charts, Expand(id) PROVE GroupsFollowSelection'
  BY <1>4 DEF Expand, Charts
<1>5. ASSUME NEW id, NEW v, MergeInto(id, v) PROVE GroupsFollowSelection'
  BY <1>5 DEF MergeInto, Mergeable, Members, Regrouped, With, OnPage
<1>6. ASSUME NEW chart \in InReach, NEW v, SplitOut(chart, v) PROVE GroupsFollowSelection'
  <2>1. grouping' = Dropped(grouping, v) /\ UNCHANGED <<selected, fullscreen>>
    BY <1>6 DEF SplitOut, Regrouped
  <2>2. DOMAIN grouping' \subseteq selected'
    BY <2>1 DEF Dropped
  <2>3. ASSUME fullscreen # None PROVE fullscreen \in GroupIds(selected, Dropped(grouping, v))
    <3> DEFINE lines == Members(selected, grouping, fullscreen)
    <3>1. v \in lines /\ Cardinality(lines) > 1
      BY <1>6, <2>3 DEF SplitOut, InReach, Legend, Shown
    <3>2. Cardinality({v}) = 1
      BY FS_Singleton
    <3>3. PICK w \in lines : w # v
      BY <3>1, <3>2
    <3> QED
      BY <3>3, DroppedKeepsOthers DEF Members, GroupIds
  <2> QED
    BY <2>1, <2>2, <2>3 DEF Charts
<1>7. ASSUME NEW chart, NEW i, NEW j, Brush(chart, i, j) PROVE GroupsFollowSelection'
  BY <1>7 DEF Brush, Charts
<1>8. ASSUME NEW w, SetWindow(w) PROVE GroupsFollowSelection'
  BY <1>8 DEF SetWindow, Charts
<1>9. CASE CloseDialog
  BY <1>9 DEF CloseDialog
<1> QED
  BY <1>1, <1>2, <1>3, <1>4, <1>5, <1>6, <1>7, <1>8, <1>9, Zenon DEF Panel

(* Groups and the dialog follow the selection, for any variables and        *)
(* whatever answers arrive in between (toggleSelected, ChartPanel).         *)
THEOREM GroupsFollow == Spec => []GroupsFollowSelection
<1>1. GroupsFollowSelection /\ [Next]_vars => GroupsFollowSelection'
  <2> SUFFICES ASSUME GroupsFollowSelection, [Next]_vars
               PROVE  GroupsFollowSelection'
    OBVIOUS
  <2>1. CASE UNCHANGED panel
    BY <2>1 DEF GroupsFollowSelection, panel, Charts
  <2> QED
    BY <2>1, OtherStepsKeepPanel, PanelKeepsGroups
<1> QED
  BY <1>1, InitGroups, PTL DEF Spec

----------------------------------------------------------------------------
(* Ranges.                                                                  *)

Left == [time: Nat, clicks: Nat, writes: Nat, faults: Nat]

(* A range belongs to the window "all" and holds two times. *)
RangesHold ==
    /\ left \in Left
    /\ \A chart \in DOMAIN brush : window = None /\ brush[chart] \in TimeRange

LEMMA SpendingKeepsLeft ==
    ASSUME left \in Left, NEW what \in {"clicks", "writes", "faults"}, Spend(what)
    PROVE  left' \in Left /\ left'.time = left.time
  BY DEF Spend, Left

LEMMA StepsKeepLeft ==
    ASSUME left \in Left, [Next]_vars
    PROVE  left' \in Left /\ left'.time = left.time
<1> DEFINE Stays == left' \in Left /\ left'.time = left.time
<1>1. CASE UNCHANGED vars
  BY <1>1 DEF vars
<1>2. CASE Record \/ Push \/ StreamFails \/ StreamCut \/ DeviceLost \/ DeviceBack
  BY <1>2, SpendingKeepsLeft
     DEF Record, Push, StreamFails, StreamCut, DeviceLost, DeviceBack
<1>3. CASE AnswerHistory \/ ApplyHistory \/ FetchFails \/ OpenStream \/ Snapshot \/ StreamError
  BY <1>3, SpendingKeepsLeft
     DEF AnswerHistory, ApplyHistory, FetchFails, OpenStream, Snapshot, StreamError
<1>4. ASSUME NEW outcome, Load(outcome) PROVE Stays
  BY <1>4 DEF Load
<1>5. ASSUME NEW w, NEW x, Submit(w, x) PROVE Stays
  BY <1>5, SpendingKeepsLeft DEF Submit
<1>6. ASSUME NEW w, PerformWrite(w) \/ WriteLost(w) \/ WriteDone(w) \/ CancelEdit(w)
      PROVE  Stays
  BY <1>6, SpendingKeepsLeft DEF PerformWrite, WriteLost, WriteDone, CancelEdit
<1>7. ASSUME NEW c, NEW x, OtherWrites(c, x) PROVE Stays
  BY <1>7, SpendingKeepsLeft DEF OtherWrites
<1>8. ASSUME Panel PROVE Stays
  <2>1. Charting => Stays
    BY SpendingKeepsLeft DEF Charting
  <2>2. ASSUME NEW S, ApplyDefaults(S) PROVE Stays
    BY <2>2 DEF ApplyDefaults
  <2>3. CloseDialog => Stays
    BY DEF CloseDialog
  <2> QED
    BY <1>8, <2>1, <2>2, <2>3, Zenon
       DEF Panel, Toggle, CloseGroup, Expand, MergeInto, SplitOut, Brush, SetWindow
<1> QED
  BY <1>1, <1>2, <1>3, <1>4, <1>5, <1>6, <1>7, <1>8, Zenon DEF Next, Panel

(* The rows of a chart are times of the clock. *)
LEMMA RowsAreTimes ==
    ASSUME TypeOK, left \in Left, NEW id
    PROVE  Data(id) \in SUBSET Int /\ IsFiniteSet(Data(id))
<1> DEFINE clock == 1..left.time
<1>1. left.time \in Int /\ clock \subseteq Int
  BY DEF Left
<1>2. IsFiniteSet(clock)
  BY <1>1, FS_Interval
<1>3. \A v \in Members(selected, grouping, id) : Times(history[v]) \subseteq clock
  BY DEF TypeOK, Members
<1>4. Rows(id) \subseteq clock
  BY <1>3, Zenon DEF Rows, RowsOf
<1>5. Data(id) \subseteq Rows(id)
  BY DEF Data, Windowed
<1> QED
  BY <1>1, <1>2, <1>4, <1>5, FS_Subset

LEMMA InitRanges ==
    ASSUME Init
    PROVE  RangesHold
  BY MonitorAssumption DEF Init, RangesHold, Left

LEMMA RegroupedKeepsRanges ==
    ASSUME RangesHold, NEW s, NEW g, Regrouped(s, g), window' = window, NEW chart \in DOMAIN brush'
    PROVE  window' = None /\ brush'[chart] \in TimeRange
  BY DEF RangesHold, Regrouped, Kept

LEMMA PanelKeepsRanges ==
    ASSUME TypeOK, RangesHold, Panel, NEW chart \in DOMAIN brush'
    PROVE  window' = None /\ brush'[chart] \in TimeRange
<1> DEFINE Goal == window' = None /\ brush'[chart] \in TimeRange
<1>1. ASSUME NEW S, ApplyDefaults(S) PROVE Goal
  BY <1>1 DEF ApplyDefaults, RangesHold
<1>2. ASSUME NEW v, Toggle(v) PROVE Goal
  BY <1>2, RegroupedKeepsRanges DEF Toggle
<1>3. ASSUME NEW id, CloseGroup(id) PROVE Goal
  BY <1>3, RegroupedKeepsRanges DEF CloseGroup
<1>4. ASSUME NEW id, Expand(id) PROVE Goal
  BY <1>4 DEF Expand, RangesHold
<1>5. ASSUME NEW id, NEW v, MergeInto(id, v) PROVE Goal
  BY <1>5, RegroupedKeepsRanges DEF MergeInto
<1>6. ASSUME NEW c, NEW v, SplitOut(c, v) PROVE Goal
  BY <1>6, RegroupedKeepsRanges DEF SplitOut
<1>7. ASSUME NEW c, NEW i \in Nat, NEW j \in Nat, i <= j, Brush(c, i, j) PROVE Goal
  <2> DEFINE rows == Data(Shown(c))
             range == ToTimeRange(rows, i, j)
  <2>1. rows \in SUBSET Int /\ IsFiniteSet(rows)
    BY RowsAreTimes DEF RangesHold
  <2>2. Cardinality(rows) \in Nat /\ i < Cardinality(rows) /\ j < Cardinality(rows)
    BY <1>7, <2>1, FS_CardinalityType DEF Brush
  <2>3. RowAt(rows, i) \in Int /\ RowAt(rows, j) \in Int
    BY <2>1, <2>2, RowAtIndex
  <2>4. range # None => range \in TimeRange
    BY <2>3 DEF ToTimeRange, TimeRange
  <2>5. window' = None /\ brush' = IF range = None THEN Dropped(brush, c)
                                   ELSE With(brush, {c}, range)
    BY <1>7 DEF Brush
  <2> QED
    BY <2>4, <2>5 DEF RangesHold, Dropped, With
<1>8. ASSUME NEW w, SetWindow(w) PROVE Goal
  BY <1>8 DEF SetWindow
<1>9. CASE CloseDialog
  BY <1>9 DEF CloseDialog, Dropped, RangesHold
<1>10. \A i \in 0..MaxPoints : i \in Nat
  BY MonitorAssumption
<1> QED
  BY <1>1, <1>2, <1>3, <1>4, <1>5, <1>6, <1>7, <1>8, <1>9, <1>10, Zenon DEF Panel

----------------------------------------------------------------------------
(* Series, the sequences of times behind the charts.                        *)

Rising(s) == \A i, j \in DOMAIN s : i < j => s[i] < s[j]

LEMMA RowsHaveIndices ==
    ASSUME NEW rows \in SUBSET Int, IsFiniteSet(rows), NEW t \in rows
    PROVE  /\ Before(rows, t) \in 0..(Cardinality(rows) - 1)
           /\ RowAt(rows, Before(rows, t)) = t
<1> DEFINE i == Before(rows, t)
           r == RowAt(rows, i)
<1>1. i \in Nat /\ i < Cardinality(rows) /\ Cardinality(rows) \in Nat
  BY BeforeGrows, RowCounts, CountsAreNumbers
<1>2. r \in rows /\ Before(rows, r) = i
  BY <1>1, RowAtIndex
<1>3. r = t
  <2>1. r \in Int /\ t \in Int
    BY <1>2
  <2>2. r < t => i < i
    BY <1>2, <2>1, BeforeGrows
  <2>3. t < r => i < i
    BY <1>2, <2>1, BeforeGrows
  <2> QED
    BY <1>1, <2>1, <2>2, <2>3
<1> QED
  BY <1>1, <1>3

LEMMA RowAtGrows ==
    ASSUME NEW rows \in SUBSET Int, IsFiniteSet(rows), NEW i \in Nat, NEW j \in Nat,
           i < j, j < Cardinality(rows)
    PROVE  RowAt(rows, i) < RowAt(rows, j)
<1> DEFINE s == RowAt(rows, i)
           t == RowAt(rows, j)
<1>1. i < Cardinality(rows)
  BY CountsAreNumbers
<1>2. s \in rows /\ t \in rows /\ Before(rows, s) = i /\ Before(rows, t) = j
  BY <1>1, RowAtIndex
<1> HIDE DEF s, t
<1>3. s \in Int /\ t \in Int
  BY <1>2
<1>4. t <= s => j <= i
  BY <1>2, <1>3, BeforeGrows
<1> QED
  BY <1>3, <1>4 DEF s, t

(* What is picked keeps its order and is what stands at the positions. *)
LEMMA PickedInOrder ==
    ASSUME NEW T \in SUBSET Int, NEW s \in Seq(T), Rising(s), NEW I \in SUBSET DOMAIN s
    PROVE  /\ Picked(s, I) \in Seq(T)
           /\ Rising(Picked(s, I))
           /\ Times(Picked(s, I)) = {s[i] : i \in I}
<1> DEFINE n == Cardinality(I)
           p == Picked(s, I)
<1>1. I \in SUBSET Int /\ IsFiniteSet(I)
  <2>1. Len(s) \in Nat /\ DOMAIN s = 1..Len(s)
    OBVIOUS
  <2>2. IsFiniteSet(1..Len(s))
    BY <2>1, FS_Interval
  <2> QED
    BY <2>1, <2>2, FS_Subset
<1>2. n \in Nat
  BY <1>1, FS_CardinalityType
<1>3. p = [k \in 1..n |-> s[RowAt(I, k - 1)]]
  BY DEF Picked
<1> HIDE DEF n, p
<1>4. \A k \in 1..n : RowAt(I, k - 1) \in I
  BY <1>1, <1>2, RowAtIndex DEF n
<1>5. p \in [1..n -> T]
  BY <1>3, <1>4
<1>6. p \in Seq(T) /\ Len(p) = n /\ DOMAIN p = 1..n
  BY <1>2, <1>5
<1>7. \A j, k \in 1..n : j < k => RowAt(I, j - 1) < RowAt(I, k - 1)
  BY <1>1, <1>2, RowAtGrows DEF n
<1>8. Rising(p)
  BY <1>3, <1>4, <1>6, <1>7 DEF Rising
<1>9. Times(p) = {s[i] : i \in I}
  <2>1. ASSUME NEW i \in I PROVE \E k \in 1..n : RowAt(I, k - 1) = i
    <3>1. Before(I, i) \in 0..(n - 1) /\ RowAt(I, Before(I, i)) = i
      BY <1>1, RowsHaveIndices DEF n
    <3>2. Before(I, i) + 1 \in 1..n /\ (Before(I, i) + 1) - 1 = Before(I, i)
      BY <1>2, <3>1
    <3> QED
      BY <3>1, <3>2
  <2> QED
    BY <1>3, <1>4, <1>6, <2>1 DEF Times
<1> QED
  BY <1>6, <1>8, <1>9 DEF p

LEMMA RisingTogether ==
    ASSUME NEW T \in SUBSET Int, NEW p \in Seq(T), NEW s \in Seq(T), Rising(p), Rising(s),
           \A x \in Times(p), y \in Times(s) : x < y
    PROVE  /\ p \o s \in Seq(T) /\ Rising(p \o s)
           /\ Times(p \o s) = Times(p) \cup Times(s)
<1> DEFINE q == p \o s
<1>1. q \in Seq(T) /\ DOMAIN q = 1..(Len(p) + Len(s))
  OBVIOUS
<1>2. /\ \A i \in 1..Len(p) : q[i] = p[i]
      /\ \A i \in (Len(p) + 1)..(Len(p) + Len(s)) :
            q[i] = s[i - Len(p)] /\ i - Len(p) \in 1..Len(s)
  OBVIOUS
<1>3. DOMAIN p = 1..Len(p) /\ DOMAIN s = 1..Len(s) /\ Len(p) \in Nat /\ Len(s) \in Nat
  OBVIOUS
<1> HIDE DEF q
<1>4. ASSUME NEW i \in DOMAIN q, NEW j \in DOMAIN q, i < j PROVE q[i] < q[j]
  <2>1. CASE j <= Len(p)
    BY <1>1, <1>2, <1>3, <1>4, <2>1 DEF Rising
  <2>2. CASE i > Len(p)
    <3>1. /\ i \in (Len(p) + 1)..(Len(p) + Len(s))
          /\ j \in (Len(p) + 1)..(Len(p) + Len(s))
          /\ i - Len(p) < j - Len(p)
      BY <1>1, <1>3, <1>4, <2>2
    <3> QED
      BY <1>2, <1>3, <3>1 DEF Rising
  <2>3. CASE i <= Len(p) /\ j > Len(p)
    <3>1. i \in 1..Len(p) /\ j \in (Len(p) + 1)..(Len(p) + Len(s))
      BY <1>1, <1>3, <2>3
    <3>2. q[i] \in Times(p) /\ q[j] \in Times(s)
      BY <1>2, <1>3, <3>1 DEF Times
    <3> QED
      BY <3>2
  <2> QED
    BY <1>1, <1>3, <2>1, <2>2, <2>3
<1>5. Times(q) = Times(p) \cup Times(s)
  <2>1. ASSUME NEW i \in DOMAIN q PROVE q[i] \in Times(p) \cup Times(s)
    <3>1. i \in 1..Len(p) \/ i \in (Len(p) + 1)..(Len(p) + Len(s))
      BY <1>1, <1>3
    <3> QED
      BY <1>2, <1>3, <3>1 DEF Times
  <2>2. ASSUME NEW i \in DOMAIN p PROVE i \in DOMAIN q /\ q[i] = p[i]
    BY <1>1, <1>2, <1>3
  <2>3. ASSUME NEW i \in DOMAIN s PROVE i + Len(p) \in DOMAIN q /\ q[i + Len(p)] = s[i]
    <3>1. i + Len(p) \in (Len(p) + 1)..(Len(p) + Len(s)) /\ (i + Len(p)) - Len(p) = i
      BY <1>3
    <3> QED
      BY <1>1, <1>2, <1>3, <3>1
  <2> QED
    BY <2>1, <2>2, <2>3 DEF Times
<1> QED
  BY <1>1, <1>4, <1>5 DEF Rising, q

(* s.slice(-n), by its elements. *)
LEMMA LastOf ==
    ASSUME NEW T, NEW s \in Seq(T), NEW n \in Nat \ {0}
    PROVE  LET off == IF Len(s) > n THEN Len(s) - n ELSE 0 IN
           /\ Last(s, n) \in Seq(T)
           /\ Len(Last(s, n)) = Len(s) - off
           /\ \A i \in 1..(Len(s) - off) : i + off \in 1..Len(s) /\ Last(s, n)[i] = s[i + off]
<1>1. CASE Len(s) > n
  BY <1>1 DEF Last
<1>2. CASE ~(Len(s) > n)
  BY <1>2 DEF Last
<1> QED
  BY <1>1, <1>2

----------------------------------------------------------------------------
(* A series that has been trimmed: the top of a set of times.               *)

Top(s, S) ==
    /\ Rising(s)
    /\ Times(s) \subseteq S
    /\ \A x \in S \ Times(s), y \in Times(s) : x < y

(* Trimmed to n, and only because it was longer. *)
Trimmed(s, S, n) ==
    /\ Top(s, S)
    /\ Len(s) <= n
    /\ S = Times(s) \/ Len(s) = n

LEMMA LastIsTrimmed ==
    ASSUME NEW T \in SUBSET Int, NEW s \in Seq(T), NEW n \in Nat \ {0}, NEW S \in SUBSET Int,
           Top(s, S), S = Times(s) \/ Len(s) >= n
    PROVE  Last(s, n) \in Seq(T) /\ Trimmed(Last(s, n), S, n)
<1> DEFINE off == IF Len(s) > n THEN Len(s) - n ELSE 0
           r == Last(s, n)
<1>1. /\ r \in Seq(T) /\ Len(r) = Len(s) - off /\ DOMAIN r = 1..(Len(s) - off)
      /\ \A i \in DOMAIN r : i + off \in DOMAIN s /\ r[i] = s[i + off]
  <2>1. /\ r \in Seq(T) /\ Len(r) = Len(s) - off
        /\ \A i \in 1..(Len(s) - off) : i + off \in 1..Len(s) /\ r[i] = s[i + off]
    BY LastOf, Zenon
  <2>2. DOMAIN r = 1..Len(r) /\ DOMAIN s = 1..Len(s)
    BY <2>1
  <2> QED
    BY <2>1, <2>2
<1>2. Len(s) \in Nat /\ DOMAIN s = 1..Len(s) /\ off \in Nat /\ off <= Len(s)
  OBVIOUS
<1>3. Len(r) <= n /\ (Len(s) >= n => Len(r) = n) /\ (Len(s) <= n => off = 0)
  BY <1>1, <1>2
<1> HIDE DEF off, r
<1>4. Rising(r)
  BY <1>1, <1>2 DEF Rising, Top
<1>5. Times(r) \subseteq Times(s)
  BY <1>1 DEF Times
<1>6. ASSUME NEW x \in Times(s) \ Times(r), NEW y \in Times(r) PROVE x < y
  <2>1. PICK i \in DOMAIN s : x = s[i]
    BY DEF Times
  <2>2. PICK j \in DOMAIN r : y = r[j]
    BY DEF Times
  <2>3. i <= off
    <3>1. CASE i > off
      <4>1. i - off \in DOMAIN r /\ (i - off) + off = i
        BY <1>1, <1>2, <3>1
      <4> QED
        BY <1>1, <2>1, <4>1 DEF Times
    <3> QED
      BY <1>2, <3>1
  <2>4. i < j + off /\ j + off \in DOMAIN s /\ y = s[j + off]
    BY <1>1, <1>2, <2>2, <2>3
  <2> QED
    BY <2>1, <2>4 DEF Rising, Top
<1>7. Top(r, S)
  BY <1>4, <1>5, <1>6 DEF Top
<1>8. Len(s) < n => Times(r) = Times(s)
  <2> SUFFICES ASSUME Len(s) < n PROVE Times(r) = Times(s)
    OBVIOUS
  <2>1. off = 0 /\ DOMAIN r = DOMAIN s /\ \A i \in DOMAIN s : r[i] = s[i]
    BY <1>1, <1>2, <1>3
  <2> QED
    BY <2>1 DEF Times
<1> QED
  BY <1>1, <1>2, <1>3, <1>7, <1>8 DEF Trimmed, r

LEMMA AppendedTimes ==
    ASSUME NEW T \in SUBSET Int, NEW s \in Seq(T), NEW t \in T
    PROVE  /\ Append(s, t) \in Seq(T)
           /\ Times(Append(s, t)) = Times(s) \cup {t}
           /\ (Rising(s) /\ \A x \in Times(s) : x < t) => Rising(Append(s, t))
<1> DEFINE a == Append(s, t)
           n == Len(s)
<1>1. n \in Nat /\ DOMAIN s = 1..n /\ a \in Seq(T) /\ DOMAIN a = 1..(n + 1)
  OBVIOUS
<1>2. (\A i \in 1..n : a[i] = s[i]) /\ a[n + 1] = t
  OBVIOUS
<1> HIDE DEF a, n
<1>3. Times(a) = Times(s) \cup {t}
  <2>1. \A i \in 1..(n + 1) : i \in 1..n \/ i = n + 1
    BY <1>1
  <2>2. \A i \in 1..n : i \in 1..(n + 1)
    BY <1>1
  <2>3. n + 1 \in 1..(n + 1)
    BY <1>1
  <2> QED
    BY <1>1, <1>2, <2>1, <2>2, <2>3 DEF Times
<1>4. ASSUME Rising(s), \A x \in Times(s) : x < t,
             NEW i \in DOMAIN a, NEW j \in DOMAIN a, i < j
      PROVE  a[i] < a[j]
  <2>1. i \in 1..n /\ s[i] \in Times(s)
    BY <1>1, <1>4 DEF Times
  <2>2. j \in 1..n \/ j = n + 1
    BY <1>1
  <2> QED
    BY <1>1, <1>2, <1>4, <2>1, <2>2 DEF Rising
<1> QED
  BY <1>1, <1>3, <1>4 DEF Rising, a

(* A point of the stream, newer than all others (onSnapshot). *)
LEMMA PointAppended ==
    ASSUME NEW T \in SUBSET Int, NEW s \in Seq(T), NEW n \in Nat \ {0}, NEW S \in SUBSET Int,
           Trimmed(s, S, n), NEW t \in T, \A x \in S : x < t
    PROVE  Trimmed(Last(Append(s, t), n), S \cup {t}, n)
<1> DEFINE a == Append(s, t)
<1>1. a \in Seq(T) /\ Times(a) = Times(s) \cup {t} /\ Rising(a)
  <2>1. Rising(s) /\ \A x \in Times(s) : x < t
    BY DEF Trimmed, Top
  <2> QED
    BY <2>1, AppendedTimes
<1>2. Len(a) = Len(s) + 1 /\ Len(s) \in Nat
  OBVIOUS
<1>3. S \cup {t} \in SUBSET Int
  OBVIOUS
<1> HIDE DEF a
<1>4. Top(a, S \cup {t})
  BY <1>1 DEF Trimmed, Top
<1>5. S \cup {t} = Times(a) \/ Len(a) >= n
  BY <1>1, <1>2 DEF Trimmed
<1> QED
  BY <1>1, <1>3, <1>4, <1>5, LastIsTrimmed DEF a
LEMMA SeriesElements ==
    ASSUME NEW T \in SUBSET Int, NEW s \in Seq(T)
    PROVE  /\ Len(s) \in Nat /\ DOMAIN s = 1..Len(s)
           /\ \A i \in DOMAIN s : s[i] \in T /\ s[i] \in Int
           /\ Times(s) \in SUBSET T /\ Times(s) \in SUBSET Int
<1>1. \A i \in DOMAIN s : s[i] \in T
  OBVIOUS
<1>2. Times(s) \subseteq T
  BY <1>1 DEF Times
<1>3. \A x \in T : x \in Int
  OBVIOUS
<1>4. Len(s) \in Nat /\ DOMAIN s = 1..Len(s)
  OBVIOUS
<1> QED
  BY <1>1, <1>2, <1>3, <1>4, Zenon

(* The history goes under the live points (seedHistory). *)
LEMMA HistorySeeded ==
    ASSUME NEW T \in SUBSET Int, NEW s \in Seq(T), NEW points \in Seq(T), Rising(points),
           NEW n \in Nat \ {0}, NEW S \in SUBSET Int, Trimmed(s, S, n)
    PROVE  LET joined == S \cup {t \in Times(points) : \A x \in S : t < x} IN
           /\ SeedHistory(s, points, n) \in Seq(T)
           /\ Trimmed(SeedHistory(s, points, n), joined, n)
<1> DEFINE J == S \cup {t \in Times(points) : \A x \in S : t < x}
           I == {i \in DOMAIN points : s = <<>> \/ points[i] < s[1]}
           p == Picked(points, I)
           q == p \o s
<1>1. p \in Seq(T) /\ Rising(p) /\ Times(p) = {points[i] : i \in I}
  BY PickedInOrder
<1>2. SeedHistory(s, points, n) = Last(q, n)
  BY DEF SeedHistory
<1>3. Times(points) \subseteq T /\ Times(s) \subseteq T
  BY DEF Times
<1>4. J \in SUBSET Int
  BY <1>3
<1>5. DOMAIN s = 1..Len(s) /\ Len(s) \in Nat /\ (s = <<>> <=> Len(s) = 0)
  OBVIOUS
<1>6. ASSUME s # <<>> PROVE s[1] \in Times(s) /\ \A y \in Times(s) : s[1] <= y
  <2>1. 1 \in DOMAIN s /\ s[1] \in Int /\ \A i \in DOMAIN s : s[i] \in Int /\ i \in Int /\ 1 <= i
    BY <1>5, <1>6, SeriesElements
  <2>2. \A i \in DOMAIN s : s[1] <= s[i]
    <3>1. \A i \in DOMAIN s : 1 < i => s[1] < s[i]
      BY <2>1 DEF Trimmed, Top, Rising
    <3> QED
      BY <2>1, <3>1
  <2> QED
    BY <2>1, <2>2 DEF Times
<1>7. \A x \in Times(p), y \in Times(s) : x < y
  <2> SUFFICES ASSUME NEW x \in Times(p), NEW y \in Times(s)
               PROVE  x < y
    OBVIOUS
  <2>1. s # <<>>
    BY DEF Times
  <2>2. x < s[1]
    BY <1>1, <2>1
  <2>3. x \in Int /\ y \in Int /\ s[1] \in Int
    BY <1>1, <1>6, <2>1, SeriesElements
  <2> QED
    BY <1>6, <2>1, <2>2, <2>3
<1>8. q \in Seq(T) /\ Rising(q) /\ Times(q) = Times(p) \cup Times(s)
  BY <1>1, <1>7, RisingTogether DEF Trimmed, Top
<1>9. CASE S = Times(s)
  <2>1. Times(p) = {t \in Times(points) : \A x \in S : t < x}
    <3>1. CASE s = <<>>
      <4>1. I = DOMAIN points
        BY <3>1
      <4>2. DOMAIN s = {}
        BY <1>5, <3>1
      <4>3. S = {}
        BY <1>9, <4>2 DEF Times
      <4>4. Times(p) = Times(points)
        BY <1>1, <4>1 DEF Times
      <4> QED
        BY <4>3, <4>4
    <3>2. CASE s # <<>>
      <4>1. ASSUME NEW t \in Times(points)
            PROVE  t < s[1] <=> \A x \in S : t < x
        <5>1. t \in Int /\ s[1] \in Int /\ \A x \in S : x \in Int
          BY <1>3, <1>6, <3>2
        <5> QED
          BY <1>6, <1>9, <3>2, <5>1
      <4>2. Times(p) = {t \in Times(points) : t < s[1]}
        BY <1>1, <3>2 DEF Times
      <4> QED
        BY <4>1, <4>2
    <3> QED
      BY <3>1, <3>2
  <2>2. Times(q) = J
    BY <1>8, <1>9, <2>1
  <2> HIDE DEF q, J
  <2>3. Top(q, J)
    BY <1>8, <2>2 DEF Top
  <2> QED
    BY <1>2, <1>4, <1>8, <2>2, <2>3, LastIsTrimmed DEF J
<1>10. CASE S # Times(s)
  <2>1. Len(s) = n
    BY <1>10 DEF Trimmed
  <2>2. Len(q) = Len(p) + n /\ Len(p) \in Nat
    BY <1>1, <2>1
  <2>3. \A i \in 1..n : q[i + Len(p)] = s[i]
    BY <1>1, <2>1
  <2> DEFINE r == Last(q, n)
  <2>4. r \in Seq(T) /\ Len(r) = n /\ \A i \in 1..n : r[i] = q[i + Len(p)]
    <3> DEFINE off == IF Len(q) > n THEN Len(q) - n ELSE 0
    <3>1. off = Len(p)
      BY <2>2
    <3>2. /\ r \in Seq(T) /\ Len(r) = Len(q) - off
          /\ \A i \in 1..(Len(q) - off) : i + off \in 1..Len(q) /\ r[i] = q[i + off]
      <4> HIDE DEF q
      <4> QED
        BY <1>8, LastOf
    <3>3. Len(q) - off = n
      BY <2>2, <3>1
    <3> HIDE DEF r, q, off
    <3> QED
      BY <3>1, <3>2, <3>3
  <2>5. r = s
    <3> HIDE DEF r, q, p
    <3>1. DOMAIN r = 1..n /\ DOMAIN s = 1..n /\ \A i \in 1..n : r[i] = s[i]
      BY <1>5, <2>1, <2>3, <2>4
    <3>2. r = [i \in 1..n |-> r[i]] /\ s = [i \in 1..n |-> s[i]]
      BY <2>4, <3>1
    <3> QED
      BY <3>1, <3>2, Zenon
  <2>6. \A x \in J \ Times(s), y \in Times(s) : x < y
    BY DEF Trimmed, Top
  <2>7. Trimmed(s, J, n)
    <3> HIDE DEF J
    <3>1. S \subseteq J
      BY DEF J
    <3> QED
      BY <2>1, <2>6, <3>1 DEF Trimmed, Top
  <2> QED
    BY <1>2, <2>5, <2>7
<1> QED
  BY <1>9, <1>10

(* A rising series counts its times. *)
LEMMA TimesAfter ==
    ASSUME NEW T \in SUBSET Int, NEW s \in Seq(T), Rising(s), NEW i \in 0..Len(s)
    PROVE  LET after == {s[j] : j \in (i + 1)..Len(s)} IN
           IsFiniteSet(after) /\ Cardinality(after) = Len(s) - i
<1> DEFINE D == (i + 1)..Len(s)
           A == {s[j] : j \in D}
           f == [j \in D |-> s[j]]
<1>1. Len(s) \in Nat /\ i \in Nat /\ DOMAIN s = 1..Len(s) /\ D \subseteq DOMAIN s
  OBVIOUS
<1>2. IsFiniteSet(D) /\ Cardinality(D) = Len(s) - i
  <2>1. i + 1 \in Int /\ Len(s) \in Int
    BY <1>1
  <2>2. IsFiniteSet(D) /\ Cardinality(D) = IF i + 1 > Len(s) THEN 0 ELSE Len(s) - (i + 1) + 1
    BY <2>1, FS_Interval
  <2> QED
    BY <1>1, <2>2
<1>3. f \in Surjection(D, A)
  BY DEF Surjection
<1>4. ASSUME NEW j \in D, NEW k \in D, s[j] = s[k] PROVE j = k
  <2>1. j \in DOMAIN s /\ k \in DOMAIN s /\ j \in Int /\ k \in Int
    BY <1>1
  <2>2. s[j] \in Int /\ s[k] \in Int
    BY <2>1, SeriesElements
  <2> QED
    BY <1>4, <2>1, <2>2 DEF Rising
<1>5. f \in Injection(D, A)
  BY <1>4 DEF Injection, IsInjective
<1>6. f \in Bijection(D, A)
  BY <1>3, <1>5 DEF Bijection
<1> HIDE DEF A, D, f
<1>7. IsFiniteSet(A) /\ Cardinality(A) = Cardinality(D)
  BY <1>2, <1>6, FS_Bijection, FS_Surjection, FS_Injection DEF ExistsBijection
<1> QED
  BY <1>2, <1>7 DEF A, D

(* A trimmed series holds the newest times. *)
LEMMA TrimmedIsNewest ==
    ASSUME NEW T \in SUBSET Int, NEW s \in Seq(T), NEW n \in Nat, NEW S \in SUBSET Int,
           IsFiniteSet(S), Trimmed(s, S, n)
    PROVE  Times(s) = Newest(S, n)
<1>1. Len(s) \in Nat /\ DOMAIN s = 1..Len(s) /\ Rising(s) /\ \A i \in DOMAIN s : s[i] \in Int
  BY SeriesElements DEF Trimmed, Top
<1>2. ASSUME NEW i \in DOMAIN s
      PROVE  {x \in S : x > s[i]} = {s[j] : j \in (i + 1)..Len(s)}
  <2>1. ASSUME NEW x \in S, x > s[i] PROVE \E j \in (i + 1)..Len(s) : x = s[j]
    <3>1. x \in Int /\ s[i] \in Times(s) /\ s[i] \in Int
      BY <1>1 DEF Times
    <3>2. ~ x < s[i]
      BY <2>1, <3>1
    <3>3. x \in Times(s)
      BY <3>1, <3>2 DEF Trimmed, Top
    <3>4. PICK j \in DOMAIN s : x = s[j]
      BY <3>3 DEF Times
    <3>5. ~ j < i
      BY <1>1, <2>1, <3>1, <3>4 DEF Rising
    <3>6. j # i
      BY <2>1, <3>1, <3>4
    <3>7. j \in (i + 1)..Len(s)
      BY <1>1, <3>5, <3>6
    <3> QED
      BY <3>4, <3>7
  <2>2. ASSUME NEW j \in (i + 1)..Len(s) PROVE s[j] \in S /\ s[j] > s[i]
    <3>1. j \in DOMAIN s /\ i < j
      BY <1>1
    <3>2. s[j] \in Times(s) /\ s[i] < s[j] /\ s[i] \in Int /\ s[j] \in Int
      BY <1>1, <3>1 DEF Times, Rising
    <3> QED
      BY <3>2 DEF Trimmed, Top
  <2> QED
    BY <2>1, <2>2
<1>3. ASSUME NEW t \in Times(s) PROVE t \in Newest(S, n)
  <2>1. PICK i \in DOMAIN s : t = s[i]
    BY DEF Times
  <2>2. i \in 0..Len(s) /\ i >= 1
    BY <1>1
  <2>3. Cardinality({s[j] : j \in (i + 1)..Len(s)}) = Len(s) - i
    BY <1>1, <2>2, TimesAfter
  <2>4. Cardinality({x \in S : x > t}) = Len(s) - i
    BY <1>2, <2>1, <2>3
  <2>5. Len(s) - i < n
    <3>1. Len(s) <= n
      BY DEF Trimmed
    <3> QED
      BY <1>1, <2>2, <3>1
  <2> QED
    BY <2>4, <2>5 DEF Newest, Trimmed, Top
<1>4. ASSUME NEW t \in S \ Times(s) PROVE t \notin Newest(S, n)
  <2> DEFINE A == {x \in S : x > t}
             B == {s[j] : j \in 1..Len(s)}
  <2>1. Len(s) = n
    BY <1>4 DEF Trimmed
  <2>2. B = Times(s)
    BY <1>1 DEF Times
  <2>3. B \subseteq A
    <3> SUFFICES ASSUME NEW y \in Times(s) PROVE y \in S /\ y > t
      BY <2>2
    <3>1. t < y /\ y \in S
      BY <1>4 DEF Trimmed, Top
    <3>2. t \in Int /\ y \in Int
      BY <3>1
    <3> QED
      BY <3>1, <3>2
  <2>4. Cardinality(B) = n
    <3>1. 0 \in 0..Len(s) /\ 0 + 1 = 1 /\ Len(s) - 0 = n
      BY <1>1, <2>1
    <3>2. Cardinality({s[j] : j \in (0 + 1)..Len(s)}) = Len(s) - 0
      BY <1>1, <3>1, TimesAfter
    <3> QED
      BY <3>1, <3>2
  <2>5. IsFiniteSet(A) /\ Cardinality(A) \in Nat
    BY FS_Subset, FS_CardinalityType
  <2>6. n <= Cardinality(A)
    <3> HIDE DEF A, B
    <3> QED
      BY <2>3, <2>4, <2>5, FS_Subset
  <2> HIDE DEF A
  <2>7. ~ Cardinality(A) < n
    BY <2>5, <2>6
  <2> QED
    BY <2>7 DEF A, Newest
<1>5. Newest(S, n) \subseteq S /\ Times(s) \subseteq S
  BY DEF Newest, Trimmed, Top
<1> QED
  BY <1>3, <1>4, <1>5
----------------------------------------------------------------------------
(* The invariant of the feed: what the sources hold, what they have told    *)
(* the page and what the page made of it.                                   *)

Clock == 1..left.time

ClockInv ==
    /\ left \in Left
    /\ now \in 0..left.time
    /\ ring \in Seq(Clock) /\ Rising(ring) /\ Len(ring) <= MaxHistory
    /\ \A t \in Times(ring) : t <= now

(* What is under way is newer than what has arrived. *)
StreamInv ==
    /\ stream \in [pc: {"off", "opening", "open", "ended"},
                   sent: Seq([t: Clock, values: [Controls -> Values]]), last: 0..left.time]
    /\ \A i \in DOMAIN stream.sent : stream.sent[i].t <= stream.last
    /\ \A i, j \in DOMAIN stream.sent : i < j => stream.sent[i].t < stream.sent[j].t
    /\ \A t \in told.live : /\ t <= stream.last
                            /\ \A i \in DOMAIN stream.sent : t < stream.sent[i].t

(* The history is asked for and applied once; before, nothing older is told. *)
FetchInv ==
    /\ load = "loading" => fetched.pc = "none"
    /\ fetched \in [pc: {"none", "asked", "answered", "done"}, points: Seq(Clock)]
    /\ Rising(fetched.points)
    /\ told \in [live: SUBSET Clock, older: SUBSET Clock, first: BOOLEAN]
    /\ fetched.pc # "done" => told.older = {} /\ ~told.first
    /\ told.older # {} /\ told.live = {} => told.first

HistoryInv ==
    /\ history \in [Vars -> Seq(Clock)]
    /\ \A v \in Vars : Len(history[v]) <= MaxPoints
    /\ ~Overtaken => \A v \in Readable : Trimmed(history[v], Joined, MaxPoints)

FeedInv == ClockInv /\ StreamInv /\ FetchInv /\ HistoryInv

feed == <<now, ring, stream, load, fetched, told, history>>

FeedStep ==
    \/ Record \/ Push \/ StreamFails \/ StreamCut
    \/ \E outcome \in {"ready", "notfound", "error"} : Load(outcome)
    \/ AnswerHistory \/ ApplyHistory \/ FetchFails
    \/ OpenStream \/ Snapshot \/ StreamError

LEMMA OtherStepsKeepFeed ==
    ASSUME [Next]_vars
    PROVE  UNCHANGED feed \/ FeedStep
<1> USE DEF feed, server, sources, table
<1>1. CASE UNCHANGED vars
  BY <1>1 DEF vars
<1>2. CASE DeviceLost \/ DeviceBack
  BY <1>2 DEF DeviceLost, DeviceBack
<1>3. ASSUME NEW w, NEW x, Submit(w, x) PROVE UNCHANGED feed
  BY <1>3 DEF Submit
<1>4. ASSUME NEW w, PerformWrite(w) \/ WriteLost(w) \/ WriteDone(w) \/ CancelEdit(w)
      PROVE  UNCHANGED feed
  BY <1>4 DEF PerformWrite, WriteLost, WriteDone, CancelEdit
<1>5. ASSUME NEW c, NEW x, OtherWrites(c, x) PROVE UNCHANGED feed
  BY <1>5 DEF OtherWrites
<1>6. ASSUME Panel PROVE UNCHANGED feed
  <2>1. Charting => UNCHANGED feed
    BY DEF Charting
  <2>2. ASSUME NEW S, ApplyDefaults(S) PROVE UNCHANGED feed
    BY <2>2 DEF ApplyDefaults
  <2>3. CloseDialog => UNCHANGED feed
    BY DEF CloseDialog
  <2> QED
    BY <1>6, <2>1, <2>2, <2>3, Zenon
       DEF Panel, Toggle, CloseGroup, Expand, MergeInto, SplitOut, Brush, SetWindow
<1> QED
  BY <1>1, <1>2, <1>3, <1>4, <1>5, <1>6, Zenon DEF Next, Panel, FeedStep

LEMMA InitFeed ==
    ASSUME Init
    PROVE  FeedInv
<1>1. left \in Left
  BY MonitorAssumption DEF Init, Left
<1>2. left.time \in Nat
  BY <1>1 DEF Left
<1>3. \A S : <<>> \in Seq(S) /\ DOMAIN <<>> = {} /\ Len(<<>>) = 0
  OBVIOUS
<1>4. Times(<<>>) = {} /\ Rising(<<>>)
  BY <1>3 DEF Times, Rising
<1>5. ClockInv /\ StreamInv /\ FetchInv
  BY <1>1, <1>2, <1>3, <1>4, MonitorAssumption DEF Init, ClockInv, StreamInv, FetchInv
<1>6. Joined = {}
  BY DEF Init, Joined
<1>7. \A v \in Vars : history[v] = <<>>
  BY DEF Init
<1>8. Readable \subseteq Vars
  BY DEF Vars
<1>9. HistoryInv
  BY <1>3, <1>4, <1>6, <1>7, <1>8, MonitorAssumption DEF Init, HistoryInv, Trimmed, Top
<1> QED
  BY <1>5, <1>9 DEF FeedInv
LEMMA ClockStays ==
    ASSUME ClockInv, [Next]_vars
    PROVE  left' \in Left /\ Clock' = Clock /\ left'.time = left.time
  BY StepsKeepLeft DEF ClockInv, Clock

(* A time that has come joins a series. *)
LEMMA NewTime ==
    ASSUME ClockInv, NEW t \in {now, now + 1}, t <= left.time, NEW last \in 0..left.time, last < t
    PROVE  t \in Clock /\ t \in 0..left.time /\ now <= t
<1>1. left.time \in Nat /\ now \in Nat
  BY DEF ClockInv, Left
<1> QED
  BY <1>1 DEF Clock

LEMMA RecordKeepsFeed ==
    ASSUME FeedInv, [Next]_vars, Record
    PROVE  FeedInv'
<1> DEFINE a == Append(ring, now + 1)
<1> USE DEF FeedInv
<1>1. left' \in Left /\ Clock' = Clock /\ left'.time = left.time
  BY ClockStays
<1>2. /\ now' = now + 1 /\ now < left.time /\ ring' = Last(a, MaxHistory)
      /\ UNCHANGED <<stream, load, fetched, told, history, left>>
  BY DEF Record, sources, table
<1>3. left.time \in Nat /\ now \in Nat /\ now' \in Clock /\ Clock \in SUBSET Int
  BY <1>2 DEF ClockInv, Left, Clock
<1>4. \A t \in Times(ring) : t < now + 1
  <2>1. Times(ring) \in SUBSET Int
    BY <1>3, SeriesElements DEF ClockInv
  <2> QED
    BY <1>3, <2>1 DEF ClockInv
<1>5. a \in Seq(Clock) /\ Times(a) = Times(ring) \cup {now + 1} /\ Rising(a)
  BY <1>2, <1>3, <1>4, AppendedTimes DEF ClockInv
<1> HIDE DEF a
<1>6. Top(a, Times(a))
  BY <1>5 DEF Top
<1>7. Times(a) \in SUBSET Int
  BY <1>3, <1>5, SeriesElements
<1>8. ring' \in Seq(Clock) /\ Trimmed(ring', Times(a), MaxHistory)
  BY <1>2, <1>3, <1>5, <1>6, <1>7, LastIsTrimmed, MonitorAssumption
<1>9. ClockInv'
  <2>1. now' \in 0..left.time
    BY <1>2, <1>3
  <2>2. \A t \in Times(ring') : t <= now'
    BY <1>2, <1>3, <1>4, <1>5, <1>7, <1>8 DEF Trimmed, Top
  <2> QED
    BY <1>1, <1>8, <2>1, <2>2 DEF ClockInv, Trimmed, Top
<1>10. StreamInv' /\ FetchInv' /\ HistoryInv'
  BY <1>1, <1>2 DEF StreamInv, FetchInv, HistoryInv, Overtaken, Joined
<1> QED
  BY <1>9, <1>10

LEMMA PushKeepsFeed ==
    ASSUME FeedInv, device \in [Controls -> Values], [Next]_vars, Push
    PROVE  FeedInv'
<1> USE DEF FeedInv
<1>1. left' \in Left /\ Clock' = Clock /\ left'.time = left.time
  BY ClockStays
<1>2. PICK t \in {now, now + 1} :
         /\ stream.last < t /\ t <= left.time /\ now' = t
         /\ stream' = [stream EXCEPT !.last = t, !.sent = Append(@,
               [t |-> t, values |-> device])]
  BY Zenon DEF Push
<1>3. UNCHANGED <<ring, load, fetched, told, history, left>>
  BY DEF Push, sources, table
<1>4. stream.last \in 0..left.time /\ left.time \in Nat
  BY DEF StreamInv, ClockInv, Left
<1>5. t \in Clock /\ t \in 0..left.time /\ now <= t
  BY <1>2, <1>4, NewTime
<1>6. ClockInv'
  <2>1. Times(ring) \in SUBSET Int
    <3>1. Clock \in SUBSET Int
      BY DEF Clock
    <3> QED
      BY <3>1, SeriesElements DEF ClockInv
  <2>2. \A x \in Times(ring) : x <= t
    <3>1. now \in Int /\ t \in Int
      BY <1>4, <1>5 DEF ClockInv
    <3> QED
      BY <1>5, <2>1, <3>1 DEF ClockInv
  <2> QED
    BY <1>1, <1>2, <1>3, <1>5, <2>2 DEF ClockInv
<1>7. StreamInv'
  <2> DEFINE event == [t |-> t, values |-> device]
             sent == stream.sent
             more == Append(sent, event)
             n == Len(sent)
  <2>1. event \in [t: Clock, values: [Controls -> Values]]
    BY <1>5
  <2>2. /\ sent \in Seq([t: Clock, values: [Controls -> Values]])
        /\ n \in Nat /\ DOMAIN sent = 1..n
    BY DEF StreamInv
  <2>3. /\ more \in Seq([t: Clock, values: [Controls -> Values]]) /\ DOMAIN more = 1..(n + 1)
        /\ \A i \in 1..n : more[i] = sent[i]
        /\ more[n + 1].t = t
    BY <2>1, <2>2
  <2>4. stream'.sent = more /\ stream'.last = t /\ stream'.pc = stream.pc
        /\ stream' = [pc |-> stream.pc, sent |-> more, last |-> t]
    BY <1>2 DEF StreamInv
  <2>5. \A i \in 1..n : sent[i].t \in Int /\ sent[i].t <= stream.last
    <3>1. \A i \in 1..n : sent[i] \in [t: Clock, values: [Controls -> Values]]
      <4> DEFINE Event == [t: Clock, values: [Controls -> Values]]
      <4>1. sent \in Seq(Event)
        BY <2>2
      <4> HIDE DEF Event, sent, n
      <4>2. \A i \in 1..n : sent[i] \in Event
        BY <2>2, <4>1
      <4> QED
        BY <4>2 DEF Event
    <3>2. \A i \in 1..n : sent[i].t \in Clock
      BY <3>1
    <3> QED
      BY <2>2, <3>2 DEF StreamInv, Clock
  <2>6. \A i \in 1..n : sent[i].t < t
    BY <1>2, <1>4, <1>5, <2>5
  <2>7. \A i \in 1..(n + 1) : i \in 1..n \/ i = n + 1
    BY <2>2
  <2>8. \A i, j \in 1..(n + 1) : i < j => i \in 1..n
    BY <2>2
  <2>9. \A x \in told.live : x \in Int /\ x < t /\ x <= stream.last
    <3>1. told.live \subseteq Clock /\ Clock \subseteq Int
      BY DEF FetchInv, Clock
    <3> QED
      BY <1>2, <1>4, <1>5, <3>1 DEF StreamInv
  <2> HIDE DEF more, n, sent, event
  <2>10. /\ \A i \in DOMAIN more : more[i].t <= t
         /\ \A i, j \in DOMAIN more : i < j => more[i].t < more[j].t
    <3>1. \A i \in 1..n : more[i].t < t
      BY <2>3, <2>6
    <3>2. t <= t
      BY <1>5
    <3>3. \A i, j \in 1..n : i < j => more[i].t < more[j].t
      BY <2>2, <2>3 DEF StreamInv, sent
    <3>4. \A i \in 1..n : more[i].t <= t
      BY <1>5, <2>3, <2>5, <3>1
    <3> QED
      BY <2>3, <2>7, <2>8, <3>1, <3>2, <3>3, <3>4
  <2>11. \A x \in told.live : x <= t /\ \A i \in DOMAIN more : x < more[i].t
    <3>1. \A x \in told.live : \A i \in 1..n : x < more[i].t
      BY <2>2, <2>3 DEF StreamInv, sent
    <3>2. \A x \in told.live : x <= t
      BY <1>5, <2>9
    <3> QED
      BY <2>3, <2>7, <2>9, <3>1, <3>2
  <2>12. stream' \in [pc: {"off", "opening", "open", "ended"},
                   sent: Seq([t: Clock, values: [Controls -> Values]]), last: 0..left.time]
    BY <1>5, <2>3, <2>4 DEF StreamInv
  <2> QED
    BY <1>1, <1>3, <2>4, <2>10, <2>11, <2>12 DEF StreamInv
<1>8. FetchInv' /\ HistoryInv'
  BY <1>1, <1>3 DEF FetchInv, HistoryInv, Overtaken, Joined
<1> QED
  BY <1>6, <1>7, <1>8
(* Steps that move what is on its way, and deliver none of it. *)
LEMMA TransitKeepsFeed ==
    ASSUME FeedInv, [Next]_vars,
           \/ StreamFails \/ StreamCut \/ OpenStream \/ StreamError \/ AnswerHistory \/ FetchFails
           \/ \E outcome \in {"ready", "notfound", "error"} : Load(outcome)
    PROVE  FeedInv'
<1> USE DEF FeedInv
<1>1. left' \in Left /\ Clock' = Clock /\ left'.time = left.time
  BY ClockStays
<1>2. UNCHANGED <<now, ring, told, history>>
  BY DEF StreamFails, StreamCut, OpenStream, StreamError, AnswerHistory, FetchFails, Load,
         server, table
<1>3. ClockInv'
  BY <1>1, <1>2 DEF ClockInv
<1>4. /\ stream'.sent \in {stream.sent, <<>>}
      /\ \E pc \in {"off", "opening", "open", "ended"} :
            stream' = [pc |-> pc, sent |-> stream'.sent, last |-> stream.last]
  <2>1. CASE StreamFails \/ StreamCut \/ OpenStream \/ StreamError
    BY <2>1 DEF StreamFails, StreamCut, OpenStream, StreamError, StreamInv
  <2>2. CASE AnswerHistory \/ FetchFails
    BY <2>2 DEF AnswerHistory, FetchFails, StreamInv
  <2>3. ASSUME NEW outcome, Load(outcome)
        PROVE  /\ stream'.sent \in {stream.sent, <<>>}
               /\ \E pc \in {"off", "opening", "open", "ended"} :
                     stream' = [pc |-> pc, sent |-> stream'.sent, last |-> stream.last]
    BY <2>3 DEF Load, StreamInv
  <2> QED
    BY <2>1, <2>2, <2>3
<1>5. StreamInv'
  <2>1. <<>> \in Seq([t: Clock, values: [Controls -> Values]]) /\ DOMAIN <<>> = {}
    OBVIOUS
  <2>2. CASE stream'.sent = stream.sent
    BY <1>1, <1>2, <1>4, <2>2 DEF StreamInv
  <2>3. CASE stream'.sent = <<>>
    <3>1. stream' \in [pc: {"off", "opening", "open", "ended"},
                       sent: Seq([t: Clock, values: [Controls -> Values]]), last: 0..left.time]
      <4>1. PICK pc \in {"off", "opening", "open", "ended"} :
               stream' = [pc |-> pc, sent |-> <<>>, last |-> stream.last]
        BY <1>4, <2>3
      <4>2. stream.last \in 0..left.time
        BY DEF StreamInv
      <4> QED
        BY <2>1, <4>1, <4>2
    <3>2. stream'.last = stream.last /\ \A x \in told.live : x <= stream.last
      BY <1>4 DEF StreamInv
    <3> QED
      BY <1>1, <1>2, <2>1, <2>3, <3>1, <3>2 DEF StreamInv
  <2> QED
    BY <1>4, <2>2, <2>3
<1>6. FetchInv'
  <2>1. CASE AnswerHistory
    BY <1>1, <1>2, <2>1 DEF AnswerHistory, FetchInv, ClockInv
  <2>2. CASE FetchFails
    BY <1>1, <1>2, <2>2 DEF FetchFails, FetchInv
  <2>3. ASSUME NEW outcome \in {"ready", "notfound", "error"}, Load(outcome) PROVE FetchInv'
    <3>1. fetched.pc = "none" /\ load' # "loading"
      BY <2>3 DEF Load, FetchInv
    <3>2. fetched' = fetched \/ fetched' = [fetched EXCEPT !.pc = "asked"]
      BY <2>3 DEF Load
    <3> QED
      BY <1>1, <1>2, <3>1, <3>2 DEF FetchInv
  <2>4. CASE StreamFails \/ StreamCut \/ OpenStream \/ StreamError
    BY <1>1, <1>2, <2>4
       DEF StreamFails, StreamCut, OpenStream, StreamError, FetchInv, sources
  <2> QED
    BY <2>1, <2>2, <2>3, <2>4
<1>7. HistoryInv'
  BY <1>1, <1>2 DEF HistoryInv, Overtaken, Joined
<1> QED
  BY <1>3, <1>5, <1>6, <1>7

LEMMA ApplyKeepsFeed ==
    ASSUME FeedInv, [Next]_vars, ApplyHistory
    PROVE  FeedInv'
<1> USE DEF FeedInv
<1>1. left' \in Left /\ Clock' = Clock /\ left'.time = left.time
  BY ClockStays
<1>2. UNCHANGED <<now, ring, stream, load>>
  BY DEF ApplyHistory, server
<1>3. Clock \in SUBSET Int /\ MaxPoints \in Nat \ {0}
  BY MonitorAssumption DEF Clock
<1>4. /\ fetched.points \in Seq(Clock) /\ Rising(fetched.points)
      /\ told.older = {} /\ told.live \in SUBSET Clock /\ told.live \in SUBSET Int /\ ~told.first
  BY <1>3 DEF ApplyHistory, FetchInv
<1>5. Times(fetched.points) \in SUBSET Clock
  BY <1>3, <1>4, SeriesElements
<1>6. /\ told' = [live |-> told.live, older |-> Times(fetched.points),
                  first |-> told.live = {}]
      /\ fetched' = [pc |-> "done", points |-> <<>>]
  BY DEF ApplyHistory, FetchInv
<1>7. ClockInv' /\ StreamInv'
  BY <1>1, <1>2, <1>6 DEF ClockInv, StreamInv
<1>8. FetchInv'
  <2>1. <<>> \in Seq(Clock) /\ Rising(<<>>)
    BY DEF Rising
  <2>2. load' # "loading"
    BY <1>2 DEF ApplyHistory, FetchInv
  <2> QED
    BY <1>1, <1>4, <1>5, <1>6, <2>1, <2>2 DEF FetchInv
<1>9. /\ ~Overtaken /\ Joined = told.live
      /\ Joined' = told.live \cup {t \in Times(fetched.points) : \A x \in told.live : t < x}
  BY <1>4, <1>6 DEF Overtaken, Joined
<1>10. history' = [v \in Vars |-> IF v \in Readable
          THEN SeedHistory(history[v], fetched.points, MaxPoints) ELSE history[v]]
  BY DEF ApplyHistory
<1>11. ASSUME NEW v \in Readable
       PROVE  /\ SeedHistory(history[v], fetched.points, MaxPoints) \in Seq(Clock)
              /\ Trimmed(SeedHistory(history[v], fetched.points, MaxPoints), Joined', MaxPoints)
  <2>1. history[v] \in Seq(Clock) /\ Trimmed(history[v], told.live, MaxPoints)
    BY <1>9 DEF HistoryInv, Vars
  <2> QED
    BY <1>3, <1>4, <1>9, <2>1, HistorySeeded
<1>12. HistoryInv'
  <2>1. \A v \in Vars : history'[v] \in Seq(Clock) /\ Len(history'[v]) <= MaxPoints
    <3>1. ASSUME NEW v \in Vars, v \notin Readable
          PROVE  history'[v] \in Seq(Clock) /\ Len(history'[v]) <= MaxPoints
      BY <1>10, <3>1 DEF HistoryInv
    <3>2. ASSUME NEW v \in Vars, v \in Readable
          PROVE  history'[v] \in Seq(Clock) /\ Len(history'[v]) <= MaxPoints
      BY <1>10, <1>11, <3>2 DEF Trimmed
    <3> QED
      BY <3>1, <3>2
  <2>2. history' \in [Vars -> Seq(Clock)]
    BY <1>10, <2>1
  <2>3. \A v \in Readable : Trimmed(history'[v], Joined', MaxPoints)
    BY <1>10, <1>11 DEF Vars
  <2> QED
    BY <1>1, <2>1, <2>2, <2>3 DEF HistoryInv
<1> QED
  BY <1>7, <1>8, <1>12

LEMMA SnapshotKeepsFeed ==
    ASSUME FeedInv, [Next]_vars, Snapshot
    PROVE  FeedInv'
<1> USE DEF FeedInv
<1>1. left' \in Left /\ Clock' = Clock /\ left'.time = left.time
  BY ClockStays
<1> DEFINE sent == stream.sent
           t == Head(sent).t
           Event == [t: Clock, values: [Controls -> Values]]
<1>2. /\ sent \in Seq(Event) /\ sent # <<>> /\ Len(sent) \in Nat /\ Len(sent) > 0
      /\ DOMAIN sent = 1..Len(sent) /\ Head(sent) = sent[1] /\ Tail(sent) \in Seq(Event)
      /\ DOMAIN Tail(sent) = 1..(Len(sent) - 1)
      /\ \A i \in 1..(Len(sent) - 1) : Tail(sent)[i] = sent[i + 1]
  <2>1. sent \in Seq(Event) /\ sent # <<>>
    BY DEF Snapshot, StreamInv
  <2> HIDE DEF sent, Event
  <2> QED
    BY <2>1
<1>3. UNCHANGED <<now, ring, load, fetched, left>>
  BY DEF Snapshot, server, sources
<1>4. /\ stream' = [pc |-> stream.pc, sent |-> Tail(sent), last |-> stream.last]
      /\ told' = [live |-> told.live \cup {t}, older |-> told.older, first |-> told.first]
      /\ history' = [v \in Vars |-> IF v \in Readable
              THEN Last(Append(history[v], t), MaxPoints) ELSE history[v]]
  BY DEF Snapshot, StreamInv, FetchInv
<1>5. 1 \in DOMAIN sent /\ t = sent[1].t /\ t \in Clock
  <2>1. Head(sent) \in Event
    <3> HIDE DEF sent, Event
    <3> QED
      BY <1>2
  <2> QED
    BY <1>2, <2>1
<1>6. Clock \in SUBSET Int /\ MaxPoints \in Nat \ {0} /\ t \in Int
  BY <1>5, MonitorAssumption DEF Clock
<1>7. \A x \in told.live : x < t
  BY <1>5 DEF StreamInv
<1> HIDE DEF t
<1>8. ClockInv'
  BY <1>1, <1>3 DEF ClockInv
<1>9. StreamInv'
  <2>1. \A i \in 1..(Len(sent) - 1) : i + 1 \in DOMAIN sent /\ 1 < i + 1
    BY <1>2
  <2>2. \A i \in 1..(Len(sent) - 1) : t < Tail(sent)[i].t /\ Tail(sent)[i].t <= stream.last
    BY <1>2, <1>5, <2>1 DEF StreamInv
  <2>3. \A i, j \in 1..(Len(sent) - 1) : i < j => Tail(sent)[i].t < Tail(sent)[j].t
    <3> SUFFICES ASSUME NEW i \in 1..(Len(sent) - 1), NEW j \in 1..(Len(sent) - 1), i < j
                 PROVE  Tail(sent)[i].t < Tail(sent)[j].t
      OBVIOUS
    <3>1. i + 1 < j + 1
      BY <1>2
    <3> QED
      BY <1>2, <2>1, <3>1 DEF StreamInv
  <2>4. t <= stream.last
    BY <1>5 DEF StreamInv
  <2>5. \A x \in told.live : x <= stream.last
                             /\ \A i \in 1..(Len(sent) - 1) : x < Tail(sent)[i].t
    BY <1>2, <2>1 DEF StreamInv
  <2>6. stream' \in [pc: {"off", "opening", "open", "ended"}, sent: Seq(Event),
                     last: 0..left.time]
    BY <1>2, <1>4 DEF StreamInv
  <2> HIDE DEF sent
  <2> QED
    BY <1>1, <1>2, <1>3, <1>4, <2>2, <2>3, <2>4, <2>5, <2>6 DEF StreamInv
<1>10. FetchInv'
  BY <1>1, <1>3, <1>4, <1>5 DEF FetchInv
<1>11. ASSUME NEW v \in Readable
       PROVE  LET s == Last(Append(history[v], t), MaxPoints) IN
              s \in Seq(Clock) /\ Len(s) <= MaxPoints
  <2> DEFINE a == Append(history[v], t)
  <2>1. history[v] \in Seq(Clock)
    BY DEF HistoryInv, Vars
  <2>2. a \in Seq(Clock) /\ Len(a) \in Nat
    BY <1>5, <2>1
  <2> HIDE DEF a
  <2>3. Last(a, MaxPoints) \in Seq(Clock)
        /\ Len(Last(a, MaxPoints)) = Len(a) - (IF Len(a) > MaxPoints THEN Len(a) - MaxPoints ELSE 0)
    BY <1>6, <2>2, LastOf
  <2>4. Len(Last(a, MaxPoints)) <= MaxPoints
    BY <1>6, <2>2, <2>3
  <2> QED
    BY <2>3, <2>4 DEF a
<1>12. ASSUME ~Overtaken', NEW v \in Readable
       PROVE  Trimmed(Last(Append(history[v], t), MaxPoints), Joined', MaxPoints)
  <2>1. ~Overtaken
    BY <1>4, <1>12 DEF Overtaken
  <2>2. history[v] \in Seq(Clock) /\ Trimmed(history[v], Joined, MaxPoints)
    BY <2>1 DEF HistoryInv, Vars
  <2>3. told.live \subseteq Int /\ told.older \subseteq Int
    BY <1>6 DEF FetchInv
  <2>4. \A x \in Joined : x < t
    <3> SUFFICES ASSUME NEW x \in told.older, \A y \in told.live : x < y
                 PROVE  x < t
      BY <1>7 DEF Joined
    <3>1. CASE told.live = {}
      <4>1. told.first
        BY <3>1 DEF FetchInv
      <4>2. ~ t <= x
        BY <1>4, <1>12, <4>1 DEF Overtaken
      <4> QED
        BY <1>6, <2>3, <4>2
    <3>2. CASE told.live # {}
      <4>1. PICK y \in told.live : x < y /\ y < t
        BY <1>7, <3>2
      <4> QED
        BY <1>6, <2>3, <4>1
    <3> QED
      BY <3>1, <3>2
  <2>5. Joined' = Joined \cup {t}
    <3>1. \A x \in told.older : (\A y \in told.live \cup {t} : x < y)
             <=> (\A y \in told.live : x < y)
      BY <2>4 DEF Joined
    <3> QED
      BY <1>4, <3>1 DEF Joined
  <2>6. Joined \in SUBSET Int
    BY <2>3 DEF Joined
  <2> QED
    BY <1>5, <1>6, <2>2, <2>4, <2>5, <2>6, PointAppended
<1>13. HistoryInv'
  <2>1. \A v \in Vars : history'[v] \in Seq(Clock) /\ Len(history'[v]) <= MaxPoints
    BY <1>4, <1>11 DEF HistoryInv
  <2>2. history' \in [Vars -> Seq(Clock)]
    BY <1>4, <2>1
  <2>3. ~Overtaken' => \A v \in Readable : Trimmed(history'[v], Joined', MaxPoints)
    BY <1>4, <1>12 DEF Vars
  <2> QED
    BY <1>1, <2>1, <2>2, <2>3 DEF HistoryInv
<1> QED
  BY <1>8, <1>9, <1>10, <1>13
LEMMA FeedSteps ==
    ASSUME FeedInv, device \in [Controls -> Values], [Next]_vars
    PROVE  FeedInv'
<1>1. CASE UNCHANGED feed
  <2>1. left' \in Left /\ Clock' = Clock /\ left'.time = left.time
    BY ClockStays DEF FeedInv
  <2> QED
    BY <1>1, <2>1
       DEF FeedInv, feed, ClockInv, StreamInv, FetchInv, HistoryInv, Overtaken, Joined
<1> QED
  BY <1>1, OtherStepsKeepFeed, RecordKeepsFeed, PushKeepsFeed, TransitKeepsFeed,
     ApplyKeepsFeed, SnapshotKeepsFeed DEF FeedStep

----------------------------------------------------------------------------
(* The types of the table and of the charts.                                *)

TableInv ==
    /\ device \in [Controls -> Values]
    /\ values \in [Writable -> Values \cup {None}]
    /\ edits \in [Writable -> [pc: {"closed", "sent", "answered", "failed", "refused"},
                               value: Values \cup {None}]]
    /\ \A w \in Writable : edits[w].pc \in {"sent", "answered"} => edits[w].value \in Values
    /\ connection \in Connections

PanelInv ==
    /\ groupSeq \in Nat
    /\ selected \subseteq Vars
    /\ \A v \in DOMAIN grouping : grouping[v] \in ChartId
    /\ window \in Windows \cup {None}
    /\ DOMAIN brush \subseteq ChartId \cup {Dialog}

tabled == <<device, values, edits, connection>>

LEMMA InitTable ==
    ASSUME Init
    PROVE  TableInv
  BY DEF Init, TableInv, Values, Connections

LEMMA EditedKeepsTypes ==
    ASSUME TableInv, NEW w \in Writable, NEW x \in Values \cup {None},
           NEW pc \in {"closed", "sent", "answered", "failed", "refused"},
           pc \in {"sent", "answered"} => x \in Values, Edited(w, pc, x)
    PROVE  /\ edits' \in [Writable -> [pc: {"closed", "sent", "answered", "failed", "refused"},
                                       value: Values \cup {None}]]
           /\ \A u \in Writable :
                edits'[u].pc \in {"sent", "answered"} => edits'[u].value \in Values
  BY DEF TableInv, Edited

LEMMA TableSteps ==
    ASSUME TableInv, StreamInv, [Next]_vars
    PROVE  TableInv'
<1> USE DEF server, sources, table
<1>1. CASE UNCHANGED tabled
  BY <1>1 DEF tabled, TableInv
<1>2. UNCHANGED vars \/ Panel => UNCHANGED tabled
  <2>1. Charting => UNCHANGED tabled
    BY DEF Charting, tabled
  <2>2. ASSUME NEW S, ApplyDefaults(S) PROVE UNCHANGED tabled
    BY <2>2 DEF ApplyDefaults, tabled
  <2>3. CloseDialog \/ UNCHANGED vars => UNCHANGED tabled
    BY DEF CloseDialog, tabled, vars
  <2> QED
    BY <2>1, <2>2, <2>3, Zenon
       DEF Panel, Toggle, CloseGroup, Expand, MergeInto, SplitOut, Brush, SetWindow
<1>3. Record \/ Push \/ StreamFails \/ StreamCut \/ DeviceLost \/ DeviceBack => UNCHANGED tabled
  BY DEF Record, Push, StreamFails, StreamCut, DeviceLost, DeviceBack, tabled
<1>4. AnswerHistory \/ ApplyHistory \/ FetchFails \/ OpenStream => UNCHANGED tabled
  BY DEF AnswerHistory, ApplyHistory, FetchFails, OpenStream, tabled
<1>5. ASSUME NEW outcome, Load(outcome) PROVE UNCHANGED tabled
  BY <1>5 DEF Load, tabled
<1>6. CASE StreamError
  BY <1>6 DEF StreamError, TableInv, Connections
<1>7. CASE Snapshot
  <2> DEFINE Event == [t: Clock, values: [Controls -> Values]]
             sent == stream.sent
  <2>1. sent \in Seq(Event) /\ sent # <<>>
    BY <1>7 DEF Snapshot, StreamInv
  <2>2. Head(sent) \in Event
    <3> HIDE DEF sent, Event
    <3> QED
      BY <2>1
  <2>3. Head(stream.sent).values \in [Controls -> Values]
    BY <2>2
  <2>4. values' = [w \in Writable |->
                     IF w \in Controls THEN Head(stream.sent).values[w] ELSE None]
    BY <1>7 DEF Snapshot
  <2>5. values' \in [Writable -> Values \cup {None}]
    BY <2>3, <2>4
  <2> QED
    BY <1>7, <2>5 DEF Snapshot, TableInv, Connections
<1>8. ASSUME NEW w \in Writable, NEW x \in Values, Submit(w, x) PROVE TableInv'
  BY <1>8, EditedKeepsTypes DEF Submit, TableInv
<1>9. ASSUME NEW w \in Writable, PerformWrite(w) PROVE TableInv'
  <2>1. CASE reachable
    <3>1. edits[w].value \in Values
      BY <1>9 DEF PerformWrite, TableInv
    <3>2. device' \in [Controls -> Values]
      BY <1>9, <2>1, <3>1 DEF PerformWrite, TableInv
    <3> QED
      BY <1>9, <2>1, <3>1, <3>2, EditedKeepsTypes DEF PerformWrite, TableInv
  <2>2. CASE ~reachable
    BY <1>9, <2>2, EditedKeepsTypes DEF PerformWrite, TableInv
  <2> QED
    BY <2>1, <2>2
<1>10. ASSUME NEW w \in Writable, WriteLost(w) \/ CancelEdit(w) PROVE TableInv'
  BY <1>10, EditedKeepsTypes DEF WriteLost, CancelEdit, TableInv
<1>11. ASSUME NEW w \in Writable, WriteDone(w) PROVE TableInv'
  BY <1>11, EditedKeepsTypes DEF WriteDone, TableInv
<1>12. ASSUME NEW c \in Controls, NEW x \in Values, OtherWrites(c, x) PROVE TableInv'
  BY <1>12 DEF OtherWrites, TableInv
<1> QED
  BY <1>1, <1>2, <1>3, <1>4, <1>5, <1>6, <1>7, <1>8, <1>9, <1>10, <1>11, <1>12, Zenon
     DEF Next, Panel

LEMMA InitPanel ==
    ASSUME Init
    PROVE  PanelInv
  BY DEF Init, PanelInv

(* The ids of the charts that are shown. *)
LEMMA ChartsHaveIds ==
    ASSUME PanelInv
    PROVE  Charts \subseteq ChartId
  BY DEF PanelInv, Charts, GroupIds, GroupIdOf, ChartId

LEMMA PanelSteps ==
    ASSUME PanelInv, [Next]_vars
    PROVE  PanelInv'
<1> USE DEF PanelInv
<1>1. CASE UNCHANGED panel
  BY <1>1 DEF panel, ChartId
<1>2. ASSUME NEW S, ApplyDefaults(S) PROVE PanelInv'
  BY <1>2 DEF ApplyDefaults, GraphSelection, ChartId
<1>3. ASSUME UNCHANGED groupSeq PROVE ChartId' = ChartId
  BY <1>3 DEF ChartId
<1>4. ASSUME NEW v \in Vars, Toggle(v) PROVE PanelInv'
  BY <1>3, <1>4 DEF Toggle, Regrouped, Dropped, Kept
<1>5. ASSUME NEW id, CloseGroup(id) PROVE PanelInv'
  BY <1>3, <1>5 DEF CloseGroup, Regrouped, Kept
<1>6. ASSUME NEW id, Expand(id) PROVE PanelInv'
  BY <1>3, <1>6 DEF Expand
<1>7. ASSUME NEW id \in Charts, NEW v, MergeInto(id, v) PROVE PanelInv'
  <2> DEFINE fresh == id[1] = "solo"
             target == IF fresh THEN <<"g", groupSeq + 1>> ELSE id
             moved == IF fresh THEN Members(selected, grouping, id) \cup {v} ELSE {v}
  <2>1. /\ groupSeq' = IF fresh THEN groupSeq + 1 ELSE groupSeq
        /\ Regrouped(selected, With(grouping, moved, target))
        /\ UNCHANGED <<window, fullscreen>>
    BY <1>7 DEF MergeInto
  <2> HIDE DEF moved
  <2>2. groupSeq' \in Nat /\ ChartId \subseteq ChartId'
    BY <2>1 DEF ChartId
  <2>3. target \in ChartId'
    <3>1. CASE fresh
      <4>1. groupSeq + 1 \in 1..groupSeq'
        BY <2>1, <3>1
      <4> QED
        BY <3>1, <4>1 DEF ChartId
    <3>2. CASE ~fresh
      BY <2>2, <3>2, ChartsHaveIds
    <3> QED
      BY <3>1, <3>2
  <2> HIDE DEF target
  <2>4. \A x \in DOMAIN grouping' : grouping'[x] \in ChartId'
    BY <2>1, <2>2, <2>3 DEF Regrouped, With
  <2> QED
    BY <2>1, <2>2, <2>4 DEF Regrouped, Kept
<1>8. ASSUME NEW chart, NEW v, SplitOut(chart, v) PROVE PanelInv'
  BY <1>3, <1>8 DEF SplitOut, Regrouped, Dropped, Kept
<1>9. ASSUME NEW w \in Windows \cup {None}, SetWindow(w) PROVE PanelInv'
  BY <1>3, <1>9 DEF SetWindow
<1>10. ASSUME NEW chart \in InReach, NEW i, NEW j, Brush(chart, i, j) PROVE PanelInv'
  <2>1. chart \in ChartId \cup {Dialog}
    BY ChartsHaveIds DEF InReach
  <2> QED
    BY <1>3, <1>10, <2>1 DEF Brush, Dropped, With
<1>11. CASE CloseDialog
  BY <1>3, <1>11 DEF CloseDialog, Dropped
<1> QED
  BY <1>1, <1>2, <1>4, <1>5, <1>6, <1>7, <1>8, <1>9, <1>10, <1>11, OtherStepsKeepPanel, Zenon
     DEF Panel

----------------------------------------------------------------------------
MonitorInv == FeedInv /\ TableInv /\ PanelInv

LEMMA MonitorInvHolds == Spec => []MonitorInv
<1>1. Init => MonitorInv
  BY InitFeed, InitTable, InitPanel DEF MonitorInv
<1>2. MonitorInv /\ [Next]_vars => MonitorInv'
  BY FeedSteps, TableSteps, PanelSteps DEF MonitorInv, TableInv, FeedInv
<1> QED
  BY <1>1, <1>2, PTL DEF Spec

LEMMA InvariantIsTyped ==
    ASSUME MonitorInv
    PROVE  TypeOK
<1>1. \A v \in Vars : history[v] \in Seq(Clock) /\ Clock \in SUBSET Int
  BY DEF MonitorInv, FeedInv, HistoryInv, Clock
<1>2. \A v \in Vars : Times(history[v]) \subseteq 1..left.time
  BY <1>1, SeriesElements DEF Clock
<1> QED
  BY <1>2 DEF TypeOK, MonitorInv, FeedInv, ClockInv, HistoryInv, TableInv, PanelInv

(* The state of the page and of its sources keeps its types, its series and *)
(* the server's ring keep their lengths (MAX_HISTORY_POINTS of              *)
(* device-monitor.tsx, the deque of sampler.py), for any number of          *)
(* variables, points and clicks.                                            *)
THEOREM MonitorIsTyped == Spec => []TypeOK
  BY MonitorInvHolds, InvariantIsTyped, PTL

(* The series of every readable variable are the points told, joined and    *)
(* trimmed (seedHistory and onSnapshot), for any number of variables and    *)
(* points and in whatever order history, snapshots and cuts of the stream   *)
(* arrive.                                                                  *)
THEOREM SeriesAreJoined == Spec => []SeriesJoined
<1>1. MonitorInv => SeriesJoined
  <2> SUFFICES ASSUME MonitorInv, ~Overtaken, NEW v \in Readable
               PROVE  /\ \A i \in 2..Len(history[v]) : history[v][i - 1] < history[v][i]
                      /\ Times(history[v]) = Newest(Joined, MaxPoints)
    BY Zenon DEF SeriesJoined
  <2>1. history[v] \in Seq(Clock) /\ Trimmed(history[v], Joined, MaxPoints)
    BY DEF MonitorInv, FeedInv, HistoryInv, Vars
  <2>2. Clock \in SUBSET Int /\ IsFiniteSet(Clock) /\ MaxPoints \in Nat
    <3>1. left.time \in Nat
      BY DEF MonitorInv, FeedInv, ClockInv, Left
    <3> QED
      <4>1. IsFiniteSet(1..left.time) /\ 1..left.time \subseteq Int
        BY <3>1, FS_Interval
      <4> QED
        BY <4>1, MonitorAssumption DEF Clock
  <2>3. Joined \in SUBSET Int /\ IsFiniteSet(Joined)
    <3>1. Joined \subseteq Clock
      BY DEF Joined, MonitorInv, FeedInv, FetchInv
    <3> QED
      BY <2>2, <3>1, FS_Subset
  <2>4. Times(history[v]) = Newest(Joined, MaxPoints)
    BY <2>1, <2>2, <2>3, TrimmedIsNewest
  <2>5. ASSUME NEW i \in 2..Len(history[v]) PROVE history[v][i - 1] < history[v][i]
    <3>1. i - 1 \in DOMAIN history[v] /\ i \in DOMAIN history[v] /\ i - 1 < i
      BY <2>1
    <3> QED
      BY <2>1, <3>1 DEF Trimmed, Top, Rising
  <2> QED
    BY <2>4, <2>5
<1> QED
  BY <1>1, MonitorInvHolds, PTL

(* What a range selects is what its slider shows, however many rows have    *)
(* come or been trimmed since, for any number of points and of charts       *)
(* (the brush of time-series-chart.tsx).                                    *)
THEOREM RangesAreKept == Spec => []BrushKeepsRange
<1>1. RangesHold /\ TypeOK /\ [Next]_vars => RangesHold'
  <2> SUFFICES ASSUME RangesHold, TypeOK, [Next]_vars
               PROVE  RangesHold'
    OBVIOUS
  <2>1. left' \in Left
    BY StepsKeepLeft DEF RangesHold
  <2>2. ASSUME NEW chart \in DOMAIN brush'
        PROVE  window' = None /\ brush'[chart] \in TimeRange
    <3>1. CASE UNCHANGED panel
      BY <3>1 DEF panel, RangesHold
    <3> QED
      BY <3>1, OtherStepsKeepPanel, PanelKeepsRanges
  <2> QED
    BY <2>1, <2>2 DEF RangesHold
<1>2. RangesHold /\ TypeOK => BrushKeepsRange
  <2> SUFFICES ASSUME RangesHold, TypeOK, NEW chart \in DOMAIN brush
               PROVE  /\ window = None
                      /\ LET rows == Data(Shown(chart)) IN
                         (\E t \in rows : brush[chart].startT <= t /\ t <= brush[chart].endT)
                           => Drawn(rows, SliderOf(rows, brush[chart]))
                                = Visible(rows, window, brush[chart])
    BY Zenon DEF BrushKeepsRange
  <2>1. window = None /\ brush[chart] \in TimeRange
    BY DEF RangesHold
  <2>2. Data(Shown(chart)) \in SUBSET Int /\ IsFiniteSet(Data(Shown(chart)))
    BY RowsAreTimes DEF RangesHold
  <2> QED
    BY <2>1, <2>2, DrawnIsCounted, Zenon
<1> QED
  BY <1>1, <1>2, InitRanges, MonitorIsTyped, PTL DEF Spec

=============================================================================
