------------------------------- MODULE Monitor -------------------------------
(***************************************************************************)
(* One device page (components/device-monitor.tsx) with what it talks to:   *)
(* the history sampler, the SSE stream, the routes it calls and the device. *)
(*                                                                          *)
(* A fetch is asked, answered by the server and applied by the page in      *)
(* three steps, and everything else may happen in between.  Points of the   *)
(* sampler and of the stream carry the server's time "now".                 *)
(*                                                                          *)
(* Slip... definitions are mistakes the properties tell from the model.     *)
(***************************************************************************)
EXTENDS Charts

CONSTANTS
    Sensors,    \* the variables of mode "r"
    Controls,   \* the variables of mode "rw"
    Commands,   \* the variables of mode "w"
    Device,     \* this device's id
    Summaries,  \* the configs a user may be able to read
    Windows,    \* the lengths of the time windows, without "all"
    MaxPoints,  \* points the page keeps of a variable (1000)
    MaxHistory, \* points the server keeps of a device (900)
    MinBrush,   \* points a chart needs more than to get a slider (8)
    MaxSent,    \* bound: snapshots of the stream under way
    Budgets     \* bounds: the last server time, what the user does to the
                \* charts, writes of any user, faults

Readable == Sensors \cup Controls
Writable == Controls \cup Commands
Vars == Readable \cup Commands
Values == {0, 1}
Connections == {"connecting", "live", "lost"}

ASSUME MonitorAssumption ==
    /\ Sensors \cap Writable = {} /\ Controls \cap Commands = {}
    /\ Windows \subseteq Nat
    /\ {MaxPoints, MaxHistory, MinBrush} \subseteq Nat \ {0}
    /\ MaxSent \in Nat
    /\ Budgets \subseteq [time: Nat, clicks: Nat, writes: Nat, faults: Nat]
    /\ None \notin Nat

VARIABLES
    now,        \* the server's clock
    reachable,  \* the device answers
    device,     \* the values of its controls
    ring,       \* the sampler's points of the device
    stream,     \* the event stream: state, snapshots under way, last time
    load,       \* LoadState of the page
    fetched,    \* the history request of the page
    defaults,   \* the default selection of the page
    values,     \* the values the table shows, of the writable variables
    history,    \* the series of every variable
    selected,   \* the variables on charts
    grouping,   \* the ids of shared charts
    groupSeq,   \* the last id handed out
    window,     \* windowMs of the panel
    brush,      \* the selected range of every chart that has one
    fullscreen, \* the chart in the dialog
    connection, \* the badge
    edits,      \* the write in each row of the table
    told,       \* history variable: what the sources have told the page
    left        \* what is left of the budget

server == <<now, reachable, device, ring>>
sources == <<load, fetched, defaults>>
panel == <<selected, grouping, groupSeq, window, brush, fullscreen>>
table == <<values, edits>>
vars == <<server, stream, sources, table, history, panel, connection, told, left>>

(* A variable that can be read can be charted. *)
Plottable(v) == v \notin Commands

Spend(what) == left[what] > 0 /\ left' = [left EXCEPT ![what] = @ - 1]

----------------------------------------------------------------------------
Init ==
    /\ now = 0
    /\ reachable = TRUE
    /\ device = [c \in Controls |-> 0]
    /\ ring = <<>>
    /\ stream = [pc |-> "off", sent |-> <<>>, last |-> 0]
    /\ load = "loading"
    /\ fetched = [pc |-> "none", points |-> <<>>]
    /\ defaults = "none"
    /\ values = [w \in Writable |-> None]
    /\ history = [v \in Vars |-> <<>>]
    /\ selected = {} /\ grouping = <<>> /\ groupSeq = 0
    /\ window \in Windows
    /\ brush = <<>> /\ fullscreen = None
    /\ connection = "connecting"
    /\ edits = [w \in Writable |-> [pc |-> "closed", value |-> None]]
    /\ told = [live |-> {}, older |-> {}, first |-> FALSE]
    /\ left \in Budgets

----------------------------------------------------------------------------
(* The server and the device.                                               *)

(* record_snapshot: a device that does not answer is skipped. *)
Record ==
    /\ reachable
    /\ now < left.time
    /\ now' = now + 1
    /\ ring' = Last(Append(ring, now'), MaxHistory)
    /\ UNCHANGED <<reachable, device, stream, sources, table, history, panel,
                   connection, told, left>>

(* One turn of value_event_stream: a snapshot of every readable variable.   *)
Push ==
    /\ stream.pc = "open"
    /\ reachable
    /\ Len(stream.sent) < MaxSent
    /\ \E t \in {now, now + 1} :
        /\ stream.last < t /\ t <= left.time
        /\ now' = t
        /\ stream' = [stream EXCEPT !.last = t, !.sent = Append(@,
              [t |-> t, values |-> device])]
    /\ UNCHANGED <<reachable, device, ring, sources, table, history, panel,
                   connection, told, left>>

(* The OSError of a read ends the stream after what it has sent.            *)
StreamFails ==
    /\ stream.pc = "open"
    /\ ~reachable
    /\ stream' = [stream EXCEPT !.pc = "ended"]
    /\ UNCHANGED <<server, sources, table, history, panel, connection, told, left>>

(* A proxy or the network cuts the stream with what was under way. *)
StreamCut ==
    /\ stream.pc = "open"
    /\ Spend("faults")
    /\ stream' = [stream EXCEPT !.pc = "ended", !.sent = <<>>]
    /\ UNCHANGED <<server, sources, table, history, panel, connection, told>>

DeviceLost ==
    /\ reachable
    /\ Spend("faults")
    /\ reachable' = FALSE
    /\ UNCHANGED <<now, device, ring, stream, sources, table, history, panel,
                   connection, told>>

DeviceBack ==
    /\ ~reachable
    /\ reachable' = TRUE
    /\ UNCHANGED <<now, device, ring, stream, sources, table, history, panel,
                   connection, told, left>>

(* Another user's write. *)
OtherWrites(c, x) ==
    /\ Spend("writes")
    /\ reachable
    /\ device' = [device EXCEPT ![c] = x]
    /\ UNCHANGED <<now, reachable, ring, stream, sources, table, history, panel,
                   connection, told>>

----------------------------------------------------------------------------
(* The effects of the page.                                                 *)

(* getDevice answers; the three effects that wait for it start together.    *)
Load(outcome) ==
    /\ load = "loading"
    /\ load' = outcome
    /\ IF outcome = "ready"
       THEN /\ fetched' = [fetched EXCEPT !.pc = "asked"]
            /\ defaults' = "asked"
            /\ stream' = [stream EXCEPT !.pc = "opening"]
       ELSE UNCHANGED <<fetched, defaults, stream>>
    /\ UNCHANGED <<server, table, history, panel, connection, told, left>>

AnswerHistory ==
    /\ fetched.pc = "asked"
    /\ fetched' = [pc |-> "answered", points |-> ring]
    /\ UNCHANGED <<server, stream, load, defaults, table, history, panel,
                   connection, told, left>>

(* The points of the answer name what the sampler read, the readable ones.  *)
ApplyHistory ==
    /\ fetched.pc = "answered"
    /\ history' = [v \in Vars |-> IF v \in Readable
          THEN SeedHistory(history[v], fetched.points, MaxPoints) ELSE history[v]]
    /\ fetched' = [fetched EXCEPT !.pc = "done", !.points = <<>>]
    /\ told' = [told EXCEPT !.older = Times(fetched.points), !.first = told.live = {}]
    /\ UNCHANGED <<server, stream, load, defaults, table, panel, connection, left>>

(* A failed history or default is not shown: the charts do without.         *)
FetchFails ==
    /\ \/ /\ fetched.pc = "asked"
          /\ fetched' = [fetched EXCEPT !.pc = "done"]
          /\ UNCHANGED defaults
       \/ /\ defaults = "asked"
          /\ defaults' = "done"
          /\ UNCHANGED fetched
    /\ Spend("faults")
    /\ UNCHANGED <<server, stream, load, table, history, panel, connection, told>>

(* listConfigs, then getConfig of the preferred one; what they answer does  *)
(* not depend on the page, so they are one step.  A manual selection stays. *)
ApplyDefaults(summaries) ==
    /\ defaults = "asked"
    /\ LET config == PickDeviceConfig(summaries, Device) IN
        selected' = IF selected = {} /\ config # None
                    THEN GraphSelection(config, Vars) ELSE selected
    /\ defaults' = "done"
    /\ UNCHANGED <<server, stream, load, fetched, table, history, grouping, groupSeq,
                   window, brush, fullscreen, connection, told, left>>

(* EventSource connects, and connects again after an error. *)
OpenStream ==
    /\ stream.pc = "opening"
    /\ stream' = [stream EXCEPT !.pc = "open"]
    /\ UNCHANGED <<server, sources, table, history, panel, connection, told, left>>

(* onSnapshot: the values are replaced as a whole, the points appended.     *)
Snapshot ==
    /\ stream.sent # <<>>
    /\ LET event == Head(stream.sent) IN
        /\ values' = [w \in Writable |->
              IF w \in Controls THEN event.values[w] ELSE None]
        /\ history' = [v \in Vars |-> IF v \in Readable
              THEN Last(Append(history[v], event.t), MaxPoints) ELSE history[v]]
        /\ told' = [told EXCEPT !.live = @ \cup {event.t}]
    /\ stream' = [stream EXCEPT !.sent = Tail(@)]
    /\ connection' = "live"
    /\ UNCHANGED <<server, sources, edits, panel, left>>

(* onerror closes the source. *)
SlipStreamError ==
    /\ stream.pc = "ended" /\ stream.sent = <<>>
    /\ stream' = [stream EXCEPT !.pc = "off"]
    /\ connection' = "lost"
    /\ UNCHANGED <<server, sources, table, history, panel, told, left>>

(* onerror, after the last event: the badge changes, the browser retries.   *)
StreamError ==
    /\ stream.pc = "ended" /\ stream.sent = <<>>
    /\ stream' = [stream EXCEPT !.pc = "opening"]
    /\ connection' = "lost"
    /\ UNCHANGED <<server, sources, table, history, panel, told, left>>

----------------------------------------------------------------------------
(* The charts.                                                              *)

Charts == GroupIds(selected, grouping)
Rows(id) == RowsOf({history[v] : v \in Members(selected, grouping, id)})
Data(id) == Windowed(Rows(id), window)

(* The chart in the dialog is a component of its own, with its own range.   *)
Dialog == <<"dialog">>
Shown(chart) == IF chart = Dialog THEN fullscreen ELSE chart

(* The ranges of the charts that are still there: a chart that goes, or     *)
(* whose id changes, takes its range along.                                 *)
Kept(ids) == [c \in DOMAIN brush \cap (ids \cup {Dialog}) |-> brush[c]]

OnPage == load = "ready" /\ fullscreen = None

(* What the user does with the charts changes nothing else. *)
Charting ==
    /\ Spend("clicks")
    /\ UNCHANGED <<server, stream, sources, table, history, connection, told>>

Regrouped(s, g) ==
    /\ selected' = s
    /\ grouping' = g
    /\ brush' = Kept(GroupIds(s, g))

(* Without the reset of the variable's group. *)
SlipToggle(v) ==
    /\ OnPage /\ Plottable(v)
    /\ Regrouped(IF v \in selected THEN selected \ {v} ELSE selected \cup {v}, grouping)
    /\ Charting
    /\ UNCHANGED <<groupSeq, window, fullscreen>>

(* The button of a row: a variable that leaves a chart forgets its group.   *)
Toggle(v) ==
    /\ OnPage /\ Plottable(v)
    /\ Regrouped(IF v \in selected THEN selected \ {v} ELSE selected \cup {v},
                 Dropped(grouping, v))
    /\ Charting
    /\ UNCHANGED <<groupSeq, window, fullscreen>>

(* closeGroup: onToggle of every member. *)
CloseGroup(id) ==
    /\ OnPage
    /\ LET gone == Members(selected, grouping, id) IN
        Regrouped(selected \ gone, [v \in DOMAIN grouping \ gone |-> grouping[v]])
    /\ Charting
    /\ UNCHANGED <<groupSeq, window, fullscreen>>

(* The lines a chart's menu offers to take in. *)
Mergeable(id) == selected \ Members(selected, grouping, id)

(* mergeInto: a chart of one line gets an id that its line takes along.     *)
MergeInto(id, v) ==
    /\ OnPage
    /\ v \in Mergeable(id)
    /\ LET fresh == id[1] = "solo"
           target == IF fresh THEN <<"g", groupSeq + 1>> ELSE id
           moved == IF fresh THEN Members(selected, grouping, id) \cup {v} ELSE {v} IN
        /\ groupSeq' = IF fresh THEN groupSeq + 1 ELSE groupSeq
        /\ Regrouped(selected, With(grouping, moved, target))
    /\ Charting
    /\ UNCHANGED <<window, fullscreen>>

(* The legend, which a chart has when it has several lines. *)
Legend(chart) ==
    LET lines == Members(selected, grouping, Shown(chart)) IN
    IF Cardinality(lines) > 1 THEN lines ELSE {}

(* On the page or in the dialog. *)
SplitOut(chart, v) ==
    /\ v \in Legend(chart)
    /\ Regrouped(selected, Dropped(grouping, v))
    /\ Charting
    /\ UNCHANGED <<groupSeq, window, fullscreen>>

(* Every chart drops its range when it is drawn with the new window.        *)
SetWindow(w) ==
    /\ load = "ready" /\ selected # {} /\ w # window
    /\ window' = w
    /\ brush' = <<>>
    /\ Charting
    /\ UNCHANGED <<selected, grouping, groupSeq, fullscreen>>

(* The slider of a chart with enough points, while the window is "all".     *)
Brush(chart, i, j) ==
    /\ window = None
    /\ LET rows == Data(Shown(chart))
           range == ToTimeRange(rows, i, j) IN
        /\ Cardinality(rows) > MinBrush
        /\ j < Cardinality(rows)
        /\ brush' = IF range = None THEN Dropped(brush, chart)
                    ELSE With(brush, {chart}, range)
    /\ Charting
    /\ UNCHANGED <<selected, grouping, groupSeq, window, fullscreen>>

Expand(id) ==
    /\ OnPage
    /\ fullscreen' = id
    /\ Charting
    /\ UNCHANGED <<selected, grouping, groupSeq, window, brush>>

CloseDialog ==
    /\ fullscreen # None
    /\ fullscreen' = None
    /\ brush' = Dropped(brush, Dialog)
    /\ UNCHANGED <<server, stream, sources, table, history, connection, told, left,
                   selected, grouping, groupSeq, window>>

(* The charts the user can reach: the dialog covers the others. *)
InReach == IF fullscreen = None THEN Charts ELSE {Dialog}

----------------------------------------------------------------------------
(* A write from the table.                                                  *)

(* The write of a row, which it shows as closed, saving or refused. *)
Edited(w, pc, x) == edits' = [edits EXCEPT ![w] = [pc |-> pc, value |-> x]]

(* submit of WritableValue; its button is disabled until the answer is in.  *)
Submit(w, x) ==
    /\ OnPage
    /\ edits[w].pc \in {"closed", "refused"}
    /\ Spend("writes")
    /\ Edited(w, "sent", x)
    /\ UNCHANGED <<server, stream, sources, values, history, panel, connection, told>>

PerformWrite(w) ==
    /\ edits[w].pc = "sent"
    /\ IF reachable
       THEN /\ device' = [c \in Controls |-> IF c = w THEN edits[w].value ELSE device[c]]
            /\ Edited(w, "answered", edits[w].value)
       ELSE Edited(w, "failed", None) /\ UNCHANGED device
    /\ UNCHANGED <<now, reachable, ring, stream, sources, values, history, panel,
                   connection, told, left>>

(* The request or its answer is lost; the device may have taken the value.  *)
WriteLost(w) ==
    /\ edits[w].pc \in {"sent", "answered"}
    /\ Spend("faults")
    /\ Edited(w, "failed", None)
    /\ UNCHANGED <<server, stream, sources, values, history, panel, connection, told>>

(* handleWritten shows the echo and the row closes, or it shows the error.  *)
WriteDone(w) ==
    /\ edits[w].pc \in {"answered", "failed"}
    /\ IF edits[w].pc = "answered"
       THEN /\ values' = [values EXCEPT ![w] = edits[w].value]
            /\ Edited(w, "closed", None)
       ELSE Edited(w, "refused", None) /\ UNCHANGED values
    /\ UNCHANGED <<server, stream, sources, history, panel, connection, told, left>>

CancelEdit(w) ==
    /\ edits[w].pc = "refused"
    /\ Edited(w, "closed", None)
    /\ UNCHANGED <<server, stream, sources, values, history, panel, connection, told, left>>

----------------------------------------------------------------------------
Next ==
    \/ Record \/ Push \/ StreamFails \/ StreamCut \/ DeviceLost \/ DeviceBack
    \/ \E outcome \in {"ready", "notfound", "error"} : Load(outcome)
    \/ AnswerHistory \/ ApplyHistory \/ FetchFails
    \/ \E S \in SUBSET Summaries : ApplyDefaults(S)
    \/ OpenStream \/ Snapshot \/ StreamError
    \/ \E v \in Vars : Toggle(v)
    \/ \E id \in Charts : CloseGroup(id) \/ Expand(id) \/ \E v \in Vars : MergeInto(id, v)
    \/ \E chart \in InReach :
        \/ \E v \in Vars : SplitOut(chart, v)
        \/ \E i, j \in 0..MaxPoints : i <= j /\ Brush(chart, i, j)
    \/ \E w \in Windows \cup {None} : SetWindow(w)
    \/ CloseDialog
    \/ \E w \in Writable :
        \/ \E x \in Values : Submit(w, x)
        \/ PerformWrite(w) \/ WriteLost(w) \/ WriteDone(w) \/ CancelEdit(w)
    \/ \E c \in Controls, x \in Values : OtherWrites(c, x)

(* The stream's generator and the browser run by themselves. *)
Fairness ==
    /\ WF_vars(Push) /\ WF_vars(StreamFails)
    /\ WF_vars(OpenStream) /\ WF_vars(Snapshot) /\ WF_vars(StreamError)
    /\ \A w \in Writable : WF_vars(PerformWrite(w)) /\ WF_vars(WriteDone(w))

Spec == Init /\ [][Next]_vars /\ Fairness

----------------------------------------------------------------------------
ChartId == {Solo(v) : v \in Vars} \cup {<<"g", n>> : n \in 1..groupSeq}

TypeOK ==
    /\ now \in 0..left.time
    /\ device \in [Controls -> Values]
    /\ values \in [Writable -> Values \cup {None}]
    /\ \A v \in Vars : /\ Times(history[v]) \subseteq 1..left.time
                       /\ Len(history[v]) <= MaxPoints
    /\ Len(ring) <= MaxHistory
    /\ selected \subseteq Vars
    /\ \A v \in DOMAIN grouping : grouping[v] \in ChartId
    /\ window \in Windows \cup {None}
    /\ DOMAIN brush \subseteq ChartId \cup {Dialog}
    /\ connection \in Connections
    /\ edits \in [Writable -> [pc: {"closed", "sent", "answered", "failed", "refused"},
                               value: Values \cup {None}]]

(* The points every variable should have: what the stream delivered and     *)
(* what the history had before the first of it.                             *)
Joined == told.live \cup {t \in told.older : \A x \in told.live : t < x}

Newest(S, n) == {t \in S : Cardinality({x \in S : x > t}) < n}

(* The history got here before a snapshot that is no newer than its points. *)
Overtaken == told.first /\ \E t \in told.older, x \in told.live : x <= t

(* lib/history.ts: the history goes under the live points without doubles   *)
(* and without losing any, whichever of the two comes first and whatever    *)
(* has been trimmed by then, and every readable variable has the same       *)
(* times.  The exception is a history that overtakes an older snapshot.     *)
SeriesJoined ==
    ~Overtaken => \A v \in Readable :
        /\ \A i \in 2..Len(history[v]) : history[v][i - 1] < history[v][i]
        /\ Times(history[v]) = Newest(Joined, MaxPoints)

(* Only variables on a chart have a group, so that one put on a chart again *)
(* does not come back to an old one (toggleSelected), and the chart in the  *)
(* dialog is there until the dialog is closed.                              *)
GroupsFollowSelection ==
    /\ DOMAIN grouping \subseteq selected
    /\ fullscreen # None => fullscreen \in Charts

(* A range on a chart means one thing: while any of its points are left,    *)
(* the points drawn between the ends of the slider are the points the       *)
(* statistics use, however many points have come and been trimmed since it  *)
(* was set; and no range outlives a change of the window.                   *)
BrushKeepsRange ==
    \A chart \in DOMAIN brush :
        LET rows == Data(Shown(chart))
            range == brush[chart]
        IN  /\ window = None
            /\ (\E t \in rows : range.startT <= t /\ t <= range.endT)
                 => Drawn(rows, SliderOf(rows, range)) = Visible(rows, window, range)

(* A value in the table that is not the device's, after another user's      *)
(* write, a late echo, an old snapshot or a lost stream, is put right by    *)
(* the stream as long as the device answers and time goes on.               *)
ShownSettles ==
    \A c \in Controls :
        (load = "ready" /\ values[c] # device[c])
            ~> (values[c] = device[c] \/ ~reachable \/ now = left.time)

=============================================================================
