# TSTLAN web: a verification development

TLA+ modules, TLC configurations and TLAPS proofs for the core of TSTLAN web: a
FastAPI server (`src/tstlan`) that gives users configs of measuring devices,
shares them between users, and reads and writes the variables of devices that
run as processes of their own (`src/devsim` is an emulator of one); a Next.js
frontend (`src/web/tstlan-web`) shows them.

    tlc -workers 2 -config configs_serial.cfg MCConfigs      # any run of PROJECT.json
    tlapm LayoutProofs.tla                                   # any *Proofs module

`PROJECT.json` has, for every definition, the source lines it stands for
(`map`), the runs, the slips each property catches (`mutants`), the findings,
the hazards and the theorems.

## The system

| Component | State | Operations | Interacts with |
|---|---|---|---|
| Device configs and grants (`configs/`) | tables `device_configs`, `config_shares`; per request an AsyncSession with the rows it loaded | create, update, delete, share, unshare, list, get | database (autoincrement keys, unique and foreign keys), other requests at every `await` |
| Variable layout and buffer (`configs/schemas.py`, `models.py`, `devices/unidriver`, `lib/configs.ts`) | ordered variables, addresses, byte buffer | `variable_offsets`, its copy in the form, `build_scheme`, `get`, `set` | device service, emulator |
| Device link (`devices/net`, `devsim/server.py`) | one lazy socket connection per device; the emulator's buffer, handlers and lock | read, write, connect, reset and retry once; serve; tick | service, sampler and streams (event loop), REST handlers (thread pool), device process |
| Device service and routes (`devices/service.py`, `runtime.py`, `routes.py`) | registry of devices | read all, read one, write one, SSE stream | link, value conversion |
| Value conversion (`devices/models.py`) | none | `coerce_value`, `fit_value` | service, simulation |
| History sampler (`devices/history.py`) | ring buffers, the sampling task | sample, read history, stop | link, stream, browser |
| Simulation (`devices/simulation`, `devsim`) | signals, buffer, tick | tick, follow, read-back of controls | REST handlers (thread pool), sampler (event loop); the emulator's lock |
| Application (`app.py`) | the lifespan, its tasks and its stop event | start the engine and the sampler, stop, await | engine, sampler, streams |
| Sessions and CSRF (`auth/`, `auth-provider.tsx`) | table `sessions`, the browser's cookie, the account each tab shows | login, sliding refresh, expiry, logout, token check | every request |
| Monitor page (`device-monitor.tsx`, `history.ts`, `device-graph.ts`) | values, series, selection, groups, ranges, writes | join of history and stream, default selection, charts, write echo | history and stream routes, configs, `writeValue` |
| Charts (`time-series-chart.tsx`, `chart-brush.ts`) | the selected range of each chart | rows, window, slider | monitor page |
| Config editor (`config-editor.tsx`, `config-form.tsx`, `share-panel.tsx`, `lib/configs.ts`) | loaded config, draft, two requests | edit, validate, save, create, delete, share | config routes |
| Tools, migrations, profiles, settings, other pages | none while the system runs | once at startup or by hand | |

What is hard in it, and what makes each part right:

* **Configs.** A request loads a config, then its grants, decides, and writes at
  its commit; every `await` lets the other requests run. Two of them may meet in
  any order, and the unit of work writes by the primary key it loaded. Right
  means: one grant for each config and user, none without a config, none to the
  owner; no lost edit; no write to somebody else's grant; a visibility label
  that agrees with the grants; a list that agrees with the access rule.
* **Layout.** The address rule exists in two languages and packs bits eight to a
  byte. Right means: disjoint regions, packed without holes other than the rest
  of a byte of bits, the same addresses in both, no write that disturbs a
  neighbour.
* **Link.** A line protocol without request ids over a connection that several
  threads share without a lock, with a timeout, one retry, and a peer that can
  crash. Right means: an answer belongs to its request, a single failure is
  hidden, no connection is left open, the stream gets back into step, every call
  returns.
* **Sampler and stop.** One task reads every device in turn, blocking the event loop,
  through links that fail and that handlers share; a stop waits for it. Right means:
  a device that fails neither ends the task nor costs another device a point, the
  history holds the newest rounds in order, and a stop completes.
* **Simulation.** A tick, a snapshot and the writes of pool threads reach one buffer
  without a lock, access by access. Right means: no write is undone or overlooked by
  a tick, a point of the history is of one tick, a sensor that follows a setpoint
  comes to it, and a sample becomes the nearest value its register can hold.
* **Stream, page.** Two sources of the same points joined in the
  browser; writes echoed while older snapshots are on the way; charts whose
  groups, ranges and dialog must follow a selection that several handlers, and
  one late answer, change. Right means: series in order, without holes or
  doubles; a range that means the same points while rows come and are trimmed;
  groups of charted lines only; a table that comes to show the device.
* **Config editor.** A draft, a loaded config and two requests with pending flags
  of their own, over a config that others change. Right means: what the form
  stores reopens unchanged, the page shows what the service has, "saved" is said
  only of what was stored, one press creates one config, and no save is refused
  for a field its user cannot see.
* **Sessions.** Refresh, expiry and logout of one session in overlapping requests,
  a cookie set after the handler ran, and tabs that share the cookie but not the
  CSRF token. Right means: a session that was logged out stays out, and a change
  is made for the account its tab shows.

## Modules

| Module | Models |
|---|---|
| `Configs` | `configs/service.py` over the two tables; one action per step of a request |
| `AccessControl` | what the component promises: one access list per config, atomic operations |
| `MCConfigs` | instances: roles, the operations requests may carry |
| `ConfigsProofs` | theorems about `Configs`, the refinement of `AccessControl` among them |
| `Layout`, `MCLayout`, `LayoutProofs` | addresses, the form's copy, the buffer |
| `DeviceLink`, `MCDeviceLink`, `DeviceLinkProofs` | client, service calls, emulator, faults |
| `Sampler`, `MCSampler`, `SamplerProofs` | the sampler's task, the history of two devices and the stop of the application; extends `DeviceLink` |
| `Conversion` | `coerce_value` and `fit_value` for every type |
| `Simulation`, `MCSimulation`, `SimulationProofs` | the engine's ticks, the sampler's snapshots and the writes of users over one buffer; extends `Conversion` |
| `Charts` | the pure functions behind the charts: series, rows, windows, ranges, groups, default selection |
| `Monitor`, `MCMonitor`, `MonitorProofs` | one device page with the sampler, the stream, the device and other users; extends `Charts` |
| `ConfigForm` | the pure half of the form: validation, payload, draft |
| `ConfigEditor`, `MCConfigEditor`, `ConfigEditorProofs` | the pages of a config over the service, with other users; extends `ConfigForm`; theorems about both |
| `Session`, `MCSession`, `SessionProofs` | the session table, the middleware, the tabs of a browser |

Definitions named `Slip...` are not part of any model. Each is the definition
that follows it with a small plausible mistake (a dropped check, an off-by-one, a
missing reset); every property is broken by at least one of them, so it does
depend on the code it is about.

### Configs

`configs` and `shares` are the tables by primary key; `lastConfigId` and
`lastShareId` the sequences PostgreSQL takes keys from. Two databases are
supported by the code and differ here: SQLite's `INTEGER PRIMARY KEY` without
AUTOINCREMENT gives the largest rowid plus one, so the key of a deleted last row
comes back; a PostgreSQL sequence never does. `Database` chooses (`NewId`). The
gaps an aborted INSERT leaves in a sequence are left out: only the order of the keys
and whether one comes back can be told apart.

A request is a record: `LoadRow` is the first SELECT of `get_config` (404 ends it
there), `LoadShares` the second one (`selectin`) together with the handler's
checks (`Permitted`), and `CommitUpdate`, `CommitDelete`, `CommitRegrant`,
`CommitGrant`, `CommitUnshare` its commit with all it writes, the normalised label
included. `Rollback` is a commit that raises: an UPDATE that meets no row
(StaleDataError), the unique or foreign key (IntegrityError), or a key past the
model's bound. `Create` reads nothing before it inserts, so it is one step.

Abstractions: a commit's flush is one step, as the transaction is; the reload of
a config for the answer (`_load_detail`) changes nothing and is left out;
`list_configs` and `effective_access` are the operators `Listed` and
`EffectiveAccess`; accounts and roles do not change, because no endpoint changes
them; names and payloads are values that are only compared. SQLite's writer lock makes no difference to what commits do one after
another; its keys do. `CHECK_DEADLOCK FALSE`: on PostgreSQL the bounded keys run
out and then a database without configs and requests has nothing left to do.

### Layout

`TakeVariable` is one turn of the loop of `variable_offsets`, beside it one turn
of `variableOffsets` of the frontend, which treats a missing bit number as zero.
`Bind` is `build_scheme` on a fresh buffer, `Set` the accessor's `set`. The buffer
is the set of its bits that are one. A value is all ones or all zeros in its
region, the worst a write can do to its neighbours; the conversion of numbers
to bytes is not part of the model. `CHECK_DEADLOCK FALSE`: an
empty list, once bound, has nothing left to do.

### DeviceLink

`io` is the client's current connection; `conns` every connection ever made, with
the client end (`open`, `timedOut`), the handler in the device (`live`) and the
lines in each direction; `calls` what each thread does. A call of the service is
a list of requests: one for `read_value` and `write_value`, one per variable of
the profile for `read_values`. A request goes through `Connect`, `Dial` or
`Refused`, `Send`, `Receive`; an OSError of the first attempt (`Lost`, `Refused`,
`Timeout`) leads to `Reset`, which closes whatever connection is current, and to
the second attempt; the second error ends the call. `Closed` is the ValueError of
a file another thread closed, which nothing catches. `Serve`, `HangUp` and `Tick`
are the emulator: its lock makes one request and one tick a step. `Crash`,
`Restart`, `Break` and `Timeout` are the faults.

Two history fields of a call state the properties: `held`, the values the variable
has had in the device since the request began, and `struck`, whether the device
was down or a fault occurred after the second attempt began.

Abstractions: a JSON line is a record and reading one line a step; a write to a
connection the device has lost goes nowhere and the read after it fails; answers
that were in flight may be lost when a connection breaks but not when the process
ends; a `SocketIO` that timed out refuses every later read with an OSError, yet
can be written. Sensors flip at every tick, which is the most a tick can
change. `CHECK_DEADLOCK FALSE`: calls and faults are bounded.

### Sampler

`Loop` is the thread of the event loop, one of the threads of `DeviceLink`: while the
sampler reads `Here` it blocks the loop, so the stop and the next round wait, and
the handlers of the pool threads go on (`LinkStep`). `BeginRound` starts the reading of
every variable, `SampleHere` is the rest of `record_snapshot` with its three outcomes (a point; an
OSError, which skips the device; any other exception, which ends the task), `SampleThere`
the second device, which always answers. `EndSampler` is the event found set,
`Shutdown` and `AwaitSampler` the end of the lifespan: what ended the sampler is raised
by the await and nothing after it runs. A point carries the number of its round for
a time.

What can end the sampler is a handler that shares the link: when its own
connection attempt fails, `_reset` closes the connection the sampler has just opened,
and the ValueError of a closed file is none that `record_snapshot` catches. The model has
these behaviours, and `SamplerGoesOn` and `StopCompletes` are claimed while nobody but the loop has used the link (`Only`). The
streams (`value_event_stream`) read the way the sampler does and are in `Monitor`.
`CHECK_DEADLOCK FALSE`: calls and faults are bounded, and an application that has
stopped does nothing more.

### Conversion and Simulation

Numbers are counted in quarters, the coarsest unit with fractions below, at and
above a half; `Round` is Python's `round`, half to even. A request's number is an
integer, a decimal or a boolean, because `coerce_value` tells these apart. Precision
and range of floats are left out.

A step of `Simulation` is one access to the buffer. A tick goes over the catalog twice (`Plan`), first for
what users may write, then for the sensors (`Accesses`), a snapshot once (`Reads`); both go on to the
next place that is theirs (`Following`). `TickStep` reads back one variable
or publishes one sensor, `SampleStep` reads one variable, `Write` is `write_value` of a pool
thread, which may fall between any two of them. The tasks of the loop change places only when one
waits, so a tick and a snapshot do not overlap, and a task begins in the order of its creation
(`Begin`). A signal is a sequence of terms, their sum; `Sine` and `Noise` may give any value of
their range, a walk any step. `held` and `written` are history variables: what the users'
variables were during the last tick, and what was last written. There is one device,
enabled. `SimulationAssumption` says of the catalog what `SimulatedDeviceBuilder` and the schema of a request
make it: a signal for each read-only variable and no other, an initial value its register holds, a whole number for an integer literal. `CHECK_DEADLOCK FALSE`: a stopped application with its clock at the bound may only be written to.

### Charts and Monitor

A point is its server time: what the properties ask of a series is which points
are in it and in what order. `Record` is a turn of the sampler, `Push` one of
`value_event_stream`, with the snapshots under way in `stream.sent`; a fetch of
the page is asked, answered (`AnswerHistory`) and applied (`ApplyHistory`) in
steps of their own, so that everything else may fall in between. `Snapshot` is
the whole `onSnapshot`, which replaces the values, appends to every series and
sets the badge. `ApplyDefaults` is `listConfigs` followed by `getConfig`: neither
answer depends on the page, so they are one step, which keeps a selection made
by hand. The charts are functions of `selected` and `grouping`; a handler that
changes either also ends the ranges of the charts that go (`Kept`), because the
range is the state of a component keyed by the chart. The copy of a chart in the
dialog is a component of its own. A write from the table is sent, performed and
answered; a row is disabled meanwhile.

`told` is a history variable: what the stream has delivered and what the history
had, from which `SeriesJoined` says what each series must be. The one order it
excepts is real: an answer that overtakes an older snapshot puts the newer points
first, and that snapshot's after them, which `lib/history.ts:5-7` would not
have. A device that does not answer skips the turn of the sampler, and ends the
stream, which the browser opens again. Behaviours of the model that no property
rules out: the default
selection comes after the user has cleared the charts; the echo of a write-only
variable goes with the next snapshot.

`CHECK_DEADLOCK FALSE`: time, clicks, writes and faults are bounded.

### ConfigForm and ConfigEditor

A text is its core (what `trim` and `parseInt` find in it) and whether it is
typed otherwise than `String()` would write it, which is what a round trip
through the payload may lose. The service is one row and its grants; a
request of the page is one step of it, since how requests interleave inside the
service is `Configs`. `save` is the request of the form (create, update or
delete) and `share` that of the panel: each is sent, performed, and answered, and
the two overlap. `Update` is the form's `update`, allowed during a save; `Taken`
the `onChange` that gives the page the whole answer. `OtherSaves`, `OtherShares`
and `OtherDeletes` are other accounts, by what the service allows them.

History variables state what may be expected: `behind` that the page may not
have the last answer, `edited` that the draft changed under way of its save,
`stored` the body last stored, `created` and `lost` the rows made and the answers
to a create that were lost. Behaviours the model has and no document rules out:
an older draft saved over somebody else's newer config (PUT carries no version),
two configs after a lost answer, "Сохранено" shown over an edit made during the
save, the older of two crossed answers shown until the next.
`CHECK_DEADLOCK FALSE`: edits, requests and faults are bounded.

### Session

A token is the number of its draw, `owners` the account of every token drawn and
`expires` the table. A request takes cookie and CSRF token along as it is sent
(`Fetch`); `Resolve` is the SELECT of `resolve_session`, `Refresh` its UPDATE in a
step of its own, which fails when the row is gone; then `Passed` applies the token
check and `Handle`, `Login`, `LoginRejected` or `Logout` is the handler. `Answer`
sets the browser's cookie, by whichever of the middleware or the handler sets it,
and the state of the tab that asked, if it is still there. Tabs are opened and
reloaded, requests fail, cookies and sessions expire.

`loggedOut` is a history variable. Abstractions: the CSRF token is that of its
session; the Origin check is one that the pages of the application always pass;
password checks are a nondeterministic rejection. `CHECK_DEADLOCK FALSE`: the clock
and the requests are bounded.

## Runs

| Run | Instance | Shows |
|---|---|---|
| `configs_concurrent` | PostgreSQL, 2 users, 1 config key, 3 grant keys, 2 requests | rows typed, grants unique and none orphaned (`RowsSound`), none to the owner; what a request loaded still is what it writes to; list agrees with access; publication, edits and grants only as asked; every commit is a step of `AccessControl` |
| `configs_serial` | SQLite, 3 users, 2 config keys, 2 grant keys, 1 request | the label follows the grants, publication is left alone, edits are authorised as they land |
| `configs_stale_label` | PostgreSQL, 2 requests | **violated**: label against grants |
| `configs_reused_key` | SQLite, 2 requests | **violated**: another user's grant removed or changed |
| `layout` | lists of up to 9 of {bit, 4-byte word} | disjoint, packed, same in the form, no disturbance |
| `link` | 2 budgets: one thread alone with 2 calls and 3 faults; two threads with a call each, no fault, a device up or down | as long as one thread has called: true answers, one retry is enough, no leaked connection (`LinkSound`) |
| `sampler` | the sampler in the event loop with 2 reads, a pool thread with 1 read or write, 1 fault, a history of 1 point | back in step, calls return, the sampler goes on, the other device keeps up, the stop completes |
| `link_swapped` | 2 threads, no fault | **violated**: another request's answer |
| `simulation` | a calibrator whose output follows a setpoint, beside a sensor with six kinds of signal at the end of its register; 5 inputs, 2 instants | writes stay and take effect, the output follows, points are of one tick, sensors show the nearest value |
| `monitor` | 3 variables (r, rw, w), 3 configs, 3 points a series, 5 budgets | series joined, groups and dialog follow the selection, ranges keep their points, the table settles |
| `config_editor` | a user, a publisher and another user; 2 configs, 9 edits, 4 budgets | what is stored reopens unchanged, one config for one press, the page is current, "saved" is true, no save refused for what the form cannot show |
| `session` | 2 tabs, 2 accounts, 2 requests at once, 2 sessions, 3 budgets | changes only by the account shown, logged out stays out |

**Bounds.** Two requests are where every interference between a load and a commit
begins; one config key with three grant keys lets a grant be made, removed and
made again while a request holds the first, with two users granting one another.
The serial run has two config keys and SQLite's rule, so that both kinds of key are
reused. Nine variables reach the ninth bit, the first that opens a new byte, and
every alternation of bits and words before it. Three faults cover a fault in the
first attempt, in the second and in between two calls. In `sampler` two reads of the sampler and one call of a handler
meet at every point of their requests, with one fault the reset of one meets the
connection of the other, and the second round is the one in which a history of one
point gives its oldest up. In `simulation` the inputs are above, in, and beyond the range of the
setpoint or above that of the output, and of the wrong form; two instants let square and sawtooth change,
and the walk and the noise reach every value they can. What the bounds cut off, the theorems below
cover: every invariant and every action property of a passing run is proved for every value of the
constants its theorem assumes; only the four liveness properties rest on the bounds.

A budget of `link`, `monitor`, `config_editor` and `session` says how often each actor may
act in one behaviour, and the runs explore every budget of a small set rather than
their product: two writes; a write beside a fault; a fault while points are trimmed
(four points into series of three); three clicks while points are trimmed, so that a
range loses its first, then all of its points; a click beside a write. For the
editor: four edits and a save with a fault, which is a config typed from nothing;
two saves beside two grants and a fault; two saves beside a grant and another user; a save beside two
changes by others and a fault. For sessions: two pages and four requests; three pages (a reload
among them) and three; two pages, three requests and a fault. The slider appears past
`MinBrush` points, 8 in the code and 1 here, or three points would not have one.

**Symmetry** is used over the request slots, and in `session` over tabs and accounts, in
runs without liveness.

**Fairness** (`Sampler!FairSamplerSpec`): each thread of the link, when it can take a step, does so
in the end, and some waiting request is served in the end. Both are threads of an
operating system, and the emulator's handler blocks on nothing but a lock that is
held for one request or one tick. Ticks, faults, restarts and new calls are not
assumed. A thread whose answer another thread took has no step of its own until
the timeout: `CallReturns` still holds in `sampler`, because the other answer
is then on its way to it. It is one weak fairness for all connections: a request
on a connection that is served while another waits cannot starve it, since calls
are bounded.

What is ready in the event loop runs too: `SampleHere`, `SampleThere`, `EndSampler`, `AwaitSampler`. Rounds, stops
and faults are not assumed. **Fairness** (`Simulation!FairSpec`): the steps of a tick, of a snapshot
and of the stop go on, and `BeginTick` is strongly fair: asyncio serves the tasks that are ready in
turn, so an engine whose wait is over is not passed over for ever by the sampler, although it is
not ready while the sampler runs. Snapshots and the clock are not assumed.

**Fairness** (`Monitor!Fairness`): the stream's generator goes on (`Push`,
`StreamFails`), the browser opens a stream again and delivers what it has received
(`OpenStream`, `Snapshot`, `StreamError`), and a write that was sent is performed and its
answer applied. These are loops of the server and of the browser that wait for nothing
but time and one another. The sampler, the user, other users, faults and the return of a
device are not assumed; `ShownSettles` therefore promises nothing of a device that does not
answer, nor past the end of the bounded clock.

## Findings

1. **Stale label** (`configs_stale_label`). `share_config` and `unshare_config`
   derive `shared` or `private` from the grants they loaded. A share that overlaps
   an unshare leaves a config with a grant and the label `private`, or the reverse.
   `docs/data-model.rst:25` defines the label by the grants.
2. **Reused key** (`configs_reused_key`). On SQLite a request that still holds a
   removed grant deletes or changes the grant that took its key, whoever it is
   for. With PostgreSQL's sequences the property holds (`configs_concurrent`) and the
   reason is proved (`SnapshotsMatch`).
3. **Swapped answers** (`link_swapped`). The event loop and the pool threads share
   one connection without a lock and read one another's lines.

Two properties of `configs_serial` (`PublicUntouched`, `EditAuthorised`) hold one request
at a time; overlapping requests
break them through the same window between load and commit. Behind the link a tick
of the device can fall between two requests of one `read_values`, because the emulator's lock
is around each request; `DeviceLink` has these behaviours, and `PointWhole` is claimed of the
simulated devices only. `TrueAlone`, `OneRetrySuffices`, `SamplerGoesOn` and the
connections of `LinkSound` are claimed until a second thread calls (`OneCaller`); callers that share
the link close one another's connections and may leave one unreferenced.

## Proofs

For every value of the constants, under each module's named assumption:

* `ConfigsProofs`: `TypeCorrect`; `GrantsAreUnique` and `GrantsHaveConfigs`, from the
  inductive invariant `GrantsInv` (type, uniqueness and no orphan together: a new
  grant is checked against the rows stored, a delete removes stored and loaded
  ones alike), and `RowsAreSound`, their conjunction. No assumption on the database or on the number of
  requests. Then, assuming `Sequenced` (keys are never reused, as with
  PostgreSQL): `SnapshotsMatch`, `OwnersAreNotGrantees`, `Refinement` (`Spec`
  implements `AccessControl`) and `GrantsAreAskedFor`. The properties are not inductive: a stored row
  matches a loaded one only because its key was not given to another since. The
  strengthening says that every key in a table or in a request's snapshot has been
  issued, and that a request waiting to commit passed its checks. `StepMoves`
  describes every step in those terms once; each commit is then mapped to an
  operation of the access list or to a stutter. On SQLite the assumption fails
  and so do the properties (finding 2), `GrantsFollowRequests` among them: a request that
  follows the rules then changes the grant of somebody else.
  Without it, for either database and any overlap: `ListShowsTheAccessible`, `EditsAreAskedFor`
  and `OnlyPublishersPublish`. `RowSteps` says what each commit may do to a row of
  `device_configs`, column by column, and `ChecksPassed` that a request waiting to
  commit passed the checks of its handler; together they leave a changed name, payload or label only one origin.
  The three properties of `configs_serial` are theorems about the behaviours of `Spec` in which
  requests do not overlap (`Spec /\ []Serial`, what one request slot means in the run), for any number of slots, on
  either database: `LabelsFollowGrants`, `PublicationsStay`, `EditorsAreAuthorised`. `RequestsFresh`,
  that the request in flight holds what is stored, is what overlap breaks; with it a commit
  normalises the label of the grants it leaves (`CommitLabels`).
* `LayoutProofs`: `TypeCorrect`, `FormsAgree`, `RegionsDisjoint`, `LayoutPacked`,
  `WritesReadBack`, for lists of any length and any sizes. `Addressed` carries that
  a bit has a number and a byte variable has none, and that both loops agree;
  `AfterFollows` is the one lemma of arithmetic: an address starts where the
  previous region ends or at the next byte. That nothing overlaps then follows by
  following the last variable only, since earlier regions do not move.
* `SessionProofs`: `TypeCorrect`; `SessionsStayOut`, because a refresh updates only a row
  that is there and a token is drawn once; `ChangesAreByShownUser`. The last one needs a
  strengthening that follows a token from the table to the page and back: what a tab shows
  is the owner of its CSRF token, a request carries its tab's token, and the session a
  request was given is the cookie's, so that a token check that passes ties the two
  accounts together.

* `DeviceLinkProofs`: `TypeCorrect`, where `Sound` adds that a call that is under way has
  a request left and that one past connecting has a connection. `StaysInStep` holds for
  any number of threads by counting: on a connection that is open and has not timed out
  there are no more lines, in both directions together, than threads that wait for one.
  Sending adds one of each, receiving takes one of each, serving moves a line over, and a
  thread gives up its line only with the connection. With nobody waiting none is left,
  whose line each thread took notwithstanding. `AnswersAreTrue`, `RetrySuffices` and `LinkIsSound` speak of any number
  of threads of which one has called so far (`OneCaller`); finding 3 and the paragraph after it say why they
  must. `Fresh` says that the others are idle and `OnlyBefore` that who is alone now was alone before. Their
  common invariant `Alone`
  says that the lines of the current connection are the request of the call or what
  answers it; that a connection is empty before a request is sent on it comes from the
  count of `StaysInStep`; and a second attempt that no fault has struck is on a fresh
  connection of a running device.
* `SamplerProofs`: `UsesTheLink`, every step of the sampler, of a handler or of a stop is for the
  link a step of `DeviceLink` or a stutter, so that `StaysInStep` holds of the composition
  (`SamplesInStep`) and need not be proved again. `SamplerIsNotEnded`: a call of a thread that is
  alone ends with values or an OSError (`Alone`), which do not end the sampler. `NeighboursKeepUp`, from `Longer`, which says what a
  bounded deque keeps of a sequence.
* `SimulationProofs`: `SamplesFitNearest` and `LimitsAgree`, the two conversions for all eleven types,
  64-bit ones too, which TLC cannot count; the key is `Rounded`, that `round` is at most half a
  unit off. `WritesStay`, because a tick only reads what users may write: `Agrees` adds that the
  sensors in the buffer are what the engine has. `PointsAreWhole` on top of it: `Ordered` says that a
  snapshot is under way only after the engine's first tick and during no other, and `Reading` that it has
  read the places before the next one and that the sensors among them still are what it read.
  `SensorsShowNearest` and `SimulationIsTyped`: that a signal of any number of terms gives numbers
  (`SamplesAreNumbers`) is an induction over its terms, whose sum the model defines by recursion.
  `OutputsFollow`: `Holds` says that during a tick a user's variable is at what users made it since the
  tick began, and `Left` what the accesses done so far have left; a sensor is published after
  everything it may follow was taken over (`LeftTick`), is off by its noise (`FollowerGives`), and a register
  keeps the order of samples (`FitMonotone`).
* `MonitorProofs`: `GroupsFollow`. `MonitorIsTyped` and `SeriesAreJoined`, from `MonitorInv`: the server's ring is
  increasing in time and ends at the present, an answer under way is one the ring had, snapshots
  wait in the order they were made, and a series is the trimmed join of what was told. What trims and
  joins keep (`Picked` and its lemmas, by the position of a point in the result) is proved for series
  of any length. `DrawnIsCounted` and `RangesAreKept`: a slider holds the
  indices of rows, an index is the number of rows before it, and a range in time selects
  what its slider shows as long as one of its rows is left; `RangesHold` adds that a range
  has a chart and that the window is whole while there is one.
* `ConfigEditorProofs`, the form: `RoundTrip`, field by field: an error is a field that would not survive
  the payload, so a draft without errors reopens as one without errors and with its payload. The pages:
  `TypeCorrect`, `Reopens`, `OneConfig`, `ShowsTheService`, `MarkIsTrue`,
  `NotRefused`, from one invariant `Inv`. No property of the page is inductive without what is
  under way: `SaveSound` and `ShareSound` say what a request was made of and that an
  answer that is not stale is what the service has; `RowSound` that only the form's own
  payloads are stored, so that `RoundTrip` applies; `CountSound` that a page that may create
  has lost the answer of every create before.

The type invariants of `Layout`, `Session` and `ConfigEditor` are proved and not run a second time.

Every invariant and every action property of a passing run is a theorem. Model-checked only are
`CallReturns`, `StopCompletes`, `SetpointTakesEffect` and `ShownSettles`: liveness under fairness and ENABLED
are beyond the prover.

Induction over data is done on sets: the library's induction theorems take an operator, which no backend here
instantiates, but a set of natural numbers has a least element (`Least`, from `WFMin`), so a
set that has 0 and with each number the next has them all (`Induction` in `SimulationProofs`). Operators that
the library defines by recursion (`SelectSeq`, folds) are out of reach all the same, and so are
RECURSIVE ones; the address loops of `Layout` are stepped by actions, `Charts` picks the points of a
series by position (`Picked`), and `Simulation` goes from place to place of the catalog (`Following`).

## Not modelled

* Floats as they are stored: a number beyond the range of f32 passes `coerce_value` and fails in
  `struct.pack`; `Conversion` has exact numbers.
* Several simulated devices in one engine, and disabled ones: the ticks of one device do not
  depend on another.
* The event streams beside the sampler in one loop: `Sampler` leaves them out, as they read the
  same way; `Monitor` has the stream of one page. Whether a server waits for its open streams before it
  ends the lifespan is the server's matter.
* The emulator's own signals: in `DeviceLink` a tick publishes all sensors in one step, whatever
  their values.
* On the monitor page: the search filter, which unmounts rows and with them a
  draft that was not sent, leaving the page, averages, indicators, ticks and formatting.
* Password hashing, logging, rendering, device profiles, INI and YAML parsing, migrations
  and the command line tools: sequential, or pure input and output.
* Timing: how late a stream gets when a device is silent.

## Plan

1. `Configs`, `AccessControl`, with proofs: done.
2. `Layout`, with proofs: done.
3. `DeviceLink`, with proofs: done.
4. `Session`, with proofs: done.
5. `Charts` and `Monitor`, with proofs: done.
6. `ConfigForm` and `ConfigEditor`, with proofs: done.
7. `Sampler`, with proofs, and `Conversion` and `Simulation`, with proofs: done.
8. Next: the list pages of devices and configs.
