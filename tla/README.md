# Smart Kosher in TLA+

Specifications, model-checking configurations and machine-checked proofs for
the Smart Kosher home controller (`src/`): a MicroPython brain that switches
Zigbee relays on schedules tied to halachic times, and the ESP32-H2 coordinator
firmware it commands over a UART.

    panel screens -> API -> repository, settings, registry file
         |                      |
       taps                  schedules
         v                      v
    control -> executor <- scheduler <- planner <- calendar, zmanim
                |    |         ^
           journal   v       clock
                 gateway ==UART== link, coordinator ~~radio~~ relays

Paths below are relative to `src/`; `brain/` abbreviates `src/smart_kosher/`,
`fw/` abbreviates `firmware/h2_coordinator/main/`.

## 1. Inventory

| Component | State | Operations | What makes it correct |
|---|---|---|---|
| Scheduler, recovery (`brain/application/scheduler.py`, `recovery.py`) | `_last`, the minute the next window starts after | `tick` every 30 s | no due event is lost, none is repeated, a tick ends |
| Planner, views (`planner.py`, `views.py`) | caches of nine days and of the schedules, one planner for each of them | `events_between`, `upcoming`, `today` | the occurrences of a half-open window, by the settings and schedules of now |
| Calendar, zmanim (`brain/zmanim/`) | none | conversion of dates, feasts, portions, summer time, zmanim of a day | the rules of the calendar, in every kind of year |
| Executor (`executor.py`) | none; it shares the journal with all its callers | `execute`, `execute_many` | an executed id is not sent again; only proven deliveries count as executed |
| Manual control (`control_service.py`) | none | `send` | taps and schedules share executor and journal without disturbing each other; a confirmed tap was real |
| Event journal (`adapters/json_repository.py`) | `journal.log`, `.tmp`, `.bak`; `_records`, `_by_id`, counters | `record`, `was_executed`, load | what was acknowledged survives power cuts; the device always starts |
| JSON repository, settings store (`json_repository.py`, `settings_store.py`, `_atomic_io.py`) | a file per collection with `.tmp` and `.bak`; the copy in memory | load, save | old or new content after a cut, what was acknowledged survives |
| CRUD, API, migrations (`crud_service.py`, `api.py`, `migrations.py`) | none beyond the stores | create, update, delete, settings, `apply_all` | no dangling reference, no radio evicted that is in use, old contents repaired before use |
| Gateway (`adapters/zigbee_gateway.py`) | pending requests, breaker, registry, reported and expected states, reporting credits | `send`, `ping`, `watchdog`, `process_line`, `pump_reporting` | each reply reaches its request; a group counts only when all members do; what is shown is real; the breaker follows the link; credits bound the load |
| UART link (`fw/link.c`, `fw/protocol.c`, `uart_codec.py`) | an RX and a TX queue, the line assembler | enqueue, transmit, assemble | no merged or truncated frame, no loss without a trace |
| Transaction table (`fw/txn.c`) | 16 slots, a generation counter | alloc, get, match, release, expire | a late callback never hits a reused slot |
| Coordinator handlers (`fw/zb.c`) | none but the table | 7 commands, 5 callbacks, network signals, the sweep | each request is answered exactly once; the hub knows the network |
| Clock (`device_time.py`, `pcf8563.py`, `settime.py`) | the registers of the RTC | set, read | what is entered is what is shown |
| Panel (`products/panel/device/`) | the store of signals, the page that is open, the wizard's draft, the queue of operations | taps, `bridge.dispatch`, the refresh, pairing | the screens show what the brain holds; an edit changes one thing |
| Web server, cities, hub composition, desktop tools | | | see `PROJECT.json` |

How they interact. Everything in the brain runs on one asyncio loop: the
scheduler task, taps from the UI, the UART reader, the gateway's watchdog, on the
panel also the LVGL loop and the refresh of the store. They
interleave at `await`, and share the journal, the repository, the pending table
and the breaker. The coordinator runs an RX and a TX task, a dispatcher task and
the Zigbee stack's
callbacks, which exclude each other by the stack lock, and an expiry sweep that
excludes the callbacks' critical sections only. The two sides exchange frames
tagged with request ids; frames and radio messages may be lost, late or
reordered. Power may go at any step; files and the RTC remain.

The hard parts, each at its line, are the `hazards` of `PROJECT.json`:
interleavings around an await or an unlock, retries of what was already done,
crashes between a file operation and the next, late callbacks, limits of the
journal, the table, the queues and the caches, a clock that is moved, special
cases of the calendar, screens that run ahead of the brain, and the progress of
loops nobody watches.

## 2. The modules

| Module | Models | Role |
|---|---|---|
| `Automation` | scheduler, recovery, executor, taps, clock, edits of schedules, power cuts | core specification |
| `ExecutionPromise` | what executor and journal promise together | abstract specification, implemented by `Automation` |
| `AutomationProofs` | | theorems about `Automation` |
| `Delivery`, `DeliveryProofs` | one call through executor, worker pool, pending table, radio; reported and expected states | specification of the gateway's command path, theorems |
| `LinkBreaker` | the circuit breaker of the gateway | specification with liveness |
| `Reporting` | the registry, retry queue and credits of the gateway with the bind-and-configure chains of the coordinator | a protocol of both sides, with liveness |
| `GatewayProofs` | | theorems about `LinkBreaker` and `Reporting` |
| `Coordinator` | `txn.c` and the handlers, callbacks and sweep of `zb.c` | firmware specification |
| `CoordinatorLink` | `link.c`, `protocol.c`, the boot announcement, network signals and discovery of `zb.c`, `uart_codec.py` | firmware and wire specification, with liveness |
| `CoordinatorProofs` | | theorems about `Coordinator` and `CoordinatorLink` |
| `EventJournal`, `EventJournalProofs` | `JsonEventJournal` on its files | storage-level specification of the journal, theorems |
| `AtomicFile` | a file with its `.tmp` and `.bak` | operators: what a save, an error or a cut leaves, what a start reads |
| `Catalog`, `CatalogProofs` | repository, settings, registry file, CRUD, API, migrations, the order of a start | specification of everything stored, theorems |
| `DurableStore` | what stored contents promise | abstract specification, implemented by `Catalog` |
| `HebrewCalendar` | `hebrew_cal.py`, `parasha.py`, `israel_time.py` | functions and operators |
| `Zmanim` | `zmanim.py` above the solar position | operators |
| `DeviceClock` | `settime.py`, `device_time.py`, `pcf8563.py` | operators |
| `Planner`, `PlannerProofs` | the planner as the scheduler and the views use it | specification over the three modules above, theorems |
| `ScheduleWizard` | `schedule_add.py` | actions of the wizard, used by `Panel` |
| `Panel`, `PanelProofs` | store, bridge, refresh, pairing, the pages | specification of the wall panel, theorems |
| `MC...` | | small instances for TLC |

Variables that only the properties read ("history" in the modules) are never
read by a guard. In each module, an operator whose comment calls it a *mutant*
is the mapped operator with one plausible mistake; it is used by nothing in the
specification and shows which property would notice the mistake.

### Automation

`Events` are dated occurrences (the planner's event ids), `Taps` manual
commands. `now` is the RTC, `last` is `Scheduler._last`, `journal` the durable
content of the event journal. One tick is `TickStart`, then for every due
event `SkipExecuted` or `ExecuteEvent` with the steps of `execute`, then
`TickEnd`, which advances or rewinds the marker; `TickReanchor` is the tick
that finds no new minute. The steps of a call are `DeviceActs` (the relay
switches), `Executed`, `AckUnjournaled`, `Retry`, `GiveUp`: the four ways out
of the loop in `execute`. They interleave with taps, with the clock and with
edits, since each gateway call is an await. `SuccessReported` is the ack ladder
of `_ack_status`: with `DeliveryAck` a success means the relay confirmed a
frame. A frame that was written (`sent`) may act at any time, also after the ack
timeout, after the call has ended and after a restart of the hub; the abstract
specification remembers the commands that were ever begun (`begun`) and
promises that no other moves a device. A `Crash` loses `last` and everything in
progress.

Abstracted: which occurrences a window has (the minute of an event is the
constant `Due`; that the planner returns the window is the subject of
`Planner`), what is switched and the members of a group (`Delivery`). A
journal write that failed does not appear after a power cut here; in
`EventJournal` it may.

### EventJournal

A file is a sequence of lines, a line is a record or `Broken`, and `ended` says
whether the last line has its newline. `record()` is `Record`, then either
`AppendDone` or `CopyDone`, `BackupDone`, `InstallDone`; at every one of these
steps an `OSError` (`Fail`) or a power cut (`Cut`) may leave any of the states
in `Half...`. `Boot` reads the first readable of the three files; `Refused` is
the `RepositoryCorruptionError` that keeps the products from starting. `Misread`
is an `OSError` of a start at a candidate, in its open, read, move or sync: the
start goes on with the names behind it (`skipped`), and moves the one it can
read over the one it could not, which may be good and newer. Assumed: `os.stat`
does not fail; the rename that puts the backup back does not fail in its turn;
the import of the `journal.json` of older releases is left out.

### Coordinator

`slots` and `generation` are the table of `txn.c`, a handle is an index and
the generation bits that fit in it (`HandleGen`). `Command` stands for
`cmd_on_off`, `cmd_read_attr` and `cmd_read_report_cfg`, which differ in the
kind and in whether an answer follows the confirm. `air` holds the confirms,
responses and results the stack may still deliver, in any order or never
(`Lose`). `Confirm` and `Finish` are the two critical sections of
`cmd_confirm_cb`, between which the sweep (`Expire`) may run, since it takes
the table's mutex and not the stack lock. Slots count down to their deadline.
A response to a configure is reported as an outcome whether or not it finds a
transaction (`ConfigResponse`): `verdicts` counts the outcomes that conclude a
chain, `late` holds the chains of which a response came without a transaction,
which is how one that expired is reported twice.
Endpoints, clusters and payloads are left out; the failures of a chain after
the bind (`bind_failed`, `busy`, `unsupported_cluster`,
`configure_send_failed`) are one action, `BindFails`.

### LinkBreaker

`waiting` are the tasks awaiting a reply: the watchdog, the probe, device
commands. `StartPing` is `ping()` up to its await, which sets an open breaker
aside and remembers it in `wasDown`; `PingTimesOut` is the timeout in `_command`
and the return into `ping()`, which run without an await between them.
`ReplyArrives` is the reader's `process_line`, `Returns` the task that goes on.
`stale` are the re-probes that were out when the last valid frame came and that
still remember the breaker as open; `relatched` says that one of them has opened
it again since.

### Reporting

A relay is useful only when it reports its own wall switch, so the hub asks the
coordinator, one device after another, to bind and configure it. `registered`,
`short` and `reporting` are `_registry`, `queue`, `due` and `attempts` are
`_reporting_retry`, `inflight` and `credit` are `_reporting_inflight`; times are
relative to now. `Pump` is `pump_reporting`, which every handler calls last and
therefore is part of each: `Heartbeat` (the watchdog), `OnDeviceJoined`,
`OnSuccess`, `OnFailure`. `OnDeviceLeft` and `Forget` do not call it. A chain of
the coordinator is a record in the bag `chains`: `BindOk`, `ConfigureOk`,
`Fails` and `Expires` are its callbacks, its slots in the table being the
subject of `Coordinator`. A bind that expires ends in silence; a configure that
expires is reported as failed, and the device's answer may still follow (`late`,
one at a time). `addr` is the truth about the mesh: a device joins under a new
address, an address may be given to another device. A device that leaves to
rejoin (`OnDeviceLeft` with `rejoin`) keeps its entry with the address it had;
if another device is given that address meanwhile, `misled` has both facts.
Events and requests may be lost, and both sides may restart; the registry is on
the flash, the queue is not.

Of queue entries that are overdue only the order matters to the code, so these
count down by their rank (`Later`), which keeps the states finite. Left out:
results for clusters other than OnOff, which are ignored; a heartbeat while the
breaker is open, which serves no queue; failed writes of the registry file; an
answer that is overtaken by the departure of its device and arrives when its
address belongs to another.

### Delivery

A call is a sequence of relays. A device has one relay or several, the gangs of
a switch, for which the hub keeps one state and one expectation: a report
carries its endpoint, which `_on_state` does not look at. `Begin`, `Retry` and
the endings (`Executed`, `Unconfirmed`, ...) are the attempts of `execute`; in
each attempt `Take` is a worker of `_deliver` that picks the next member,
`Window` of them at a time, and `Delivered` the end of the pool, when `Worst`
ranks the group. `Set` and the step "reading" are the two commands of `_toggle`.
`Write` is `_command` up to its await, `Returns` and `TimesOut` the two ways it
goes on: replies resolve an id that is pending, whichever attempt wrote it,
since attempts reuse their request ids. `OnState` is the device's own word,
which clears what the hub expected; `Doubted` forgets the expectation of a
command that failed. A relay acts once on a frame, at any time or never; its
reports arrive in order and may be lost (`missed`), as may acks and frames. The
breaker is a write that is refused. The coordinator is one that proves
deliveries, which the hub learns from the first ping or boot event
(`LearnCapabilities`), or an older one, which answers before the radio has tried
(`Accepts`); `AckStatus` makes "sent" of such an answer, and `unproven` holds
the devices that have been silent since. `sure` are the taps that began when no
word of their device was lost or under way.

Abstracted: a timeout is a fault only while an answer is still to come, so
commands to a silent device time out freely; the mark of a device that did not
answer is left out; that a short address may be another device's is the subject
of `Reporting`.

### CoordinatorLink

A frame is a sequence of tokens, a token standing for the bytes between two of
the code's limits (a queue item, the line buffer). The wire may damage or lose
tokens. `Feed` is the line assembler, `RxTask` one byte of `rx_task`,
`HandleLine` the check of prefix, length and CRC and the RX queue;
`DispatchLine` and `StackBusy` are the dispatcher, which answers any command, a
ping too, "busy" when the stack keeps its lock; `Send` is `link_send_body`,
which drops and counts when the queue is full. `NetworkUp` is how the hub learns
the state of the network, from the events and from the footer of every ping.
`Restart` and `AnnounceBoot` are a reboot with its beacons; `DeviceAnnounced`,
`ActiveEpCb` and `SimpleDescCb` the discovery of a device, whose endpoints the
hub learns (`Learned`). `begun` remembers for the properties of which commands
something arrived since the last end of a line. The branch for a line that is
longer than a queue item and not than the line buffer, `frame_too_long`, is in
the model and is not reached by the run, whose only longer command overruns the
buffer.

### AtomicFile, Catalog, DurableStore

`AtomicFile` says what the three names of a file hold: `Saved`, `Refused` (an
`OSError` at any of the calls), `Interrupted` (power fails between any two
steps, or in the middle of a write), and what a start adopts. A call of the API
is synchronous, so an action of `Catalog` is a call that ends well (`Ends`),
raises (`Raises`) or is cut off (`IsCutOff`). A start (`PowerOn`) reads the
collections, the settings and the registry in the order of the composition root
and runs the two migrations (`Purge`, `Backfill`), each a step that may be cut
off. `Delete` is `crud.delete` with the reference check and then the release of
the radio. `UpdateSettings` takes a request with a city, with bare coordinates,
with an elevation, or with any of them together. A start that cannot read a file
which is whole (`LoadMisread`, an `OSError` on the way) adopts the next name
that it can read and moves it over the first, takes the defaults (settings,
which `Backfill` may then save), gives up, or starts with no device (registry).
`tried` holds what a restart may find besides what memory shows; with it,
`Catalog` implements `DurableStore`: an acknowledged change replaces what was
there, another one happened as a whole or not at all, and a restart finds what
was last acknowledged or attempted since - except after a misreading, which may
bring back any whole content that was left on the medium, but nothing else.
Cells with a `Wreck`, the registry that is rewritten in place and the settings
that fall back to their defaults, promise less, and the specification says how
much less.

### Planner and the calendar

`HebrewCalendar` follows the source's integer formulas: the absolute day of a
Gregorian date, the molad and its postponements, month lengths, significant
days, the omer, the portions with what is joined in which kind of year, and
Israeli summer time. `Zmanim` derives every key of `compute_zmanim` from the
heights of the sun in `Sun`, a constant operator: in a place and on a day a
height may also not be reached, and keys that need it are missing. `Kept`,
`Missed` and `GetSchedules` are the two caches, `DueMinute` and `EventsOn` the
planning of a schedule, `PlanTick` a tick of the scheduler with the window of
`plan_window`, `Preview` a look at the coming days, `TodayView` the home screen.
The walk through the calendar passes every day between `Start` and `EndDay`; on
`BusyDays` ticks, previews, edits and clock settings interleave. `Span` are the
days of the tables and `InTables` keeps the clock so far inside them that every
day a tick, a preview or a view looks at is in `Span`. `entered` holds a time
that was just set until the clock goes on or the settings change.

### Panel and ScheduleWizard

The disjuncts of `Tap` are the handlers of the pages of a room, of a device, of
the list of schedules and of the wizard; each changes the store, the screen, and
appends an operation to `queue`. `Serve` runs the oldest operation through the
API rules and its `on_ok` or `on_err`; `Refresh` is the periodic task with
pairing. The comment at the head of the module explains which of them a tap can
overtake. `doubt` marks collections that were published while a tap on them was
pending: the screen is then behind or ahead until the next publication, and the
property excuses this.

## 3. The runs

Properties that hold:

| Run | Instance | Shows |
|---|---|---|
| `automation` | 2 events, 1 tap, a journal of 2, 2 attempts, 2 faults; 185 000 states | `NothingSkipped`: an enabled event behind the marker was executed or left the catch-up span; `JournaledMeansActed`; `ResendNeedsEviction`: an executed id is sent again only after `MaxRecords` others; `KeepsPromise`: refinement of `ExecutionPromise`; `TickEnds`; `EventHandled`, with a device that can be reached in the end |
| `reporting` | 2 devices, 2 addresses, a window of 1, 2 joins, departures, removals or restarts, 1 loss or rejoin; 440 000 states | `NeverGivesUp`: a registered device that does not report is in the queue, unless a restart of the hub emptied it; `TrueFlag`: an answer is credited to the device that gave it, unless the hub was misled about its address; `NoStorm`: retries keep their distance; `Converges`: a device that stays where the hub believes it to be is made to report |
| `coordinator` | 3 requests, 2 addresses, 2 slots; 422 000 states | `OneReply`: one answer and one conclusion each, a late response never in its place; `AnsweredOrOpen`, `HandleFindsOwner`; `Answered`: every request is answered, whatever is lost |
| `link_breaker` | 2 pingers, 2 commands, threshold 2, 4 faults; 15 000 states | `FailsFastBetweenProbes`; `OpenForCause`: it opens by enough silent pings in a row, or by a re-probe that a frame overtook; `FollowsLink`: the breaker settles with the link, up or down |
| `event_journal` | 3 ids, a journal of 2, 3 cuts, 2 errors, no atomic replace; 55 000 states | `AckedSurvives`: what a start reads is what was last acknowledged, or that and one call in progress, unless the start met a storage error; `AlwaysBoots`; `MemoryIsTheLog`: memory and log agree, and the log stays bounded |
| `delivery` | a switch of 2 gangs and a relay; a group of one gang and the relay through 1 worker, a tap on the relay that may toggle; 2 attempts, 1 fault, 1 press, either kind of coordinator; 6 200 000 states | `GroupProven`: where deliveries are proved, a group that was executed has moved every member; `ConfirmedIsTrue`: a confirmed level was real since the tap, if the device had been heard to the end when it began; `ShownIsReal`: a device that is left alone is shown as one of its relays is |
| `coordinator_link` | a command that overruns the buffer and one that fits, queues of 1, 1 damage, 1 upset, a stack that may be busy at any command; 1 119 000 states | `NeighboursSpared`: a bad line takes no neighbour with it; `Accounted`: no command vanishes without an answer or a count; `FooterSettles`: the hub comes to know whether there is a network |
| `catalog` | 2 endpoints on one radio, a group, schedules, settings, registry; a new device and one of an older release; 3 calls, 1 cut, 1 error, 1 misreading; 2 200 000 states | `Durable`: refinement of `DurableStore`; `StartsAgain`; `SoundOnceUp`: what is up refers to nothing that was deleted and has been repaired; `ReleasedOnlyUnused`: a radio that some endpoint uses is not told to leave |
| `planner` | every day of 20 Hebrew years of all kinds, in Israel and abroad, 12 schedules, 3 ticks on busy days; 18 000 states | `CalendarIsSound`, `FestivalsKept`, `TorahRead`: the formulas agree with the rules; `PlansWindow`: a tick plans what is due in its window by the settings and schedules of now; `ShownAsSet`: time, preview and zmanim are shown in local time |
| `panel` | 2 radios, 2 names, 3 taps, 1 join; 1 300 000 states | `StoreIsCurrent`: outside doubt the screens show what the repository holds; `OneThingPerEdit`; `WizardSavesValid`; `PairedOnce`; `PageHasItsRecord` |

Statements of the repository that the code does not keep, each with a
counterexample:

| Run | Statement | Counterexample |
|---|---|---|
| `event_journal_torn` | `_atomic_io.py:5`: a power cut never leaves a device without readable data | an append loses only its newline; the record is accepted at the next start without compaction, the next append joins it, the start after that finds no readable journal |
| `planner_cache` | `planner.py:172`: the events of the window are returned | the clock is set back by more than the planner's margin; the cache holds nine later days, deletes each day as it is computed (`_day_cache` drops its smallest key), and no event of those days is planned until the process restarts |

### Disagreements without a run

Gateway and executor.

* A journaled event may be sent twice: a failed event keeps the marker back,
  taps evict the record of an executed one in the same window, the next tick
  sends it again (`ResendNeedsEviction` says when), while `scheduler.py:20`
  says "never sent twice".
* A lost ack makes the executor's retry act a second time (`Retry` after
  `DeviceActs`), while `README.md:151` calls power loss the remaining
  exactly-once risk. A toggle that is retried switches back.
* A tick under a clock that runs ahead moves the marker; after the correction
  `TickReanchor` passes over what came due meanwhile (`NothingSkipped` excuses
  what such a tick has planned past), while `scheduler.py:27` speaks of ticks
  that tile the timeline without gaps.
* `wait_for_report` confirms from the cached state, while
  `zigbee_gateway.py:28` speaks of the *next* report. When a word of the device
  was lost, or still under way as the tap began, the word it takes may be older
  than the tap, and over a coordinator that proves nothing it confirms a
  command that never arrived. `ConfirmedIsTrue` therefore speaks of the taps in
  `sure`; without that condition TLC finds this case as soon as the wall may be
  pressed twice.
* The endpoint of a report is ignored (`_on_state`, `zigbee_gateway.py:476`,
  against `fw/zb.c:1033`), and the expectation is kept by device: of two gangs
  of a switch the screens show the one that spoke or was commanded last, a
  toggle of one goes by the word of the other, and a tap on one may be confirmed
  by the other. `ShownIsReal` and `ConfirmedIsTrue` say what is left: the level
  of *a* relay of the device.
* A hub that has not had its first ping yet, and one with an older coordinator,
  counts as executed what was sent (`AckStatus`). Before the first ping to a
  coordinator with delivery acks this is harmless, since its answers prove
  themselves (`GroupProven`); with an older one a call that "executed" may have
  moved nothing.
* The attempts of a call reuse its request ids, so the late answer to the first
  attempt resolves the second; `ShownIsReal` excuses these (`echoed`).
* After a restart of the hub nothing asks a device again that joined before and
  did not report yet, while `zigbee_gateway.py:410` says "never give up".
* A device that announces a rejoin keeps its short address in the registry
  (`zigbee_gateway.py:464`). If another device is given the address before it
  is back, `_ieee_for_short` finds the first entry with it, and the answer of one is
  credited to the other, although the hub has missed nothing. `TrueFlag`
  excuses the devices concerned (`misled`).
* A credit lasts 12 s and a chain up to 8 + 8 s, and a result of an older
  chain returns the credit of a newer one: the *credits* are bounded by the window
  (`WindowHeld`), the requests in flight at the coordinator are not, while
  `zigbee_gateway.py:379` says that only so many are ever in flight.
* The cap of 600 s on the retry delay is above its largest value, 30 s times 2^4.
* While a re-probe is outstanding the breaker is closed, so "commands fail fast
  until any valid frame" (`zigbee_gateway.py:23`) holds only between probes, as
  `FailsFastBetweenProbes` says.
* A valid frame closes the breaker, but a re-probe that was out as it came still
  remembers it as open (`was_down`, `zigbee_gateway.py:816`), and its timeout
  opens it again: a single silent ping after a frame, against
  `zigbee_gateway.py:63` ("2 consecutive timeouts before failing fast") and
  `:23`. A ping that is answered "busy" does this too, since that
  answer is a valid frame without the ping's id. `OpenForCause` names this
  cause and shows that there is no other.

Coordinator.

* The late response to an expired read answers the next read of that device when
  that has no transaction number yet (`fw/txn.c:99`), while `fw/zb.c:977` says
  that a second read can no longer steal the first one's request id.
* A command refused for the stack lock is answered without its request id
  (`fw/zb.c:948`, action `LockTimeout`), although the comment wants the hub to be
  able to retry.
* An accepted `enable_reporting` whose bind expires gets no event
  (`Expire` in `Coordinator`), while `fw/zb.c:677` says that the outcome is
  reported later; `Converges` shows that the hub makes up for it.
* A configure that expires is reported as failed; the response that comes later
  finds no transaction and is reported as well (`fw/zb.c:547`), so one chain has
  two outcomes. `OneReply` says that the second is the device's own word and
  comes after the first; `Reporting` has both (`late`) and shows that the hub
  can live with it.
* A handle carries 24 bits of a generation that is compared with 32
  (`fw/txn.c:21`, `:74`): handles resolve while fewer than 2^24 transactions
  were opened, which `Span` of `Coordinator` says.

Storage.

* The first save of a collection that is cut off leaves a torn `.tmp` and
  nothing else; `load_all` then raises `RepositoryCorruptionError` at every
  start (`FirstSaveTorn`, which `StartsAgain` excuses), against
  `_atomic_io.py:5`.
* The registry is rewritten in place and may come back empty, though
  `_atomic_io.py:1` speaks of every adapter that persists JSON; devices then
  have to join again. The settings fall back to their defaults when the backup
  cannot be moved into place.
* A sync that fails after the rename leaves memory with the old and the medium
  with the new content. Acknowledged changes are safe (`Durable`), but a reboot may
  bring back a reference to something that was deleted meanwhile;
  `SoundOnceUp` therefore counts as gone only what memory and medium agreed on.
* A file or a journal that cannot be *read* at a start, though it is whole, is
  replaced by its older `.tmp` or `.bak` (`json_repository.py:152-163`,
  `:330-345`, `settings_store.py:65-73`); every compaction and every save leaves
  such a `.bak`. Acknowledged changes and executed events are lost, a reference
  to something deleted may come back, and settings that fall back to the
  defaults may be saved as such by the migration; `_atomic_io.py:5` speaks of
  power cuts only, but nothing warns of this. An `OSError` on the registry reads
  as no registry. `AckedSurvives` excuses a start that met an error,
  `DurableStore` has `Misread` for it, and `SoundOnceUp` takes what the file
  referred to out of `gone`; without these TLC finds each case.
* `create` and `update` do not ask whether what they refer to exists.
* A cut between the purge of retired schedules and its report loses the report.
* Bare coordinates keep the elevation of the city before (`Relocated`).

Planning and time.

* `parasha.py:83` joins no Nitzavim-Vayeilech in Israel in a year that begins on
  Shabbat, is full and has Pesach on Tuesday; `TorahRead` excludes that kind.
* On the two days on which the clock moves, one offset is used for the whole
  date: the clock of the home screen, a zman of the first hours, or a time that
  is set in them is an hour off (`ClockMoves`), while `settime.py:12` promises
  the conversion by the offset of the moment.
* A fixed time from 02:00 to 02:59 has no occurrence on the day the clock goes
  forward; it is reported as an error of the schedule. A zman that does not
  occur has no event either.
* The event id contains the minute: after a change of the settings between two
  ticks a zman that was already executed under the old minute may be due again.

Panel.

* A refresh between a tap and its operation shows the old list again until the
  next one (`doubt`); a move takes the record as it was when it was asked for.
* A rename, a refresh that was under way, and two moves: the refresh republishes
  the old name, the first move takes its record from that list
  (`products/panel/device/device_page.py:94`), the second sends it whole and
  undoes the rename. `OneThingPerEdit` excuses such a page (`sure`).
* The wizard closes without waiting for the answer and drops a refusal: an
  offset of up to four digits can be typed, beyond the 2880 minutes that the
  brain accepts (`OffsetTooFar`). The sign of an offset clears what was typed.
* A pairing has no end of its own: it may adopt into a room that was deleted
  meanwhile, and leaving the page does not close the network.
* Rooms and pages that are opened leave their effects behind
  (`products/panel/device/shell.py`), as `docs/panel-remediation-plan.md` knows;
  effects are not modelled.

### Bounds, and why they are enough

* Automation: two events a minute apart are what it takes for one to fail while
  its neighbour succeeds; a journal of two is overflowed by them and one tap; a
  catch-up span of 2 within 4 minutes lets events leave it; two attempts make a
  retry. `MaxFaults` counts power cuts, clock settings and edits together, so
  that two of them meet. `Horizon` ends time; deadlock checking is off, because a
  behaviour may stop at the horizon with nothing to do.
* EventJournal: with a journal of two the log is compacted after four lines,
  and three ids evict one another. Three cuts allow a cut in the recovery from
  a cut; each error may be followed by a cut, and one of two may meet the start.
  Ids are symmetric.
* Delivery: the group has one gang of a switch, so that the other gang, which
  only the wall moves, speaks for it; `OldCalls` is the tap, the only call over
  an older coordinator, since what is not proved is the subject of
  confirmations. A window of one makes the second member of the group wait; the
  tap competes with it; one fault of any kind with one press on the wall gives
  every pair of causes for a wrong belief. Deadlock checking is off: a run ends
  when both calls have.
* CoordinatorLink: a line of three tokens overruns a buffer of two; the command
  behind it is what it might take along. Queues of one are full at once. One
  damaged frame and one restart, refusal or loss of the network.
* Catalog: two endpoints on one radio are the case of the release; a group and a
  schedule reach an endpoint directly and through the other, so three calls
  make, use and delete; a cut, an error and a misreading may each meet the
  repair of another, and a retry of the start. That two cuts meet in one repair
  rests on the theorems. Zones, which refer the same way, have no instance. The
  settings are changed to a city, to bare coordinates with an elevation, and by
  an elevation alone; coordinates that happen to be those of a packaged city are
  left out.
* Planner: the years 5798 to 5817 contain all fourteen kinds of year. Three days
  are looked at closely: one on which the clock goes back, one on which it goes
  forward beside a feast, and the eve of it; a tick may come late, by a minute
  or by more than the catch-up of two hours. The constants of the code
  (catch-up 120, nine days of cache, seven days of preview) are kept.
* Panel: two radios of which one is not paired yet, one room, one schedule; three
  taps allow an edit, an edit of the same record by another way, and a removal;
  what can be typed is nothing or "24", which is no hour and an offset too far.
* Coordinator: fewer slots than requests make the table full and slots reused;
  two addresses tell a match by address from one by kind. Deadlines of one and
  two ticks keep the order of the real ones (1.2 and 1.3 s, 8 s). `MaxAllocs`
  bounds the generations; `Span` is above it. A run ends when all requests are
  issued, so deadlock checking is off.
* LinkBreaker: both pingers, and two commands so that one may time out while
  another starts; four faults drive the link down and up and down again.
* Reporting: two devices compete for one credit, and one may move to the other
  address. That an address passes to *another* device takes a third change, too
  many states for a run with liveness; safety is proved for any number of
  changes, so this case rests on the theorems of `GatewayProofs`. A unit is 4 s:
  a step of a chain takes 2, a credit 3, the first retry 5 (30 s is more; what
  counts is that it comes after the longest chain). Delays double once. One loss
  suffices to miss a join, a departure, a request or a result. Deadlock checking
  is off because a heartbeat with nothing to do changes nothing.

### Fairness

* `Automation!Fairness`: the scheduler task loops for ever and catches every
  exception (`run`); each gateway call is bounded by its ack timeout, so a call
  returns. No fairness for devices, storage or the clock. `EventHandled`
  assumes, inside the property, that a device commanded again and again acts and
  is confirmed some day.
* `Coordinator!FairSpec`: time passes, the dispatcher sweeps at least every
  `PUMP_INTERVAL_MS`, a callback that began ends. Nothing about the radio.
* `CoordinatorLink!Fairness`: the watchdog pings for ever, the tasks of the
  firmware and the reader of the hub take what is there, the boot announcement
  is repeated, and the stack is not busy at *every* ping for which the TX queue
  has room: strong fairness of `AnswerPing`, because a lock that is free now and
  then is all the firmware promises, and the watchdog asks for ever. Nothing
  about the wire, whose damage is bounded.
* `LinkBreaker!BreakerFairSpec`: the watchdog never stops, `wait_for` bounds every
  ping, a ping that is not lost is answered. Commands owe nothing.
* `Catalog!Spec`: power returns and the start proceeds. `StartsAgain` needs no
  more, since cuts are bounded.
* `Reporting!FairSpec`: the watchdog beats, time passes, the sweep expires what
  is due. Devices owe nothing; `Converges` assumes, inside the property and for
  the one device it speaks of, that binds and configures which are tried again
  and again succeed some day (`DeviceFairness`), and that the device is settled:
  no answer overtaken by its own expiry comes in for ever.

## 4. The proofs

A theorem holds for every value of the constants that the named `ASSUME`s
admit, which each run evaluates on its instance. Where a run checks a property
that a theorem states, the run shows it on a small instance first.

**`AutomationProofs`**, for any finite sets of events and taps, any due
minutes, journal size, number of attempts, catch-up span and bounds:
`TypeCorrect`, `Inductive` (`Spec => []IInv`), and from it `NoEventSkipped`,
`JournalTellsTheTruth`, `SendsOnlyUnjournaled`, `DedupHorizon`. None of these is
inductive alone.

* That a send happens only while its id is unjournaled needs that *running*
  calls are unjournaled although `execute` looks only once
  (`CallsAndJournal`): it holds because an id is journaled only by the return
  of its own call.
* That nothing is skipped when a tick ends needs an account of every event of
  the running tick's window - executed, still on the list, unfinished, or out of
  the span (`TickAccounts`) - which a crash, a clock setting and an edit
  preserve.
* That a forgotten id has been followed by `MaxRecords` others needs the journal
  to be the newest records in order (`JournalIsNewest`): the lemmas about
  `Without` and `Remember` show that an id drops out only in front of
  `MaxRecords` distinct others, each of which is counted in `newer`.
* `KeepsExecutionPromise` is the refinement: from this invariant, each step of
  the pipeline is a step of `ExecutionPromise` or leaves its variables alone. A
  relay that acts long after its call is a step of it too: the frame was sent by a
  command that was begun.

**`DeliveryProofs`**, for any set of devices and calls, any groups, window,
number of attempts and faults: `DeliveryInductive`, `TypeCorrect`, and from them
`GroupIsProven`, `ConfirmationIsTrue` and `ScreenIsTrue`, for any assignment of
relays to devices and for both kinds of coordinator. The replies carry no
more than the request id, which a retry reuses; what makes the properties true
is in these parts of the invariant.

* `Sent`: every frame, reply and word under way is of an attempt that was made,
  and a reply claims a delivery only of a member whose relay has acted.
* `Shape`: how far each member is; a success is of a member that acted.
* `WritesOnce`: within one attempt a member writes at most one read and one
  command, so that no answer is worth two commands.
* `Heard` and `Believed`: the words of a device arrive in order, so that once it
  has no report under way the last one is its level; and what the hub expects of
  such a device is its level, or a command for it still owes the answer
  (`Owes`) - which ends with the answer, with the command's failure (`Doubted`)
  or with the device's own word. For a switch "its level" is that of one of its
  gangs.
* That a confirmation is true does not follow from `GroupProven`, which says
  nothing over an older coordinator: a tap that is `sure` began with the hub's state
  agreeing with the device and no word under way, so any word it takes is a
  level the device has had since (`Witness`).

The steps of a worker are first reduced to three effects (it asks, it commands,
it ends; `WorkerEffect`), those of a call to two (`CallEffect`), and those of the
radio to what they do to one device (`DeviceEffect`); each part of the invariant
is preserved by these effects.

**`EventJournalProofs`**, for any events, any number of records kept, with or
without `os.replace`, and any number of cuts and errors: `JournalInductive`,
`TypeCorrect`, `AlwaysStarts`, `MemoryAgreesWithLog` and the action property
`AcknowledgedSurvives`, the last for a start that can read what it finds, the
others also after starts that could not. They suppose `~ TornAnywhere`, that an
interrupted append leaves a fragment that does not parse, or nothing: without it
they are false, as `event_journal_torn` shows. The first half is about data.
`SetOfAppend` says that the records of a log with one more new line
(`_set_records` at a start) are what `_records_with` made of the memory: by
counting positions (`NthOf`, `Upto`, `From`) and without induction over the log.
The second half is the medium. `Keeps` says that every file is missing or
readable, and that the file a start would take - the log, and without one the
copy - says what was acknowledged, or that and the running event. That the order
of a compaction preserves it needs `Compacting` (the copy is whole before the
log is moved, and the backup says what the log said) and `Blank` (there is no
log only before the first record, or within a compaction).

**`CoordinatorProofs`**, for any number of slots, any requests and addresses,
any deadlines and any width of the generation in a handle: `Inductive`, and from
it `AnsweredOnce`, `NothingForgotten`, `LateCallbacksHarmless`. The account that
is inductive (`CInv`) has two sides. A used slot is the only one of its request
and owes it exactly one answer: a command's slot a reply, a chain's slot a
verdict (`SlotInv`); a chain of which a late response came has had its verdict
and has no slot. And every handle that a callback may bring back is of a
generation below the next one and finds, if anything, the slot of the right
request and kind (`Fits`); a slot that is opened later has the next generation
and therefore never fits, nor does it when the 24 bits of a handle have wrapped -
then the handle finds nothing. Three lemmas carry the proof: `CloseKeeps` for
everything that closes slots (the sweep closes many at once), `OpenKeeps` for
what opens one - also `Configure`, which closes the bind's slot in the same
step and may reuse it -, `NothingKeeps` and `RefusalKeeps` for the rest.

The second half of the module is the UART link, for any commands, any sizes of
the queue items and the line buffer, any depths of the queues and any number of
damages and upsets: `LinkInductive`, and from it `LinkTypeCorrect`,
`NeighboursKept` (`NeighboursSpared`) and `NothingVanishes` (`Accounted`).
Neither property is inductive, because both speak of a command whose bytes are
spread over the wire and the line buffer. `Spared` follows a command that was
not damaged: its whole frame is on the wire on a line of its own (`Ahead`), or
its first part is in the buffer and the rest is what comes next (`Coming`), or
it was taken, refused or too long for a queue item. That a frame starts a line
of its own is `EndsClean`: the wire ends with a newline unless the last command
was damaged itself, and `_write_cmd` puts one in front of every frame. `Traced`
follows a command that may have been damaged, by what arrived of it: `Begun`
relates the line buffer to what arrived since the last end of a line, so a line
that is dropped with a count takes no command with it that the count does not
stand for.

**`GatewayProofs`** holds the theorems about the breaker and about the registry.

*The breaker*, for any set of command tasks and any threshold:
`BreakerInductive`, and from it `NoGap` and `OpensForCause`. The strengthenings are
`ReprobeForCause`, that below the threshold every re-probe that remembers an open
breaker is one a frame has overtaken or was sent after one that was, and
`SetAside`: once the threshold is reached, the breaker is open, or some ping is
on its way whose timeout will open it - by its own count, since the counter is
not reset without a frame.

*The registry*, for any finite set of devices, any addresses, any window
and any times in the order of the real ones (8 s < 12 s, 2 * 8 s < 30 s):
`Inductive`, and from it `WindowBound`, `NeverGivenUp`, `FlagsAreTrue` and the
action property `NoRequestStorm`. `PumpLeaves` says once what a pump leaves,
whatever its caller did to the queue before; each handler cites it. Two
strengthenings are needed. A result names a short address, so that the flag is
the right device's rests on `AddressKnown`: the address that the registry keeps of a
device is no other device's, unless the hub was misled about it - it missed its
departure, or another device was given the address while the registry still
had it. That retries keep their distance rests on `Spaced`: the retry
deadline of a queued device is not before the time that must pass since its last
request - also when a failure comes in for a device that has lost its entry
meanwhile and gets a new one.

**`PanelProofs`**, for any radios and names, whatever may be typed and any
number of taps and joins: `PanelInductive`, and from it `ScreenIsCurrent`,
`WizardIsValid`, `RadioPairedOnce`, `PageIsAlive` and the action property
`EditChangesOneThing`. The screens publish a change before the brain has made
it, so what the store shows depends on what waits in the queue, and what is saved
on the page that asked for it. The invariant says so in these parts.

* `Queued`: no more than one list and one operation wait, the list first. It
  is what the guard `Touch` leaves and what lets the other parts speak of *the*
  operation that waits.
* `Current`: what the store shows of a collection is what is stored, with the
  change of that operation if its tap shows it at once (`Shown`). When the
  operation is served the two become one; when it is refused, its `on_err`
  publishes what is stored.
* `Asked`: until it is served, the operation is about the record of the page that
  is open, and carries the copy the page had. With `PageCurrent` - a page that
  is sure has the record as it is stored, but for a name just typed - it
  follows that replacing the whole record changes one field.
* `Paged`: the pages of a device and of a room have their record, since the
  only operation that removes it is the page's own, whose `on_ok` leaves it.
* `Drafted`: each step of the wizard stands in its place in the stack and has
  the answers it rests on, so that the last step can only be reached with a
  schedule that `validate_schedule` accepts, whatever way back was taken.
* `Stored`: the ids in use are below the next one, and the store knows the
  radio of every device it shows, by which pairing tells a new radio from a
  known one.

The two assumptions concern values only: what is typed are sequences of digits
(`TypedAssumption`), and `None` is no number and no truth value
(`NoneAssumption`).

**`CatalogProofs`**, for any collections and identities, any contents that obey
the reference rules, any errors, cuts and calls, with or without `os.replace`:
`CatalogInductive`, and from it `CatalogTypeCorrect`, `SoundContents`
(`SoundOnceUp`), `ReleasesUnused` (`ReleasedOnlyUnused`) and the refinement
`CatalogDurable`, that every step of `Catalog` is a step of `DurableStore`, a
power cut or a stutter. None of these follows from what memory holds: a start
may find the main file, its `.tmp` or its `.bak`. `Finds` is the set of contents
that a start can take from what the three names hold, and the invariant speaks
of all of them.

* `Contents`: everything a start that can read could find of a cell is what
  memory shows or what was tried since the last acknowledgement, and every whole
  content on the medium, which is all that a misreading can bring back, is one
  the program may have written. It is kept by each of the steps of a save, by
  its errors and by a cut between them (`Takes`, `Spares`), also during the
  repair of an earlier cut.
* `Unreferenced`: no content of a collection that a start could find refers to
  an identity in `gone`. The reference check of a deletion looks at memory only,
  so an identity counts as gone only when memory and medium agreed, and no longer
  when a file that refers to it was misread.
* `Repairing`: in the order of a start, the schedules in memory are without
  retired ones as soon as they are loaded, nothing that a start could find has
  any after the purge, and the settings have an elevation after the backfill.
* `RegistryKnown` and `Starting`: what the registry file may hold, and in which
  order the steps of a start are still to come.

What is supposed of the constants: a record names only identities of the types
for which the code's reference check searches its collection (`Refers`, in
`CatalogAssumption`: an endpoint its zone, a group its members, a schedule its
target), and the contents of a device of an older release do so too, with an
elevation that goes with its place or none (`ShippedAssumption`).

**`PlannerProofs`**, for any sun, places, schedules, busy days and years up to
2699: `PlannerInductive`, and from it `WindowsPlanned` (`PlansWindow`),
`ShowsWhatIsSet` (`ShownAsSet`), `CalendarSound` (`CalendarIsSound`) and
`FestivalsAlways` (`FestivalsKept`). The invariant `PlannerInv` says what the
four need of the state:

* The clock stays in the tables and the settings and schedules are ones that
  may be chosen: without it a window may reach days without a date.
* `Remembers`: a planner that knows the current revision has its schedules. Edits
  do not touch the planners, so each of them has to notice by itself.
* `Agrees`: the time that was entered is what the clock shows by the current
  settings, or falls in the first hours of a day on which the clock is moved.
* `PreviewedBy`: what the preview shows is a due minute of a schedule that is
  still stored, by the current settings.

The rest is about the operators, in this order.

* The window: `ScanSuffices`, every event of a window comes from a day in
  `FirstDay .. LastDay`, the three days that `events_between` looks around it: a
  zman of up to two days' offset, a UTC offset of up to fourteen hours, a zman
  at most a day away from its date. With it the scan of the code and
  `Occurrences`, which looks a day further and tells the recurrences by another
  definition, have the same events; that the two recurrences agree needs the
  calendar.
* The Gregorian calendar: `GregorianIs`, the estimate of year and month by
  division is right for every day until 2699; `ChipKeepsTime`, the two-digit
  year of the clock chip loses nothing in this century.
* The local time: `DstStart` and `DstEnd` fall where the instants of `IsDst` do,
  and one offset for a whole date is wrong in no more than the first three hours
  of two days of the year.
* The Hebrew calendar: `NewYearOnFourDays` and `HebrewYearLength` follow from
  the remainder of the molad, which grows by a fixed amount in a year of twelve
  or of thirteen months: each postponement excludes one forbidden length. Years
  of the table therefore grow (`NewYearsGrow`), the guess of a year is late by
  at most two (`HebrewGuess`), and the year of a day is unique. `MonthStart`, a
  recursive function over at most thirteen months, is given by an explicit
  function (`ToMonth`) that satisfies its equation, and the days of different
  months are different (`DaysApart`), so the date of a day is unique too. From a
  day to the next there are then the three cases of `NextHebrew`.
* The festivals: with dates unique and month lengths known, the distance of each
  fast and feast from Pesach is a number that depends only on whether the year
  is a leap year and on its kind, case by case; the weekday of Pesach, one of
  four, decides which fasts are put off.
* `ZmanimInOrder`: from any sunrise before any sunset the zmanim of the day follow
  in the order in which they are kept.

What is supposed of the constants: the clock starts no earlier than the device
accepts and ends before 2699 (`ClockAssumption`); the tables of the Hebrew years
are without gaps and have every day of `Span` (`TablesAssumption`; the caches of
the code compute a year when it is asked for); the offset of the settings is
one that the settings accept (`SettingsNear`), and no sun is further from its date
than a day, in Israel after midnight and before eleven in the evening in UTC
(`SunNear`, in `PlacesAssumption`); and no two schedules have one id
(`BooksAssumption`; a file with two is refused).

`IInv`, the type invariants of the proved modules, `NeverSentWhileJournaled` and
`WindowHeld` are proved and therefore in no run.

Model-checked only: liveness everywhere (`TickEnds`, `EventHandled`,
`Converges`, `Answered`, `FollowsLink`, `FooterSettles`, `StartsAgain`), since
fairness and `ENABLED` are beyond the prover; and `TorahRead`, since the Shabbat
of a portion is the result of two folds over the fifty-four portions with what
is joined in each kind of year, so what is read on a given day is an induction
over data.

## 5. Not modelled

* The position of the sun (`zmanim/astronomy.py`): floating-point trigonometry. Its
  results, heights reached or not and when, are the constant `Sun`; what is
  derived from them is in `Zmanim`.
* The web server and its routes, the data of the cities: a dispatch of requests
  to the API that `Catalog` and `Automation` model, and tables.
* The LVGL screens as layouts, fonts and icons; `reactive.py` and the effects
  that rooms and pages register, with the leak named above; the switch states on
  the tiles, whose belief is `Delivery`'s; groups on the panel, which are only
  listed.
* The hub and desktop compositions, the simulator and the tools of `tools/`:
  wiring of the same parts with other adapters, and scripts for the bench.
* In modelled parts: the import of the `journal.json` of older releases, results for
  clusters other than OnOff, the mark of a device that did not answer, the
  texts in which schedules are described.

## 6. What is left

* A proof of `TorahRead`, which asks for the fold over the portions in closed form.
* Composition of `CoordinatorLink` with the pending table of `Delivery`, so that
  the loss of an ack in a full queue and the reuse of a request id by a retry are
  one behaviour.
* An instance of `Catalog` with zones; the effects of the panel's screens.
