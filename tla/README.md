# Loop: a TLA+ model of the class schedule's way to the wrist

Loop shows a student's class schedule on a wristband. A phone plugin (AstroBox) reads an ICS file, turns it into one JSON document of at most
40,960 bytes and pushes it over CanopusConnect, a lossy message service, to a Rust module in the wristband's firmware. The module stores the document as
`schedule.json` and draws it on native pages. This directory models that way from the file picked on the phone to the lesson on the wrist, and above all the
parts where order, loss, retries, crashes and two threads matter. TLC checks the models; TLAPS proves every invariant and every action property that the runs check, for every value of the constants; only liveness is left to TLC alone. Source paths below are relative to `src/`.

## 1. Inventory

| Component | State | Operations | Talks to | What makes it correct | Modelled |
|---|---|---|---|---|---|
| Transfer protocol, `crates/loop-protocol/src/lib.rs` | `Receiver` (open transfer, last committed id and count), `Sender` (current frame, offset) | `handle`/`apply`, `on_reply`, `next_data` | used by both ends | stop-and-wait: no byte lost, repeated or mixed; a repeated COMMIT answered, not repeated | `LoopProtocol` |
| Wristband endpoint, `crates/loop-device/src/target/connect.rs` | `ENDPOINT`: receiver, one unsent reply, time of last activity | `start`, `on_message`, `flush`, `tick`, `abort` | CanopusConnect callbacks, storage, reload mark | confirms only what it saved; goes on after a full queue, a failed send, idleness | `Endpoint` |
| Schedule storage, `target/storage.rs` | `schedule.json`, `schedule.json.tmp`, launcher icon | `save_schedule`, `load_schedule`, `clear_schedule`, `ensure_launcher_icon` | file system; called by two threads | the file is replaced whole or not at all, across failures and crashes; the icon is repaired before it is used | `Storage`, `ScheduleStore`; the icon in `Lifecycle` |
| File format, `crates/loop-core/src/persistence.rs` | none | parse, `valid_import` | storage | accepts what the plugin sends, rejects what cannot be shown | `valid_import` in `Lessons`; the JSON text is a constant of `Storage` |
| Reload by the UI, `target/mod.rs` | `schedule_dirty`, the schedule on the screen | periodic tick, refresh row, clear row | storage, endpoint, app | the screen follows the file | `Storage`, `Pages` |
| Runtime, `target/runtime.rs` | the statics, the core's spin lock | `with_core`, `try_with_core` | all device code | mutual exclusion, no lost mark | `Lifecycle` (lock, initialisation); the mark in `Storage`, skipping a busy core in `Pages` |
| App, `crates/loop-core/src/app.rs` | route, history, selection, generation | `update`, `resume_route`, `restore_navigation` | pages | route, history and the firmware's page stack agree | `Pages` |
| Native pages, `target/ui/mod.rs` | page instances, revision drawn, timers | page callbacks, touch, redraw | app | a touch acts on the row that was pressed; the page on top is alive and current | `Pages` |
| Native app, module lifecycle, `target/native_app.rs`, `module.rs` | installation stage, active, resident, descriptors | prepare, activate, deactivate, stop, query, publish | Supervisor | no half-registered app; no unload while anything would still call the module | `Lifecycle`; page callbacks in `Pages` |
| Diagnostics, `target/diagnostics.rs` | record counter | `begin`, `mark` | file system; called by two threads | never more records than its quota | `Lifecycle` |
| Schedule, model, view, clock, `crates/loop-core/src/{schedule,model,view}.rs`, `target/clock.rs` | none | term week, courses of a day, now and next, the time of day | app | the right lesson on the right day | `Calendar`, `Lessons`, `Timetable`; which rows a page has in `Pages` |
| Plugin transfer, `plugins/astrobox-loop-import/src/transfer.rs` | `PENDING`, timer, epoch, retries | `start`, `on_frame`, `on_timer`, `dispatch`, `finish` | host calls `listen`, `send`, timers | each push ends once, tells the truth, never hangs | `Plugin` |
| Plugin host calls and events, `connect.rs`, `lib.rs` | device list | `send`, `listen`, `refresh_devices`, events | host | no event lost between awaits; the list is what is connected | `Transfer`; device list, `on_load` and user events in `ImportPage` |
| Import page, `ui/mod.rs`, `state.rs`, `publish.rs` | `UiState`, prepared schedule | pick file, switch source, edit term, choose device, push | transfer, ICS conversion, host | what is pushed is what is shown | `ImportPage`; the push button's part in `Plugin` |
| ICS conversion, `ics/*.rs` | none | parse, merge, compress weeks, dates | import page | every lesson in every week, no other | `Calendar`, `Ics`, `Timetable`; not the splitting of the text |

Left out for good: the allocator and firmware bindings (they forward to the firmware), `tools/loop-ui-host` (a stand-in for tests), icons, scripts,
watchfaces. Wording and layout are not modelled anywhere. Section 7 says what else is not.

How the parts meet: `pick_file` -> `convert_ics_file` -> `start_push` (plugin) -> HELLO, BEGIN, DATA..., COMMIT -> `on_message` (wristband) -> `save_schedule` -> reload mark -> UI tick ->
screen; replies travel back as host events. The clear row on the wristband cuts in with `connect::abort` and `clear_schedule`.

The hard behaviours, each at its line, are the `hazards` of `PROJECT.json`: lost and repeated frames, replies that overtake each other, one reply slot, an
idle reset under a living push, timer events already on their way, send errors that return late, the clear on another thread, crashes between file operations, and
the mark that is taken before the file is read, the row that changes under a finger, the page stack that the firmware changes by itself, weeks counted by two programs in two ways, an activation repeated while pages are open, and an import page
that goes on while a file dialog, a device list and a push are at their awaits. Six of them have no property, each with its reason.

## 2. Modules

| Module | Models | State and actions |
|---|---|---|
| `LoopProtocol` | `loop-protocol` | operators on the `Receiver` and `Sender` records: `Apply` returns the receiver left behind, status, value and what was saved; `Ignored`, `ReplyError` and `Advance` are the three outcomes of `on_reply` |
| `Endpoint` | `target/connect.rs` | `receiver`, `reply` as in the struct; `sent` is what the Supervisor queued; `OnMessage`, `Tick`, `Start`, `Abort`, `ClearSchedule` are the callbacks; `saves` records every commit |
| `Plugin` | `transfer.rs`, the push button | `pending`, `busy`, `status` as in the code; `listens` and `sends` are the host calls some handler awaits; `armed` and `fired` are the timeout and the events already on their way |
| `Transfer` | both, joined | the network and the two hosts, every fault counted; `Next` is the whole system |
| `PushService` | what pushing promises the user | the pushes begun, the one under way, what was saved, stored and reported; one action each to begin, save, end, forget and clear |
| `ScheduleStore` | what storage promises | one variable `stored`, replaced or left alone in one step |
| `Storage` | `storage.rs` with the UI's reload | one action per file operation; `saving` and `ui` are the program counters of the two threads |
| `Pages` | `app.rs`, `target/mod.rs`, `target/ui/mod.rs` and the page callbacks | `app` and `pages` as the structs; `stack`, `op` and `awake` are the firmware's; every action is one callback to its end, built of the functions it goes through, as operators on a record `s` of the state; `w` and `v` are the answers of clock, storage and lock in its first and second half |
| `Calendar` | `ics/time.rs`, the dates of `schedule.rs` and `clock.rs` | pure operators: ordinals, weekdays, adding days and minutes, both ends' day counts |
| `Lessons` | `schedule.rs`, `model.rs`, `valid_import` | pure operators on a schedule: courses of a day, now and next, what the wristband accepts |
| `Ics` | `ics/parse.rs`, `schedule.rs`, `wakeup.rs`, `weekdown.rs`, `nexio.rs`, `mod.rs` | pure operators from the properties of the events to the schedule: `ParseVevents`, the three dialects, `CompressWeeks`, `EmitSchedule`; a result is a set, empty for an error |
| `Timetable` | import and the days after it | `import` is the file, `schedule` what is on the wrist; `date`, `day`, `minute` are on the wall and move by the calendar's own rules |
| `Lifecycle` | `module.rs`, `native_app.rs`, `runtime.rs`, `diagnostics.rs`, `connect::start`, the icon | the statics by name; `pc` is what the Supervisor's and the UI thread are at, `trace` where each is in `mark` |
| `ImportPage` | `ui/mod.rs`, `state.rs`, `publish.rs`, `refresh_devices`, `on_load` | `ui` is `UiState`, `drawn` the page handed to the host; one action per stretch from an await to the next; `asking`, `lists`, `dialogs`, `picks`, `waiting` and `late` are the awaits |
| `EndpointProofs`, `TransferProofs`, `RetryProofs`, `StorageProofs`, `PagesProofs`, `TimetableProofs`, `LifecycleProofs`, `ImportPageProofs` | theorems | see section 5 |
| `MCEndpoint`, `MCTransfer`, `MCStorage`, `MCPages`, `MCTimetable`, `MCLifecycle`, `MCImportPage` | values for TLC | schedules, checksums, ICS files, icons, wristbands and inputs |

`Transfer` EXTENDS `Endpoint` and `Plugin`, which both EXTEND `LoopProtocol`. `Transfer` instantiates `PushService`, `Storage` instantiates `ScheduleStore`. `TransferProofs` EXTENDS `EndpointProofs`, `RetryProofs` EXTENDS `TransferProofs`. `Timetable` EXTENDS `Lessons` and `Ics`, which both EXTEND `Calendar`: it joins the two ends, with a way between them that keeps the document
as it is, which `Transfer` and `Storage` are about. `Lifecycle` and `ImportPage` stand alone. In `Endpoint` a whole `save_schedule` is one
step; that is justified by `StorageImplementsStore`, which shows that the steps of saving amount to one replacement of the file.

What is abstracted, and how:
- A frame is a record. What `Frame::decode` refuses has the op `JUNK`. A schedule is a short sequence of bytes that keeps its length, since lengths and offsets decide every branch. The record
  field `copy` tells transmissions of one frame apart, so that a set can hold duplicates; no action of the code reads it.
- The checksum is a constant function. The runs use one that collides for all their schedules, so that no property leans on it.
- `retries` is 3 in the code and `MaxRetries` here; ids live in `0..MaxWord` and wrap. The one id restriction is `FreshId`: an id is not used again by a later push (2^32 pushes, or a clock set back).
- A plugin handler is not interrupted between two awaits (a WebAssembly component runs one task at a time), so each stretch is one action. What host calls do is read off the interface files: `send` returns
  after the wristband's listener has the frame or with an error; incoming messages are handled concurrently, in no promised order.
- There is one device address: a frame from another one is dropped by `on_frame` before it touches state.
- Callbacks of the Supervisor run one at a time, to their end, on its thread. `connect::abort` is called on the UI thread; the data race of that call with a callback under way (`static mut ENDPOINT`) is not modelled: `Abort` is atomic, and so are callbacks.
- File system: an operation may fail at any time; writes may be short; rename and remove are immediate and durable; bytes written and not synced may be lost from some point on; an open descriptor survives removal of the name.
- In `Storage` the screen's copy is `shown`; a tick that does not get the core's lock is a tick that does not happen.
- In `Pages` the generation counter is left out: all it ever does is tell a page that the app changed, so a page's `fresh` stands for `revision == Some(generation)` and every bump clears it (a counter that comes round to the same value between two
  redraws is out of the question). A schedule maps the days of one week to their courses; a text is a member of a small set. `handle_action` compares generations read on one thread a moment apart, which always agree.
- The firmware of `Pages` is the one `tools/loop-ui-host` plays: a push or finish it accepts is carried out before anything else happens to the pages; whether inside the call or right after it makes no difference, since the calling page is paused before the call.
  A drawing works as a whole or not at all, and `lvx_timer_create` does not fail. A page's title is made once; one made while the clock was unknown stays as it is, and `DrawnIsCurrent` and `StaysOnDay` say nothing of a day that was unknown when its page was opened.
- In `Timetable` the wall is the reference: `NextDate` moves the date by the calendar's rules and `day` by one. What the file says is read by `Taught`, from the events as they are written and with nothing of the dialects: `Falls` and `TakesPlace` take DTSTART, FREQ (DAILY or WEEKLY), INTERVAL, BYDAY, UNTIL, COUNT
  and EXDATE as RFC 5545 does. Other rule parts (WKST is Monday) are not in the model's rules; an EXDATE stands for its day. A name or a location is a number, 0 a blank one; seconds are dropped, as the code drops them; `MaxOccurrences` is 512 in the code.
  `Plain` is the hypothesis of `ShowsWhatIsTaught`: the limits within which the plugin means to read a file. Its part `Valid` asks for a file RFC 5545 gives a meaning (DTSTART on a day of the rule, counts and intervals from 1, an UNTIL with a time of day) with lessons within a day and at most one rule. The rest names what the plugin reads otherwise, by design or by neglect:
  - a WakeUp rule whose FREQ is not WEEKLY gives its first lesson only (`wakeup.rs:89`): DAILY;COUNT=7 shows one lesson of seven. Only with COUNT=1 is that the rule. A rule without UNTIL and COUNT gives one lesson, COUNT with several weekdays counts per weekday, and an INTERVAL with a weekday before DTSTART's is counted from that weekday;
  - WeekDown and Nexio take every event for one lesson and read neither its rule nor its EXDATE. Real Nexio exports write RRULE:FREQ=WEEKLY;COUNT=1 beside every event (`nexio.rs:1`, `tests/data/nexio.ics`), which agrees, and so do the run's; a rule of more lessons would not. A week named in a Nexio description wins over the date;
  - BYDAY goes by local weekdays, which those of a DTSTART in UTC need not be; a timed EXDATE stands for its day at whatever time (`LocalStamps`).
  Nor does the plugin go on for ever: it stops after 512 repetitions, where `Reached` wants a rule to have ended; and the
  wristband counts weeks in a byte, so that after 255 weeks it goes on showing the last of them: `ShowsWhatIsTaught` speaks of the 255 weeks. `SentIsAccepted` has its conditions because `validate_schedule` of the plugin accepts what the wristband then refuses as a whole:
  a blank summary, a lesson past midnight or of no time, an hour that no day has (`parse_dt` takes any two digits), and a week beyond 255, which does not fit the wristband's `u8`.
- `Lifecycle` takes the Supervisor as the documents and the signatures describe it: it prepares a module once per boot, publishes it only after an activation answered 0, on the UI thread (`FLAG_REQUIRES_UI_DISPATCHER`), stage 2 only after stage 1, and may repeat any call. An error code is the fact that
  there is one, a descriptor's fields are one fact, a trace record is its length. Behaviours that this shows and nothing forbids: a second activation boots an empty schedule, which stands until the next reload; a success does not clear `LAST_ERROR`;
  an icon whose sync failed counts as identical at the next try. `TraceBounded` states what the code holds the trace to, the quota and one record more than `MAX_BYTES`; the document promises `MAX_BYTES`, which is the disagreement `trace` of section 4.
- In `ImportPage` a click is a queue of length one, handled later than the page it was made on was drawn. The host shows the page after `on_load` has returned, and resumes handlers in the order of its answers. It may copy a picked file to `media/` or only let it be read (both are behaviours the code provides for).
  `IcsSource::supported` is true of every source. Wristbands are told apart by address; the select element hands back a name, so of two wristbands of one name only the first can be chosen (the instance has distinct names). What the properties exempt is what the code leaves so: `EVENT_DEVICE` and
  `EVENT_TERM_DRAFT` do not rerender (`PageIsCurrent`); after a refused change the page shows the value that was refused until the next success (`TermIsShown`), and the push converts anew with what is shown; a file that is gone is pushed as it was last converted, as `publish.rs:140` says; a host that does not copy
  may have another file of that name in `media/`, whose content is then what is converted (`Fresh`). A start of the term after all lessons of a file is refused by `emit_schedule` (`ics/schedule.rs:117`); which dates those are is the constant `Covered`.
- The first reload (`tick == 1`) is a mark set in `Init`; a reload may happen at any tick (every fiftieth). Time does not go back within the week.

## 3. Runs

Each row of `PROJECT.json` "runs" asks one question.

| Run | Bounds | Question |
|---|---|---|
| `endpoint` | chunk 1, schedules of up to 2 bytes, 2 saves, 1 answer under way | Fed about two dozen frames in any order (right, stale, malformed, colliding, with an offset whose end no word holds): does the inductive invariant of section 5 hold (confirmations, file, cached commit and history agree), and does an open transfer only grow? |
| `faults` | 1 push of 3 bytes in 2 chunks, or of an invalid schedule; any 2 faults of all 12 kinds; 2 retries | Is success only reported for what was saved? Is something always going to move a pending push on, and does every push end (fair hosts)? Is repeating harmless: saved at most once while the wristband runs, refused only for its contents while the endpoint forgets nothing? Does a valid push succeed if frames are only lost or late, no more of them than retries? |
| `two` | 2 pushes, 2 lost or late frames or idle resets | Do frames of one push stay out of the other? Does each push end once, and time out only after all its transmissions? Do the two ends implement `PushService`? |
| `storage` | 3 saves of 1 to 3 bytes, 1 clear, 2 failures, 1 crash, 1 edit by hand | Is the store atomic (refinement), safe to stop, and the screen never behind without a mark? Does the screen catch up in the end? |
| `pages` | 2 days, no schedule and two that exchange their courses, 1 import, 1 fault (navigation refused or core busy), Connect unsupported | Do route, history and page stack agree, does at most the top page run, is what is drawn current, and does a touch act on the row that was pressed? |
| `pages_live` | 1 day, 2 schedules, 1 import, 1 fault (navigation refused or file unreadable) | Does the page on the screen always have a timer, and come to show the import? |
| `timetable` | about 1000 files of three dialects around a leap day and a new year, 36 days, 3 minutes of each day at which somebody looks; UTC+8, rules of at most 16 lessons | Do the calendars of both ends agree with the wall's? Are the lessons of the file, read by its rules as written, on their days and no others? Is what is sent accepted? Is the lesson announced as next the next? |
| `import` | 2 wristbands, 2 sources, 2 files of one name; 5 acts of the user, 1 change of the wristbands, 1 file lost, 2 push handlers at an await | Is what is pushed what is shown? Is an editor only open over the schedule it was opened for? Do page and device list come to show the state? |
| `device` | 2 activations, 4 publishing stages, 1 failing service, 1 crash; an icon of two pieces; trace of 3 records and 5 bytes, 2 per record | Does a stopped module leave nothing that calls it? Is the core exclusive, the launcher's entry complete, the trace bounded, the import notice true? |
| `status`, `timer`, `trace` | as small as shows the case | the disagreements of section 4 |

Why the bounds are enough to be interesting: two chunks give a middle DATA, a last one and an acknowledgement that can be stale; two retries let a frame be in flight three times; two pushes whose
schedules share size class and checksum make any mix-up visible; two failures cover an error followed by a failing clean-up; three saves let a save start on the leftovers of a failed one after a clear. Model
values have no symmetry to exploit: bytes and ids are ordered or wrap.

Some claims hold only until a fault of some kind strikes (a restart, whatever makes the endpoint forget): the history variable `struck` of `Transfer` keeps the kinds that did, so that one run, with every kind, checks them all. A fault budget does not limit what follows a fault: retransmissions, late duplicates and stale timers are free once it struck. Two events cost nothing at all: a timeout when nothing could still answer
(`Timeout`, with `Answerable` false) and a send error while the module does not listen.

`timetable` has 36 days: five weeks after the first, so that weeks compress to ranges with gaps, every rule ends inside the span, and a leap day or a new year lies in the middle of it. Its files let a term start on the day, two or nine days later, or be inferred. Among the odd ones are a blank name, a lesson past midnight and one that ends at an hour no day has. Rules end on a lesson, a minute before one, at midnight in UTC as WakeUp writes it, or by a count; DAILY and MONTHLY rules are there too, which `Plain` admits or excludes. In `import` five acts reach pick,
edit, apply, switch and push in any order; after the second act the wristbands no longer change (`DevicesSettle`, a CONSTRAINT that keeps the instance small: device list and file handling share only the redraw). In `device` one failure and one crash may strike at any call; two activations cover a
repetition while pages are open, four stages a repeated publication.

Two days are enough for a day page that is not today's, and for the clock to move on under it; a course id whose course moves to another row, or whose row comes to stand for another course, is what a touch could mistake. In `pages` no bound is put on touches, swipes, the screen or leaving.

Deadlock is checked in the endpoint, storage, pages and device runs. It is not checked for `Transfer`: with the pushes and faults used up and nothing in flight the system has stopped, as it should; nor for `timetable`, whose span of days ends, nor for `import`, whose acts are used up.

Fairness. In `Transfer` it is one weak-fairness condition, on `HostStep`: the two hosts do not stop while one of them has a timer that expires, a call, an event or a delivered message to carry out, or an unsent answer (the endpoint's 100 ms timer is
periodic and set to run in the background). Which comes first is left open, so that a frame may be under way for as long as anything else still happens. Nothing is assumed of the user, of faults, or of a send call that has no need to return. A full queue may
stay full any finite number of times; a step that finds it full changes nothing and so does not count as progress. In `Storage` a callback under way goes on and the UI's timer keeps ticking; in `Pages` the page's timer is periodic and the firmware
carries out a push or finish it has accepted.
`Tick` in `Storage` stands for the reloads only: the first, every fiftieth, and those that find the mark.

The type invariants of `Storage`, `Lifecycle`, `Timetable` and `ImportPage`, and smaller claims that follow from the same induction (`ConfirmedIsSaved`, `FileIsLastSave`, `StatusTrue`, `SelectedIsListed`, `SavedInTurn`, `SuccessIsDelivered`), are proved and not run again.

The mutants in `PROJECT.json` are plausible mistakes (a dropped comparison, an unflushed file, a token with the old epoch), written next to the operator they change and marked "Mutant"; each makes TLC violate the property it is paired with.

## 4. Where code and text disagree

- `status`: `dispatch` (`transfer.rs:86`) returns a send error even when the push it belonged to has already completed, and `start_push` (`ui/mod.rs:372`) shows it: a saved and reported push ends as "cannot start". The comment at
  `transfer.rs:73` foresees the case and guards only `finish`.
- `timer`: `docs/V1-PARITY-034.md:28` says that resuming rebuilds the timer. `page_resume` (`ui/mod.rs:262`) returns early when the drawing fails, which a core that is taken for one moment by a status query is enough for; the page then stays as it
  is until it is next paused and resumed (a touch still works).
- `trace`: `docs/DEVICE-CRASH-29598-2.md:35` says that the trace is at most 128 KiB and that recording stops at either limit. `mark` (`diagnostics.rs:88`) compares the size with `MAX_BYTES` before it writes; the other thread may write in between. The run
  shows both threads finding room for one record and writing one each; the file then is one record too long.

Three runs show these. Three further disagreements were met while modelling, which no run is kept for:
- `docs/SCHEDULE_IMPORT_PROTOCOL.md:43` says that clearing on the wrist cancels the transfer. It forgets it; a BEGIN sent again because its answer was dropped opens it anew and the schedule is back after the clear. Past BEGIN, the cancel works: DATA and COMMIT find no transfer.
- Only the last committed id is remembered, as that document says, while the comment at `lib.rs:149` promises that a completed id is never reused. It takes three delayed duplicates of an older push, all late enough to arrive after a newer one was committed.
- `docs/SCHEDULE.md:25` promises an empty schedule when the file is illegal; `apply_disk_schedule` (`mod.rs:92`) keeps the one on the screen. After a restart the screen is empty, as promised.

The comment at `model.rs:9` and `docs/SCHEDULE.md` call the calendar week of the start date week 1. Both ends count blocks of seven days from the start date itself, whatever its weekday; since they agree, `ShowsWhatIsTaught` holds for terms that start on any day.

One thing the runs show that no text denies: after a restart of the wristband between saving and answering, the repeated COMMIT is refused (`committed` is not persisted), so a saved push is reported as rejected. Success is never reported wrongly; failure may be.

## 5. Proofs

All theorems hold for every value of the constants under the named ASSUMEs of the modules: sizes are natural numbers and fit a word, the checksum and course count have their types, an importable document parses and is not empty; files are imported on a date that exists (`ImportsAssumption`) and are sequences of events whose stamps are of the digits the parser reads (`FilesAssumption`: years of four digits from 1, months and days of two, which need not exist); the number of repetitions is not 0; an icon is not empty and a trace record has a length; addresses identify wristbands, a date, its default name and what may be inferred are texts (`TextAssumption`), and a file that is there has a content of its own (`FileAssumption`); the days of the week shown are 1 to their number (`DaysAssumption`). `TopPageHasTimer` excludes a kind of fault, a busy core, by a hypothesis of its own, and `SavesHappenOnce` and `RetriesAreHarmless` assume one push; without these the claims do not hold.

`EndpointProofs`. `EndpointInvariant` proves `EndpointInv`, which is inductive as it stands and checked in the run `endpoint`: types, `TransferFits`, `CachedIsLastSave`, `ConfirmedIsSaved`, `FileIsLastSave`. `ConfirmedIsSaved` alone is not: a repeated COMMIT is answered from
the cache, so the cache must be known to agree with the history (`CachedIsLastSave`). A lemma per branch of `Apply` (`HelloOK` to `AbortOK`) describes what it leaves behind, `ApplyOK` collects them, and one lemma per action
preserves the invariant. The corollaries name its parts. `NoDoubleCommit` and `TransfersOnlyGrow` are action properties that follow from the same invariant. The theorems speak of `EndpointSpec`, whose environment sends any frame of `Inputs`.

`TransferProofs` is about the whole system: both ends, the network, every kind of fault, any number of pushes, of any schedules. Some twenty actions and branches of theirs change the plugin's state, so the proofs go by five kinds of step: `PluginStep` says that whatever happens, the plugin keeps
its push (`Keeps`), begins one, arms a timeout for its current frame and sends it (`Arms`), ends it or drops it in a restart, and what each leaves behind; `NextPluginStep` shows this once for every action. `LinkInv` joins `EndpointInv` with the plugin's own invariant `PluginInv`: at most one push is pending and one timeout set, the sender's offset and current
frame are those of its schedule, every frame in flight is one of a push that was begun (`FrameOfPush`), ids tell pushes apart. `TransferTypes` follows. `PushesEndOnce` and `PushesNeverStick` need `PushInv` besides: every id met anywhere is that of a push that was begun (else a new push could find a stale timer event of its own), nothing of a push that still waits for `listen` has
left the plugin, and `tries` is one more than `retries`. `SavesArePushes` needs `DeliveryInv`: an open transfer holds a beginning of the push whose id it has. `Receiver::apply` gives that with no help from the checksum, since it takes DATA only at the offset it holds (`JoinParts`).
`SuccessesAreSaved` then follows from `ConfirmedIsSaved`, and `SuccessesAreDelivered` from the two: the count the user is told is that of the schedule pushed. `TransferServesPushes` is the refinement of `PushService`: no step moves both ends (`OneEndMoves`), the wristband's side saves a push, clears the file or is invisible (`WristbandServes`),
and each kind of step of the plugin is a step of the service or none (`PluginServes`); arming is invisible because the pending push keeps its schedule.

`RetryProofs` is about what repetition cannot do. `SavesTakeTurns`: until the wristband restarts no push is saved twice in a row, for any number of pushes, since the wristband remembers the push it saved last (`LastRemembered`); with one push that is `SavedOnce` (`SavesHappenOnce`). With more, `SavedOnce` does not hold (section 4). `RetriesAreHarmless` proves `RetryIsHarmless` for any number
of retries and any sizes. Its invariant `InStep` is that of the stop-and-wait protocol: the receiver holds what the sender has acknowledged or one chunk more, each request in flight is the current one or an older one, each answer in flight to the current request agrees with what the receiver holds. It holds as long as no fault of `Forgetful` struck (a failed file or flush, an idle
minute, a clear, a reboot), each of which makes the wristband forget a transfer the plugin goes on with, and for one push: a push after one that was abandoned can find the wristband Busy.

`StorageProofs`. `SavesAreSafe` proves the types and `SafeToStop`, the invariant that says how far a save has come at each of its steps; it holds through short writes, failures, clears by the other thread, crashes and edits.
`StorageImplementsStore` uses it for the refinement: only `Rename` replaces the stored schedule, by the whole of `job`; `RemoveLive` empties it; a crash keeps it because what is live is synced. An edit by hand is a step of
the store too: it may put anything in the file. `ScreenStaysFresh` proves that with no mark set, no save about to set it and the UI idle, the screen equals the file; its strengthening says what an open descriptor may lag behind by.

`PagesProofs` proves all the safety properties of `Pages`, for any number of days, any schedules, and any number of touches, imports and faults. `PagesInv` is the inductive invariant. `StackAgrees` speaks of moments when no navigation is under way; to keep it, `TrailAgrees` says where the app is while one is (route and history are the stack with the page about to be pushed, or without the one about to
be popped), and that the stack is a path along rising `Rank`, so that no page is on it twice and a page pushed is a new one. Besides: the firmware created the pages of its stack and no others, each page is drawn as the app is when it counts as fresh, and the finger is where the page saw it come down. A callback is a composition of the code's functions on a record of the state; one lemma per function says what it keeps
(`StateOK`), one per action puts them together. `PagesTypes`, `AppFollowsStack`, `OnlyTopPageRuns`, `DrawnPagesAreCurrent` and `ClicksAreMeant` are parts of it; `DayPagesKeepTheirDay` is an action property; `TopPageHasTimer` excludes a core that is busy, which is the disagreement of section 4 (run `timer`).

`TimetableProofs` proves all that `Timetable` states, for every file, every start of a term and any span of days. `CalendarsAlwaysAgree`: the day counts and weekdays of both ends are those of the wall. Its invariant `WallAgrees` says that the wall's date exists and that both formulas give its day; a step of the induction is that `CivilToDays` and
`GregorianDay` grow by one from each date to the next, shown by cases: inside a month, at its end, at the end of a leap and of a common year, with the divisions by 4, 100 and 400 bounded one by one. `TimetableTypes` adds the types: what `ValidImport` accepts is what the views can count with.

`TimetableInvariant` joins to that `MadeOfFile`, which says that what is on the wrist was made of the file and accepted. The rest is about the operators; each lemma is about one function of the code:
- `add_days` walks over the years by recursion (`YearAndOrdinal`). The prover has no induction over data to offer, so `YearFound` goes by contradiction: among the days that end in a wrong year one needs the fewest rounds, but the one it is reduced to needs fewer (`LeastNat`). `AddDaysCounts`, `DayOrder` and `WeekdayOfDay` turn everything said of dates
  into arithmetic on day numbers; `SameWeek` shows that both ends count the same week.
- From the text (`EventsRead`): events that are kept begin and end on dates that exist, `shift_hours` and `add_minutes` over midnight included.
- To the weeks (`WeeksWhen`): `FallsWhen` and `RuleDays` show that the interval counted between Mondays, as in RFC 5545, is the one `expand_weeks` counts from the first such weekday; `CountedBefore` that exactly k repetitions precede the k-th, by a bijection, which is what COUNT asks; `RepeatsWhen` that the 512 repetitions are enough for a rule that ends within them.
  `WeeklyFalls` and `WeeklyTakesPlace` show that the rule as it is written says the same as the rule the parser made of it, an UNTIL being compared as an instant there and field by field here (`InstantRead`, `InstantOrder`); `OnceWhen` that a rule of one lesson, of whatever FREQ, is the day of DTSTART.
  Together they are `TakesPlaceWhen`. The other dialects list every lesson by itself (`LoneEventWhen`), with or without the rule of one lesson that Nexio writes.
- Into the map, compressed and listed: `CompressedWeeks` shows that the ranges hold the weeks and no other, each week being in a run that cannot be extended (`RunFound`, `OneRun`) or at a multiple of the gap; `CourseOrder`, `LexOrder` and `ListedCourses` that the list holds each course once, since a total order ranks a finite set from 0 up.
  `EmittedLessons` and `ScheduleLessons` follow: what the wristband finds for a week and a weekday is what the dialect found.

`ShownIsTaught` puts these together for the wall's date; its only hypothesis on the file is `Plain`, which section 2 lists. `SentIsAlwaysAccepted` needs of them the types of what is emitted (`SentSchedule`). `NextAlwaysComes` is the action property; it needs that a set of courses that do not overlap has a first and a last one (`FirstExists`, `LastExists`, `NextStep`).

`LifecycleProofs`. `LifecycleHolds` proves an inductive invariant of five parts, one per concern, each preserved by every action: `TraceInv` (records claimed and claims under way fit the quota; who still has a record to write has measured room), `CoreInv` (who holds the lock, and what is ready at each step of an activation),
`ServedInv` (how far `connect::start` has come), `EntryInv` (what each step of publishing has found or made of the icon) and `FixedInv` (what never changes). `TraceStaysBounded`, `CoreIsExclusive`, `StopIsSafe`, `ImportIsServed`, `EntryIsWhole`, `StatusIsTrue` and `LifecycleTypes` follow from it, for any number of activations, crashes and failures.

`ImportPageProofs`. `ImportInvariant` proves `ImportInv`: the types of page and host, one prepared schedule at most, with a name and a start on the page whenever there is one, the device selected listed, and the two claims about editor and term. `EditsThisTerm` and `TermIsShown` need the part on the prepared schedule, since
a handler replaces it without looking at the old one. `SelectedStaysListed`, `EditorsClose`, `TermStaysShown` and the action property `PushesAreShown` follow. `ImportTypes` needs `ButtonInv` besides: the button is locked exactly while a push is under way, and its handlers at an await are counted by push.
`ListsAreCurrent` needs `ListInv`, that the answer asked for last (`LatestList`) is what is connected unless a notice or a call is still open; it holds because the host answers in order. `PagesAreCurrent` needs that `on_load`, the one handler that changes the list and does not rerender, is over before there is a page (`LoadInv`). `PicksArePrepared` needs two claims about `media`, which picks of one name share:
while picks wait, the place of each holds its content or that of a later pick (`Copied`), and once they are handled it still holds the content the schedule was prepared of, or is empty (`FromPicked`).

Only model-checked: liveness (`PushEnds`, `PushSucceeds`, `ScreenCatchesUp`, `ScreenFollows`), which is beyond the prover as ENABLED is, and which also rests on fairness. Every invariant and action property of the passing runs is stated by a theorem. Where a recursive function or the listing of a set would take an induction over
data, which no installed prover does, the proofs take a least counterexample instead.

## 6. Plan

Done, in this order: `LoopProtocol`, `Endpoint`, `Plugin`, `Transfer`, `ScheduleStore`, `Storage`, `EndpointProofs`, `StorageProofs`, `Pages`, `Calendar`, `Lessons`, `Ics`, `Timetable`, `TimetableProofs`, `Lifecycle`, `LifecycleProofs`, `ImportPage`, `ImportPageProofs`, `TransferProofs`, `RetryProofs`, `PagesProofs`, `PushService`.

Next, most important first:
1. A timed endpoint for the minute of idleness and orphaned transfers; then a bound on how long a push can find the wristband Busy.
2. Pages with rows that are drawn in part.
3. The repetitions past the 512th and the weeks past the 255th, as statements of what is cut.

## 7. Not modelled

- `tools/loop-ui-host`: it plays the firmware in tests; `Pages` models the firmware it plays. The allocator and the firmware bindings only forward. Icons, scripts, watchfaces and documents have no state.
- The splitting of ICS text into properties (unfolding, escapes, parameters), the JSON text, location and period labels, and all wording and layout: data no property tells apart, which the unit tests cover.
- The data race of `connect::abort` with a message callback (`connect.rs:16`): what it can do depends on the order the compiler gives the accesses.
- The progress of `with_core`'s spin: it depends on the priorities of the firmware's scheduler, which the repository does not contain. `CoreIsExclusive` is about exclusion only.
- A row that cannot be created in the middle of a redraw (`ui/mod.rs:173`): a drawing in `Pages` works as a whole or not at all.
- How long the endpoint stays busy with an orphaned transfer: `Tick` may reset an idle endpoint at any time, time itself is not modelled.
