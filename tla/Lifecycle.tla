------------------------------ MODULE Lifecycle ------------------------------
(***************************************************************************)
(* The module as the Supervisor drives it: prepare, activate, deactivate   *)
(* and query (module.rs, target/mod.rs, target/runtime.rs) on the          *)
(* Supervisor's own thread, publishing the native app and the pages        *)
(* (target/native_app.rs) on the UI thread, and the startup trace that     *)
(* both write (target/diagnostics.rs).                                     *)
(*                                                                         *)
(* External: the Supervisor prepares a module once per boot, publishes it  *)
(* only after an activation has answered 0 and stage 2 only after stage 1, *)
(* and may repeat every call.  A service may fail at any call.  An error   *)
(* code is kept as the fact that there is one.                             *)
(***************************************************************************)
EXTENDS Integers, Sequences

CONSTANTS
    Icon,           \* the icon in the module, in pieces as they are written
    OldIcons,       \* what may lie on file from another version
    MaxRecords,     \* MAX_RECORDS: records of the trace per activation
    MaxBytes,       \* MAX_BYTES: the trace stops when its file has grown to it
    Line,           \* the length of a record
    MaxActivations, MaxStages, MaxFailures, MaxCrashes     \* bounds of what happens

ASSUME IconAssumption == Icon \in Seq(Nat) \ {<<>>} /\ OldIcons \subseteq Seq(Nat)
ASSUME TraceAssumption == MaxRecords \in Nat /\ MaxBytes \in Nat /\ Line \in Nat \ {0}
ASSUME LifecycleBounds == /\ MaxActivations \in Nat /\ MaxStages \in Nat
                          /\ MaxFailures \in Nat /\ MaxCrashes \in Nat

VARIABLES
    services, identity,     \* what the firmware offers, and whether the module was built for it
    active, resident,       \* ACTIVE, RESIDENT
    errors,                 \* LAST_ERROR, runtime.last_error, app_error and connect_error
    core, ready, lock,      \* CORE_PTR, READY, CORE_LOCK
    inside,                 \* the threads that run a closure of with_core or try_with_core
    endpoint, timer, listening,     \* ENDPOINT, and what the Supervisor keeps for it
    descriptors, app_id, app_state, \* of native_app.rs and runtime.rs
    entry,                  \* the launcher's entry for the module
    icon,                   \* appicon_loop.bin: its bytes, none if it is not there; are they on the disk
    sequence, log,          \* SEQUENCE, and the length of the trace's file
    claimed,                \* history: records claimed since the activation began
    pc, rc,                 \* of a thread: its next step, and whether its call goes well
    trace, seen, left,      \* of a thread in mark: its step, the number it loaded, bytes to write
    answer, status,         \* the last answer of deactivate, the last status of query
    activations, stages, failures, crashes

firmware == <<services, identity>>
flags == <<active, resident, errors>>
guarded == <<core, ready, lock, inside>>
connection == <<endpoint, timer, listening>>
app == <<descriptors, app_id, app_state, entry>>
diagnostics == <<sequence, log, claimed, trace, seen, left>>
counts == <<activations, stages, failures, crashes>>
told == <<answer, status>>
vars == <<firmware, flags, guarded, connection, app, icon, diagnostics, pc, rc, told, counts>>

Threads == {"owner", "ui"}
OwnerSteps == {"unloaded", "idle", "prepare", "guard", "boot", "booting", "connect", "end", "result"}
UiSteps == {"idle", "core", "descriptors", "icon", "truncate", "write", "sync", "close", "register", "registered",
            "publish.end", "published"}
Reports == {"module", "runtime", "app", "connect"}
NoStatus == [active |-> FALSE, resident |-> FALSE, app_state |-> "NONE", seen |-> TRUE]

Init ==
    /\ services \in SUBSET {"required", "connect"} /\ identity \in BOOLEAN
    /\ active = FALSE /\ resident = FALSE
    /\ errors = [r \in Reports |-> r = "connect"]
    /\ core = "none" /\ ready = FALSE /\ lock = FALSE /\ inside = {}
    /\ endpoint = FALSE /\ timer = "none" /\ listening = FALSE
    /\ descriptors = FALSE /\ app_id = FALSE /\ app_state = "NONE" /\ entry = FALSE
    /\ sequence = 0 /\ claimed = 0
    /\ trace = [t \in Threads |-> "no"] /\ seen = [t \in Threads |-> 0] /\ left = [t \in Threads |-> 0]
    /\ pc = [t \in Threads |-> IF t = "owner" THEN "unloaded" ELSE "idle"]
    /\ rc = [t \in Threads |-> TRUE]
    /\ answer = "none" /\ status = NoStatus
    /\ icon \in {[bytes |-> b, synced |-> TRUE] : b \in OldIcons}
    /\ log = 0
    /\ activations = 0 /\ stages = 0 /\ failures = 0 /\ crashes = 0

\* A call of a service fails, or all do what they are asked.
Fails == failures < MaxFailures /\ failures' = failures + 1 /\ UNCHANGED <<activations, stages, crashes>>
Works == UNCHANGED counts

\* Thread t, outside of mark, takes its next step, which is called here.
At(t, here) == pc[t] = here /\ trace[t] = "no"
Goto(t, there) == pc' = [pc EXCEPT ![t] = there]
Result(t, ok) == rc' = [rc EXCEPT ![t] = ok]

---------------------------------------------------------------------------
(* diagnostics::mark                                                       *)

Mark(t) == trace' = [trace EXCEPT ![t] = "load"] /\ UNCHANGED <<log, seen, left>>

Spent == sequence >= MaxRecords

Load(t) ==
    /\ trace[t] = "load"
    /\ trace' = [trace EXCEPT ![t] = IF Spent THEN "no" ELSE "claim"]
    /\ seen' = [seen EXCEPT ![t] = sequence]
    /\ UNCHANGED <<firmware, flags, guarded, connection, app, icon, sequence, log, claimed, left, pc, rc, told, counts>>

\* Mutant: a store in the place of the compare-and-swap.
Always(t) == TRUE
Swaps(t) == sequence = seen[t]

\* The loser looks again, at the number it was shown.
Claim(t) ==
    /\ trace[t] = "claim"
    /\ \/ /\ Swaps(t)
          /\ sequence' = seen[t] + 1 /\ claimed' = claimed + 1
          /\ trace' = [trace EXCEPT ![t] = "open"]
          /\ UNCHANGED seen
       \/ /\ ~Swaps(t)
          /\ seen' = [seen EXCEPT ![t] = sequence]
          /\ trace' = [trace EXCEPT ![t] = IF Spent THEN "no" ELSE "claim"]
          /\ UNCHANGED <<sequence, claimed>>
    /\ UNCHANGED <<firmware, flags, guarded, connection, app, icon, log, left, pc, rc, told, counts>>

Fits == log + Line <= MaxBytes

\* The file is opened for appending and measured; the record is given up if
\* either fails.
OpenTrace(t) ==
    /\ trace[t] = "open"
    /\ IF Fits
       THEN \/ Works /\ trace' = [trace EXCEPT ![t] = "write"] /\ left' = [left EXCEPT ![t] = Line]
            \/ Fails /\ trace' = [trace EXCEPT ![t] = "no"] /\ UNCHANGED left
       ELSE Works /\ trace' = [trace EXCEPT ![t] = "no"] /\ UNCHANGED left
    /\ UNCHANGED <<firmware, flags, guarded, connection, app, icon, sequence, log, claimed, seen, pc, rc, told>>

\* One turn of the write loop; sync and close change nothing that is modelled.
WriteTrace(t) ==
    /\ trace[t] = "write"
    /\ \/ Works /\ \E n \in 1..left[t] :
                      /\ log' = log + n
                      /\ left' = [left EXCEPT ![t] = @ - n]
                      /\ trace' = [trace EXCEPT ![t] = IF n = left[t] THEN "no" ELSE "write"]
       \/ Fails /\ trace' = [trace EXCEPT ![t] = "no"] /\ left' = [left EXCEPT ![t] = 0] /\ UNCHANGED log
    /\ UNCHANGED <<firmware, flags, guarded, connection, app, icon, sequence, claimed, seen, pc, rc, told>>

Traces(t) == Load(t) \/ Claim(t) \/ OpenTrace(t) \/ WriteTrace(t)

---------------------------------------------------------------------------
(* The Supervisor's thread                                                 *)

\* canopus_mod_prepare
Prepare ==
    /\ At("owner", "unloaded") /\ Goto("owner", "idle")
    /\ active' = FALSE /\ resident' = FALSE
    /\ errors' = [errors EXCEPT !["module"] = FALSE]
    /\ UNCHANGED <<firmware, guarded, connection, app, icon, diagnostics, rc, told, counts>>

\* canopus_mod_activate, up to the first record of its trace
Activate ==
    /\ At("owner", "idle") /\ activations < MaxActivations
    /\ activations' = activations + 1
    /\ answer' = "none"
    /\ IF "required" \in services
       THEN /\ Goto("owner", "prepare")
            /\ sequence' = 0 /\ claimed' = 0 /\ Mark("owner")
            /\ UNCHANGED errors
       ELSE /\ errors' = [errors EXCEPT !["module"] = TRUE]
            /\ UNCHANGED <<diagnostics, pc>>
    /\ UNCHANGED <<firmware, active, resident, guarded, connection, app, icon, rc, status, stages, failures, crashes>>

\* Mutant: a second activation makes the core anew.
Afresh == FALSE
Skips == ready

\* runtime::prepare; the core's memory may not be had.
RuntimePrepare ==
    /\ At("owner", "prepare") /\ Goto("owner", "guard")
    /\ \/ Skips /\ Works /\ UNCHANGED <<core, ready, lock>>
       \/ ~Skips /\ Works /\ core' = "made" /\ lock' = FALSE /\ ready' = TRUE
       \/ ~Skips /\ core = "none" /\ Fails /\ ready' = FALSE /\ UNCHANGED <<core, lock>>
    /\ UNCHANGED <<firmware, flags, inside, connection, app, icon, diagnostics, rc, told>>

Guard ==
    /\ At("owner", "guard")
    /\ Goto("owner", IF ready /\ identity THEN "boot" ELSE "end")
    /\ Result("owner", ready /\ identity)
    /\ errors' = [errors EXCEPT !["runtime"] = @ \/ (ready /\ ~identity)]
    /\ UNCHANGED <<firmware, active, resident, guarded, connection, app, icon, diagnostics, told, counts>>

\* with_core waits for the lock, try_with_core gives up without it.
Enter(t) ==
    /\ ~lock
    /\ lock' = TRUE /\ inside' = inside \cup {t}
    /\ UNCHANGED <<core, ready>>
Exit(t) ==
    /\ t \in inside
    /\ lock' = FALSE /\ inside' = inside \ {t}
    /\ UNCHANGED <<core, ready>>

Boot ==
    /\ \/ At("owner", "boot") /\ Enter("owner") /\ Goto("owner", "booting")
       \/ At("owner", "booting") /\ Exit("owner") /\ Goto("owner", "connect")
    /\ UNCHANGED <<firmware, flags, connection, app, icon, diagnostics, rc, told, counts>>

\* Mutant: the timer of an endpoint nobody listens to runs on.
KeptTimer == "running"
DestroyedTimer == "none"

\* connect::start.  Nobody else touches the endpoint before it is there.
ConnectStart ==
    /\ At("owner", "connect") /\ Goto("owner", "end")
    /\ \/ endpoint /\ Works /\ UNCHANGED <<endpoint, timer, listening>>      \* already started
       \/ /\ ~endpoint /\ "connect" \notin services                      \* no service
          /\ Works /\ UNCHANGED <<endpoint, timer, listening>>
       \/ /\ ~endpoint /\ "connect" \in services                         \* timer_create
          /\ Fails /\ UNCHANGED <<endpoint, timer, listening>>
       \/ /\ ~endpoint /\ "connect" \in services                         \* timer_set_background, timer_start
          /\ Fails /\ timer' = "none" /\ UNCHANGED <<endpoint, listening>>
       \/ /\ ~endpoint /\ "connect" \in services                         \* listen
          /\ Fails /\ timer' = DestroyedTimer /\ UNCHANGED <<endpoint, listening>>
       \/ /\ ~endpoint /\ "connect" \in services
          /\ Works /\ endpoint' = TRUE /\ timer' = "running" /\ listening' = TRUE
    /\ errors' = [errors EXCEPT !["connect"] = ~endpoint']
    /\ Result("owner", TRUE)
    /\ UNCHANGED <<firmware, active, resident, guarded, app, icon, diagnostics, told>>

\* The last record, then the flags.
ActivateEnd ==
    /\ At("owner", "end") /\ Goto("owner", "result") /\ Mark("owner")
    /\ UNCHANGED <<firmware, flags, guarded, connection, app, icon, sequence, claimed, rc, told, counts>>

\* Mutant: a module that cannot import may go.
OnlyServing == rc["owner"] /\ endpoint
Stays == rc["owner"]

ActivateResult ==
    /\ At("owner", "result") /\ Goto("owner", "idle")
    /\ active' = (active \/ rc["owner"]) /\ resident' = (resident \/ Stays)
    /\ errors' = [errors EXCEPT !["module"] = @ \/ ~rc["owner"]]
    /\ UNCHANGED <<firmware, guarded, connection, app, icon, diagnostics, rc, told, counts>>

\* canopus_mod_deactivate and canopus_mod_stop
Deactivate ==
    /\ At("owner", "idle")
    /\ answer' = IF resident THEN "REBOOT_REQUIRED" ELSE "stopped"
    /\ active' = (active /\ resident)
    /\ UNCHANGED <<firmware, resident, errors, guarded, connection, app, icon, diagnostics, pc, rc, status, counts>>

\* canopus_mod_query never waits for the core; seen tells whether it got it.
Query ==
    /\ At("owner", "idle")
    /\ status' = [active |-> active, resident |-> resident,
                  app_state |-> IF ready THEN app_state ELSE "FAILED",
                  seen |-> ready => ~lock]
    /\ UNCHANGED <<firmware, flags, guarded, connection, app, icon, diagnostics, pc, rc, answer, counts>>

Owner == \/ Prepare \/ Activate \/ RuntimePrepare \/ Guard \/ Boot \/ ConnectStart
         \/ ActivateEnd \/ ActivateResult \/ Deactivate \/ Query

---------------------------------------------------------------------------
(* The UI thread                                                           *)

\* A page is created, resumed, refreshed or pressed: Pages tells what it does
\* with the core.
Page ==
    /\ \/ At("ui", "idle") /\ entry /\ Enter("ui") /\ Goto("ui", "core")
       \/ At("ui", "core") /\ Exit("ui") /\ Goto("ui", "idle")
    /\ UNCHANGED <<firmware, flags, connection, app, icon, diagnostics, rc, told, counts>>

\* canopus_mod_publish_native_app_stage
Publish ==
    /\ At("ui", "idle") /\ stages < MaxStages
    /\ active                                                           \* external
    /\ stages' = stages + 1
    /\ \/ Goto("ui", "descriptors")
       \/ Goto("ui", "icon") /\ descriptors                              \* external
    /\ Mark("ui") /\ Result("ui", TRUE)
    /\ UNCHANGED <<firmware, flags, guarded, connection, app, icon, sequence, claimed, told, activations, failures, crashes>>

\* install_stage(1)
Describe ==
    /\ At("ui", "descriptors") /\ Goto("ui", "publish.end")
    /\ descriptors' = TRUE
    /\ UNCHANGED <<firmware, flags, guarded, connection, app_id, app_state, entry, icon, diagnostics, rc, told, counts>>

\* Mutant: an icon of the right length is taken for ours.
SameSize == Len(icon.bytes) = Len(Icon)
Identical == icon.bytes = Icon

\* ensure_launcher_icon reads the file first.  A file it cannot read it writes
\* again; one it cannot close it leaves.
LookAtIcon ==
    /\ At("ui", "icon")
    /\ \/ Works /\ Goto("ui", IF app_id THEN "publish.end" ELSE IF Identical THEN "register" ELSE "truncate")
          /\ UNCHANGED rc
       \/ ~app_id /\ Fails /\ Goto("ui", "truncate") /\ UNCHANGED rc
       \/ ~app_id /\ Fails /\ Goto("ui", "publish.end") /\ Result("ui", FALSE)
    /\ UNCHANGED <<firmware, flags, guarded, connection, app, icon, diagnostics, told>>

TruncateIcon ==
    /\ At("ui", "truncate")
    /\ \/ Works /\ Goto("ui", "write") /\ icon' = [bytes |-> <<>>, synced |-> FALSE] /\ UNCHANGED rc
       \/ Fails /\ Goto("ui", "publish.end") /\ Result("ui", FALSE) /\ UNCHANGED icon
    /\ UNCHANGED <<firmware, flags, guarded, connection, app, diagnostics, told>>

WriteIcon ==
    /\ At("ui", "write")
    /\ \/ /\ Works
          /\ \E n \in Len(icon.bytes) + 1 .. Len(Icon) :
                /\ icon' = [bytes |-> SubSeq(Icon, 1, n), synced |-> FALSE]
                /\ Goto("ui", IF n = Len(Icon) THEN "sync" ELSE "write")
          /\ UNCHANGED rc
       \/ Fails /\ Goto("ui", "close") /\ Result("ui", FALSE) /\ UNCHANGED icon
    /\ UNCHANGED <<firmware, flags, guarded, connection, app, diagnostics, told>>

SyncIcon ==
    /\ At("ui", "sync") /\ Goto("ui", "close")
    /\ \/ Works /\ icon' = [bytes |-> icon.bytes, synced |-> TRUE] /\ UNCHANGED rc
       \/ Fails /\ Result("ui", FALSE) /\ UNCHANGED icon
    /\ UNCHANGED <<firmware, flags, guarded, connection, app, diagnostics, told>>

CloseIcon ==
    /\ At("ui", "close")
    /\ \/ Works /\ Goto("ui", IF rc["ui"] THEN "register" ELSE "publish.end") /\ UNCHANGED rc
       \/ Fails /\ Goto("ui", "publish.end") /\ Result("ui", FALSE)
    /\ UNCHANGED <<firmware, flags, guarded, connection, app, icon, diagnostics, told>>

NotRegistered == "FAILED"

\* register_app gives the launcher its entry, or an error.
Register ==
    /\ At("ui", "register")
    /\ \/ Works /\ entry' = TRUE /\ Goto("ui", "registered") /\ UNCHANGED <<app_state, errors, rc>>
       \/ /\ Fails /\ Goto("ui", "publish.end") /\ Result("ui", FALSE)
          /\ app_state' = NotRegistered /\ errors' = [errors EXCEPT !["app"] = TRUE]
          /\ UNCHANGED entry
    /\ UNCHANGED <<firmware, active, resident, guarded, connection, descriptors, app_id, icon, diagnostics, told>>

StoreId ==
    /\ At("ui", "registered") /\ Goto("ui", "publish.end")
    /\ app_id' = TRUE /\ app_state' = "REGISTERED"
    /\ errors' = [errors EXCEPT !["app"] = FALSE]
    /\ UNCHANGED <<firmware, active, resident, guarded, connection, descriptors, entry, icon, diagnostics, rc, told, counts>>

PublishEnd ==
    /\ At("ui", "publish.end") /\ Goto("ui", "published") /\ Mark("ui")
    /\ UNCHANGED <<firmware, flags, guarded, connection, app, icon, sequence, claimed, rc, told, counts>>

PublishResult ==
    /\ At("ui", "published") /\ Goto("ui", "idle")
    /\ errors' = [errors EXCEPT !["module"] = @ \/ ~rc["ui"]]
    /\ UNCHANGED <<firmware, active, resident, guarded, connection, app, icon, diagnostics, rc, told, counts>>

Ui == \/ Page \/ Publish \/ Describe \/ LookAtIcon \/ TruncateIcon \/ WriteIcon
      \/ SyncIcon \/ CloseIcon \/ Register \/ StoreId \/ PublishEnd \/ PublishResult

---------------------------------------------------------------------------

\* The power fails: the statics are loaded anew, and of an icon not synced some
\* first pieces stay.
Crash ==
    /\ crashes < MaxCrashes /\ crashes' = crashes + 1
    /\ active' = FALSE /\ resident' = FALSE
    /\ errors' = [r \in Reports |-> r = "connect"]
    /\ core' = "none" /\ ready' = FALSE /\ lock' = FALSE /\ inside' = {}
    /\ endpoint' = FALSE /\ timer' = "none" /\ listening' = FALSE
    /\ descriptors' = FALSE /\ app_id' = FALSE /\ app_state' = "NONE" /\ entry' = FALSE
    /\ sequence' = 0 /\ claimed' = 0
    /\ trace' = [t \in Threads |-> "no"] /\ seen' = [t \in Threads |-> 0] /\ left' = [t \in Threads |-> 0]
    /\ pc' = [t \in Threads |-> IF t = "owner" THEN "unloaded" ELSE "idle"]
    /\ rc' = [t \in Threads |-> TRUE]
    /\ answer' = "none" /\ status' = NoStatus
    /\ \E n \in (IF icon.synced THEN {Len(icon.bytes)} ELSE 0 .. Len(icon.bytes)) :
           icon' = [bytes |-> SubSeq(icon.bytes, 1, n), synced |-> TRUE]
    /\ UNCHANGED <<firmware, log, activations, stages, failures>>

Next == Owner \/ Ui \/ (\E t \in Threads : Traces(t)) \/ Crash
Spec == Init /\ [][Next]_vars

---------------------------------------------------------------------------
(* Properties                                                              *)

LifecycleTypeOK ==
    /\ services \subseteq {"required", "connect"} /\ identity \in BOOLEAN
    /\ active \in BOOLEAN /\ resident \in BOOLEAN /\ errors \in [Reports -> BOOLEAN]
    /\ core \in {"none", "made"} /\ ready \in BOOLEAN /\ lock \in BOOLEAN /\ inside \subseteq Threads
    /\ endpoint \in BOOLEAN /\ timer \in {"none", "running"} /\ listening \in BOOLEAN
    /\ descriptors \in BOOLEAN /\ app_id \in BOOLEAN /\ entry \in BOOLEAN
    /\ app_state \in {"NONE", "REGISTERED", "FAILED"}
    /\ icon.bytes \in Seq(Nat) /\ icon.synced \in BOOLEAN
    /\ sequence \in 0..MaxRecords /\ claimed \in Nat /\ log \in Nat
    /\ seen \in [Threads -> 0..MaxRecords] /\ left \in [Threads -> 0..Line]
    /\ pc \in [Threads -> OwnerSteps \cup UiSteps] /\ rc \in [Threads -> BOOLEAN]
    /\ answer \in {"none", "stopped", "REBOOT_REQUIRED"}

\* A module that answers 0 to deactivate has left nothing with the Supervisor
\* that would call it later: no timer, no listener, no launcher entry, and no
\* thread is in its core (module.rs:125).
StopsOnlyWhatIsGone ==
    answer = "stopped" => ~endpoint /\ timer = "none" /\ ~listening /\ ~entry /\ inside = {} /\ ~active

\* The core is initialised before anybody uses it, and used by one thread at a
\* time, whatever is activated again while a page is open (runtime.rs:49-102).
CoreExclusive == \A t, u \in inside : t = u /\ core = "made" /\ lock

\* After an activation that answered 0, the data page's notice that imports
\* are not possible is there exactly when they are not; a start that fails
\* leaves neither timer nor listener (connect.rs:23, target/mod.rs:43).
ImportServed ==
    /\ timer = "running" <=> endpoint
    /\ listening <=> endpoint
    /\ active => (errors["connect"] <=> ~endpoint)

\* What the launcher shows and opens is complete: the icon on file is the
\* module's, the pages are described, and the core they use is there
\* (native_app.rs:44, storage.rs:58).
EntryIsComplete == entry => icon.bytes = Icon /\ descriptors /\ ready /\ resident

\* At most MAX_RECORDS records are claimed per activation by both threads
\* together (diagnostics.rs:37), and what they have both measured room for is no
\* more than one record too much (diagnostics.rs:88): the file, which every
\* start appends to, does not grow without bound.
TraceBounded ==
    /\ claimed <= MaxRecords
    /\ log <= MaxBytes + Line

\* "The file is at most 128 KiB; recording stops at either limit"
\* (docs/DEVICE-CRASH-29598-2.md:35).  Each thread compares the size with
\* MAX_BYTES (diagnostics.rs:88), but only before it writes.
TraceStopsAtLimit == log <= MaxBytes

\* A status that calls the app registered or the module active is true, and
\* remains so until the power fails (module.rs:139, target/mod.rs:48).
StatusTrue ==
    /\ status.app_state = "REGISTERED" => entry /\ app_id
    /\ status.active => active /\ resident /\ ready
=============================================================================
