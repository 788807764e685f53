----------------------------- MODULE ImportPage -----------------------------
(***************************************************************************)
(* The plugin's page on the phone: plugins/astrobox-loop-import/src/ui/    *)
(* mod.rs with state.rs, publish.rs, the device list of connect.rs and the *)
(* host's entry points of lib.rs.  The plugin is single-threaded; a        *)
(* handler runs from one await to the next without being interrupted, and  *)
(* there the host may run any other.  Each such stretch is one action; the *)
(* dialog, the device list and the push it waits for are state.  The state *)
(* between handlers is UiState, ui here; what rerender handed to the host  *)
(* is drawn.  The push itself is Plugin's: here it is only under way.      *)
(* Left out: wording, layout, the status line; IcsSource::supported, which *)
(* is true of every source.                                                *)
(***************************************************************************)
EXTENDS Naturals, Sequences

CONSTANTS
    Devices,       \* the wristbands: [addr, name]
    Sources,       \* IcsSource::ALL
    FirstSource,   \* the default source
    Files,         \* what the user may pick: [name, content]
    NoFile,        \* the content of a file that is not there
    Inferred,      \* per content and source: the start inferred, {} if it
                   \* cannot be converted
    Covered,       \* per content and source: the starts that are not after
                   \* all of its lessons
    Dated,         \* per text: the date it denotes, {} if it denotes none
    NameFor,       \* per start: the term's default name
    Typed,         \* what the user may type into an editor, "" for a blank
    MaxDevices,    \* bound: wristbands connected at once
    MaxChanges,    \* bound: wristbands coming or going
    MaxLosses,     \* bound: files the host removes
    MaxActs,       \* bound: what the user does
    MaxWaiting     \* bound: push handlers at an await

ASSUME SourceAssumption == FirstSource \in Sources
ASSUME DeviceAssumption == \A d, e \in Devices : d.addr = e.addr => d = e

VARIABLES
    ui,            \* STATE: UiState
    drawn,         \* the last page rendered, if any
    opened,        \* root is known
    connected,     \* host: the wristbands connected
    notices,       \* host: DeviceAction events not yet handled
    asking,        \* get_connected_device_list calls not yet answered, by
                   \* caller: on_load, or a handler that rerenders
    lists,         \* answers whose handlers have not resumed: [for, list]
    loaded,        \* on_load has returned
    host,          \* "copies" a picked file to media, or only "reads" it
    media,         \* media/<name>: contents
    dialogs,       \* pick_file calls not yet answered
    picks,         \* answers whose handlers have not resumed
    lastPick,      \* history: the content picked last, see Fresh
    refused,       \* history: the last change of file, source or term failed
    editFor,       \* history: the file and source an editor was opened for
    pending,       \* PENDING: the push under way
    waiting,       \* its handlers at an await, which rerender at their end
    late,          \* the same, of pushes that have ended
    event,         \* what the user did and is not yet handled, at most one
    changes, losses, acts  \* counters of the bounds

deviceVars == <<connected, notices, asking, lists, loaded, changes>>
fileVars == <<host, media, dialogs, picks, lastPick, losses>>
pushVars == <<pending, waiting, late>>
vars == <<ui, drawn, opened, deviceVars, fileVars, refused, editFor, pushVars,
          event, acts>>

Addresses == {d.addr : d \in Devices}
Names == {f.name : f \in Files}
Contents == {f.content : f \in Files}
Texts == DOMAIN Dated
Dates == UNION {Dated[t] : t \in Texts}

Schedules == [of : Contents, by : Sources, name : Texts, start : Dates]
Prepareds == [path : Names, schedule : Schedules]
EditingTerms == {"none", "name", "start"}
UiStates == [tab : {"import", "settings"}, source : Sources,
             devices : Seq(Devices), selected : Addresses \cup {""},
             prepared : SUBSET Prepareds, name : Texts, start : Texts,
             editing : EditingTerms, draft : Texts, busy : BOOLEAN]

\* A text denotes one date at most and a date is written as itself; a file is
\* converted to one schedule at most, and no term is blank.
ASSUME TextAssumption ==
    /\ \A t \in Texts : \A d, e \in Dated[t] : d = e
    /\ \A d \in Dates : d # "" /\ d \in Texts /\ Dated[d] = {d} /\ NameFor[d] \in Texts \ {""}
    /\ \A c \in Contents, s \in Sources :
          Inferred[c][s] \subseteq Dates /\ \A d, e \in Inferred[c][s] : d = e
    /\ "" \in Texts /\ Typed \subseteq Texts

\* A file that is there has a content of its own.
ASSUME FileAssumption == NoFile \notin Contents

The(S) == CHOOSE x \in S : TRUE
ListedAddresses(list) == {list[i].addr : i \in DOMAIN list}

-----------------------------------------------------------------------------
(* publish.rs                                                              *)

\* convert_ics_file with the term given, "" to infer it.  A start after all
\* lessons leaves none (emit_schedule), which is an error.
Convert(content, source, name, start) ==
    {[of |-> content, by |-> source,
      name |-> IF name = "" THEN NameFor[d] ELSE name, start |-> d] :
        d \in IF Inferred[content][source] = {} \/ start = ""
              THEN Inferred[content][source]
              ELSE Dated[start] \cap Covered[content][source]}

MediaUnavailable(path) == media[path] = NoFile

\* prepare_file, for the files found in disk.
PrepareFile(disk, path, source, name, start) ==
    IF disk[path] = NoFile THEN {}
    ELSE {[path |-> path, schedule |-> s] :
             s \in Convert(disk[path], source, name, start)}

\* prepare_file again for the file that s has prepared.
Reprepared(s, name, start) ==
    UNION {PrepareFile(media, p.path, s.source, name, start) : p \in s.prepared}

\* Mutant: the schedule shown is pushed as it was converted.
CachedForPush(s) == s.prepared
\* schedule_for_push, as what will be prepared: converted anew, or what there
\* is once the file has gone.
ScheduleForPush(s) ==
    IF \E p \in s.prepared : MediaUnavailable(p.path) THEN s.prepared
    ELSE Reprepared(s, s.name, s.start)

-----------------------------------------------------------------------------
(* state changes of ui/mod.rs and connect.rs                               *)

\* Mutant: the editor stays open.
KeepTermEditing(s) == s
ClearTermEditing(s) == [s EXCEPT !.editing = "none", !.draft = ""]

\* Mutant: the fields stay those of the schedule before.
StaleTermFields(s) == s
SyncTermFields(s) ==
    IF s.prepared = {} THEN s
    ELSE LET term == The(s.prepared).schedule
         IN  [s EXCEPT !.name = term.name, !.start = term.start]

\* The first device is selected in place of one that is not listed.
Selection(s, list) ==
    IF s.selected \in ListedAddresses(list) THEN s.selected
    ELSE IF list = <<>> THEN "" ELSE list[1].addr

\* input:device names a device; the first of that name is taken.
FirstNamed(list, value) ==
    {list[i].addr : i \in {i \in DOMAIN list :
        list[i].name = value /\ \A j \in 1 .. i - 1 : list[j].name # value}}
Chosen(s, value) ==
    IF FirstNamed(s.devices, value) # {} THEN The(FirstNamed(s.devices, value))
    ELSE IF value \in ListedAddresses(s.devices) THEN value ELSE s.selected

SwitchSource(s, source) == ClearTermEditing([s EXCEPT !.source = source])

TermField(s, field) == IF field = "name" THEN s.name ELSE s.start
SetTermField(s, field, text) ==
    IF field = "name" THEN [s EXCEPT !.name = text] ELSE [s EXCEPT !.start = text]
OpenEditor(s, field) ==
    [s EXCEPT !.editing = field, !.draft = TermField(s, field)]

-----------------------------------------------------------------------------
(* rerender hands UiState to the host once it has named a root.            *)

\* Mutant: the page is not drawn while a push is under way.
RerenderIdle(s) == drawn' = IF opened /\ ~s.busy THEN {s} ELSE drawn
Rerender(s) == drawn' = IF opened THEN {s} ELSE drawn

Init ==
    /\ ui = [tab |-> "import", source |-> FirstSource, devices |-> <<>>,
             selected |-> "", prepared |-> {}, name |-> "", start |-> "",
             editing |-> "none", draft |-> "", busy |-> FALSE]
    /\ drawn = {} /\ opened = FALSE
    /\ connected \in {<<>>} \cup {<<d>> : d \in Devices}
    /\ notices = 0 /\ asking = [load |-> 1, page |-> 0] /\ lists = <<>> /\ loaded = FALSE
    /\ host \in {"copies", "reads"}
    /\ media = [n \in Names |-> NoFile]
    /\ dialogs = 0 /\ picks = <<>> /\ lastPick = {}
    /\ refused = FALSE /\ editFor = <<>>
    /\ pending = {} /\ waiting = 0 /\ late = 0
    /\ event = {}
    /\ changes = 0 /\ losses = 0 /\ acts = 0

-----------------------------------------------------------------------------
(* the device list                                                         *)

\* Wristbands come and go; the host tells the plugin of each change.
ConnectionChanges ==
    /\ changes < MaxChanges /\ changes' = changes + 1
    /\ \E n \in 0 .. MaxDevices : connected' \in [1 .. n -> Devices] \ {connected}
    /\ \A i, j \in DOMAIN connected' : connected'[i] = connected'[j] => i = j
    /\ notices' = notices + 1
    /\ UNCHANGED <<ui, drawn, opened, asking, lists, loaded, fileVars, refused,
                   editFor, pushVars, event, acts>>

\* Mutant: while one list is under way another is not asked for.
AskOnce == [asking EXCEPT !.page = IF lists = <<>> /\ @ = 0 THEN 1 ELSE @]
AskForDevices == [asking EXCEPT !.page = @ + 1]

\* on_event, DeviceAction, up to refresh_devices' await.
DeviceAction ==
    /\ notices > 0 /\ notices' = notices - 1
    /\ asking' = AskForDevices
    /\ UNCHANGED <<ui, drawn, opened, connected, lists, loaded, changes, fileVars,
                   refused, editFor, pushVars, event, acts>>

\* The host answers with what is connected now.
HostLists(caller) ==
    /\ asking[caller] > 0
    /\ asking' = [asking EXCEPT ![caller] = @ - 1]
    /\ lists' = Append(lists, [for |-> caller, list |-> connected])
    /\ UNCHANGED <<ui, drawn, opened, connected, notices, loaded, changes, fileVars,
                   refused, editFor, pushVars, event, acts>>

\* refresh_devices after its await, and the rest of on_load, which does not
\* rerender, or of the handler.  Handlers resume in the order of the answers.
DevicesListed ==
    /\ lists # <<>> /\ lists' = Tail(lists)
    /\ ui' = [ui EXCEPT !.devices = lists[1].list,
                        !.selected = Selection(ui, lists[1].list)]
    /\ IF lists[1].for = "load"
       THEN loaded' = TRUE /\ UNCHANGED drawn
       ELSE Rerender(ui') /\ UNCHANGED loaded
    /\ UNCHANGED <<opened, connected, notices, asking, changes, fileVars, refused,
                   editFor, pushVars, event, acts>>

\* on_ui_render: the host shows the page once on_load has returned.
RenderMainUi ==
    /\ loaded /\ ~opened /\ opened' = TRUE
    /\ drawn' = {ui}
    /\ UNCHANGED <<ui, deviceVars, fileVars, refused, editFor, pushVars, event, acts>>

-----------------------------------------------------------------------------
(* the user acts on the page drawn, which may no longer be the state when  *)
(* the event is handled                                                    *)

Input(kind, values) == {[kind |-> kind, value |-> v] : v \in values}
Button(kind) == Input(kind, {""})

TabsOffered == Input("tab", {"import", "settings"})
DevicesOffered(page) ==
    Input("device", {page.devices[i].name : i \in DOMAIN page.devices}) \cup Button("refresh")
SourcesOffered == Input("source", Sources)
FileOffered == Button("pick")

\* The field that is edited has an editor, the others a pen.
EditorOffered(page) ==
    Input("draft", Typed \ {page.draft}) \cup Button("apply") \cup Button("cancel")
TermOffered(page) ==
    Input("edit", {"name", "start"} \ {page.editing})
    \cup IF page.editing = "none" THEN {} ELSE EditorOffered(page)
PushOffered(page) == IF page.busy THEN {} ELSE Button("push")

Offered(page) ==
    TabsOffered \cup
    IF page.tab = "settings" THEN {}
    ELSE DevicesOffered(page) \cup SourcesOffered \cup FileOffered \cup PushOffered(page)
         \cup IF page.prepared = {} THEN {} ELSE TermOffered(page)

\* The host itself shows the option chosen and the text typed.
Echoed(page, e) ==
    CASE e.kind = "draft"  -> [page EXCEPT !.draft = e.value]
      [] e.kind = "device" -> [page EXCEPT !.selected = Chosen(page, e.value)]
      [] OTHER -> page

UserActs ==
    /\ event = {} /\ acts < MaxActs /\ acts' = acts + 1
    /\ \E page \in drawn : \E e \in Offered(page) :
           event' = {e} /\ drawn' = {Echoed(page, e)}
    /\ UNCHANGED <<ui, opened, deviceVars, fileVars, refused, editFor, pushVars>>

\* on_ui_event: the event of kind k is handled with the value v.
Handles(k, v) == event = {[kind |-> k, value |-> v]} /\ event' = {}

EventTab(tab) ==
    /\ Handles("tab", tab)
    /\ ui' = [ui EXCEPT !.tab = tab]
    /\ IF ui.tab = tab THEN UNCHANGED drawn ELSE Rerender(ui')
    /\ UNCHANGED <<opened, deviceVars, fileVars, refused, editFor, pushVars, acts>>

EventRefresh ==
    /\ Handles("refresh", "")
    /\ asking' = AskForDevices
    /\ UNCHANGED <<ui, drawn, opened, connected, notices, lists, loaded, changes,
                   fileVars, refused, editFor, pushVars, acts>>

EventDevice(value) ==
    /\ Handles("device", value)
    /\ ui' = [ui EXCEPT !.selected = Chosen(ui, value)]
    /\ UNCHANGED <<drawn, opened, deviceVars, fileVars, refused, editFor, pushVars, acts>>

-----------------------------------------------------------------------------
(* the file, its source and its term                                       *)

\* A new source infers the term anew; if it cannot convert the file, what was
\* prepared and the fields of its term stay.
EventSource(source) ==
    /\ Handles("source", source)
    /\ IF ui.source = source THEN UNCHANGED <<ui, refused>>
       ELSE LET s == SwitchSource(ui, source)
                next == Reprepared(s, "", "")
            IN  IF s.prepared = {} \/ next = {}
                THEN ui' = s /\ refused' = (s.prepared # {})
                ELSE ui' = SyncTermFields([s EXCEPT !.prepared = next]) /\ refused' = FALSE
    /\ Rerender(ui')
    /\ UNCHANGED <<opened, deviceVars, fileVars, editFor, pushVars, acts>>

EventPick ==
    /\ Handles("pick", "")
    /\ dialogs' = dialogs + 1
    /\ UNCHANGED <<ui, drawn, opened, deviceVars, host, media, picks, lastPick, losses,
                   refused, editFor, pushVars, acts>>

\* The user picks a file.  A host that copies it to media replaces the one of
\* that name.
DialogAnswers(file) ==
    /\ dialogs > 0 /\ dialogs' = dialogs - 1
    /\ picks' = Append(picks, file)
    /\ media' = IF host = "copies" THEN [media EXCEPT ![file.name] = file.content] ELSE media
    /\ UNCHANGED <<ui, drawn, opened, deviceVars, host, lastPick, losses, refused,
                   editFor, pushVars, event, acts>>

\* The dialog is cancelled, which leaves the page alone, or fails, which is told.
DialogEnds ==
    /\ dialogs > 0 /\ dialogs' = dialogs - 1
    /\ Rerender(ui) \/ UNCHANGED drawn
    /\ UNCHANGED <<ui, opened, deviceVars, host, media, picks, lastPick, losses,
                   refused, editFor, pushVars, event, acts>>

\* Mutant: the file is known already if one of its name was prepared.
PreparedFrom(disk, path, source) ==
    IF \E p \in ui.prepared : p.path = path THEN ui.prepared
    ELSE PrepareFile(disk, path, source, "", "")
\* The term of a file just picked is always inferred.
PickedFrom(disk, path, source) == PrepareFile(disk, path, source, "", "")

\* What is prepared must be the file picked: the host has replaced the one of
\* that name, and nothing was removed since, or there was none.  Otherwise
\* pick_file takes the file it finds there.
Fresh(missing) == missing \/ (host = "copies" /\ losses = 0)

\* pick_file after its await.  The content read by the dialog is written to
\* media only if no file of that name is there; the write may fail.
FilePicked ==
    LET file == picks[1]
        missing == MediaUnavailable(file.name)
    IN  /\ picks # <<>> /\ picks' = Tail(picks)
        /\ \E written \in {TRUE, ~missing} :
            LET disk == IF missing /\ written
                        THEN [media EXCEPT ![file.name] = file.content] ELSE media
                next == IF written THEN PickedFrom(disk, file.name, ui.source) ELSE {}
                s == ClearTermEditing(ui)
            IN  /\ media' = disk
                /\ IF next = {} THEN ui' = s /\ refused' = TRUE /\ lastPick' = {}
                   ELSE /\ ui' = SyncTermFields([s EXCEPT !.prepared = next])
                        /\ refused' = FALSE
                        /\ lastPick' = IF Fresh(missing) THEN {file.content} ELSE {}
        /\ Rerender(ui')
        /\ UNCHANGED <<opened, deviceVars, host, dialogs, losses, editFor, pushVars, event, acts>>

\* The host, or the user, removes a file from media.
FileLost(name) ==
    /\ media[name] # NoFile /\ losses < MaxLosses /\ losses' = losses + 1
    /\ media' = [media EXCEPT ![name] = NoFile]
    /\ UNCHANGED <<ui, drawn, opened, deviceVars, host, dialogs, picks, lastPick, refused,
                   editFor, pushVars, event, acts>>

EventEdit(field) ==
    /\ Handles("edit", field)
    /\ IF ui.prepared = {} THEN UNCHANGED <<ui, editFor>>
       ELSE /\ ui' = OpenEditor(ui, field)
            /\ editFor' = <<The(ui.prepared).path, ui.source, field>>
    /\ Rerender(ui')
    /\ UNCHANGED <<opened, deviceVars, fileVars, refused, pushVars, acts>>

EventDraft(text) ==
    /\ Handles("draft", text)
    /\ ui' = [ui EXCEPT !.draft = text]
    /\ UNCHANGED <<drawn, opened, deviceVars, fileVars, refused, editFor, pushVars, acts>>

\* apply_term_draft: a blank or an unchanged text only closes the editor.  A
\* term the file cannot be converted with stays in its field.
EventApply ==
    /\ Handles("apply", "")
    /\ LET text == ui.draft
           closed == ClearTermEditing(ui)
           s == SetTermField(closed, ui.editing, text)
           next == Reprepared(s, s.name, s.start)
       IN  IF ui.editing = "none" THEN UNCHANGED <<ui, refused>>
           ELSE IF text \in {"", TermField(ui, ui.editing)} THEN ui' = closed /\ UNCHANGED refused
           ELSE IF next = {} THEN ui' = s /\ refused' = TRUE
           ELSE ui' = [s EXCEPT !.prepared = next] /\ refused' = FALSE
    /\ Rerender(ui')
    /\ UNCHANGED <<opened, deviceVars, fileVars, editFor, pushVars, acts>>

EventCancel ==
    /\ Handles("cancel", "")
    /\ ui' = ClearTermEditing(ui)
    /\ Rerender(ui')
    /\ UNCHANGED <<opened, deviceVars, fileVars, refused, editFor, pushVars, acts>>

-----------------------------------------------------------------------------
(* the push                                                                *)

\* start_push up to its await, which is reached only if the push is begun.
EventPush ==
    /\ Handles("push", "") /\ waiting + late < MaxWaiting
    /\ LET next == ScheduleForPush(ui)
           s == [ui EXCEPT !.prepared = next]
           gone == \E p \in ui.prepared : MediaUnavailable(p.path)
       IN  IF ui.busy \/ next = {}
           THEN /\ Rerender(ui) /\ UNCHANGED <<ui, refused, pending, waiting>>
           ELSE /\ refused' = (refused /\ gone)
                /\ IF s.selected = "" \/ pending # {}
                   THEN /\ ui' = s /\ Rerender(s) /\ UNCHANGED <<pending, waiting>>
                   ELSE /\ ui' = [s EXCEPT !.busy = TRUE]
                        /\ pending' = {[addr |-> s.selected, schedule |-> The(next).schedule]}
                        /\ waiting' = waiting + 1
                        /\ UNCHANGED drawn
    /\ UNCHANGED <<opened, deviceVars, fileVars, editFor, late, acts>>

\* finish: the handlers at an await are those of a push that is over.
Finish(awaiting) ==
    /\ ui' = [ui EXCEPT !.busy = FALSE] /\ pending' = {}
    /\ late' = late + awaiting /\ waiting' = 0

\* on_frame or on_timer, for the push under way: it may end the push, and may
\* have something to send, which it awaits before it rerenders.
PushHandler ==
    /\ pending # {}
    /\ \/ Finish(waiting) /\ Rerender(ui')
       \/ UNCHANGED <<ui, pushVars>> /\ Rerender(ui)
       \/ /\ waiting + late < MaxWaiting
          /\ waiting' = waiting + 1 /\ UNCHANGED <<ui, drawn, pending, late>>
       \/ waiting + late < MaxWaiting /\ Finish(waiting + 1) /\ UNCHANGED drawn
    /\ UNCHANGED <<opened, deviceVars, fileVars, refused, editFor, event, acts>>

\* start, or a handler's dispatch, returns and rerenders.  An error of the host
\* ends the push if it is still under way; the handler that has met it sends an
\* ABORT, too, before it returns.
PushHandlerReturns ==
    /\ \/ waiting > 0 /\ waiting' = waiting - 1 /\ UNCHANGED <<ui, pending, late>> /\ Rerender(ui)
       \/ waiting > 0 /\ Finish(waiting) /\ UNCHANGED drawn
       \/ late > 0 /\ late' = late - 1 /\ UNCHANGED <<ui, pending, waiting>> /\ Rerender(ui)
    /\ UNCHANGED <<opened, deviceVars, fileVars, refused, editFor, event, acts>>

-----------------------------------------------------------------------------
HostNext ==
    \/ ConnectionChanges \/ RenderMainUi \/ DialogEnds
    \/ \E caller \in {"load", "page"} : HostLists(caller)
    \/ \E file \in Files : DialogAnswers(file)
    \/ \E name \in Names : FileLost(name)

ResumeNext == DeviceAction \/ DevicesListed \/ FilePicked \/ PushHandler \/ PushHandlerReturns

EventNext ==
    \/ \E t \in {"import", "settings"} : EventTab(t)
    \/ \E d \in Devices : EventDevice(d.name)
    \/ \E s \in Sources : EventSource(s)
    \/ \E f \in {"name", "start"} : EventEdit(f)
    \/ \E t \in Typed : EventDraft(t)
    \/ EventRefresh \/ EventPick \/ EventApply \/ EventCancel \/ EventPush

Next == HostNext \/ UserActs \/ ResumeNext \/ EventNext
Spec == Init /\ [][Next]_vars

-----------------------------------------------------------------------------
\* The types, and one push at most, while UiState is busy and only then.
ImportTypeOK ==
    /\ ui \in UiStates
    /\ media \in [Names -> Contents \cup {NoFile}]
    /\ ui.busy <=> pending # {}
    /\ pending = {} => waiting = 0

\* refresh_devices, EVENT_DEVICE: the push button never aims at a wristband
\* that is not in the list, and at none only if the list is empty.
SelectedIsListed ==
    ui.selected \in ListedAddresses(ui.devices) \cup (IF ui.devices = <<>> THEN {""} ELSE {})

\* DeviceAction: however changes, button and answers overlap, once all are
\* handled the list is what is connected.
ListIsCurrent ==
    notices = 0 /\ asking = [load |-> 0, page |-> 0] /\ lists = <<>> => ui.devices = connected

\* rerender: once no handler is at an await the page shows the state, though
\* some handlers return without a rerender.  Not so the device chosen and the
\* text typed: their handlers leave them to the host, and a rerender between
\* the input and its handling shows the old ones.
PageIsCurrent ==
    opened /\ waiting + late = 0 =>
        \A page \in drawn :
            [page EXCEPT !.draft = "", !.selected = ""] = [ui EXCEPT !.draft = "", !.selected = ""]

\* An editor is open only over the file and the source it was opened for: what
\* was typed for one schedule never becomes the term of another.
EditsThisTerm ==
    ui.editing # "none" =>
        \E p \in ui.prepared : editFor = <<p.path, ui.source, ui.editing>>

\* The source and the term on the page are those of the schedule prepared,
\* unless the last change of them was refused.
TermIsShown ==
    ~refused => \A p \in ui.prepared :
        /\ p.schedule.by = ui.source
        /\ p.schedule.name = ui.name
        /\ Dated[ui.start] = {p.schedule.start}

\* pick_file: the schedule prepared is of the file picked last, although media
\* is shared by name between picks and between them and a push.
PreparedIsPicked ==
    picks = <<>> => \A content \in lastPick : \A p \in ui.prepared : p.schedule.of = content

\* start_push: what is sent is what the page will show, converted from the
\* file as it is now with the source and the term on the page, also after a
\* change of them was refused; only a file that is gone leaves the schedule
\* as it was.  It goes to a wristband in the list.
PushIsShown ==
    \A push \in pending' \ pending :
        /\ push.addr \in ListedAddresses(ui'.devices)
        /\ \A p \in ui'.prepared :
            /\ push.schedule = p.schedule
            /\ ~MediaUnavailable(p.path) =>
                /\ p.schedule.of = media[p.path]
                /\ p.schedule.by = ui'.source /\ p.schedule.name = ui'.name
                /\ Dated[ui'.start] = {p.schedule.start}
PushedAsShown == [][PushIsShown]_vars
=============================================================================
